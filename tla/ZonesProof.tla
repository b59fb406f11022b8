----------------------------- MODULE ZonesProof -----------------------------
(***************************************************************************)
(* Proofs about Zones: types for every instance; what a start finds, what  *)
(* is believed and what a stop-all reports, each for the instances in      *)
(* which it holds.                                                         *)
(***************************************************************************)
EXTENDS ZonesExclusion, SequenceTheorems, FiniteSetTheorems, TLAPS

\* A <<device, zone>> that may be asked for is in the range of goal and active.
LEMMA GoalsType == Goals \subseteq (Nat \X (0..ZoneCount)) /\ \A g \in Goals : g[2] \in Zone
<1>1. Cardinality(Timers) \in Nat
  BY ZonesAssumption, FS_CardinalityType
<1>2. ZoneCount \in Nat
  BY ZonesAssumption
<1>3. QED
  BY <1>1, <1>2 DEF Goals, Zone

\* How often an operation may be tried.
LEMMA AttemptNumbers ==
  /\ 1 \in 1..RetryAttempts /\ 1 < RetryAttempts /\ RetryAttempts \in Nat
  /\ \A a \in 1..RetryAttempts : a < RetryAttempts => a + 1 \in 1..RetryAttempts
BY ZonesAssumption

\* A handler tries at least once and at most RETRY_ATTEMPTS times.
LEMMA TriesBound ==
  ASSUME NEW r
  PROVE  Tries(r) <= RetryAttempts /\ Tries(r) \in Nat /\ Tries(r) >= 1
<1>1. CASE r.kind \in {"zone start", "stop all"}
  <2>1. Tries(r) = RetryAttempts
    BY <1>1 DEF Tries
  <2>2. QED
    BY <2>1, ZonesAssumption
<1>2. CASE r.kind \notin {"zone start", "stop all"}
  <2>1. Tries(r) = 1
    BY <1>2 DEF Tries
  <2>2. QED
    BY <2>1, AttemptNumbers
<1>3. QED
  BY <1>1, <1>2

\* A request stays one when the fields a retry or a next device change do.
LEMMA RequestFields ==
  ASSUME NEW r \in Request
  PROVE  /\ r.attempt \in 1..RetryAttempts /\ r.attempt \in Nat
         /\ r.goal[2] \in 0..ZoneCount
         /\ r.dev \in Nat /\ r.last \in Nat
         /\ r.goal \in Nat \X (0..ZoneCount) /\ r.goal[1] \in Nat
         /\ r.oks \subseteq Nat
         /\ r.timer \in Timers \cup {NoTimer}
<1>1. /\ r.attempt \in 1..RetryAttempts /\ r.goal \in Nat \X (0..ZoneCount)
      /\ r.dev \in Nat /\ r.last \in Nat /\ r.oks \subseteq Nat
      /\ r.timer \in Timers \cup {NoTimer}
  BY DEF Request
<1>2. QED
  BY <1>1, AttemptNumbers

\* "No zone" is in the range of active.
LEMMA NoneType ==
  /\ None \in Nat \X (0..ZoneCount) /\ None[1] \in Nat /\ None[2] = 0
  /\ 0 \in 0..ZoneCount
<1>1. 0 \in 0..ZoneCount
  BY ZonesAssumption
<1>2. QED
  BY <1>1 DEF None

\* A task with nothing to do is a well-formed request record.
LEMMA IdleType == Idle \in Request /\ Idle.attempt = 1 /\ Idle.pc = "idle"
BY AttemptNumbers, NoneType DEF Idle, Request

\* The queue without its head, and with one more waiter.
LEMMA QueueTail ==
  ASSUME lockq \in Seq(Tasks), NEW t, Holds(t)
  PROVE  /\ Tail(lockq) \in Seq(Tasks)
         /\ DOMAIN Tail(lockq) = 1..(Len(lockq) - 1)
         /\ \A i \in DOMAIN Tail(lockq) : /\ i \in DOMAIN lockq
                                          /\ i + 1 \in DOMAIN lockq
                                          /\ Tail(lockq)[i] = lockq[i + 1]
         /\ lockq[1] = t /\ 1 \in DOMAIN lockq
BY HeadTailProperties DEF Holds

\* One more waiter in the queue of the lock.
LEMMA QueueAppend ==
  ASSUME NEW q \in Seq(Tasks), NEW t \in Tasks
  PROVE  /\ Append(q, t) \in Seq(Tasks)
         /\ DOMAIN Append(q, t) = 1..(Len(q) + 1)
         /\ DOMAIN q = 1..Len(q) /\ Len(q) \in Nat
         /\ \A i \in DOMAIN q : Append(q, t)[i] = q[i]
         /\ Append(q, t)[Len(q) + 1] = t
BY AppendProperties

\* The record of task t once its session is armed and its command sent.
Armed(t) == [task[t] EXCEPT !.pc = "acted", !.timer = TimerOf(task[t]),
                            !.seen = IF "stale" \in Faults THEN valve[TimerOf(task[t])] ELSE 0]

\* Reaching the timer changes nothing of what a request asks for.
LEMMA ArmedRequest ==
  ASSUME TypeInv, NEW t \in Tasks, Act(t)
  PROVE  /\ task' = [task EXCEPT ![t] = Armed(t)]
         /\ TimerOf(task[t]) \in Timers
         /\ Armed(t) \in Request /\ Armed(t).pc = "acted" /\ Armed(t).timer = TimerOf(task[t])
         /\ Armed(t).kind = task[t].kind /\ Armed(t).op = task[t].op
         /\ Armed(t).dev = task[t].dev /\ Armed(t).goal = task[t].goal
         /\ Armed(t).oks = task[t].oks /\ Armed(t).last = task[t].last
<1> DEFINE tm == TimerOf(task[t])
           seen == IF "stale" \in Faults THEN valve[tm] ELSE 0
<1>1. task[t] \in Request /\ valve \in [Timers -> 0..ZoneCount] /\ 0 \in 0..ZoneCount
  BY NoneType DEF TypeInv, TypeOK
<1>2. tm \in Timers
  BY DEF Act, TimerOf, Resolvable, TypeInv, TypeOK, TimersResolved
<1>3. seen \in 0..ZoneCount
  BY <1>1, <1>2
<1>4. Armed(t) = [task[t] EXCEPT !.pc = "acted", !.timer = tm, !.seen = seen]
  BY DEF Armed
<1>5. task' = [task EXCEPT ![t] = Armed(t)]
  BY DEF Act, Armed, TypeInv, TypeOK
<1> HIDE DEF tm, seen
<1>6. /\ Armed(t) \in Request /\ Armed(t).pc = "acted" /\ Armed(t).timer = tm
      /\ Armed(t).kind = task[t].kind /\ Armed(t).op = task[t].op
      /\ Armed(t).dev = task[t].dev /\ Armed(t).goal = task[t].goal
      /\ Armed(t).oks = task[t].oks /\ Armed(t).last = task[t].last
  BY <1>1, <1>2, <1>3, <1>4 DEF Request
<1>7. QED
  BY <1>2, <1>5, <1>6 DEF tm

\* Whatever a read-back shows is a zone of the timer, or none.
LEMMA RepliesType ==
  ASSUME TypeInv, NEW t \in Tasks, task[t].pc = "acted"
  PROVE  /\ Replies(t) \subseteq 0..ZoneCount
         /\ "stale" \notin Faults => Replies(t) \subseteq {valve[task[t].timer], 0}
         /\ "stale" \notin Faults /\ "empty" \notin Faults
               => Replies(t) = {valve[task[t].timer]}
<1>1. /\ task[t].seen \in 0..ZoneCount /\ 0 \in 0..ZoneCount
      /\ valve[task[t].timer] \in 0..ZoneCount
  BY NoneType DEF TypeInv, TypeOK, TimersResolved, Request
<1>2. QED
  BY <1>1 DEF Replies

-----------------------------------------------------------------------------
(* Type correctness.                                                       *)

\* _run up to the lock keeps the types and leaves the task a resolved timer.
LEMMA CallRunType ==
  ASSUME TypeInv, NEW t \in Tasks, NEW r \in Request, NEW q \in Seq(Tasks),
         r.attempt < RetryAttempts \/ ~job, CallRun(t, r, q)
  PROVE  task' \in [Tasks -> Request] /\ lockq' \in Seq(Tasks) /\ TimersResolved'
<1>1. CASE job /\ Again(t, r, q)
  <2>1. r.attempt + 1 \in 1..RetryAttempts
    BY <1>1, AttemptNumbers, RequestFields
  <2>2. [r EXCEPT !.pc = "retry", !.attempt = @ + 1] \in Request
    BY <2>1 DEF Request
  <2>3. QED
    BY <1>1, <2>2 DEF Again, TypeOK, TypeInv, TimersResolved
<1>2. CASE Answer(t, q)
  BY <1>2, IdleType DEF Answer, TypeOK, TypeInv, TimersResolved
<1>3. CASE /\ r.dev \in DOMAIN config
           /\ JoinLock(t, [r EXCEPT !.timer = config[r.dev]], q)
  <2>1. config[r.dev] \in Timers
    BY <1>3 DEF TypeOK, TypeInv, TimersResolved
  <2>2. [[r EXCEPT !.timer = config[r.dev]] EXCEPT !.pc = "wait"] \in Request
    BY <2>1 DEF Request
  <2>3. QED
    BY <1>3, <2>2, QueueAppend DEF JoinLock, TypeOK, TypeInv, TimersResolved
<1>4. QED
  BY <1>1, <1>2, <1>3 DEF CallRun

\* Whatever a handler does with an outcome keeps the types.
LEMMA ResumeType ==
  ASSUME TypeInv, NEW t \in Tasks, NEW r \in Request, NEW ok \in BOOLEAN,
         NEW q \in Seq(Tasks), Resume(t, r, ok, q)
  PROVE  /\ task' \in [Tasks -> Request] /\ lockq' \in Seq(Tasks) /\ TimersResolved'
         /\ active' \in Nat \X (0..ZoneCount) /\ persisted' \in Nat \X (0..ZoneCount)
<1>0. r.goal \in Nat \X (0..ZoneCount) /\ r.goal[1] \in Nat /\ None \in Nat \X (0..ZoneCount)
  BY RequestFields, NoneType
<1>1. CASE /\ ~ok /\ r.attempt < Tries(r)
           /\ Again(t, r, q)
           /\ UNCHANGED <<active, persisted>>
  <2>1. r.attempt + 1 \in 1..RetryAttempts
    BY <1>1, TriesBound, AttemptNumbers, RequestFields
  <2>2. [r EXCEPT !.pc = "retry", !.attempt = @ + 1] \in Request
    BY <2>1 DEF Request
  <2>3. QED
    BY <1>1, <2>2 DEF Again, TypeOK, TypeInv, TimersResolved
<1>2. CASE AfterZoneStart(t, r, ok, q)
  <2>1. CASE /\ SetActive(None)
             /\ CallRun(t, [r EXCEPT !.op = "start", !.dev = r.goal[1], !.attempt = 1], q)
    <3>1. 1 \in 1..RetryAttempts
      BY AttemptNumbers
    <3>2. [r EXCEPT !.op = "start", !.dev = r.goal[1], !.attempt = 1] \in Request
      BY <1>0, <3>1 DEF Request
    <3>3. [r EXCEPT !.op = "start", !.dev = r.goal[1], !.attempt = 1].attempt = 1
      BY DEF Request
    <3>4. QED
      <4>1. active' \in Nat \X (0..ZoneCount) /\ persisted' \in Nat \X (0..ZoneCount)
        BY <2>1, <1>0 DEF SetActive, TypeInv, TypeOK
      <4>2. QED
        BY <2>1, <3>2, <3>3, <4>1, AttemptNumbers, CallRunType
  <2>2. CASE Answer(t, q) /\ (UNCHANGED <<active, persisted>> \/ SetActive(r.goal))
    BY <2>2, <1>0, IdleType DEF Answer, SetActive, TypeOK, TypeInv, TimersResolved
  <2>3. QED
    BY <1>2, <2>1, <2>2 DEF AfterZoneStart
<1>3. CASE AfterStopAll(t, r, ok, q)
  <2> DEFINE oks == IF ok THEN r.oks \cup {r.dev} ELSE r.oks
             next == [r EXCEPT !.dev = @ + 1, !.attempt = 1, !.oks = oks]
  <2>1. CASE CallRun(t, next, q) /\ UNCHANGED <<active, persisted>>
    <3>1. r.dev + 1 \in Nat /\ 1 \in 1..RetryAttempts /\ oks \subseteq Nat
      BY RequestFields, AttemptNumbers
    <3> HIDE DEF oks
    <3>2. next \in Request
      BY <3>1 DEF Request
    <3>3. next.attempt = 1
      BY DEF Request
    <3>4. QED
      BY <2>1, <3>2, <3>3, AttemptNumbers, CallRunType DEF TypeOK, TypeInv, TimersResolved
  <2>2. CASE Answer(t, q) /\ (UNCHANGED <<active, persisted>> \/ SetActive(None))
    BY <2>2, <1>0, IdleType DEF Answer, SetActive, TypeOK, TypeInv, TimersResolved
  <2>3. QED
    BY <1>3, <2>1, <2>2 DEF AfterStopAll
<1>4. CASE AfterReconcile(t, ok, q)
  BY <1>4, <1>0, IdleType DEF AfterReconcile, Answer, SetActive, TypeOK, TypeInv, TimersResolved
<1>5. CASE Answer(t, q) /\ UNCHANGED <<active, persisted>>
  BY <1>5, IdleType DEF Answer, TypeOK, TypeInv, TimersResolved
<1>6. QED
  BY <1>1, <1>2, <1>3, <1>4, <1>5 DEF Resume

\* A request that has just arrived.
LEMMA ArrivalType ==
  ASSUME NEW k \in {"zone start", "stop all", "reconcile", "start", "stop", "fire"},
         NEW o \in {"start", "stop", "read"}, NEW d \in Nat,
         NEW g \in Nat \X (0..ZoneCount), NEW n \in Nat
  PROVE  /\ [Idle EXCEPT !.kind = k, !.op = o, !.dev = d, !.goal = g] \in Request
         /\ [Idle EXCEPT !.kind = k, !.goal = g, !.op = o, !.dev = d] \in Request
         /\ [Idle EXCEPT !.kind = k, !.dev = d] \in Request
         /\ [Idle EXCEPT !.kind = k, !.op = o, !.dev = d] \in Request
         /\ [Idle EXCEPT !.kind = k, !.op = o, !.dev = d, !.last = n] \in Request
<1>1. Idle \in Request
  BY IdleType
<1>2. /\ [Idle EXCEPT !.kind = k, !.dev = d] \in Request
      /\ [Idle EXCEPT !.kind = k, !.op = o, !.dev = d] \in Request
  BY <1>1 DEF Request
<1>3. [Idle EXCEPT !.kind = k, !.op = o, !.dev = d, !.goal = g] \in Request
  BY <1>1 DEF Request
<1>4. [Idle EXCEPT !.kind = k, !.goal = g, !.op = o, !.dev = d] \in Request
  BY <1>1 DEF Request
<1>5. [Idle EXCEPT !.kind = k, !.op = o, !.dev = d, !.last = n] \in Request
  BY <1>1 DEF Request
<1>6. QED
  BY <1>2, <1>3, <1>4, <1>5

\* Every step of the server or its surroundings keeps the inductive TypeInv.
LEMMA TypeStep ==
  ASSUME TypeInv, [Next]_vars
  PROVE  TypeInv'
<1>0. 0 \in Nat /\ None \in Nat \X (0..ZoneCount)
  BY NoneType
<1>1. ASSUME NEW t \in Tasks, NEW goal \in Goals, ZonesStart(t, goal)
      PROVE  TypeInv'
  <2> DEFINE switch == active # None /\ active # goal
             r == [Idle EXCEPT !.kind = "zone start", !.goal = goal,
                               !.op  = IF switch THEN "stop" ELSE "start",
                               !.dev = IF switch THEN active[1] ELSE goal[1]]
  <2>1. goal \in Nat \X (0..ZoneCount) /\ goal[1] \in Nat /\ active[1] \in Nat
    BY GoalsType DEF TypeOK, TypeInv, TimersResolved
  <2>2. /\ (IF switch THEN "stop" ELSE "start") \in {"start", "stop", "read"}
        /\ (IF switch THEN active[1] ELSE goal[1]) \in Nat
    BY <2>1
  <2>3. r \in Request
    BY ZenonT(40), <2>1, <2>2, ArrivalType
  <2>4. r.attempt = 1
    BY DEF Idle
  <2>5. CallRun(t, r, lockq)
    BY <1>1 DEF ZonesStart
  <2> HIDE DEF r
  <2>6. task' \in [Tasks -> Request] /\ lockq' \in Seq(Tasks) /\ TimersResolved'
    BY <2>3, <2>4, <2>5, CallRunType, AttemptNumbers DEF TypeOK, TypeInv, TimersResolved
  <2>7. QED
    BY <1>1, <2>6 DEF ZonesStart, TypeOK, TypeInv, TimersResolved
<1>2. ASSUME NEW t \in Tasks, ZonesStopAll(t)
      PROVE  TypeInv'
  <2> DEFINE r == [Idle EXCEPT !.kind = "stop all", !.op = "stop", !.dev = 1,
                               !.last = Len(config)]
  <2>1. Len(config) \in Nat
    BY DEF TypeOK, TypeInv, TimersResolved
  <2>2. r \in Request
    BY <2>1, <1>0, ArrivalType
  <2>a. r.attempt = 1
    BY DEF Idle
  <2>3. CallRun(t, r, lockq)
    BY <1>2 DEF ZonesStopAll
  <2> HIDE DEF r
  <2>4. task' \in [Tasks -> Request] /\ lockq' \in Seq(Tasks) /\ TimersResolved'
    BY <2>2, <2>a, <2>3, CallRunType, AttemptNumbers DEF TypeOK, TypeInv, TimersResolved
  <2>5. QED
    BY <1>2, <2>4 DEF ZonesStopAll, TypeOK, TypeInv, TimersResolved
<1>3. ASSUME NEW t \in Tasks, NEW r \in Request, r.attempt = 1, RunOnce(t, r)
      PROVE  TypeInv'
  <2>1. task' \in [Tasks -> Request] /\ lockq' \in Seq(Tasks) /\ TimersResolved'
    BY <1>3, CallRunType DEF RunOnce, TypeOK, TypeInv, TimersResolved
  <2>2. QED
    BY <1>3, <2>1 DEF RunOnce, TypeOK, TypeInv, TimersResolved
<1>4. ASSUME NEW t \in Tasks, ZonesReconcile(t)
      PROVE  TypeInv'
  <2>1. active[1] \in Nat
    BY DEF TypeOK, TypeInv, TimersResolved
  <2>2. [Idle EXCEPT !.kind = "reconcile", !.dev = active[1]] \in Request
    BY <2>1, <1>0, ArrivalType
  <2>3. [Idle EXCEPT !.kind = "reconcile", !.dev = active[1]].attempt = 1
    BY DEF Idle
  <2>4. QED
    BY <1>3, <1>4, <2>2, <2>3 DEF ZonesReconcile
<1>5. ASSUME NEW t \in Tasks, NEW goal \in Goals, RestStart(t, goal)
      PROVE  TypeInv'
  <2> DEFINE r == [Idle EXCEPT !.kind = "start", !.op = "start", !.dev = goal[1],
                               !.goal = goal]
  <2>1. r \in Request
    BY GoalsType, ArrivalType
  <2>a. r.attempt = 1
    BY DEF Idle
  <2>2. RunOnce(t, r)
    BY <1>5 DEF RestStart
  <2>3. QED
    BY <1>3, <2>1, <2>a, <2>2
<1>6. ASSUME NEW t \in Tasks, NEW dev \in DOMAIN config, RestStop(t, dev)
      PROVE  TypeInv'
  <2> DEFINE r == [Idle EXCEPT !.kind = "stop", !.op = "stop", !.dev = dev]
  <2>1. dev \in Nat
    BY DEF TypeOK, TypeInv, TimersResolved
  <2>2. r \in Request
    BY <2>1, <1>0, ArrivalType
  <2>a. r.attempt = 1
    BY DEF Idle
  <2>3. RunOnce(t, r)
    BY <1>6 DEF RestStop
  <2>4. QED
    BY <1>3, <2>2, <2>a, <2>3
<1>7. ASSUME NEW t \in Tasks, NEW goal \in Goals, FireStart(t, goal)
      PROVE  TypeInv'
  <2> DEFINE r == [Idle EXCEPT !.kind = "fire", !.op = "start", !.dev = goal[1],
                               !.goal = goal]
  <2>0. r.kind = "fire"
    BY DEF Idle
  <2>1. r \in Request
    BY GoalsType, ArrivalType
  <2>2. JoinLock(t, r, lockq)
    BY <1>7 DEF FireStart
  <2> HIDE DEF r
  <2>3. [r EXCEPT !.pc = "wait"] \in Request /\ [r EXCEPT !.pc = "wait"].kind = "fire"
    BY <2>0, <2>1 DEF Request
  <2>4. task' \in [Tasks -> Request] /\ lockq' \in Seq(Tasks)
    BY <2>2, <2>3, QueueAppend DEF JoinLock, TypeInv, TypeOK
  <2>5. TimersResolved'
    BY <2>2, <2>3 DEF JoinLock, TypeInv, TypeOK, TimersResolved
  <2>6. QED
    BY <1>7, <2>4, <2>5 DEF FireStart, TypeInv, TypeOK
<1>8. ASSUME NEW t \in Tasks, NEW ok \in BOOLEAN, NEW q \in Seq(Tasks),
             Resume(t, task[t], ok, q), UNCHANGED <<config, job, valve>>
      PROVE  TypeInv'
  <2>1. task[t] \in Request
    BY DEF TypeOK, TypeInv, TimersResolved
  <2>2. QED
    BY <1>8, <2>1, ResumeType DEF TypeOK, TypeInv, TimersResolved
<1>9. ASSUME NEW t \in Tasks, EarlyError(t) \/ LateError(t)
      PROVE  TypeInv'
  <2>1. Tail(lockq) \in Seq(Tasks)
    BY <1>9, QueueTail DEF EarlyError, LateError, TypeOK, TypeInv, TimersResolved
  <2>2. QED
    BY <1>8, <1>9, <2>1 DEF EarlyError, LateError
<1>10. ASSUME NEW t \in Tasks, Act(t)
       PROVE  TypeInv'
  <2> DEFINE tm == TimerOf(task[t])
  <2>0. task[t] \in Request
    BY DEF TypeInv, TypeOK
  <2>1. task[t].goal[2] \in 0..ZoneCount /\ 0 \in 0..ZoneCount
    BY <2>0, RequestFields, NoneType
  <2>2. /\ task' = [task EXCEPT ![t] = Armed(t)] /\ tm \in Timers
        /\ Armed(t) \in Request /\ Armed(t).timer = tm
    BY <1>10, ArmedRequest
  <2> HIDE DEF tm
  <2>5. task' \in [Tasks -> Request] /\ TimersResolved'
    BY <2>2 DEF TypeInv, TypeOK, TimersResolved
  <2>6. Effect(task[t], valve[tm]) \in 0..ZoneCount
    BY <2>1, <2>2 DEF Effect, TypeInv, TypeOK
  <2>7. valve' \in [Timers -> 0..ZoneCount]
    BY <1>10, <2>6 DEF Act, tm, TypeInv, TypeOK
  <2>8. QED
    BY <1>10, <2>5, <2>7 DEF Act, TypeInv, TypeOK
<1>11. ASSUME NEW t \in Tasks, ReadBack(t)
       PROVE  TypeInv'
  <2>0. task[t] \in Request /\ ZoneCount \in Nat
    BY ZonesAssumption DEF TypeOK, TypeInv, TimersResolved
  <2>1. Tail(lockq) \in Seq(Tasks)
    BY <1>11, QueueTail DEF ReadBack, TypeOK, TypeInv, TimersResolved
  <2>2. PICK seen \in Replies(t) :
          IF Mqtt /\ task[t].kind # "fire"
            THEN /\ task' = [task EXCEPT ![t].pc = "publish", ![t].seen = seen]
                 /\ lockq' = Tail(lockq)
                 /\ UNCHANGED <<active, persisted>>
            ELSE Resume(t, task[t], Confirmed(task[t], seen), Tail(lockq))
    BY <1>11 DEF ReadBack
  <2>3. CASE Resume(t, task[t], Confirmed(task[t], seen), Tail(lockq))
    <3>1. Confirmed(task[t], seen) \in BOOLEAN
      BY DEF Confirmed
    <3>2. QED
      BY <1>8, <1>11, <2>1, <2>3, <3>1 DEF ReadBack
  <2>4. CASE /\ task' = [task EXCEPT ![t].pc = "publish", ![t].seen = seen]
             /\ lockq' = Tail(lockq)
             /\ UNCHANGED <<active, persisted>>
    <3>1. seen \in 0..ZoneCount
      BY <1>11, <2>2, RepliesType DEF ReadBack
    <3>2. [task[t] EXCEPT !.pc = "publish", !.seen = seen] \in Request
      BY <3>1, <2>0 DEF Request
    <3>3. QED
      BY <1>11, <2>1, <2>4, <3>2 DEF ReadBack, TypeOK, TypeInv, TimersResolved
  <2>5. QED
    BY <2>2, <2>3, <2>4
<1>12. ASSUME NEW t \in Tasks, Published(t)
       PROVE  TypeInv'
  <2>1. Confirmed(task[t], task[t].seen) \in BOOLEAN
    BY DEF Confirmed
  <2>2. lockq \in Seq(Tasks)
    BY DEF TypeInv, TypeOK
  <2>3. QED
    BY <1>8, <1>12, <2>1, <2>2 DEF Published
<1>13. ASSUME NEW t \in Tasks, Retry(t)
       PROVE  TypeInv'
  <2>1. task[t] \in Request /\ lockq \in Seq(Tasks)
    BY DEF TypeInv, TypeOK
  <2>2. CASE Resume(t, task[t], FALSE, lockq)
    BY <1>8, <1>13, <2>1, <2>2 DEF Retry
  <2>3. CASE /\ ~(job /\ task[t].attempt >= Tries(task[t]))
             /\ CallRun(t, task[t], lockq)
             /\ UNCHANGED <<active, persisted>>
    <3>1. task[t].attempt < RetryAttempts \/ ~job
      BY <2>1, <2>3, TriesBound, RequestFields, AttemptNumbers
    <3>2. task' \in [Tasks -> Request] /\ lockq' \in Seq(Tasks) /\ TimersResolved'
      BY <2>1, <2>3, <3>1, CallRunType
    <3>3. QED
      BY <1>13, <2>3, <3>2 DEF Retry, TypeInv, TypeOK
  <2>4. QED
    BY <1>13, <2>2, <2>3 DEF Retry
<1>14. ASSUME NEW tm \in Timers, AutoStop(tm)
       PROVE  TypeInv'
  <2>1. 0 \in 0..ZoneCount
    BY ZonesAssumption
  <2>2. valve' \in [Timers -> 0..ZoneCount]
    BY <1>14, <2>1 DEF AutoStop, TypeInv, TypeOK
  <2>3. QED
    BY <1>14, <2>2 DEF AutoStop, TypeInv, TypeOK, TimersResolved
<1>15. ASSUME NEW tm \in Timers, AddDevice(tm)
       PROVE  TypeInv'
  <2>1. config' \in Seq(Timers)
    BY <1>15, AppendProperties DEF AddDevice, TypeInv, TypeOK
  <2>2. QED
    BY <1>15, <2>1 DEF AddDevice, TypeInv, TypeOK, TimersResolved
<1>16. ASSUME NEW i \in DOMAIN config, RemoveDevice(i)
       PROVE  TypeInv'
  <2>1. config \in Seq(Timers) /\ Len(config) \in Nat /\ i \in 1..Len(config)
    BY DEF TypeInv, TypeOK
  <2>2. SubSeq(config, 1, i - 1) \in Seq(Timers)
    BY <2>1, SubSeqProperties
  <2>3. SubSeq(config, i + 1, Len(config)) \in Seq(Timers)
    BY <2>1, SubSeqProperties
  <2>4. config' \in Seq(Timers)
    BY <1>16, <2>2, <2>3, ConcatProperties DEF RemoveDevice
  <2>5. QED
    BY <1>16, <2>4 DEF RemoveDevice, TypeInv, TypeOK, TimersResolved
<1>17. ASSUME OnboardJob
       PROVE  TypeInv'
  BY <1>17 DEF OnboardJob, TypeInv, TypeOK, TimersResolved
<1>18. ASSUME Restart
       PROVE  TypeInv'
  <2>1. \A t \in Tasks : task'[t] = Idle
    BY <1>18 DEF Restart
  <2>2. task' \in [Tasks -> Request]
    BY <1>18, IdleType DEF Restart
  <2>3. TimersResolved'
    BY <2>1, IdleType DEF TimersResolved
  <2>4. QED
    BY <1>18, <2>2, <2>3, EmptySeq, NoneType DEF Restart, TypeInv, TypeOK
<1>19. ASSUME UNCHANGED vars
       PROVE  TypeInv'
  BY <1>19 DEF vars, TypeInv, TypeOK, TimersResolved
<1>20. QED
  BY <1>1, <1>2, <1>4, <1>5, <1>6, <1>7, <1>9, <1>10, <1>11, <1>12, <1>13,
     <1>14, <1>15, <1>16, <1>17, <1>18, <1>19 DEF Next, Work

\* The server starts well-typed.
LEMMA TypeInit == Init => TypeInv
<1> SUFFICES ASSUME Init PROVE TypeInv
  OBVIOUS
<1>1. Configured \in Seq(Timers)
  BY ZonesAssumption
<1>2. TypeOK
  BY <1>1, IdleType, NoneType, EmptySeq DEF Init, TypeOK
<1>3. TimersResolved
  BY IdleType DEF Init, TimersResolved
<1>4. QED
  BY <1>2, <1>3 DEF TypeInv

\* TypeInv holds throughout.
LEMMA TypeInvariant == Spec => []TypeInv
BY TypeInit, TypeStep, PTL DEF Spec

\* Whatever requests, faults and environment an instance has, its variables
\* keep their types: above all, a retry counter stays within RETRY_ATTEMPTS and
\* the lock's queue holds only requests.
THEOREM TypeCorrect == Spec => []TypeOK
<1>1. TypeInv => TypeOK
  BY DEF TypeInv
<1>2. QED
  BY <1>1, TypeInvariant, PTL

-----------------------------------------------------------------------------
(* The belief.                                                             *)

\* The end of a dashboard start: its zone is believed and the request answered.
Believed(t, r) ==
    /\ r.kind = "zone start" /\ r.op = "start"
    /\ SetActive(r.goal)
    /\ task' = [task EXCEPT ![t] = Idle]

\* Task t's start is confirmed: its read-back, or the one it has kept over the
\* publication, shows a watering timer, unless it shows the one before the command.
Believes(t) ==
    /\ Believed(t, task[t])
    /\ \/ /\ Holds(t) /\ task[t].pc = "acted"
          /\ valve[task[t].timer] # 0 \/ "stale" \in Faults
       \/ task[t].pc = "publish" /\ task[t].seen # 0
    /\ UNCHANGED <<config, valve>>

\* What an outcome may do to the belief.
LEMMA ResumeBelief ==
  ASSUME NEW t, NEW r, NEW ok \in BOOLEAN, NEW q, Resume(t, r, ok, q)
  PROVE  \/ UNCHANGED <<active, persisted>>
         \/ SetActive(None)
         \/ ok = TRUE /\ Believed(t, r)
<1>1. CASE r.kind = "zone start" /\ AfterZoneStart(t, r, ok, q)
  BY <1>1 DEF AfterZoneStart, Answer, Believed
<1>2. CASE AfterStopAll(t, r, ok, q)
  BY <1>2 DEF AfterStopAll
<1>3. CASE AfterReconcile(t, ok, q)
  BY <1>3 DEF AfterReconcile
<1>4. CASE UNCHANGED <<active, persisted>>
  BY <1>4
<1>5. QED
  BY <1>1, <1>2, <1>3, <1>4 DEF Resume

\* The belief moves with a confirmed start, goes, or comes back from its file.
LEMMA BeliefMoves ==
  ASSUME [Next]_vars
  PROVE  \/ UNCHANGED <<active, persisted>>
         \/ SetActive(None)
         \/ Restart
         \/ \E t \in Tasks : Believes(t)
<1> DEFINE Goal == \/ UNCHANGED <<active, persisted>>
                   \/ SetActive(None)
                   \/ Restart
                   \/ \E t \in Tasks : Believes(t)
<1>1. ASSUME NEW t \in Tasks, EarlyError(t) \/ LateError(t) \/ Retry(t)
      PROVE  Goal
  <2>1. UNCHANGED <<active, persisted>> \/ \E q : Resume(t, task[t], FALSE, q)
    BY <1>1 DEF EarlyError, LateError, Retry
  <2>2. QED
    BY <2>1, ResumeBelief
<1>2. ASSUME NEW t \in Tasks, ReadBack(t)
      PROVE  Goal
  <2>1. CASE UNCHANGED <<active, persisted>>
    BY <2>1
  <2>2. CASE ~UNCHANGED <<active, persisted>>
    <3>1. PICK seen \in Replies(t) :
            Resume(t, task[t], Confirmed(task[t], seen), Tail(lockq))
      BY <1>2, <2>2 DEF ReadBack
    <3> DEFINE ok == Confirmed(task[t], seen)
    <3>2. Resume(t, task[t], ok, Tail(lockq))
      BY <3>1
    <3>3. /\ ok \in BOOLEAN
          /\ ok /\ task[t].op = "start" => valve[task[t].timer] # 0 \/ "stale" \in Faults
      BY <3>1 DEF Confirmed, Replies
    <3> HIDE DEF ok
    <3>4. \/ UNCHANGED <<active, persisted>>
          \/ SetActive(None)
          \/ ok = TRUE /\ Believed(t, task[t])
      BY <3>2, <3>3, ResumeBelief
    <3>5. CASE ok = TRUE /\ Believed(t, task[t])
      <4>1. Believes(t)
        BY <1>2, <3>3, <3>5 DEF ReadBack, Believes, Believed
      <4>2. QED
        BY <4>1
    <3>6. QED
      BY <2>2, <3>4, <3>5
  <2>3. QED
    BY <2>1, <2>2
<1>3. ASSUME NEW t \in Tasks, Published(t)
      PROVE  Goal
  <2> DEFINE ok == Confirmed(task[t], task[t].seen)
  <2>1. Resume(t, task[t], ok, lockq)
    BY <1>3 DEF Published
  <2>2. ok \in BOOLEAN /\ (ok /\ task[t].op = "start" => task[t].seen # 0)
    BY DEF Confirmed
  <2> HIDE DEF ok
  <2>3. \/ UNCHANGED <<active, persisted>>
        \/ SetActive(None)
        \/ ok = TRUE /\ Believed(t, task[t])
    BY <2>1, <2>2, ResumeBelief
  <2>4. CASE ok = TRUE /\ Believed(t, task[t])
    <3>1. Believes(t)
      BY <1>3, <2>2, <2>4 DEF Published, Believes, Believed
    <3>2. QED
      BY <3>1
  <2>5. QED
    BY <2>3, <2>4
<1>4. ASSUME NEW t \in Tasks, Act(t)
      PROVE  Goal
  BY <1>4 DEF Act
<1>5. ASSUME NEW t \in Tasks, NEW goal \in Goals,
             ZonesStart(t, goal) \/ RestStart(t, goal) \/ FireStart(t, goal)
      PROVE  Goal
  BY <1>5 DEF ZonesStart, RestStart, FireStart, RunOnce
<1>6. ASSUME NEW t \in Tasks, NEW i \in DOMAIN config, RestStop(t, i)
      PROVE  Goal
  BY <1>6 DEF RestStop, RunOnce
<1>7. ASSUME NEW t \in Tasks, ZonesStopAll(t) \/ ZonesReconcile(t)
      PROVE  Goal
  BY <1>7 DEF ZonesStopAll, ZonesReconcile, RunOnce
<1>8. ASSUME NEW tm \in Timers, AutoStop(tm) \/ AddDevice(tm)
      PROVE  Goal
  BY <1>8 DEF AutoStop, AddDevice
<1>9. ASSUME NEW i \in DOMAIN config, RemoveDevice(i)
      PROVE  Goal
  BY <1>9 DEF RemoveDevice
<1>10. CASE OnboardJob \/ Restart \/ UNCHANGED vars
  BY <1>10 DEF OnboardJob, vars
<1>11. QED
  BY <1>1, <1>2, <1>3, <1>4, <1>5, <1>6, <1>7, <1>8, <1>9, <1>10
  DEF Next, Work, SetActive, Believes, Believed

-----------------------------------------------------------------------------
(* What a step does to a request.                                          *)

\* Task t's record becomes n; q is the lock's queue without t, which may wait at its
\* end.
Moves(t, n, q) ==
    /\ task' = [task EXCEPT ![t] = n]
    /\ \/ /\ n = Idle \/ n.pc = "retry"
          /\ lockq' = q
       \/ /\ n.pc = "wait" /\ lockq' = Append(q, t)
          /\ n.dev \in DOMAIN config /\ n.timer = config[n.dev]

\* n asks for what r asks for.
SameRequest(n, r) ==
    /\ n.kind = r.kind /\ n.op = r.op /\ n.dev = r.dev
    /\ n.goal = r.goal /\ n.oks = r.oks

\* _run up to the lock moves its task.
LEMMA CallRunMoves ==
  ASSUME TypeInv, NEW t \in Tasks, NEW r \in Request, NEW q,
         r.attempt < RetryAttempts \/ ~job, CallRun(t, r, q)
  PROVE  \E n \in Request : /\ Moves(t, n, q)
                            /\ n = Idle \/ SameRequest(n, r)
                            /\ n.pc = "retry" => job
<1>1. CASE job /\ Again(t, r, q)
  <2> DEFINE n == [r EXCEPT !.pc = "retry", !.attempt = @ + 1]
  <2>1. r.attempt + 1 \in 1..RetryAttempts
    BY <1>1, AttemptNumbers, RequestFields
  <2>2. n \in Request /\ n.pc = "retry" /\ SameRequest(n, r)
    BY <2>1 DEF Request, SameRequest
  <2>3. Moves(t, n, q)
    BY <1>1, <2>2 DEF Again, Moves
  <2>4. QED
    BY <1>1, <2>2, <2>3
<1>2. CASE Answer(t, q)
  BY <1>2, IdleType DEF Answer, Moves
<1>3. CASE /\ r.dev \in DOMAIN config
           /\ JoinLock(t, [r EXCEPT !.timer = config[r.dev]], q)
  <2> DEFINE n == [[r EXCEPT !.timer = config[r.dev]] EXCEPT !.pc = "wait"]
  <2>1. config[r.dev] \in Timers
    BY <1>3 DEF TypeInv, TypeOK
  <2>2. /\ n \in Request /\ n.pc = "wait" /\ SameRequest(n, r)
        /\ n.timer = config[r.dev]
    BY <2>1 DEF Request, SameRequest
  <2>3. Moves(t, n, q)
    BY <1>3, <2>2 DEF JoinLock, Moves, SameRequest
  <2>4. QED
    BY <2>2, <2>3
<1>4. QED
  BY <1>1, <1>2, <1>3 DEF CallRun

\* So is one more try.
LEMMA AgainMoves ==
  ASSUME NEW t \in Tasks, NEW r \in Request, NEW q, Again(t, r, q),
         r.attempt < Tries(r)
  PROVE  \E n \in Request : Moves(t, n, q) /\ SameRequest(n, r) /\ n.pc = "retry"
<1> DEFINE n == [r EXCEPT !.pc = "retry", !.attempt = @ + 1]
<1>1. r.attempt + 1 \in 1..RetryAttempts
  BY AttemptNumbers, RequestFields, TriesBound
<1>2. n \in Request /\ n.pc = "retry" /\ SameRequest(n, r)
  BY <1>1 DEF Request, SameRequest
<1>3. Moves(t, n, q)
  BY <1>2 DEF Again, Moves
<1>4. QED
  BY <1>2, <1>3

\* Task t has left the head of the lock's queue, or had no place in it.
Leaves(t, q) == \/ q = lockq
                \/ Holds(t) /\ q = Tail(lockq)

\* A read-back that may have shown the stopped timer of task t idle.
SeesIdle(t) ==
    task[t].op = "stop" => \/ task[t].pc = "publish"
                           \/ /\ Holds(t) /\ task[t].pc = "acted"
                              /\ valve[task[t].timer] = 0 \/ Faults \cap {"empty", "stale"} # {}

\* A request arrives: a dashboard start is for a zone nothing else is believed to
\* run beside, or begins with a stop.
Arrives(t, n) ==
    /\ task[t].pc = "idle"
    /\ n.kind = "zone start" => /\ t \in Starters
                                /\ n.op = "start" => /\ n.dev = n.goal[1]
                                                     /\ active \in {None, n.goal}
    /\ n.kind = "stop all" => n.op = "stop"

\* A dashboard start goes from its stop to its start.
Switches(t, n) ==
    /\ task[t].kind = "zone start" /\ n.kind = "zone start"
    /\ n.op = "start" /\ n.goal = task[t].goal /\ n.dev = n.goal[1]
    /\ active' = None

\* A stop-all goes on to its next device, with ok for the last one.
NextDevice(t, n, ok) ==
    /\ task[t].kind = "stop all" /\ n.kind = "stop all" /\ n.op = task[t].op
    /\ n.oks = IF ok THEN task[t].oks \cup {task[t].dev} ELSE task[t].oks

\* What the record of a request may become when its task moves.
Becomes(t, n) ==
    \/ n = Idle
    \/ SameRequest(n, task[t])
    \/ Arrives(t, n)
    \/ Switches(t, n)
    \/ NextDevice(t, n, FALSE)
    \/ NextDevice(t, n, TRUE) /\ SeesIdle(t)

\* An outcome answers the request, tries again or goes on with its next operation.
LEMMA ResumeMoves ==
  ASSUME TypeInv, NEW t \in Tasks, NEW ok \in BOOLEAN, NEW q,
         Resume(t, task[t], ok, q)
  PROVE  \E n \in Request : /\ Moves(t, n, q)
                            /\ \/ n = Idle
                               \/ SameRequest(n, task[t])
                               \/ Switches(t, n)
                               \/ NextDevice(t, n, ok)
<1> DEFINE r == task[t]
           Goal == \E n \in Request : /\ Moves(t, n, q)
                                      /\ \/ n = Idle
                                         \/ SameRequest(n, r)
                                         \/ Switches(t, n)
                                         \/ NextDevice(t, n, ok)
<1>0. r \in Request /\ 1 \in 1..RetryAttempts /\ 1 < RetryAttempts
  BY AttemptNumbers DEF TypeInv, TypeOK
<1>1. CASE Again(t, r, q) /\ r.attempt < Tries(r)
  BY <1>0, <1>1, AgainMoves
<1>2. CASE Answer(t, q)
  BY <1>2, IdleType DEF Answer, Moves
<1>3. CASE /\ r.kind = "zone start" /\ SetActive(None)
           /\ CallRun(t, [r EXCEPT !.op = "start", !.dev = r.goal[1], !.attempt = 1], q)
  <2> DEFINE s == [r EXCEPT !.op = "start", !.dev = r.goal[1], !.attempt = 1]
  <2>1. r.goal[1] \in Nat
    BY <1>0, RequestFields
  <2>2. /\ s \in Request /\ s.attempt = 1 /\ s.kind = "zone start" /\ s.op = "start"
        /\ s.dev = r.goal[1] /\ s.goal = r.goal
    BY <1>0, <1>3, <2>1 DEF Request
  <2>3. CallRun(t, s, q) /\ active' = None
    BY <1>3 DEF SetActive
  <2> HIDE DEF s
  <2>4. PICK n \in Request : Moves(t, n, q) /\ (n = Idle \/ SameRequest(n, s))
    BY <1>0, <2>2, <2>3, CallRunMoves
  <2>5. SameRequest(n, s) => Switches(t, n)
    BY <1>3, <2>2, <2>3 DEF SameRequest, Switches
  <2>6. QED
    BY <2>4, <2>5
<1>4. CASE r.kind = "stop all" /\ AfterStopAll(t, r, ok, q)
  <2> DEFINE oks == IF ok THEN r.oks \cup {r.dev} ELSE r.oks
             s == [r EXCEPT !.dev = @ + 1, !.attempt = 1, !.oks = oks]
  <2>1. CASE CallRun(t, s, q)
    <3>1. r.dev + 1 \in Nat /\ oks \subseteq Nat
      BY <1>0, RequestFields
    <3>2. oks = IF ok THEN r.oks \cup {r.dev} ELSE r.oks
      OBVIOUS
    <3> HIDE DEF oks
    <3>3. s \in Request /\ s.attempt = 1 /\ s.kind = r.kind /\ s.op = r.op /\ s.oks = oks
      BY <1>0, <3>1 DEF Request
    <3> HIDE DEF s
    <3>4. PICK n \in Request : Moves(t, n, q) /\ (n = Idle \/ SameRequest(n, s))
      BY <1>0, <2>1, <3>3, CallRunMoves
    <3>5. SameRequest(n, s) => NextDevice(t, n, ok)
      BY <1>4, <3>2, <3>3 DEF SameRequest, NextDevice
    <3>6. QED
      BY <3>4, <3>5
  <2>2. CASE Answer(t, q)
    BY <1>2, <2>2
  <2>3. QED
    BY <1>4, <2>1, <2>2 DEF AfterStopAll
<1>5. QED
  BY <1>1, <1>2, <1>3, <1>4 DEF Resume, AfterZoneStart, AfterReconcile

\* Task t takes a step that keeps the timers and the config as they are.
Turn(t) == /\ \E n \in Request, q \in Seq(Tasks) : Leaves(t, q) /\ Moves(t, n, q) /\ Becomes(t, n)
           /\ UNCHANGED <<config, valve>>

\* Task t is given a request of the scheduler, which waits for the lock at once.
Fires(t) == /\ task[t].pc = "idle"
            /\ \E n \in Request : /\ n.kind = "fire" /\ n.pc = "wait"
                                  /\ task' = [task EXCEPT ![t] = n]
            /\ lockq' = Append(lockq, t)
            /\ UNCHANGED <<config, active, valve>>

\* Task t has its read-back and awaits the publication.
Publishes(t) == /\ Mqtt /\ Holds(t)
                /\ \E n \in Request : /\ SameRequest(n, task[t]) /\ n.pc = "publish"
                                      /\ task' = [task EXCEPT ![t] = n]
                /\ lockq' = Tail(lockq)
                /\ UNCHANGED <<config, active, valve>>

\* An arriving request that is looked up is a turn.
LEMMA ArrivalTurn ==
  ASSUME TypeInv, NEW t \in Tasks, NEW r \in Request, r.attempt = 1, task[t].pc = "idle",
         CallRun(t, r, lockq), UNCHANGED <<config, valve>>, Arrives(t, r)
  PROVE  Turn(t)
<1>1. PICK n \in Request : Moves(t, n, lockq) /\ (n = Idle \/ SameRequest(n, r))
  BY CallRunMoves, AttemptNumbers
<1>2. Becomes(t, n)
  <2>1. CASE n = Idle
    BY <2>1 DEF Becomes
  <2>2. CASE SameRequest(n, r)
    <3>1. Arrives(t, n)
      BY <2>2 DEF Arrives, SameRequest
    <3>2. QED
      BY <3>1 DEF Becomes
  <2>3. QED
    BY <1>1, <2>1, <2>2
<1>3. lockq \in Seq(Tasks) /\ Leaves(t, lockq)
  BY DEF TypeInv, TypeOK, Leaves
<1>4. QED
  BY <1>1, <1>2, <1>3 DEF Turn

\* So is what a handler does with an outcome.
LEMMA ResumeTurn ==
  ASSUME TypeInv, NEW t \in Tasks, NEW ok \in BOOLEAN, NEW q \in Seq(Tasks), Leaves(t, q),
         Resume(t, task[t], ok, q), ok => SeesIdle(t), UNCHANGED <<config, valve>>
  PROVE  Turn(t)
<1>1. PICK n \in Request : /\ Moves(t, n, q)
                           /\ \/ n = Idle
                              \/ SameRequest(n, task[t])
                              \/ Switches(t, n)
                              \/ NextDevice(t, n, ok)
  BY ResumeMoves
<1>2. Becomes(t, n)
  <2>1. CASE ok = TRUE
    BY <1>1, <2>1 DEF Becomes
  <2>2. CASE ok = FALSE
    BY <1>1, <2>2 DEF Becomes
  <2>3. QED
    BY <2>1, <2>2
<1>3. QED
  BY <1>1, <1>2 DEF Turn

\* Every step is a turn of a task, a command to a timer, or nothing a task sees.
LEMMA TaskMoves ==
  ASSUME TypeInv, [Next]_vars
  PROVE  \/ \E t \in Tasks : Turn(t) \/ Fires(t) \/ Publishes(t) \/ Act(t)
         \/ Restart
         \/ UNCHANGED <<lockq, task, active>>
<1> DEFINE Goal == \/ \E t \in Tasks : Turn(t) \/ Fires(t) \/ Publishes(t) \/ Act(t)
                   \/ Restart
                   \/ UNCHANGED <<lockq, task, active>>
<1>0. lockq \in Seq(Tasks) /\ active[1] \in Nat /\ 1 \in Nat /\ None \in Nat \X (0..ZoneCount)
  BY NoneType DEF TypeInv, TypeOK
<1>1. ASSUME NEW t \in Tasks, NEW goal \in Goals, ZonesStart(t, goal)
      PROVE  Goal
  <2> DEFINE switch == active # None /\ active # goal
             r == [Idle EXCEPT !.kind = "zone start", !.goal = goal,
                               !.op  = IF switch THEN "stop" ELSE "start",
                               !.dev = IF switch THEN active[1] ELSE goal[1]]
  <2>1. goal \in Nat \X (0..ZoneCount) /\ goal[1] \in Nat
    BY GoalsType
  <2>2. /\ (IF switch THEN "stop" ELSE "start") \in {"start", "stop", "read"}
        /\ (IF switch THEN active[1] ELSE goal[1]) \in Nat
    BY <1>0, <2>1
  <2>3. r \in Request
    BY ZenonT(40), <2>1, <2>2, ArrivalType
  <2>4. /\ r.attempt = 1 /\ r.kind = "zone start" /\ r.goal = goal
        /\ r.op = (IF switch THEN "stop" ELSE "start")
        /\ r.dev = (IF switch THEN active[1] ELSE goal[1])
    BY DEF Idle
  <2>5. CallRun(t, r, lockq) /\ t \in Starters /\ task[t].pc = "idle" /\ UNCHANGED <<config, valve>>
    BY <1>1 DEF ZonesStart, Free
  <2>6. switch \/ active \in {None, goal}
    OBVIOUS
  <2> HIDE DEF r
  <2>7. Arrives(t, r)
    BY <2>4, <2>5, <2>6 DEF Arrives
  <2>8. QED
    BY <2>3, <2>4, <2>5, <2>7, ArrivalTurn
<1>2. ASSUME NEW t \in Tasks, NEW r \in Request, r.attempt = 1, task[t].pc = "idle",
             RunOnce(t, r), r.kind \notin {"zone start", "stop all"}
      PROVE  Goal
  <2>1. Arrives(t, r)
    BY <1>2 DEF Arrives
  <2>2. QED
    BY <1>2, <2>1, ArrivalTurn DEF RunOnce
<1>3. ASSUME NEW t \in Tasks, ZonesStopAll(t)
      PROVE  Goal
  <2> DEFINE r == [Idle EXCEPT !.kind = "stop all", !.op = "stop", !.dev = 1,
                               !.last = Len(config)]
  <2>1. Len(config) \in Nat
    BY DEF TypeInv, TypeOK
  <2>2. r \in Request
    BY <1>0, <2>1, ArrivalType
  <2>3. r.attempt = 1 /\ r.kind = "stop all" /\ r.op = "stop"
    BY DEF Idle
  <2>4. CallRun(t, r, lockq) /\ task[t].pc = "idle" /\ UNCHANGED <<config, valve>>
    BY <1>3 DEF ZonesStopAll, Free
  <2> HIDE DEF r
  <2>5. Arrives(t, r)
    BY <2>3, <2>4 DEF Arrives
  <2>6. QED
    BY <2>2, <2>3, <2>4, <2>5, ArrivalTurn
<1>4. ASSUME NEW t \in Tasks, ZonesReconcile(t)
      PROVE  Goal
  <2>1. [Idle EXCEPT !.kind = "reconcile", !.dev = active[1]] \in Request
    BY <1>0, ArrivalType
  <2>2. /\ [Idle EXCEPT !.kind = "reconcile", !.dev = active[1]].attempt = 1
        /\ [Idle EXCEPT !.kind = "reconcile", !.dev = active[1]].kind = "reconcile"
    BY DEF Idle
  <2>3. QED
    BY <1>2, <1>4, <2>1, <2>2 DEF ZonesReconcile, Free
<1>5. ASSUME NEW t \in Tasks, NEW goal \in Goals, RestStart(t, goal)
      PROVE  Goal
  <2> DEFINE r == [Idle EXCEPT !.kind = "start", !.op = "start", !.dev = goal[1],
                               !.goal = goal]
  <2>1. r \in Request
    BY GoalsType, ArrivalType
  <2>2. r.attempt = 1 /\ r.kind = "start"
    BY DEF Idle
  <2>3. RunOnce(t, r) /\ task[t].pc = "idle"
    BY <1>5 DEF RestStart, Free
  <2>4. QED
    BY <1>2, <2>1, <2>2, <2>3
<1>6. ASSUME NEW t \in Tasks, NEW dev \in DOMAIN config, RestStop(t, dev)
      PROVE  Goal
  <2> DEFINE r == [Idle EXCEPT !.kind = "stop", !.op = "stop", !.dev = dev]
  <2>1. dev \in Nat
    BY DEF TypeInv, TypeOK
  <2>2. r \in Request
    BY <1>0, <2>1, ArrivalType
  <2>3. r.attempt = 1 /\ r.kind = "stop"
    BY DEF Idle
  <2>4. RunOnce(t, r) /\ task[t].pc = "idle"
    BY <1>6 DEF RestStop, Free
  <2>5. QED
    BY <1>2, <2>2, <2>3, <2>4
<1>7. ASSUME NEW t \in Tasks, NEW goal \in Goals, FireStart(t, goal)
      PROVE  Goal
  <2> DEFINE r == [Idle EXCEPT !.kind = "fire", !.op = "start", !.dev = goal[1],
                               !.goal = goal]
             n == [r EXCEPT !.pc = "wait"]
  <2>1. r \in Request
    BY GoalsType, ArrivalType
  <2>2. r.kind = "fire"
    BY DEF Idle
  <2>3. JoinLock(t, r, lockq)
    BY <1>7 DEF FireStart
  <2> HIDE DEF r
  <2>4. n \in Request /\ n.kind = "fire" /\ n.pc = "wait"
    BY <2>1, <2>2 DEF Request
  <2>5. task' = [task EXCEPT ![t] = n] /\ lockq' = Append(lockq, t)
    BY <2>3 DEF JoinLock
  <2>6. task[t].pc = "idle" /\ UNCHANGED <<config, active, valve>>
    BY <1>7 DEF FireStart, Free
  <2> HIDE DEF n
  <2>7. Fires(t)
    BY <2>4, <2>5, <2>6 DEF Fires
  <2>8. QED
    BY <2>7
<1>8. ASSUME NEW t \in Tasks, EarlyError(t) \/ LateError(t)
      PROVE  Goal
  <2>1. /\ Resume(t, task[t], FALSE, Tail(lockq)) /\ Holds(t)
        /\ UNCHANGED <<config, valve>>
    BY <1>8 DEF EarlyError, LateError
  <2>2. Tail(lockq) \in Seq(Tasks) /\ Leaves(t, Tail(lockq))
    BY <1>0, <2>1, QueueTail DEF Leaves
  <2>3. QED
    BY <2>1, <2>2, ResumeTurn
<1>9. ASSUME NEW t \in Tasks, ReadBack(t)
      PROVE  Goal
  <2>1. Holds(t) /\ task[t].pc = "acted" /\ UNCHANGED <<config, valve>>
    BY <1>9 DEF ReadBack
  <2>2. Tail(lockq) \in Seq(Tasks) /\ Leaves(t, Tail(lockq))
    BY <1>0, <2>1, QueueTail DEF Leaves
  <2>3. PICK seen \in Replies(t) :
          IF Mqtt /\ task[t].kind # "fire"
            THEN /\ task' = [task EXCEPT ![t].pc = "publish", ![t].seen = seen]
                 /\ lockq' = Tail(lockq)
                 /\ UNCHANGED <<active, persisted>>
            ELSE Resume(t, task[t], Confirmed(task[t], seen), Tail(lockq))
    BY <1>9 DEF ReadBack
  <2>4. CASE Resume(t, task[t], Confirmed(task[t], seen), Tail(lockq))
    <3> DEFINE ok == Confirmed(task[t], seen)
    <3>1. ok \in BOOLEAN /\ Resume(t, task[t], ok, Tail(lockq))
      BY <2>4 DEF Confirmed
    <3>2. ok => SeesIdle(t)
      BY <2>1, <2>3 DEF Confirmed, SeesIdle, Replies
    <3> HIDE DEF ok
    <3>3. QED
      BY <2>1, <2>2, <3>1, <3>2, ResumeTurn
  <2>5. CASE /\ Mqtt
             /\ task' = [task EXCEPT ![t].pc = "publish", ![t].seen = seen]
             /\ lockq' = Tail(lockq)
             /\ UNCHANGED <<active, persisted>>
    <3> DEFINE n == [task[t] EXCEPT !.pc = "publish", !.seen = seen]
    <3>1. task[t] \in Request /\ seen \in 0..ZoneCount
      BY <2>1, <2>3, RepliesType DEF TypeInv, TypeOK
    <3>2. n \in Request /\ SameRequest(n, task[t]) /\ n.pc = "publish"
      BY <3>1 DEF Request, SameRequest
    <3>3. task' = [task EXCEPT ![t] = n]
      BY <2>5 DEF TypeInv, TypeOK
    <3> HIDE DEF n
    <3>4. Publishes(t)
      BY <2>1, <2>5, <3>2, <3>3 DEF Publishes
    <3>5. QED
      BY <3>4
  <2>6. QED
    BY <2>3, <2>4, <2>5
<1>10. ASSUME NEW t \in Tasks, Published(t)
       PROVE  Goal
  <2> DEFINE ok == Confirmed(task[t], task[t].seen)
  <2>1. /\ ok \in BOOLEAN /\ Resume(t, task[t], ok, lockq) /\ SeesIdle(t)
        /\ UNCHANGED <<config, valve>>
    BY <1>10 DEF Published, Confirmed, SeesIdle
  <2> HIDE DEF ok
  <2>2. QED
    BY <1>0, <2>1, ResumeTurn DEF Leaves
<1>11. ASSUME NEW t \in Tasks, Retry(t)
       PROVE  Goal
  <2>1. CASE Resume(t, task[t], FALSE, lockq)
    BY <1>0, <1>11, <2>1, ResumeTurn DEF Retry, Leaves
  <2>2. CASE /\ ~(job /\ task[t].attempt >= Tries(task[t]))
             /\ CallRun(t, task[t], lockq) /\ UNCHANGED <<active, persisted>>
    <3>1. task[t] \in Request
      BY DEF TypeInv, TypeOK
    <3>2. task[t].attempt < RetryAttempts \/ ~job
      BY <2>2, <3>1, TriesBound, RequestFields, AttemptNumbers
    <3>3. PICK n \in Request : Moves(t, n, lockq) /\ (n = Idle \/ SameRequest(n, task[t]))
      BY <2>2, <3>1, <3>2, CallRunMoves
    <3>4. QED
      BY <1>0, <1>11, <3>3 DEF Retry, Turn, Leaves, Becomes
  <2>3. QED
    BY <1>11, <2>1, <2>2 DEF Retry
<1>12. ASSUME NEW tm \in Timers, AutoStop(tm) \/ AddDevice(tm)
       PROVE  Goal
  BY <1>12 DEF AutoStop, AddDevice
<1>13. ASSUME NEW i \in DOMAIN config, RemoveDevice(i)
       PROVE  Goal
  BY <1>13 DEF RemoveDevice
<1>14. ASSUME OnboardJob \/ UNCHANGED vars
       PROVE  Goal
  BY <1>14 DEF OnboardJob, vars
<1> HIDE DEF Goal
<1>15. ASSUME NEW t \in Tasks, Act(t) PROVE Goal
  BY <1>15 DEF Goal
<1>16. ASSUME Restart PROVE Goal
  BY <1>16 DEF Goal
<1>17. Goal
  BY <1>1, <1>3, <1>4, <1>5, <1>6, <1>7, <1>8, <1>9, <1>10, <1>11, <1>12, <1>13,
     <1>14, <1>15, <1>16 DEF Next, Work
<1>18. QED
  BY <1>17 DEF Goal

\* Valves move only with a command and when a run's duration ends.
LEMMA ValveMoves ==
  ASSUME [Next]_vars
  PROVE  \/ valve' = valve
         \/ \E t \in Tasks : Act(t)
         \/ \E tm \in Timers : AutoStop(tm)
BY DEF Next, Work, vars, ZonesStart, RestStart, FireStart, RestStop, ZonesStopAll,
       ZonesReconcile, RunOnce, EarlyError, LateError, ReadBack, Published, Retry,
       AddDevice, RemoveDevice, OnboardJob, Restart

\* The config's devices keep their places unless one is removed.
LEMMA ConfigGrows ==
  ASSUME TypeInv, [Next]_vars, "remove" \notin Events
  PROVE  \A i \in DOMAIN config : i \in DOMAIN config' /\ config'[i] = config[i]
<1>1. config' = config \/ \E tm \in Timers : config' = Append(config, tm)
  BY DEF Next, Work, vars, ZonesStart, RestStart, FireStart, RestStop, ZonesStopAll,
         ZonesReconcile, RunOnce, EarlyError, LateError, ReadBack, Published, Retry, Act,
         AutoStop, AddDevice, RemoveDevice, OnboardJob, Restart
<1>2. config \in Seq(Timers)
  BY DEF TypeInv, TypeOK
<1>3. ASSUME NEW tm \in Timers, config' = Append(config, tm)
      PROVE  \A i \in DOMAIN config : i \in DOMAIN config' /\ config'[i] = config[i]
  BY <1>2, <1>3, AppendProperties
<1>4. QED
  BY <1>1, <1>3

-----------------------------------------------------------------------------
(* What the dashboard shows is true.                                       *)

\* Only the Starters carry dashboard starts.
OwnStarts == \A t \in Tasks : task[t].kind = "zone start" => t \in Starters

\* The inductive invariant behind StartsOnlyOverNothing.
StartsInv == TypeInv /\ OwnStarts /\ StartsOnlyOverNothing

\* A task with nothing to do is not of the kind of any request.
LEMMA NoRequest == Idle.kind = "none" /\ Idle.pc = "idle"
BY DEF Idle

\* With one dashboard start at a time, no step puts another belief under it.
LEMMA StartsStep ==
  ASSUME \A s, u \in Starters : s = u, StartsInv, [Next]_vars
  PROVE  StartsInv'
<1>0. TypeInv' /\ task \in [Tasks -> Request] /\ TypeInv
  BY TypeStep DEF StartsInv, TypeInv, TypeOK
<1>1. CASE Restart
  <2>1. \A t \in Tasks : task'[t].kind = "none"
    BY <1>1 DEF Restart, Idle
  <2>2. QED
    BY <1>0, <2>1 DEF StartsInv, OwnStarts, StartsOnlyOverNothing
<1>2. ASSUME NEW t \in Tasks, NEW n, task' = [task EXCEPT ![t] = n], Becomes(t, n),
             active' = active \/ active' = None
      PROVE  StartsInv'
  <2>1. task'[t] = n /\ \A u \in Tasks : u # t => task'[u] = task[u]
    BY <1>0, <1>2
  <2>2. /\ n.kind = "zone start" => t \in Starters
        /\ n.kind = "zone start" /\ n.op = "start" => active' \in {None, n.goal}
    <3>1. CASE n.kind # "zone start"
      BY <3>1
    <3>2. CASE SameRequest(n, task[t])
      BY <1>2, <3>2 DEF SameRequest, StartsInv, OwnStarts, StartsOnlyOverNothing
    <3>3. CASE Arrives(t, n)
      BY <1>2, <3>3 DEF Arrives
    <3>4. CASE Switches(t, n)
      BY <3>4 DEF Switches, StartsInv, OwnStarts
    <3>5. QED
      BY <1>2, <3>1, <3>2, <3>3, <3>4, NoRequest DEF Becomes, NextDevice
  <2>3. QED
    BY <1>0, <1>2, <2>1, <2>2 DEF StartsInv, OwnStarts, StartsOnlyOverNothing
<1>3. ASSUME NEW t \in Tasks, Believes(t)
      PROVE  StartsInv'
  <2>1. task'[t] = Idle /\ \A u \in Tasks : u # t => task'[u] = task[u]
    BY <1>0, <1>3 DEF Believes, Believed
  <2>2. t \in Starters /\ Idle.kind = "none"
    BY <1>3 DEF Believes, Believed, StartsInv, OwnStarts, Idle
  <2>3. \A u \in Tasks : task'[u].kind # "zone start"
    BY <2>1, <2>2 DEF StartsInv, OwnStarts
  <2>4. QED
    BY <1>0, <2>3 DEF StartsInv, OwnStarts, StartsOnlyOverNothing
<1>4. CASE /\ active' = active \/ active' = None
           /\ ~Restart
  <2>1. ASSUME NEW t \in Tasks, Turn(t) PROVE StartsInv'
    BY <1>2, <1>4, <2>1 DEF Turn, Moves
  <2>2. ASSUME NEW t \in Tasks, Fires(t) PROVE StartsInv'
    <3>1. PICK n \in Request : n.kind = "fire" /\ task' = [task EXCEPT ![t] = n]
      BY <2>2 DEF Fires
    <3>2. Becomes(t, n)
      BY <2>2, <3>1 DEF Becomes, Arrives, Fires
    <3>3. QED
      BY <1>2, <1>4, <3>1, <3>2
  <2>3. ASSUME NEW t \in Tasks, Publishes(t) PROVE StartsInv'
    BY <1>2, <1>4, <2>3 DEF Publishes, Becomes
  <2>4. ASSUME NEW t \in Tasks, Act(t) PROVE StartsInv'
    <3>1. task' = [task EXCEPT ![t] = Armed(t)] /\ SameRequest(Armed(t), task[t])
      BY <1>0, <2>4, ArmedRequest DEF SameRequest
    <3>2. QED
      BY <1>2, <1>4, <3>1 DEF Becomes
  <2>5. CASE UNCHANGED <<lockq, task, active>>
    BY <1>0, <2>5 DEF StartsInv, OwnStarts, StartsOnlyOverNothing
  <2>6. QED
    BY <1>0, <1>4, <2>1, <2>2, <2>3, <2>4, <2>5, TaskMoves
<1>5. QED
  BY <1>1, <1>3, <1>4, BeliefMoves DEF SetActive

\* Whatever else is in flight (stop-all, reconciles, scheduled starts, the MQTT
\* mirror), fails, restarts or changes the config, a dashboard start sends its start
\* only against its own zone or none, if dashboard starts come one at a time.
THEOREM StartsComeLast == (\A s, u \in Starters : s = u) => (Spec => []StartsOnlyOverNothing)
<1> SUFFICES ASSUME \A s, u \in Starters : s = u PROVE Spec => []StartsOnlyOverNothing
  OBVIOUS
<1>1. Init => StartsInv
  <2> SUFFICES ASSUME Init PROVE StartsInv
    OBVIOUS
  <2>1. \A t \in Tasks : task[t].kind = "none"
    BY DEF Init, Idle
  <2>2. QED
    BY <2>1, TypeInit DEF StartsInv, OwnStarts, StartsOnlyOverNothing
<1>2. StartsInv /\ [Next]_vars => StartsInv'
  BY StartsStep
<1>3. StartsInv => StartsOnlyOverNothing
  BY DEF StartsInv
<1>4. QED
  BY <1>1, <1>2, <1>3, PTL DEF Spec

\* Only the head of the lock's queue has acted on its timer.
HeadActs == \A t \in Tasks : task[t].pc = "acted" => Holds(t)

\* A request that was looked up has the timer of its device, still.
TimersFound ==
    \A t \in Tasks : task[t].pc \in {"wait", "acted"} /\ task[t].kind # "fire" =>
        /\ task[t].dev \in DOMAIN config
        /\ task[t].timer = config[task[t].dev]

\* What a request does fits its kind.
OpFits(r) ==
    /\ r.kind = "zone start" /\ r.op = "start" => r.dev = r.goal[1]
    /\ r.kind = "stop all" => r.op = "stop"
    /\ r.pc = "idle" => r.kind = "none"
    /\ r.pc # "publish"

OpsFit == \A t \in Tasks : OpFits(task[t])

\* The inductive invariant behind what a read-back without the bridge shows.
TruthInv == TypeInv /\ HeadActs /\ TimersFound /\ OpsFit

\* The server starts with nothing at its timers.
LEMMA TruthInit == Init => TruthInv
<1> SUFFICES ASSUME Init PROVE TruthInv
  OBVIOUS
<1>1. \A t \in Tasks : task[t].pc = "idle" /\ task[t].kind = "none"
  BY NoRequest DEF Init
<1>2. QED
  BY <1>1, TypeInit DEF TruthInv, HeadActs, TimersFound, OpsFit, OpFits

\* A turn leaves the head to the task that has acted.
LEMMA TurnKeepsHead ==
  ASSUME TruthInv, NEW t \in Tasks, Turn(t)
  PROVE  HeadActs'
<1>1. PICK n \in Request, q \in Seq(Tasks) : Leaves(t, q) /\ Moves(t, n, q)
  BY DEF Turn
<1>2. task'[t] = n /\ \A u \in Tasks : u # t => task'[u] = task[u]
  BY <1>1 DEF Moves, TruthInv, TypeInv, TypeOK
<1>3. SUFFICES ASSUME NEW u \in Tasks, task'[u].pc = "acted"
               PROVE  lockq' # <<>> /\ Head(lockq') = u
  BY DEF HeadActs, Holds
<1>4. u # t /\ task[u].pc = "acted"
  BY <1>1, <1>2, <1>3, NoRequest DEF Moves
<1>5. lockq # <<>> /\ Head(lockq) = u
  BY <1>4 DEF TruthInv, HeadActs, Holds
<1>6. q = lockq
  BY <1>1, <1>4, <1>5 DEF Leaves, Holds
<1>7. CASE lockq' = q
  BY <1>5, <1>6, <1>7
<1>8. CASE lockq' = Append(q, t)
  <2>1. lockq \in Seq(Tasks) /\ lockq' = Append(lockq, t)
    BY <1>6, <1>8 DEF TruthInv, TypeInv, TypeOK
  <2>2. QED
    BY <1>5, <2>1, HeadTailAppend, AppendProperties
<1>9. QED
  BY <1>1, <1>7, <1>8 DEF Moves

\* A step of a server without the bridge, whose config loses no device, keeps the
\* invariant.
LEMMA TruthStep ==
  ASSUME ~Mqtt, "remove" \notin Events, TruthInv, [Next]_vars
  PROVE  TruthInv'
<1>0. TypeInv' /\ task \in [Tasks -> Request] /\ TypeInv /\ lockq \in Seq(Tasks)
  BY TypeStep DEF TruthInv, TypeInv, TypeOK
<1>1. \A i \in DOMAIN config : i \in DOMAIN config' /\ config'[i] = config[i]
  BY <1>0, ConfigGrows
<1>2. CASE Restart
  <2>1. \A t \in Tasks : task'[t].pc = "idle" /\ task'[t].kind = "none"
    BY <1>2, NoRequest DEF Restart
  <2>2. QED
    BY <1>0, <2>1 DEF TruthInv, HeadActs, TimersFound, OpsFit, OpFits
<1>3. ASSUME NEW t \in Tasks, Turn(t)
      PROVE  TruthInv'
  <2>1. PICK n \in Request, q \in Seq(Tasks) : Moves(t, n, q) /\ Becomes(t, n)
    BY <1>3 DEF Turn
  <2>2. task'[t] = n /\ \A u \in Tasks : u # t => task'[u] = task[u]
    BY <1>0, <2>1 DEF Moves
  <2>3. TimersFound'
    <3>1. n.pc \in {"wait", "acted"} => n.dev \in DOMAIN config /\ n.timer = config[n.dev]
      BY <2>1, NoRequest DEF Moves
    <3>2. config' = config
      BY <1>3 DEF Turn
    <3>3. QED
      BY <2>2, <3>1, <3>2 DEF TimersFound, TruthInv
  <2>4. OpFits(n)
    <3>1. CASE n = Idle
      BY <3>1, NoRequest DEF OpFits
    <3>2. CASE n # Idle /\ (SameRequest(n, task[t]) \/ Arrives(t, n))
      <4>1. n.pc # "idle" /\ n.pc # "publish"
        BY <2>1, <3>2 DEF Moves
      <4>2. QED
        BY <3>2, <4>1 DEF SameRequest, Arrives, OpFits, TruthInv, OpsFit
    <3>3. CASE n # Idle /\ (Switches(t, n) \/ NextDevice(t, n, FALSE) \/ NextDevice(t, n, TRUE))
      <4>1. n.pc # "idle" /\ n.pc # "publish"
        BY <2>1, <3>3 DEF Moves
      <4>2. QED
        BY <3>3, <4>1 DEF Switches, NextDevice, OpFits, TruthInv, OpsFit
    <3>4. QED
      BY <2>1, <3>1, <3>2, <3>3 DEF Becomes
  <2>5. QED
    BY <1>0, <1>3, <2>2, <2>4, <2>3, TurnKeepsHead DEF TruthInv, OpsFit
<1>4. ASSUME NEW t \in Tasks, Fires(t)
      PROVE  TruthInv'
  <2>1. PICK n \in Request : n.kind = "fire" /\ n.pc = "wait" /\ task' = [task EXCEPT ![t] = n]
    BY <1>4 DEF Fires
  <2>2. task'[t] = n /\ \A u \in Tasks : u # t => task'[u] = task[u]
    BY <1>0, <2>1
  <2>3. HeadActs'
    <3>1. SUFFICES ASSUME NEW u \in Tasks, task'[u].pc = "acted"
                   PROVE  lockq' # <<>> /\ Head(lockq') = u
      BY DEF HeadActs, Holds
    <3>2. lockq # <<>> /\ Head(lockq) = u
      BY <2>1, <2>2, <3>1 DEF TruthInv, HeadActs, Holds
    <3>3. lockq' = Append(lockq, t)
      BY <1>4 DEF Fires
    <3>4. QED
      BY <1>0, <3>2, <3>3, HeadTailAppend, AppendProperties
  <2>4. TimersFound'
    BY <1>1, <2>1, <2>2 DEF TimersFound, TruthInv
  <2>5. OpFits(n)
    BY <2>1 DEF OpFits
  <2>6. QED
    BY <1>0, <2>2, <2>3, <2>4, <2>5 DEF TruthInv, OpsFit
<1>5. ASSUME NEW t \in Tasks, Act(t)
      PROVE  TruthInv'
  <2> DEFINE n == Armed(t)
  <2>1. task' = [task EXCEPT ![t] = n] /\ lockq' = lockq /\ task[t].pc = "wait" /\ Holds(t)
    BY <1>0, <1>5, ArmedRequest DEF Act
  <2>2. /\ SameRequest(n, task[t]) /\ n.pc = "acted"
        /\ n.kind # "fire" => n.timer = task[t].timer
    BY <1>0, <1>5, ArmedRequest DEF SameRequest, TimerOf
  <2> HIDE DEF n
  <2>3. task'[t] = n /\ \A u \in Tasks : u # t => task'[u] = task[u]
    BY <1>0, <2>1
  <2>4. HeadActs'
    BY <2>1, <2>3 DEF TruthInv, HeadActs, Holds
  <2>5. TimersFound'
    BY <1>1, <2>1, <2>2, <2>3 DEF TimersFound, TruthInv, SameRequest
  <2>6. OpFits(n)
    BY <2>1, <2>2 DEF SameRequest, OpFits, TruthInv, OpsFit
  <2>7. QED
    BY <1>0, <2>3, <2>4, <2>5, <2>6 DEF TruthInv, OpsFit
<1>6. CASE UNCHANGED <<lockq, task, active>>
  <2>1. HeadActs' /\ OpsFit'
    BY <1>6 DEF HeadActs, Holds, OpsFit, TruthInv
  <2>2. TimersFound'
    BY <1>1, <1>6 DEF TimersFound, TruthInv
  <2>3. QED
    BY <1>0, <2>1, <2>2 DEF TruthInv
<1>7. \A t \in Tasks : ~Publishes(t)
  BY DEF Publishes
<1>8. QED
  BY <1>0, <1>2, <1>3, <1>4, <1>5, <1>6, <1>7, TaskMoves

\* A timer that was told to start waters the zone asked for, until it stops.
CommandDone ==
    \A t \in Tasks : task[t].pc = "acted" /\ task[t].op = "start"
                        => valve[task[t].timer] \in {0, task[t].goal[2]}

\* The inductive invariant behind BelievedOnlyWhenWatering.
WateringInv == TruthInv /\ CommandDone

\* When no command is lost, it stays so: only the holder of the lock commands.
LEMMA CommandStep ==
  ASSUME ~Mqtt, "lost" \notin Faults, TruthInv, CommandDone, [Next]_vars
  PROVE  CommandDone'
<1>0. TypeInv /\ task \in [Tasks -> Request] /\ valve \in [Timers -> 0..ZoneCount]
  BY DEF TruthInv, TypeInv, TypeOK
<1>1. ASSUME NEW t \in Tasks, NEW n, task' = [task EXCEPT ![t] = n], n.pc # "acted",
             valve' = valve
      PROVE  CommandDone'
  <2>1. task'[t] = n /\ \A u \in Tasks : u # t => task'[u] = task[u]
    BY <1>0, <1>1
  <2>2. QED
    BY <1>1, <2>1 DEF CommandDone
<1>2. ASSUME NEW t \in Tasks, Turn(t)
      PROVE  CommandDone'
  <2>1. PICK n \in Request, q \in Seq(Tasks) : Moves(t, n, q)
    BY <1>2 DEF Turn
  <2>2. n.pc # "acted"
    BY <2>1, NoRequest DEF Moves
  <2>3. QED
    BY <1>1, <1>2, <2>1, <2>2 DEF Turn, Moves
<1>3. ASSUME NEW t \in Tasks, Fires(t)
      PROVE  CommandDone'
  BY <1>1, <1>3 DEF Fires
<1>4. ASSUME NEW t \in Tasks, Act(t)
      PROVE  CommandDone'
  <2> DEFINE tm == TimerOf(task[t])
             n == Armed(t)
  <2>1. /\ task' = [task EXCEPT ![t] = n] /\ Holds(t) /\ task[t].pc = "wait"
        /\ valve' = [valve EXCEPT ![tm] = Effect(task[t], @)]
    BY <1>0, <1>4, ArmedRequest DEF Act
  <2>2. tm \in Timers
    BY <1>0, <1>4, ArmedRequest
  <2>3. SameRequest(n, task[t]) /\ n.timer = tm
    BY <1>0, <1>4, ArmedRequest DEF SameRequest
  <2> HIDE DEF n, tm
  <2>4. task'[t] = n /\ \A u \in Tasks : u # t => task'[u] = task[u]
    BY <1>0, <2>1
  <2>5. \A u \in Tasks : u # t => task'[u].pc # "acted"
    BY <2>1, <2>4 DEF TruthInv, HeadActs, Holds
  <2>6. n.op = "start" => valve'[n.timer] = n.goal[2]
    <3>1. valve'[tm] = Effect(task[t], valve[tm])
      BY <1>0, <2>1, <2>2
    <3>2. QED
      BY <2>3, <3>1 DEF Effect, SameRequest
  <2>7. QED
    BY <2>4, <2>5, <2>6 DEF CommandDone
<1>5. CASE Restart
  BY <1>5, NoRequest DEF Restart, CommandDone
<1>6. CASE UNCHANGED <<lockq, task, active>> /\ ~\E t \in Tasks : Act(t)
  <2>1. \A x \in Timers : valve'[x] \in {0, valve[x]}
    BY <1>0, <1>6, ValveMoves DEF AutoStop
  <2>2. \A t \in Tasks : task[t].pc = "acted" => task[t].timer \in Timers
    BY <1>0 DEF TypeInv, TimersResolved
  <2>3. QED
    BY <1>6, <2>1, <2>2 DEF CommandDone
<1>7. \A t \in Tasks : ~Publishes(t)
  BY DEF Publishes
<1>8. QED
  BY <1>0, <1>2, <1>3, <1>4, <1>5, <1>6, <1>7, TaskMoves

\* Without the bridge between the read-back and the belief, without lost commands
\* and stale replies and with a config that keeps its devices, a request makes a zone
\* the believed one only while its timer waters it, whatever other requests, late or
\* empty replies, failed writes of the file, onboarding jobs and restarts do.
THEOREM BelievedIsTrue ==
  ~Mqtt /\ "lost" \notin Faults /\ "stale" \notin Faults /\ "remove" \notin Events
     => (Spec => BelievedOnlyWhenWatering)
<1> SUFFICES ASSUME ~Mqtt, "lost" \notin Faults, "stale" \notin Faults,
                    "remove" \notin Events
             PROVE  Spec => BelievedOnlyWhenWatering
  OBVIOUS
<1> DEFINE A == active' \notin {active, None} /\ ~Restart =>
                  /\ active'[1] \in DOMAIN config
                  /\ valve[config[active'[1]]] = active'[2]
<1>1. Init => WateringInv
  <2> SUFFICES ASSUME Init PROVE WateringInv
    OBVIOUS
  <2>1. \A t \in Tasks : task[t].pc # "acted"
    BY NoRequest DEF Init
  <2>2. QED
    BY <2>1, TruthInit DEF WateringInv, CommandDone
<1>2. WateringInv /\ [Next]_vars => WateringInv'
  BY TruthStep, CommandStep DEF WateringInv
<1>3. WateringInv /\ [Next]_vars => [A]_vars
  <2> SUFFICES ASSUME WateringInv, [Next]_vars, active' # active, active' # None, ~Restart
               PROVE  /\ active'[1] \in DOMAIN config
                      /\ valve[config[active'[1]]] = active'[2]
    OBVIOUS
  <2>1. PICK t \in Tasks : Believes(t)
    BY BeliefMoves DEF SetActive
  <2>2. /\ task[t].kind = "zone start" /\ task[t].op = "start"
        /\ active' = task[t].goal
        /\ task[t].pc = "acted" /\ valve[task[t].timer] # 0
    BY <2>1 DEF Believes, Believed, SetActive, WateringInv, TruthInv, OpsFit, OpFits
  <2>3. /\ task[t].dev \in DOMAIN config /\ task[t].timer = config[task[t].dev]
        /\ task[t].dev = task[t].goal[1]
    BY <2>2 DEF WateringInv, TruthInv, TimersFound, OpsFit, OpFits
  <2>4. valve[task[t].timer] = task[t].goal[2]
    BY <2>2 DEF WateringInv, CommandDone
  <2>5. QED
    BY <2>2, <2>3, <2>4
<1>4. QED
  BY <1>1, <1>2, <1>3, PTL DEF Spec, BelievedOnlyWhenWatering

\* Without the bridge, without empty and stale replies and with a config that keeps its
\* devices, stop-all counts a device as off only while its timer is idle, although
\* other requests and lost commands come in between.
THEOREM StopAllIsTrue ==
  ~Mqtt /\ "empty" \notin Faults /\ "stale" \notin Faults /\ "remove" \notin Events
     => (Spec => StopAllReportsOff)
<1> SUFFICES ASSUME ~Mqtt, "empty" \notin Faults, "stale" \notin Faults,
                    "remove" \notin Events
             PROVE  Spec => StopAllReportsOff
  OBVIOUS
<1> DEFINE A == \A t \in Tasks : task[t].kind = "stop all" /\ task'[t].kind = "stop all"
                  => \A d \in task'[t].oks \ task[t].oks : valve[config[d]] = 0
<1>1. TruthInv /\ [Next]_vars => TruthInv'
  BY TruthStep
<1>2. TruthInv /\ [Next]_vars => [A]_vars
  <2> SUFFICES ASSUME TruthInv, [Next]_vars, NEW u \in Tasks, task[u].kind = "stop all",
                      task'[u].kind = "stop all", NEW d \in task'[u].oks \ task[u].oks
               PROVE  valve[config[d]] = 0
    OBVIOUS
  <2>0. TypeInv /\ task \in [Tasks -> Request]
    BY DEF TruthInv, TypeInv, TypeOK
  <2>1. ASSUME NEW t \in Tasks, NEW n, task' = [task EXCEPT ![t] = n], SameRequest(n, task[t])
        PROVE  FALSE
    <3>1. task'[u].oks = task[u].oks
      BY <2>0, <2>1 DEF SameRequest
    <3>2. QED
      BY <3>1
  <2>2. ASSUME NEW t \in Tasks, NEW n, task' = [task EXCEPT ![t] = n], n.kind # "stop all"
        PROVE  FALSE
    BY <2>0, <2>2
  <2>3. ASSUME NEW t \in Tasks, Turn(t)
        PROVE  valve[config[d]] = 0
    <3>1. PICK n \in Request, q \in Seq(Tasks) : Moves(t, n, q) /\ Becomes(t, n)
      BY <2>3 DEF Turn
    <3>2. task' = [task EXCEPT ![t] = n] /\ (u = t => task'[u] = n) /\ (u # t => task'[u] = task[u])
      BY <2>0, <3>1 DEF Moves
    <3>3. u = t /\ task'[u] = n
      BY <3>2
    <3>4. task[t].pc # "idle" /\ task[t].pc # "publish" /\ task[t].op = "stop"
      BY <3>3 DEF TruthInv, OpsFit, OpFits
    <3>5. NextDevice(t, n, TRUE) /\ SeesIdle(t)
      <4>1. n # Idle /\ ~SameRequest(n, task[t]) /\ ~Switches(t, n)
        BY <2>1, <3>2, <3>3, NoRequest DEF Switches
      <4>2. ~Arrives(t, n) /\ ~NextDevice(t, n, FALSE)
        BY <3>3, <3>4 DEF Arrives, NextDevice
      <4>3. QED
        BY <3>1, <4>1, <4>2 DEF Becomes
    <3>6. d = task[t].dev
      BY <3>3, <3>5 DEF NextDevice
    <3>7. task[t].pc = "acted" /\ valve[task[t].timer] = 0
      BY <3>4, <3>5 DEF SeesIdle
    <3>8. task[t].timer = config[task[t].dev]
      BY <3>3, <3>7 DEF TruthInv, TimersFound
    <3>9. QED
      BY <3>6, <3>7, <3>8
  <2>4. ASSUME NEW t \in Tasks, Act(t)
        PROVE  FALSE
    <3>1. task' = [task EXCEPT ![t] = Armed(t)] /\ SameRequest(Armed(t), task[t])
      BY <2>0, <2>4, ArmedRequest DEF SameRequest
    <3>2. QED
      BY <2>1, <3>1
  <2>5. ASSUME NEW t \in Tasks, Fires(t)
        PROVE  FALSE
    BY <2>2, <2>5 DEF Fires
  <2>6. ASSUME NEW t \in Tasks, Publishes(t)
        PROVE  FALSE
    BY <2>6 DEF Publishes
  <2>7. CASE Restart
    BY <2>7, NoRequest DEF Restart
  <2>8. QED
    BY <2>0, <2>3, <2>4, <2>5, <2>6, <2>7, TaskMoves
<1>3. QED
  BY TruthInit, <1>1, <1>2, PTL DEF Spec, StopAllReportsOff
=============================================================================

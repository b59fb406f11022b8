------------------------ MODULE ZonesExclusionProof ------------------------
(***************************************************************************)
(* Proof that a disciplined instance of Zones keeps at most one valve      *)
(* open, drops its belief only when that zone is off, and implements       *)
(* OneZone (ZonesExclusion).                                               *)
(***************************************************************************)
EXTENDS ZonesProof

\* q is the lock's queue for every task but t.
QueueFor(t, q) ==
    /\ q \in Seq(Tasks)
    /\ \A i, j \in DOMAIN q : q[i] = q[j] => i = j
    /\ \A i \in DOMAIN q : q[i] # t /\ task[q[i]].pc \in {"wait", "acted"}
    /\ \A u \in Tasks \ {t} : task[u].pc \in {"wait", "acted"} =>
          \E i \in DOMAIN q : q[i] = u
    /\ \A u \in Tasks \ {t} : task[u].pc = "acted" => q # <<>> /\ q[1] = u
    /\ \A i, j \in DOMAIN q :
          i < j /\ Starting(task[q[i]]) /\ Reconciling(task[q[j]])
             => task[q[j]].dev = task[q[i]].goal[1]

\* What TaskOK says of a record that has no place in the queue yet.
Shape(t, n) ==
    /\ n.pc # "idle" => n.kind \in {"zone start", "reconcile", "stop"}
    /\ n.kind = "zone start" => /\ t \in Starters
                                /\ n.op \in {"start", "stop"}
                                /\ n.goal \in Goals
                                /\ n.op = "start" => n.dev = n.goal[1]
    /\ n.kind = "reconcile" => n.op = "read" /\ n.pc # "retry"
    /\ n.kind = "stop" => n.op = "stop"

\* The queue stays well-formed when task t gives its place up.
LEMMA QueueWithout ==
  ASSUME ExclusionInv, NEW t \in Tasks
  PROVE  /\ task[t].pc \in {"idle", "retry"} => QueueFor(t, lockq)
         /\ Holds(t) => QueueFor(t, Tail(lockq))
<1>1. ASSUME task[t].pc \in {"idle", "retry"}
      PROVE  QueueFor(t, lockq)
  <2>1. \A u \in Tasks : task[u].pc = "acted" => lockq # <<>> /\ lockq[1] = u
    BY QueueTail DEF ExclusionInv, QueueOK, TypeInv, TypeOK, Holds
  <2>2. QED
    BY <1>1, <2>1 DEF ExclusionInv, QueueOK, ReadsAfterSwitch, QueueFor, TypeInv, TypeOK
<1>2. ASSUME Holds(t)
      PROVE  QueueFor(t, Tail(lockq))
  <2> DEFINE q == Tail(lockq)
  <2>1. /\ q \in Seq(Tasks) /\ DOMAIN q = 1..(Len(lockq) - 1)
        /\ DOMAIN lockq = 1..Len(lockq) /\ Len(lockq) \in Nat
        /\ \A i \in DOMAIN q : /\ i \in DOMAIN lockq /\ i + 1 \in DOMAIN lockq
                               /\ q[i] = lockq[i + 1]
        /\ lockq[1] = t /\ 1 \in DOMAIN lockq
    BY <1>2, QueueTail DEF ExclusionInv, TypeInv, TypeOK
  <2>2. \A u \in Tasks \ {t} : task[u].pc # "acted"
    BY <1>2 DEF ExclusionInv, QueueOK, Holds
  <2> HIDE DEF q
  <2>3. \A i, j \in DOMAIN q : q[i] = q[j] => i = j
    <3>1. SUFFICES ASSUME NEW i \in DOMAIN q, NEW j \in DOMAIN q, q[i] = q[j]
                   PROVE  i = j
      OBVIOUS
    <3>2. i + 1 = j + 1
      BY <2>1, <3>1 DEF ExclusionInv, QueueOK
    <3>3. QED
      BY <2>1, <3>2
  <2>4. \A i \in DOMAIN q : q[i] # t /\ task[q[i]].pc \in {"wait", "acted"}
    <3>1. SUFFICES ASSUME NEW i \in DOMAIN q
                   PROVE  q[i] # t /\ task[q[i]].pc \in {"wait", "acted"}
      OBVIOUS
    <3>2. i + 1 # 1
      BY <2>1
    <3>3. QED
      BY <2>1, <3>2 DEF ExclusionInv, QueueOK
  <2>5. ASSUME NEW i \in DOMAIN q, NEW j \in DOMAIN q, i < j,
               Starting(task[q[i]]), Reconciling(task[q[j]])
        PROVE  task[q[j]].dev = task[q[i]].goal[1]
    <3>1. i + 1 < j + 1
      BY <2>1, <2>5
    <3>2. QED
      BY <2>1, <2>5, <3>1 DEF ExclusionInv, ReadsAfterSwitch
  <2>6. ASSUME NEW u \in Tasks \ {t}, task[u].pc \in {"wait", "acted"}
        PROVE  \E i \in DOMAIN q : q[i] = u
    <3>1. PICK k \in DOMAIN lockq : lockq[k] = u
      BY <2>6 DEF ExclusionInv, QueueOK
    <3>2. k # 1 /\ k - 1 \in DOMAIN q
      BY <2>1, <2>6, <3>1
    <3>3. q[k - 1] = lockq[(k - 1) + 1] /\ (k - 1) + 1 = k
      BY <2>1, <3>2
    <3>4. QED
      BY <3>1, <3>2, <3>3
  <2>7. QED
    BY <2>1, <2>2, <2>3, <2>4, <2>5, <2>6 DEF QueueFor, q
<1>3. QED
  BY <1>1, <1>2

\* Once t has left the queue and moved to a new record, the lock stays well-formed.
LEMMA Settle ==
  ASSUME ExclusionInv, NEW t \in Tasks, NEW q, QueueFor(t, q), NEW n \in Request,
         Moves(t, n, q), Shape(t, n), config' = config,
         n.kind = "reconcile" => \A i \in DOMAIN q : Starting(task[q[i]]) => n.dev = task[q[i]].goal[1]
  PROVE  QueueOK' /\ TasksOK' /\ ReadsAfterSwitch'
<1>1. task'[t] = n /\ \A u \in Tasks : u # t => task'[u] = task[u]
  BY DEF Moves, ExclusionInv, TypeInv, TypeOK
<1>2. TasksOK'
  <2>1. TaskOK(t)'
    BY <1>1, NoRequest DEF TaskOK, Moves, Shape, Busy, Starting
  <2>2. ASSUME NEW u \in Tasks, u # t
        PROVE  TaskOK(u)'
    BY ZenonT(40), <1>1, <2>2 DEF TaskOK, Busy, Starting, ExclusionInv, TasksOK
  <2>3. QED
    BY <2>1, <2>2 DEF TasksOK
<1>3. /\ \A i \in DOMAIN q : q[i] \in Tasks /\ q[i] # t /\ task'[q[i]] = task[q[i]]
  BY <1>1 DEF QueueFor
<1>4. CASE n.pc \in {"idle", "retry"} /\ lockq' = q
  <2>1. ASSUME NEW u \in Tasks, task'[u].pc = "acted"
        PROVE  Holds(u)'
    <3>1. u # t /\ task[u].pc = "acted"
      BY <1>1, <1>4, <2>1
    <3>2. q # <<>> /\ q[1] = u
      BY <3>1 DEF QueueFor
    <3>3. QED
      BY <1>4, <3>2 DEF Holds, QueueFor
  <2>2. ASSUME NEW u \in Tasks, task'[u].pc \in {"wait", "acted"}
        PROVE  \E i \in DOMAIN lockq' : lockq'[i] = u
    <3>1. u # t /\ task[u].pc \in {"wait", "acted"}
      BY <1>1, <1>4, <2>2
    <3>2. QED
      BY <1>4, <3>1 DEF QueueFor
  <2>5. QueueOK'
    BY <1>3, <1>4, <2>1, <2>2 DEF QueueOK, QueueFor
  <2>3. ReadsAfterSwitch'
    BY <1>3, <1>4 DEF ReadsAfterSwitch, QueueFor
  <2>4. QED
    BY <1>2, <2>5, <2>3
<1>5. CASE n.pc = "wait" /\ lockq' = Append(q, t)
  <2>1. /\ lockq' \in Seq(Tasks) /\ DOMAIN lockq' = 1..(Len(q) + 1)
        /\ DOMAIN q = 1..Len(q) /\ Len(q) \in Nat
        /\ \A i \in DOMAIN q : lockq'[i] = q[i]
        /\ lockq'[Len(q) + 1] = t
    BY <1>5, QueueAppend DEF QueueFor
  <2>2. \A i \in DOMAIN lockq' : i \in DOMAIN q \/ i = Len(q) + 1
    BY <2>1
  <2>3. \A i \in DOMAIN lockq' : task'[lockq'[i]].pc \in {"wait", "acted"}
    BY <1>1, <1>3, <1>5, <2>1, <2>2 DEF QueueFor
  <2>4. \A i, j \in DOMAIN lockq' : lockq'[i] = lockq'[j] => i = j
    BY <1>3, <2>1, <2>2 DEF QueueFor
  <2>5. ASSUME NEW u \in Tasks, task'[u].pc = "acted"
        PROVE  Holds(u)'
    <3>1. u # t /\ task[u].pc = "acted"
      BY <1>1, <1>5, <2>5
    <3>2. q # <<>> /\ q[1] = u
      BY <3>1 DEF QueueFor
    <3>3. 1 \in DOMAIN q
      BY <2>1, <3>2, EmptySeq DEF QueueFor
    <3>4. QED
      BY <2>1, <3>2, <3>3, <1>5, HeadTailAppend DEF Holds, QueueFor
  <2>6. ASSUME NEW i \in DOMAIN lockq', NEW j \in DOMAIN lockq', i < j,
               Starting(task'[lockq'[i]]), Reconciling(task'[lockq'[j]])
        PROVE  task'[lockq'[j]].dev = task'[lockq'[i]].goal[1]
    <3>1. i \in DOMAIN q
      BY <2>1, <2>2, <2>6
    <3>2. CASE j \in DOMAIN q
      BY <1>3, <2>1, <2>6, <3>1, <3>2 DEF QueueFor
    <3>3. CASE j = Len(q) + 1
      <4>1. lockq'[j] = t /\ n.kind = "reconcile"
        BY <1>1, <2>1, <2>6, <3>3 DEF Reconciling
      <4>2. Starting(task[q[i]]) /\ lockq'[i] = q[i]
        BY <1>3, <2>1, <2>6, <3>1
      <4>3. QED
        BY <1>1, <1>3, <3>1, <4>1, <4>2
    <3>4. QED
      BY <2>2, <3>2, <3>3
  <2>7. ASSUME NEW u \in Tasks, task'[u].pc \in {"wait", "acted"}
        PROVE  \E i \in DOMAIN lockq' : lockq'[i] = u
    <3>1. CASE u = t
      BY <2>1, <3>1
    <3>2. CASE u # t
      <4>1. PICK i \in DOMAIN q : q[i] = u
        BY <1>1, <2>7, <3>2 DEF QueueFor
      <4>2. i \in DOMAIN lockq' /\ lockq'[i] = u
        BY <2>1, <4>1
      <4>3. QED
        BY <4>2
    <3>3. QED
      BY <3>1, <3>2
  <2>8. QED
    BY <1>2, <2>3, <2>4, <2>5, <2>6, <2>7 DEF QueueOK, ReadsAfterSwitch
<1>6. QED
  BY <1>4, <1>5, IdleType DEF Moves

\* The answer to a request moves its task, too.
LEMMA AnswerMoves ==
  ASSUME NEW t \in Tasks, NEW q, Answer(t, q)
  PROVE  Idle \in Request /\ Moves(t, Idle, q) /\ Shape(t, Idle)
<1>1. Idle.pc = "idle" /\ Idle.kind = "none"
  BY DEF Idle
<1>2. QED
  BY <1>1, IdleType DEF Answer, Moves, Shape

\* The record of a request keeps its shape until it is answered.
LEMMA ShapeKept ==
  ASSUME ExclusionInv, NEW t \in Tasks, Busy(task[t]), NEW n, SameRequest(n, task[t]),
         n.pc = "retry" => n.kind # "reconcile"
  PROVE  Shape(t, n)
BY DEF ExclusionInv, TasksOK, TaskOK, Shape, SameRequest, Busy, Starting

\* A step of task t that touches neither the belief nor a valve, and is not the
\* end of a start that did open its valve.
LEMMA QuietStep ==
  ASSUME ExclusionInv, NEW t \in Tasks, NEW q, QueueFor(t, q), NEW n \in Request,
         Moves(t, n, q), Shape(t, n), UNCHANGED <<config, active, valve>>,
         n.kind = "reconcile" => active # None /\ n.dev = active[1],
         Starting(n) => active \in {None, n.goal},
         Stopping(n) => active = None \/ active[1] = n.dev,
         Starting(task[t]) /\ task[t].pc = "acted" => valve[task[t].timer] = 0
  PROVE  /\ QueueOK' /\ TasksOK' /\ ReadsAfterSwitch'
         /\ BeliefAtStart' /\ ReadsBelieved' /\ OpenIsKnown'
<1>1. task'[t] = n /\ \A u \in Tasks : u # t => task'[u] = task[u]
  BY DEF Moves, ExclusionInv, TypeInv, TypeOK
<1>2. n.kind = "reconcile" => \A i \in DOMAIN q : Starting(task[q[i]]) => n.dev = task[q[i]].goal[1]
  <2>1. \A i \in DOMAIN q : q[i] \in Tasks
    BY DEF QueueFor
  <2>2. QED
    BY <2>1 DEF ExclusionInv, BeliefAtStart
<1>3. QueueOK' /\ TasksOK' /\ ReadsAfterSwitch'
  BY <1>2, Settle
<1>4. BeliefAtStart'
  BY <1>1 DEF BeliefAtStart, ExclusionInv
<1>5. ReadsBelieved'
  BY <1>1 DEF ReadsBelieved, ExclusionInv, Reconciling
<1>6. OpenIsKnown'
  <2>1. SUFFICES ASSUME NEW tm \in Timers, valve[tm] # 0, ~(active # None /\ Waters(tm, active))
                 PROVE  \E u \in Tasks : /\ Starting(task'[u]) /\ task'[u].pc = "acted"
                                        /\ Waters(tm, task'[u].goal)
    BY DEF OpenIsKnown, Waters
  <2>2. PICK u \in Tasks : /\ Starting(task[u]) /\ task[u].pc = "acted"
                           /\ Waters(tm, task[u].goal)
    BY <2>1 DEF ExclusionInv, OpenIsKnown
  <2>3. task[u].timer = tm
    BY <2>2 DEF ExclusionInv, TasksOK, TaskOK, Waters
  <2>4. u # t
    BY <2>1, <2>2, <2>3
  <2>5. QED
    BY <1>1, <2>2, <2>4
<1>7. QED
  BY <1>3, <1>4, <1>5, <1>6

\* Dropping the belief when every valve is closed.
LEMMA DropStep ==
  ASSUME ExclusionInv, NEW t \in Tasks, NEW q, QueueFor(t, q), NEW n \in Request,
         Moves(t, n, q), Shape(t, n), UNCHANGED <<config, valve>>,
         n.kind # "reconcile", active' = None, \A tm \in Timers : valve[tm] = 0
  PROVE  /\ QueueOK' /\ TasksOK' /\ ReadsAfterSwitch'
         /\ BeliefAtStart' /\ ReadsBelieved' /\ OpenIsKnown'
<1>1. QueueOK' /\ TasksOK' /\ ReadsAfterSwitch'
  BY Settle
<1>2. BeliefAtStart' /\ ReadsBelieved' /\ OpenIsKnown'
  BY DEF BeliefAtStart, ReadsBelieved, OpenIsKnown
<1>3. QED
  BY <1>1, <1>2

\* The end of a start whose valve is seen open.
LEMMA BelieveStep ==
  ASSUME Disciplined, ExclusionInv, NEW t \in Tasks, Holds(t),
         Starting(task[t]), task[t].pc = "acted", valve[task[t].timer] # 0,
         Answer(t, Tail(lockq)), active' = task[t].goal, UNCHANGED <<config, valve>>
  PROVE  /\ QueueOK' /\ TasksOK' /\ ReadsAfterSwitch'
         /\ BeliefAtStart' /\ ReadsBelieved' /\ OpenIsKnown'
<1> DEFINE q == Tail(lockq)
<1>1. QueueFor(t, q)
  BY QueueWithout
<1>2. Idle \in Request /\ Moves(t, Idle, q) /\ Shape(t, Idle) /\ Idle.kind = "none"
      /\ Idle.pc = "idle"
  BY AnswerMoves, IdleType DEF Idle
<1>3. QueueOK' /\ TasksOK' /\ ReadsAfterSwitch'
  BY <1>1, <1>2, Settle
<1>4. task'[t] = Idle /\ \A u \in Tasks : u # t => task'[u] = task[u]
  BY DEF Answer, ExclusionInv, TypeInv, TypeOK
<1>5. \A u \in Tasks : u # t => task[u].kind # "zone start"
  BY ZenonT(40) DEF Disciplined, ExclusionInv, TasksOK, TaskOK, Starting
<1>6. BeliefAtStart'
  BY <1>2, <1>4, <1>5 DEF BeliefAtStart, Starting, Stopping, Busy
<1>7. ReadsBelieved'
  <2>1. SUFFICES ASSUME NEW u \in Tasks, u # t, Reconciling(task[u])
                 PROVE  task[u].dev = task[t].goal[1]
    BY <1>2, <1>4 DEF ReadsBelieved, Reconciling, Busy
  <2>2. task[u].pc \in {"wait", "acted"}
    BY <2>1 DEF ExclusionInv, TasksOK, TaskOK, Reconciling, Busy
  <2>3. PICK j \in DOMAIN lockq : lockq[j] = u
    BY <2>2 DEF ExclusionInv, QueueOK
  <2>4. /\ lockq[1] = t /\ 1 \in DOMAIN lockq
        /\ DOMAIN lockq = 1..Len(lockq) /\ Len(lockq) \in Nat
    BY QueueTail DEF ExclusionInv, TypeInv, TypeOK
  <2>5. 1 < j
    BY <2>1, <2>3, <2>4
  <2>6. QED
    BY <2>1, <2>3, <2>4, <2>5 DEF ExclusionInv, ReadsAfterSwitch
<1>8. OpenIsKnown'
  <2>1. SUFFICES ASSUME NEW tm \in Timers, valve[tm] # 0
                 PROVE  active' # None /\ Waters(tm, task[t].goal)
    BY DEF OpenIsKnown, Waters
  <2>2. task[t].goal # None
    <3>1. task[t].goal \in Goals
      BY DEF ExclusionInv, TasksOK, TaskOK, Starting
    <3>2. task[t].goal[2] \in Zone /\ ZoneCount \in Nat
      BY <3>1, GoalsType, ZonesAssumption
    <3>3. QED
      BY <3>2, NoneType DEF Zone
  <2>3. CASE active # None /\ Waters(tm, active)
    <3>1. active = task[t].goal
      BY <2>3 DEF ExclusionInv, BeliefAtStart
    <3>2. QED
      BY <2>2, <2>3, <3>1
  <2>4. CASE \E u \in Tasks : /\ Starting(task[u]) /\ task[u].pc = "acted"
                              /\ Waters(tm, task[u].goal)
    BY <1>5, <2>2, <2>4 DEF Starting
  <2>5. QED
    BY <2>1, <2>3, <2>4 DEF ExclusionInv, OpenIsKnown
<1>9. QED
  BY <1>3, <1>6, <1>7, <1>8

-----------------------------------------------------------------------------
Core == /\ QueueOK /\ TasksOK /\ ReadsAfterSwitch
        /\ BeliefAtStart /\ ReadsBelieved /\ OpenIsKnown

AllOff == \A tm \in Timers : valve[tm] = 0

\* A stop of the believed device, or a read of it, that sees it idle: every
\* valve is closed.
LEMMA SeenIdle ==
  ASSUME ExclusionInv, NEW t \in Tasks, Holds(t), task[t].pc = "acted",
         Stopping(task[t]) \/ Reconciling(task[t]), valve[task[t].timer] = 0
  PROVE  AllOff
<1> SUFFICES ASSUME NEW tm \in Timers, valve[tm] # 0
             PROVE  FALSE
  BY DEF AllOff
<1>1. CASE active # None /\ Waters(tm, active)
  <2>1. task[t].dev = active[1]
    BY <1>1 DEF ExclusionInv, BeliefAtStart, ReadsBelieved
  <2>2. task[t].timer = config[active[1]]
    BY <2>1 DEF ExclusionInv, TasksOK, TaskOK
  <2>3. QED
    BY <1>1, <2>2 DEF Waters
<1>2. CASE \E u \in Tasks : Starting(task[u]) /\ task[u].pc = "acted"
  BY <1>2 DEF ExclusionInv, QueueOK, Holds, Starting, Stopping, Reconciling
<1>3. QED
  BY <1>1, <1>2 DEF ExclusionInv, OpenIsKnown

\* Answering a request that opened nothing keeps the invariant.
LEMMA AnswerQuiet ==
  ASSUME ExclusionInv, NEW t \in Tasks, NEW q, QueueFor(t, q), Answer(t, q),
         UNCHANGED <<config, active, valve>>,
         Starting(task[t]) /\ task[t].pc = "acted" => valve[task[t].timer] = 0
  PROVE  Core'
<1>1. Idle \in Request /\ Moves(t, Idle, q) /\ Shape(t, Idle)
  BY AnswerMoves
<1>2. Idle.kind = "none"
  BY DEF Idle
<1>3. QED
  BY <1>1, <1>2, QuietStep DEF Core, Starting, Stopping

\* What a handler does with an outcome it may get keeps the invariant.
LEMMA ResumeStep ==
  ASSUME Disciplined, ExclusionInv, NEW t \in Tasks, Busy(task[t]),
         NEW q, QueueFor(t, q), NEW ok \in BOOLEAN,
         Resume(t, task[t], ok, q), UNCHANGED <<config, valve>>,
         ~ok /\ Starting(task[t]) /\ task[t].pc = "acted" => valve[task[t].timer] = 0,
         ok => /\ Holds(t) /\ task[t].pc = "acted" /\ q = Tail(lockq)
               /\ Starting(task[t]) => valve[task[t].timer] # 0
               /\ ~Starting(task[t]) => valve[task[t].timer] = 0
  PROVE  Core' /\ (active # None /\ active' = None => AllOff)
<1> DEFINE r == task[t]
<1>0. r \in Request /\ q \in Seq(Tasks)
  BY DEF ExclusionInv, TypeInv, TypeOK, QueueFor
<1>1. CASE /\ ~ok /\ r.attempt < Tries(r)
           /\ Again(t, r, q)
           /\ UNCHANGED <<active, persisted>>
  <2>1. PICK n \in Request : Moves(t, n, q) /\ SameRequest(n, r) /\ n.pc = "retry"
    BY <1>0, <1>1, AgainMoves
  <2>2. r.kind # "reconcile"
    <3>1. r.attempt >= 1 /\ r.attempt \in Nat
      BY <1>0, RequestFields, AttemptNumbers
    <3>2. r.kind = "reconcile" => Tries(r) = 1
      BY DEF Tries
    <3>3. QED
      BY <1>1, <3>1, <3>2
  <2>3. n.kind # "reconcile" /\ Shape(t, n)
    BY <2>1, <2>2, ShapeKept DEF SameRequest
  <2>4. /\ Starting(n) => active \in {None, n.goal}
        /\ Stopping(n) => active = None \/ active[1] = n.dev
    BY <2>1 DEF Starting, Stopping, SameRequest, ExclusionInv, BeliefAtStart
  <2>5. Core'
    BY <1>1, <2>1, <2>3, <2>4, QuietStep DEF Core
  <2>6. QED
    BY <1>1, <2>5
<1>2. CASE /\ r.kind = "zone start" /\ r.op = "stop" /\ ok
           /\ SetActive(None)
           /\ CallRun(t, [r EXCEPT !.op = "start", !.dev = r.goal[1], !.attempt = 1], q)
  <2> DEFINE s == [r EXCEPT !.op = "start", !.dev = r.goal[1], !.attempt = 1]
  <2>1. AllOff
    BY <1>2, SeenIdle DEF Stopping, Starting
  <2>2. 1 \in 1..RetryAttempts /\ r.goal[1] \in Nat
    BY <1>0, AttemptNumbers, RequestFields
  <2>3. /\ s \in Request /\ s.attempt = 1 /\ s.kind = "zone start" /\ s.op = "start"
        /\ s.dev = r.goal[1] /\ s.goal = r.goal
    BY <1>0, <1>2, <2>2 DEF Request
  <2>4. CallRun(t, s, q)
    BY <1>2
  <2> HIDE DEF s
  <2>5. PICK n \in Request : /\ Moves(t, n, q)
                             /\ n = Idle \/ SameRequest(n, s)
    BY <2>3, <2>4, CallRunMoves, AttemptNumbers DEF ExclusionInv
  <2>6. n.kind # "reconcile" /\ Shape(t, n)
    <3>1. CASE n = Idle
      BY <3>1 DEF Shape, Idle
    <3>2. CASE SameRequest(n, s)
      BY <1>2, <2>3, <3>2 DEF Shape, SameRequest, ExclusionInv, TasksOK, TaskOK
    <3>3. QED
      BY <2>5, <3>1, <3>2
  <2>7. QED
    BY <1>2, <2>1, <2>5, <2>6, DropStep DEF Core, AllOff, SetActive
<1>3. CASE /\ r.kind = "zone start" /\ r.op = "start" /\ ok
           /\ SetActive(r.goal) /\ Answer(t, q)
  <2>1. Starting(r)
    BY <1>3 DEF Starting
  <2>2. Core'
    BY <1>3, <2>1, BelieveStep DEF Core, SetActive
  <2>3. r.goal # None
    <3>1. r.goal \in Goals
      BY <1>3 DEF ExclusionInv, TasksOK, TaskOK
    <3>2. r.goal[2] \in Zone /\ ZoneCount \in Nat
      BY <3>1, GoalsType, ZonesAssumption
    <3>3. QED
      BY <3>2, NoneType DEF Zone
  <2>4. QED
    BY <1>3, <2>2, <2>3 DEF SetActive
<1>4. CASE r.kind = "reconcile" /\ ok /\ SetActive(None) /\ Answer(t, q)
  <2>1. AllOff
    BY <1>4, SeenIdle DEF Reconciling, Starting
  <2>2. Idle \in Request /\ Moves(t, Idle, q) /\ Shape(t, Idle) /\ Idle.kind = "none"
    BY <1>4, AnswerMoves DEF Idle
  <2>3. QED
    BY <1>4, <2>1, <2>2, DropStep DEF Core, AllOff, SetActive
<1>5. CASE Answer(t, q) /\ UNCHANGED <<active, persisted>> /\ ~(ok /\ Starting(r))
  <2>1. Core'
    BY <1>5, AnswerQuiet
  <2>2. QED
    BY <1>5, <2>1
<1>6. r.kind \in {"zone start", "reconcile", "stop"}
  BY DEF ExclusionInv, TasksOK, TaskOK
<1>7. CASE r.kind = "zone start" /\ AfterZoneStart(t, r, ok, q)
  BY <1>2, <1>3, <1>5, <1>7 DEF AfterZoneStart, Starting
<1>8. CASE r.kind = "reconcile" /\ AfterReconcile(t, ok, q)
  <2>1. CASE ok
    BY <1>4, <1>8, <2>1 DEF AfterReconcile
  <2>2. CASE ~ok
    BY <1>5, <1>8, <2>2 DEF AfterReconcile
  <2>3. QED
    BY <2>1, <2>2
<1>9. CASE r.kind = "stop" /\ Answer(t, q) /\ UNCHANGED <<active, persisted>>
  BY <1>5, <1>9 DEF Starting
<1>10. QED
  BY <1>1, <1>6, <1>7, <1>8, <1>9 DEF Resume

\* Every step of a disciplined server keeps the invariant.
LEMMA ExclusionStep ==
  ASSUME Disciplined, ExclusionInv, [Next]_vars
  PROVE  ExclusionInv' /\ (active # None /\ active' = None => AllOff)
<1>0. TypeInv' /\ \A t \in Tasks : task[t] \in Request
  BY TypeStep DEF ExclusionInv, TypeInv, TypeOK
<1> DEFINE Goal == config' = config /\ Core' /\ (active # None /\ active' = None => AllOff)
<1>1. ASSUME NEW t \in Tasks, NEW q, QueueFor(t, q), NEW r \in Request, CallRun(t, r, q),
             r.attempt < RetryAttempts \/ ~job, UNCHANGED <<config, active, valve>>,
             r.kind \in {"zone start", "reconcile", "stop"},
             \A n \in Request : SameRequest(n, r) /\ (n.pc = "retry" => job) => Shape(t, n),
             r.kind = "reconcile" => active # None /\ r.dev = active[1],
             r.kind = "zone start" /\ r.op = "start" => active \in {None, r.goal},
             r.kind = "zone start" /\ r.op = "stop" => active = None \/ active[1] = r.dev,
             ~(Starting(task[t]) /\ task[t].pc = "acted")
      PROVE  Goal
  <2>1. PICK n \in Request : /\ Moves(t, n, q)
                             /\ n = Idle \/ SameRequest(n, r)
                             /\ n.pc = "retry" => job
    BY <1>1, CallRunMoves DEF ExclusionInv
  <2>2. CASE n = Idle
    <3>1. Shape(t, n) /\ n.kind = "none"
      BY <2>2 DEF Shape, Idle
    <3>2. Core'
      BY <1>1, <2>1, <3>1, QuietStep DEF Core, Starting, Stopping
    <3>3. QED
      BY <1>1, <3>2
  <2>3. CASE SameRequest(n, r)
    <3>1. Shape(t, n)
      BY <1>1, <2>1, <2>3
    <3>2. Core'
      BY <1>1, <2>1, <2>3, <3>1, QuietStep DEF Core, SameRequest, Starting, Stopping
    <3>3. QED
      BY <1>1, <3>2
  <2>4. QED
    BY <2>1, <2>2, <2>3
<1>2. ASSUME NEW t \in Tasks, NEW goal \in Goals, ZonesStart(t, goal)
      PROVE  Goal
  <2> DEFINE switch == active # None /\ active # goal
             r == [Idle EXCEPT !.kind = "zone start", !.goal = goal,
                               !.op  = IF switch THEN "stop" ELSE "start",
                               !.dev = IF switch THEN active[1] ELSE goal[1]]
  <2>1. goal \in Nat \X (0..ZoneCount) /\ goal[1] \in Nat /\ active[1] \in Nat
    BY GoalsType DEF ExclusionInv, TypeInv, TypeOK
  <2>2. /\ (IF switch THEN "stop" ELSE "start") \in {"start", "stop", "read"}
        /\ (IF switch THEN active[1] ELSE goal[1]) \in Nat
    BY <2>1
  <2>3. r \in Request
    BY ZenonT(40), <2>1, <2>2, ArrivalType
  <2>4. /\ r.attempt = 1 /\ r.kind = "zone start" /\ r.goal = goal
        /\ r.op = (IF switch THEN "stop" ELSE "start")
        /\ r.dev = (IF switch THEN active[1] ELSE goal[1])
    BY DEF Idle
  <2>5. CallRun(t, r, lockq) /\ t \in Starters /\ UNCHANGED <<config, active, valve>>
    BY <1>2 DEF ZonesStart
  <2>6. task[t].pc = "idle" /\ QueueFor(t, lockq)
    BY <1>2, QueueWithout DEF ZonesStart, Free
  <2> HIDE DEF r
  <2>7. \A n \in Request : SameRequest(n, r) => Shape(t, n)
    BY <2>4, <2>5 DEF SameRequest, Shape
  <2>8. ~(Starting(task[t]) /\ task[t].pc = "acted") /\ r.attempt < RetryAttempts
    BY <2>4, <2>6, AttemptNumbers
  <2>9. QED
    BY <1>1, <2>3, <2>4, <2>5, <2>6, <2>7, <2>8
<1>3. ASSUME NEW t \in Tasks, ZonesReconcile(t)
      PROVE  Goal
  <2> DEFINE r == [Idle EXCEPT !.kind = "reconcile", !.dev = active[1]]
  <2>1. active[1] \in Nat /\ active # None
    BY <1>3 DEF ExclusionInv, TypeInv, TypeOK, ZonesReconcile
  <2>2. r \in Request
    BY <2>1, ArrivalType, NoneType
  <2>3. r.kind = "reconcile" /\ r.dev = active[1] /\ r.op = "read"
    BY DEF Idle
  <2>4. CallRun(t, r, lockq) /\ UNCHANGED <<config, active, valve>> /\ ~job
    BY <1>3 DEF ZonesReconcile, RunOnce
  <2>5. task[t].pc = "idle" /\ QueueFor(t, lockq)
    BY <1>3, QueueWithout DEF ZonesReconcile, Free
  <2> HIDE DEF r
  <2>6. \A n \in Request : SameRequest(n, r) /\ (n.pc = "retry" => job) => Shape(t, n)
    BY <2>3, <2>4 DEF SameRequest, Shape
  <2>7. QED
    BY <1>1, <2>1, <2>2, <2>3, <2>4, <2>5, <2>6
<1>4. ASSUME NEW t \in Tasks, NEW dev \in DOMAIN config, RestStop(t, dev)
      PROVE  Goal
  <2> DEFINE r == [Idle EXCEPT !.kind = "stop", !.op = "stop", !.dev = dev]
  <2>1. dev \in Nat
    BY DEF ExclusionInv, TypeInv, TypeOK
  <2>2. r \in Request
    BY <2>1, ArrivalType, NoneType
  <2>3. r.kind = "stop" /\ r.op = "stop"
    BY DEF Idle
  <2>4. CallRun(t, r, lockq) /\ UNCHANGED <<config, active, valve>> /\ ~job
    BY <1>4 DEF RestStop, RunOnce
  <2>5. task[t].pc = "idle" /\ QueueFor(t, lockq)
    BY <1>4, QueueWithout DEF RestStop, Free
  <2> HIDE DEF r
  <2>6. \A n \in Request : SameRequest(n, r) => Shape(t, n)
    BY <2>3 DEF SameRequest, Shape
  <2>7. QED
    BY <1>1, <2>2, <2>3, <2>4, <2>5, <2>6
<1>5. ASSUME NEW t \in Tasks, EarlyError(t)
      PROVE  Goal
  <2>1. QueueFor(t, Tail(lockq)) /\ Busy(task[t]) /\ task[t].pc # "acted"
    BY <1>5, QueueWithout DEF EarlyError, Busy
  <2>2. Core' /\ (active # None /\ active' = None => AllOff)
    BY <1>5, <2>1, ResumeStep DEF EarlyError
  <2>3. QED
    BY <1>5, <2>2 DEF EarlyError
<1>6. ASSUME NEW t \in Tasks, ReadBack(t)
      PROVE  Goal
  <2>1. /\ QueueFor(t, Tail(lockq)) /\ Busy(task[t]) /\ task[t].pc = "acted"
        /\ Holds(t) /\ UNCHANGED <<config, valve>>
    BY <1>6, QueueWithout DEF ReadBack, Busy
  <2> DEFINE seen == valve[task[t].timer]
             ok == Confirmed(task[t], seen)
  <2>2. Resume(t, task[t], ok, Tail(lockq))
    <3>1. Replies(t) = {seen}
      BY <2>1, RepliesType DEF Disciplined, ExclusionInv
    <3>2. QED
      BY <1>6, <3>1 DEF ReadBack, Disciplined
  <2>3. /\ ok \in BOOLEAN
        /\ Starting(task[t]) => (ok <=> seen # 0)
        /\ ~Starting(task[t]) => (ok <=> seen = 0)
    BY <2>1 DEF Confirmed, Starting, ExclusionInv, TasksOK, TaskOK
  <2> HIDE DEF ok
  <2>4. Core' /\ (active # None /\ active' = None => AllOff)
    BY <2>1, <2>2, <2>3, ResumeStep
  <2>5. QED
    BY <2>1, <2>4
<1>7. ASSUME NEW t \in Tasks, Retry(t)
      PROVE  Goal
  <2>1. QueueFor(t, lockq) /\ Busy(task[t]) /\ task[t].pc = "retry"
    BY <1>7, QueueWithout DEF Retry, Busy
  <2>2. CASE Resume(t, task[t], FALSE, lockq)
    <3>1. Core' /\ (active # None /\ active' = None => AllOff)
      BY <1>7, <2>1, <2>2, ResumeStep DEF Retry
    <3>2. QED
      BY <1>7, <3>1 DEF Retry
  <2>3. CASE /\ ~(job /\ task[t].attempt >= Tries(task[t]))
             /\ CallRun(t, task[t], lockq) /\ UNCHANGED <<active, persisted>>
    <3>1. task[t].attempt < RetryAttempts \/ ~job
      BY <1>0, <2>3, TriesBound, RequestFields, AttemptNumbers
    <3>2. task[t].kind \in {"zone start", "stop"}
      BY <2>1 DEF ExclusionInv, TasksOK, TaskOK, Busy
    <3>3. \A n \in Request : SameRequest(n, task[t]) => Shape(t, n)
      BY <2>1, <3>2, ShapeKept DEF SameRequest
    <3>4. /\ task[t].kind = "zone start" /\ task[t].op = "start" => active \in {None, task[t].goal}
          /\ task[t].kind = "zone start" /\ task[t].op = "stop" => active = None \/ active[1] = task[t].dev
      BY <2>1 DEF ExclusionInv, BeliefAtStart, Starting, Stopping
    <3>5. UNCHANGED <<config, active, valve>>
      BY <1>7, <2>3 DEF Retry
    <3>6. QED
      BY <1>0, <1>1, <2>1, <2>3, <3>1, <3>2, <3>3, <3>4, <3>5
  <2>4. QED
    BY <1>7, <2>2, <2>3 DEF Retry
<1>8. ASSUME NEW t \in Tasks, Act(t)
      PROVE  Goal
  <2> DEFINE tm == task[t].timer
             n == Armed(t)
  <2>1. /\ task[t].pc = "wait" /\ Holds(t)
        /\ task[t].kind \in {"zone start", "reconcile", "stop"}
        /\ tm \in Timers /\ task[t].dev \in DOMAIN config /\ tm = config[task[t].dev]
    BY <1>8 DEF Act, ExclusionInv, TasksOK, TaskOK, Busy, TypeInv, TimersResolved
  <2>2. /\ task' = [task EXCEPT ![t] = n]
        /\ \/ valve' = [valve EXCEPT ![tm] = Effect(task[t], @)]
           \/ valve' = valve
        /\ UNCHANGED <<config, active, lockq>>
    BY <1>0, <1>8, <2>1, ArmedRequest DEF Act, TimerOf, ExclusionInv
  <2>3. n.pc = "acted" /\ n.timer = tm /\ SameRequest(n, task[t])
    BY <1>8, <2>1, ArmedRequest DEF ExclusionInv, SameRequest, TimerOf
  <2> HIDE DEF n
  <2>4. task'[t] = n /\ \A u \in Tasks : u # t => task'[u] = task[u]
    BY <2>2 DEF ExclusionInv, TypeInv, TypeOK
  <2>5. \A u \in Tasks : /\ Starting(task'[u]) = Starting(task[u])
                         /\ Stopping(task'[u]) = Stopping(task[u])
                         /\ Reconciling(task'[u]) = Reconciling(task[u])
                         /\ SameRequest(task'[u], task[u])
    BY <2>1, <2>3, <2>4 DEF Starting, Stopping, Reconciling, Busy, SameRequest
  <2>6. QueueOK'
    <3>1. \A u \in Tasks : task'[u].pc \in {"wait", "acted"} <=> task[u].pc \in {"wait", "acted"}
      BY <2>1, <2>3, <2>4
    <3>2. \A u \in Tasks : task'[u].pc = "acted" => Holds(u)
      BY <2>1, <2>4 DEF ExclusionInv, QueueOK
    <3>3. \A i \in DOMAIN lockq : lockq[i] \in Tasks
      BY DEF ExclusionInv, TypeInv, TypeOK
    <3>4. QED
      BY <2>2, <3>1, <3>2, <3>3 DEF QueueOK, Holds, ExclusionInv
  <2>7. TasksOK'
    <3>0. Shape(t, n)
      BY <2>1, <2>3, ShapeKept DEF Busy
    <3>1. TaskOK(t)'
      BY <2>1, <2>2, <2>3, <2>4, <3>0 DEF TaskOK, Shape, SameRequest, Starting, Busy
    <3>2. ASSUME NEW u \in Tasks, u # t
          PROVE  TaskOK(u)'
      BY ZenonT(40), <2>2, <2>4, <3>2 DEF TaskOK, ExclusionInv, TasksOK, Starting, Busy
    <3>3. QED
      BY <3>1, <3>2 DEF TasksOK
  <2>8. ReadsAfterSwitch'
    <3>1. \A i \in DOMAIN lockq : lockq[i] \in Tasks
      BY DEF ExclusionInv, TypeInv, TypeOK
    <3>2. QED
      BY <2>2, <2>5, <3>1 DEF ReadsAfterSwitch, ExclusionInv, SameRequest
  <2>9. BeliefAtStart' /\ ReadsBelieved'
    BY <2>2, <2>5 DEF BeliefAtStart, ReadsBelieved, ExclusionInv, SameRequest
  <2>10. OpenIsKnown'
    <3> SUFFICES ASSUME NEW x \in Timers, valve'[x] # 0
                 PROVE  \/ active # None /\ Waters(x, active)'
                        \/ \E u \in Tasks : /\ Starting(task'[u]) /\ task'[u].pc = "acted"
                                            /\ Waters(x, task[u].goal)'
      BY <2>2 DEF OpenIsKnown, Waters
    <3>1. CASE valve'[x] = valve[x]
      <4>1. ~\E u \in Tasks : Starting(task[u]) /\ task[u].pc = "acted"
        BY <2>1 DEF ExclusionInv, QueueOK, Holds
      <4>2. active # None /\ Waters(x, active)
        BY <3>1, <4>1 DEF ExclusionInv, OpenIsKnown
      <4>3. QED
        BY <2>2, <3>1, <4>2 DEF Waters
    <3>2. CASE valve'[x] # valve[x]
      <4>1. x = tm /\ valve'[x] = Effect(task[t], valve[x])
        BY <2>1, <2>2, <3>2 DEF ExclusionInv, TypeInv, TypeOK
      <4>2. task[t].op = "start" /\ valve'[x] = task[t].goal[2]
        BY <3>2, <4>1 DEF Effect
      <4>3. Starting(task[t])
        BY <2>1, <4>2 DEF Starting, Busy, ExclusionInv, TasksOK, TaskOK
      <4>4. task[t].dev = task[t].goal[1]
        BY <4>3 DEF ExclusionInv, TasksOK, TaskOK
      <4>5. Waters(x, task[t].goal)'
        BY <2>1, <2>2, <2>3, <2>4, <4>1, <4>2, <4>4 DEF Waters, SameRequest
      <4>6. QED
        BY <2>3, <2>4, <2>5, <4>3, <4>5
    <3>3. QED
      BY <3>1, <3>2
  <2>11. QED
    BY <2>2, <2>6, <2>7, <2>8, <2>9, <2>10 DEF Core
<1>9. ASSUME UNCHANGED <<config, active, lockq, task>>
      PROVE  QueueOK' /\ TasksOK' /\ ReadsAfterSwitch' /\ BeliefAtStart' /\ ReadsBelieved'
  <2>1. QueueOK' = QueueOK
    BY <1>9 DEF QueueOK, Holds
  <2>2. TasksOK' = TasksOK
    BY <1>9 DEF TasksOK, TaskOK, Starting, Busy
  <2>3. ReadsAfterSwitch' = ReadsAfterSwitch /\ ReadsBelieved' = ReadsBelieved
    BY <1>9 DEF ReadsAfterSwitch, ReadsBelieved, Starting, Reconciling, Busy
  <2>4. BeliefAtStart' = BeliefAtStart
    BY <1>9 DEF BeliefAtStart, Starting, Stopping, Busy
  <2>5. QED
    BY <2>1, <2>2, <2>3, <2>4 DEF ExclusionInv
<1>10. ASSUME NEW tm \in Timers, AutoStop(tm)
       PROVE  Goal
  <2>1. \A x \in Timers : valve'[x] # 0 => valve'[x] = valve[x]
    BY <1>10 DEF AutoStop, ExclusionInv, TypeInv, TypeOK
  <2>2. UNCHANGED <<config, active, lockq, task>>
    BY <1>10 DEF AutoStop
  <2>3. OpenIsKnown'
    <3> SUFFICES ASSUME NEW x \in Timers, valve'[x] # 0
                 PROVE  \/ active # None /\ Waters(x, active)'
                        \/ \E u \in Tasks : /\ Starting(task[u]) /\ task[u].pc = "acted"
                                            /\ Waters(x, task[u].goal)'
      BY <2>2 DEF OpenIsKnown, Waters
    <3>1. valve'[x] = valve[x]
      BY <2>1
    <3>3. \/ active # None /\ Waters(x, active)
          \/ \E u \in Tasks : /\ Starting(task[u]) /\ task[u].pc = "acted"
                              /\ Waters(x, task[u].goal)
      BY <3>1 DEF ExclusionInv, OpenIsKnown
    <3>4. QED
      BY <2>2, <3>1, <3>3 DEF Waters
  <2>4. QED
    BY <1>9, <2>2, <2>3 DEF Core
<1>11. ASSUME OnboardJob \/ UNCHANGED vars
       PROVE  Goal
  <2>1. UNCHANGED <<config, active, lockq, task, valve>>
    BY <1>11 DEF OnboardJob, vars
  <2>2. OpenIsKnown' = OpenIsKnown
    BY <2>1 DEF OpenIsKnown, Waters, Starting, Busy
  <2>3. QED
    BY <1>9, <2>1, <2>2 DEF Core, ExclusionInv
<1>12. \A t \in Tasks : /\ ~ZonesStopAll(t) /\ ~LateError(t) /\ ~Published(t)
                       /\ \A goal \in Goals : ~RestStart(t, goal) /\ ~FireStart(t, goal)
  BY DEF Disciplined, ZonesStopAll, LateError, RestStart, FireStart, Free, Published,
         ExclusionInv, TasksOK, TaskOK
<1>13. /\ ~Restart
       /\ \A tm \in Timers : ~AddDevice(tm)
       /\ \A i \in DOMAIN config : ~RemoveDevice(i)
  BY DEF Disciplined, Restart, AddDevice, RemoveDevice
<1>14. Goal
  BY <1>2, <1>3, <1>4, <1>5, <1>6, <1>7, <1>8, <1>10, <1>11, <1>12, <1>13 DEF Next, Work
<1>15. QED
  BY <1>0, <1>14 DEF ExclusionInv, Core, ConfigStays

\* The server starts with no request and no open valve.
LEMMA ExclusionInit == Init => ExclusionInv
<1> SUFFICES ASSUME Init PROVE ExclusionInv
  OBVIOUS
<1>1. TypeInv /\ ConfigStays
  BY TypeInit DEF Init, ConfigStays
<1>2. /\ \A t \in Tasks : task[t].pc = "idle" /\ task[t].kind = "none"
      /\ DOMAIN lockq = {} /\ \A tm \in Timers : valve[tm] = 0 /\ active = None
  BY EmptySeq DEF Init, Idle
<1>3. QED
  BY <1>1, <1>2 DEF ExclusionInv, QueueOK, TasksOK, TaskOK, BeliefAtStart, ReadsBelieved,
                    ReadsAfterSwitch, OpenIsKnown, Starting, Stopping, Reconciling, Busy

\* With any number of timers, zones, requests and retries, a disciplined server
\* (one dashboard start at a time beside reconciles, stops and onboarding jobs only,
\* true read-backs, no bridge, no restart) keeps the lock's queue in order, has each
\* queued reconcile read the device that is believed by then, and knows of every
\* open valve: it is the believed one, or one that a start has opened and not yet
\* read back (zones_start, zones: server.py:851-874, 891-905).
THEOREM ExclusionInvariant == Disciplined => (Spec => []ExclusionInv)
<1> SUFFICES ASSUME Disciplined PROVE Spec => []ExclusionInv
  OBVIOUS
<1>1. ExclusionInv /\ [Next]_vars => ExclusionInv'
  BY ExclusionStep
<1>2. QED
  BY ExclusionInit, <1>1, PTL DEF Spec

\* Two open valves would both be the believed one, or the one a start opened.
LEMMA KnownOpenIsOne == ExclusionInv => AtMostOneOpen
<1> SUFFICES ASSUME ExclusionInv, NEW a \in Timers, NEW b \in Timers,
                    valve[a] # 0, valve[b] # 0
             PROVE  a = b
  BY DEF AtMostOneOpen
<1> DEFINE Opened(u, x) == Starting(task[u]) /\ task[u].pc = "acted" /\ Waters(x, task[u].goal)
<1>1. \A x \in Timers : valve[x] # 0 => \/ active # None /\ Waters(x, active)
                                       \/ \E u \in Tasks : Opened(u, x)
  BY DEF ExclusionInv, OpenIsKnown
<1>2. \A u, w \in Tasks : task[u].pc = "acted" /\ task[w].pc = "acted" => u = w
  BY DEF ExclusionInv, QueueOK, Holds
<1>3. \A u \in Tasks : Starting(task[u]) => active = None \/ active = task[u].goal
  BY DEF ExclusionInv, BeliefAtStart
<1>4. QED
  BY <1>1, <1>2, <1>3 DEF Waters

\* With one dashboard start at a time, no stop-all, no start by REST, MQTT or the
\* scheduler, no device added or removed, no restart, no bridge, and operations
\* that read back truly once they reached their timer, zones_start never leaves two
\* valves open, on any number of timers: whatever its retries, any number of
\* reconciles and single-zone stops, failed connections, lost commands, failed
\* writes of the file and onboarding refusals do.
THEOREM OneZoneAtATime == Disciplined => (Spec => []AtMostOneOpen)
BY ExclusionInvariant, KnownOpenIsOne, PTL

\* Under the same conditions, which leave stop-all out (it does drop a belief over
\* an open valve), the stop before a switch and a reconcile drop the believed zone
\* only in a step where every valve is closed: no reconcile that read another
\* device earlier can erase a zone that has been started since.
THEOREM BeliefDroppedWhenOff == Disciplined => (Spec => ClearedOnlyWhenOff)
<1> SUFFICES ASSUME Disciplined PROVE Spec => ClearedOnlyWhenOff
  OBVIOUS
<1> DEFINE A == active # None /\ active' = None /\ active[1] \in DOMAIN config =>
                  valve[config[active[1]]] = 0
<1>1. ExclusionInv /\ [Next]_vars => [A]_vars
  <2> SUFFICES ASSUME ExclusionInv, [Next]_vars, active # None, active' = None,
                      active[1] \in DOMAIN config
               PROVE  valve[config[active[1]]] = 0
    OBVIOUS
  <2>1. AllOff
    BY ExclusionStep
  <2>2. config[active[1]] \in Timers
    BY DEF ExclusionInv, TypeInv, TypeOK
  <2>3. QED
    BY <2>1, <2>2 DEF AllOff
<1>2. QED
  BY <1>1, ExclusionInvariant, PTL DEF Spec, ClearedOnlyWhenOff

-----------------------------------------------------------------------------
(* The server implements OneZone.                                          *)

\* What RunningZone shows: nothing when every valve is closed, else the one open
\* valve under its config index.
RunningShown ==
    /\ RunningZone = None <=> AllOff
    /\ \A z \in Goals : \A tm \in Timers :
          valve[tm] # 0 /\ Waters(tm, z) => RunningZone = z

\* The config lists every open timer, once, so the choice in RunningZone has one
\* candidate at most.
LEMMA OneRuns == ExclusionInv => RunningShown
<1> SUFFICES ASSUME ExclusionInv PROVE RunningShown
  OBVIOUS
<1>1. /\ \A i, j \in DOMAIN config : config[i] = config[j] => i = j
      /\ \A i \in DOMAIN config : config[i] \in Timers /\ i # 0
  BY ZonesAssumption DEF ExclusionInv, ConfigStays, TypeInv, TypeOK
<1>2. \A i, j \in DOMAIN config : Open(i) /\ Open(j) => i = j
  BY <1>1, KnownOpenIsOne DEF AtMostOneOpen, Open
<1>3. ASSUME NEW i \in DOMAIN config, Open(i)
      PROVE  RunningZone = <<i, valve[config[i]]>>
  <2>1. (CHOOSE j \in DOMAIN config : Open(j)) = i
    BY <1>2, <1>3
  <2>2. QED
    BY <1>3, <2>1 DEF RunningZone
<1>4. (\A i \in DOMAIN config : ~Open(i)) => RunningZone = None
  BY DEF RunningZone
<1>5. ASSUME NEW tm \in Timers, valve[tm] # 0
      PROVE  \E i \in DOMAIN config : config[i] = tm
  BY <1>5 DEF ExclusionInv, OpenIsKnown, Waters
<1>6. RunningZone = None <=> AllOff
  <2>1. CASE AllOff
    BY <1>1, <1>4, <2>1 DEF AllOff, Open
  <2>2. CASE ~AllOff
    <3>1. PICK tm \in Timers : valve[tm] # 0
      BY <2>2 DEF AllOff
    <3>2. PICK i \in DOMAIN config : config[i] = tm
      BY <1>5, <3>1
    <3>3. RunningZone = <<i, valve[tm]>> /\ i # 0
      BY <1>1, <1>3, <3>1, <3>2 DEF Open
    <3>4. QED
      BY <2>2, <3>3 DEF None
  <2>3. QED
    BY <2>1, <2>2
<1>7. ASSUME NEW z \in Goals, NEW tm \in Timers, valve[tm] # 0, Waters(tm, z)
      PROVE  RunningZone = z
  <2>1. RunningZone = <<z[1], z[2]>>
    BY <1>3, <1>7 DEF Waters, Open
  <2>2. QED
    BY <2>1 DEF Goals
<1>8. QED
  BY <1>6, <1>7 DEF RunningShown

\* When a start is to be sent, an open valve already waters its zone.
LEMMA StartsOnOff ==
  ASSUME ExclusionInv, NEW t \in Tasks, Holds(t), task[t].pc = "wait",
         Starting(task[t]), NEW tm \in Timers, valve[tm] # 0
  PROVE  Waters(tm, task[t].goal)
<1>1. ~\E u \in Tasks : task[u].pc = "acted"
  BY DEF ExclusionInv, QueueOK, Holds
<1>2. active # None /\ Waters(tm, active)
  BY <1>1 DEF ExclusionInv, OpenIsKnown
<1>3. QED
  BY <1>2 DEF ExclusionInv, BeliefAtStart

\* An open valve has a task or the belief behind it.
LEMMA OpenKnown ==
  ASSUME ExclusionInv, NEW tm \in Timers, valve[tm] # 0
  PROVE  \/ active # None /\ Waters(tm, active)
         \/ \E u \in Tasks : task[u].pc = "acted" /\ Waters(tm, task[u].goal)
BY DEF ExclusionInv, OpenIsKnown

\* What a confirmed start finds: its own zone runs.
LEMMA ConfirmedRuns ==
  ASSUME ExclusionInv, NEW t \in Tasks, Starting(task[t]), task[t].pc = "acted",
         valve[task[t].timer] # 0
  PROVE  task[t].goal \in Goals /\ RunningZone = task[t].goal
<1> DEFINE tm == task[t].timer
<1>1. tm \in Timers /\ task[t].goal \in Goals
  BY DEF ExclusionInv, TypeInv, TimersResolved, TasksOK, TaskOK, Starting
<1>2. Waters(tm, task[t].goal)
  <2>1. \A u \in Tasks : task[u].pc = "acted" => u = t
    BY DEF ExclusionInv, QueueOK, Holds
  <2>2. active # None => active = task[t].goal
    BY DEF ExclusionInv, BeliefAtStart
  <2>3. \/ active # None /\ Waters(tm, active)
        \/ \E u \in Tasks : task[u].pc = "acted" /\ Waters(tm, task[u].goal)
    BY <1>1, OpenKnown
  <2>4. QED
    BY <2>1, <2>2, <2>3
<1>3. QED
  BY <1>1, <1>2, OneRuns DEF RunningShown

\* A step of the radio's holder that moves a valve: a start on an idle system, or
\* a stop.
LEMMA ActMaps ==
  ASSUME ExclusionInv, ExclusionInv', NEW t \in Tasks, Act(t)
  PROVE  [Abstract!Next]_(Abstract!vars)
<1> DEFINE tm == task[t].timer
<1>0. task[t].pc = "wait" /\ task[t].kind \in {"zone start", "reconcile", "stop"}
  BY DEF Act, Busy, ExclusionInv, TasksOK, TaskOK
<1>1. /\ task[t].pc = "wait" /\ Holds(t) /\ tm \in Timers
      /\ task[t].dev \in DOMAIN config /\ config[task[t].dev] = tm
  BY <1>0 DEF Act, ExclusionInv, TasksOK, TaskOK, TypeInv, TimersResolved
<1>2. /\ valve' = [valve EXCEPT ![tm] = Effect(task[t], @)] \/ valve' = valve
      /\ config' = config /\ active' = active
  BY <1>0 DEF Act, TimerOf
<1>3. valve \in [Timers -> 0..ZoneCount]
  BY DEF ExclusionInv, TypeInv, TypeOK
<1>4. RunningShown /\ RunningShown'
  BY OneRuns, PTL
<1>5. CASE valve' = valve
  <2>1. RunningZone' = RunningZone
    BY <1>2, <1>5 DEF RunningZone, Open
  <2>2. QED
    BY <1>2, <2>1 DEF Abstract!vars
<1>6. CASE /\ valve' = [valve EXCEPT ![tm] = Effect(task[t], @)] /\ valve' # valve
  <2>1. Effect(task[t], valve[tm]) # valve[tm] /\ valve'[tm] = Effect(task[t], valve[tm])
    BY <1>1, <1>3, <1>6
  <2>2. CASE task[t].op = "start"
    <3>1. Starting(task[t]) /\ task[t].goal \in Goals /\ task[t].dev = task[t].goal[1]
      BY <1>0, <2>2 DEF Starting, Busy, ExclusionInv, TasksOK, TaskOK
    <3>2. valve'[tm] = task[t].goal[2] /\ task[t].goal[2] # valve[tm]
      BY <2>1, <2>2 DEF Effect
    <3>3. AllOff
      <4>1. SUFFICES ASSUME NEW x \in Timers, valve[x] # 0
                     PROVE  FALSE
        BY DEF AllOff
      <4>2. Waters(x, task[t].goal)
        BY <1>1, <3>1, <4>1, StartsOnOff
      <4>3. QED
        BY <1>1, <3>1, <3>2, <4>2 DEF Waters
    <3>4. task[t].goal[2] # 0
      BY <3>1, GoalsType, ZonesAssumption DEF Zone
    <3>5. RunningZone' = task[t].goal
      <4>1. /\ task[t].goal[1] \in DOMAIN config' /\ config'[task[t].goal[1]] = tm
            /\ valve'[tm] # 0
        BY <1>1, <1>2, <3>1, <3>2, <3>4
      <4>2. QED
        BY <1>1, <1>4, <3>1, <3>2, <4>1 DEF RunningShown, Waters
    <3>6. RunningZone = None /\ RunningZone' = task[t].goal
      BY <1>4, <3>3, <3>5 DEF RunningShown
    <3>7. active \in {None, task[t].goal}
      BY <3>1 DEF ExclusionInv, BeliefAtStart
    <3>8. Abstract!Start(task[t].goal)
      BY <1>2, <3>6, <3>7 DEF Abstract!Start
    <3>9. QED
      BY <3>1, <3>8 DEF Abstract!Next
  <2>3. CASE task[t].op # "start"
    <3>1. valve'[tm] = 0 /\ valve[tm] # 0
      BY <2>1, <2>3 DEF Effect
    <3>2. AllOff' /\ ~AllOff
      <4>1. \A x \in Timers : valve[x] # 0 => x = tm
        BY <1>1, <3>1, KnownOpenIsOne DEF AtMostOneOpen
      <4>2. \A x \in Timers : valve'[x] = 0
        BY <1>1, <1>3, <1>6, <3>1, <4>1
      <4>3. QED
        BY <1>1, <3>1, <4>2 DEF AllOff
    <3>3. RunningZone' = None /\ RunningZone # None
      BY <1>4, <3>2 DEF RunningShown
    <3>4. Abstract!Stop
      BY <1>2, <3>3 DEF Abstract!Stop
    <3>5. QED
      BY <3>4 DEF Abstract!Next
  <2>4. QED
    BY <2>2, <2>3
<1>7. QED
  BY <1>2, <1>5, <1>6

\* The end of a run's duration stops what runs.
LEMMA AutoStopMaps ==
  ASSUME ExclusionInv, ExclusionInv', NEW tm \in Timers, AutoStop(tm)
  PROVE  Abstract!Stop
<1>1. /\ valve[tm] # 0 /\ valve' = [valve EXCEPT ![tm] = 0]
      /\ active' = active /\ valve \in [Timers -> 0..ZoneCount]
  BY DEF AutoStop, ExclusionInv, TypeInv, TypeOK
<1>2. \A x \in Timers : valve[x] # 0 => x = tm
  BY <1>1, KnownOpenIsOne DEF AtMostOneOpen
<1>3. AllOff' /\ ~AllOff
  BY <1>1, <1>2 DEF AllOff
<1>4. RunningShown /\ RunningShown'
  BY OneRuns, PTL
<1>5. RunningZone # None /\ RunningZone' = None
  BY <1>3, <1>4 DEF RunningShown
<1>6. QED
  BY <1>1, <1>5 DEF Abstract!Stop

\* Every step of a disciplined server is one of OneZone's, or changes nothing that
\* OneZone shows.
LEMMA StepMaps ==
  ASSUME Disciplined, ExclusionInv, [Next]_vars
  PROVE  [Abstract!Next]_(Abstract!vars)
<1>1. ExclusionInv' /\ (active # None /\ active' = None => AllOff)
  BY ExclusionStep
<1>2. config' = config
  BY <1>1 DEF ExclusionInv, ConfigStays
<1>3. CASE \E t \in Tasks : Act(t)
  BY <1>1, <1>3, ActMaps
<1>4. CASE \E tm \in Timers : AutoStop(tm)
  BY <1>1, <1>4, AutoStopMaps DEF Abstract!Next
<1>5. CASE valve' = valve
  <2>1. RunningZone' = RunningZone
    BY <1>2, <1>5 DEF RunningZone, Open
  <2>2. CASE active' = active
    BY <2>1, <2>2 DEF Abstract!vars
  <2>3. CASE active # None /\ active' = None
    <3>1. RunningZone = None
      BY <1>1, <2>3, OneRuns DEF RunningShown
    <3>2. Abstract!Forget
      BY <2>1, <2>3, <3>1 DEF Abstract!Forget
    <3>3. QED
      BY <3>2 DEF Abstract!Next
  <2>4. CASE active' # active /\ active' # None
    <3>1. PICK t \in Tasks : Believes(t)
      <4>1. ~Restart
        BY DEF Disciplined, Restart
      <4>2. QED
        BY <2>4, <4>1, BeliefMoves DEF SetActive
    <3>2. /\ Starting(task[t]) /\ task[t].pc = "acted" /\ valve[task[t].timer] # 0
          /\ active' = task[t].goal
      BY <3>1 DEF Believes, Believed, SetActive, Starting, Busy, ExclusionInv, TasksOK, TaskOK,
                  Disciplined
    <3>3. RunningZone = active'
      BY <3>2, ConfirmedRuns
    <3>4. Abstract!Believe
      BY <2>1, <2>4, <3>3 DEF Abstract!Believe
    <3>5. QED
      BY <3>4 DEF Abstract!Next
  <2>5. QED
    BY <2>2, <2>3, <2>4
<1>6. QED
  BY <1>3, <1>4, <1>5, ValveMoves

\* Seen from outside, a disciplined server (the same conditions) with its radio,
\* retries, queue and lost commands is the one-zone system: water starts on an idle system and as the
\* dashboard shows, a zone becomes the believed one while it runs, and that belief
\* is dropped when nothing runs.
THEOREM ImplementsOneZone == Disciplined => (Spec => OneZoneSpec)
<1> SUFFICES ASSUME Disciplined PROVE Spec => OneZoneSpec
  OBVIOUS
<1>1. Init => Abstract!Init
  <2> SUFFICES ASSUME Init PROVE Abstract!Init
    OBVIOUS
  <2>1. AllOff /\ active = None
    BY DEF Init, AllOff
  <2>2. RunningZone = None
    BY <2>1, ExclusionInit, OneRuns DEF RunningShown
  <2>3. QED
    BY <2>1, <2>2 DEF Abstract!Init
<1>2. ExclusionInv /\ [Next]_vars => [Abstract!Next]_(Abstract!vars)
  BY StepMaps
<1>3. QED
  BY <1>1, <1>2, ExclusionInvariant, PTL DEF Spec, OneZoneSpec, Abstract!Spec
=============================================================================

------------------------ MODULE DeviceScheduleProof ------------------------
(***************************************************************************)
(* Proofs about on-device schedules, for any number of program slots,      *)
(* rules, requests and link failures.                                      *)
(***************************************************************************)
EXTENDS DeviceSchedule, SequenceTheorems, FiniteSetTheorems, TLAPS

\* What program_from_rules returns fits the timer, and is taken from the rules.
LEMMA ProgramsType ==
    ASSUME NEW rs \in Seq(Rules)
    PROVE  /\ DOMAIN ProgramFromRules(rs) \subseteq ProgramIds
           /\ \A p \in DOMAIN ProgramFromRules(rs) :
                 /\ RuleOf(rs, p) \in EnabledAt(rs)
                 /\ ProgramId(rs, RuleOf(rs, p)) = p
                 /\ ProgramFromRules(rs)[p] = rs[RuleOf(rs, p)].run
                 /\ ProgramFromRules(rs)[p] \in Runs
<1>1. DOMAIN ProgramFromRules(rs) = {ProgramId(rs, i) : i \in EnabledAt(rs)} \cap ProgramIds
  BY DEF ProgramFromRules
<1>2. ASSUME NEW p \in DOMAIN ProgramFromRules(rs)
      PROVE  /\ RuleOf(rs, p) \in EnabledAt(rs)
             /\ ProgramId(rs, RuleOf(rs, p)) = p
             /\ ProgramFromRules(rs)[p] = rs[RuleOf(rs, p)].run
             /\ ProgramFromRules(rs)[p] \in Runs
  <2>1. \E i \in EnabledAt(rs) : ProgramId(rs, i) = p
    BY <1>1
  <2>2. RuleOf(rs, p) \in EnabledAt(rs) /\ ProgramId(rs, RuleOf(rs, p)) = p
    BY <2>1 DEF RuleOf
  <2>3. ProgramFromRules(rs)[p] = rs[RuleOf(rs, p)].run
    BY <1>1 DEF ProgramFromRules
  <2>4. rs[RuleOf(rs, p)] \in Rules
    BY <2>2 DEF EnabledAt
  <2>5. rs[RuleOf(rs, p)].run \in Runs
    BY <2>4 DEF Rules
  <2>6. QED
    BY <2>2, <2>3, <2>5
<1>3. QED
  BY <1>1, <1>2

\* No rules, no programs.
LEMMA NoPrograms == DOMAIN ProgramFromRules(<<>>) = {}
<1>1. EnabledAt(<<>>) = {}
  BY DEF EnabledAt
<1>2. QED
  BY <1>1 DEF ProgramFromRules

\* A request that waits for nothing is well-typed, and so is one that has just
\* been made.
LEMMA IdleType == Idle \in Request /\ Idle.sent = 0 /\ Idle.pc = "idle"
<1>1. <<>> \in Seq(Rules)
  BY EmptySeq
<1>2. 0 \in 0..MaxPrograms
  BY DeviceScheduleAssumption
<1>3. QED
  BY <1>1, <1>2 DEF Idle, Request

\* The lock queue without its head, and with one more waiter.
LEMMA QueueTail ==
    ASSUME NEW q \in Seq(Tasks), q # <<>>
    PROVE  Tail(q) \in Seq(Tasks)
BY HeadTailProperties

LEMMA QueueAppend ==
    ASSUME NEW q \in Seq(Tasks), NEW t \in Tasks
    PROVE  /\ Append(q, t) \in Seq(Tasks)
           /\ q # <<>> => Append(q, t) # <<>> /\ Head(Append(q, t)) = Head(q)
<1>1. Append(q, t) \in Seq(Tasks) /\ Len(Append(q, t)) = Len(q) + 1
      /\ \A i \in 1..Len(q) : Append(q, t)[i] = q[i]
  BY AppendProperties
<1>2. ASSUME q # <<>>
      PROVE  Append(q, t) # <<>> /\ Head(Append(q, t)) = Head(q)
  <2>1. Len(q) \in Nat /\ Len(q) # 0
    BY <1>2, EmptySeq
  <2>2. 1 \in 1..Len(q)
    BY <2>1
  <2>3. QED
    BY <1>1, <2>1, <2>2
<1>3. QED
  BY <1>1, <1>2

-----------------------------------------------------------------------------
(***************************************************************************)
(* The inductive invariant.                                                *)
(***************************************************************************)

InSession(r) == r.pc \in {"arming", "ready", "verify", "closing"}

\* Only the holder of the lock is in a session, and not yet at its end.
OneSession ==
    \A t \in Tasks : InSession(task[t]) =>
       lockq # <<>> /\ Head(lockq) = t /\ ~ended

\* What the session under way has made of the flags ...
FlagsAsSent ==
    \A t \in Tasks :
       /\ task[t].pc = "ready" /\ task[t].kind \in {"control", "fire"}
             => active = task[t].mask
       /\ task[t].pc = "verify" => active = DOMAIN ToSend(task[t])
       /\ task[t].pc = "closing" => active = {}

\* ... and of the slots.
SlotsAsSent ==
    \A t \in Tasks :
       /\ ~InSession(task[t]) => task[t].sent = 0
       /\ \A p \in 1..task[t].sent : p \in DOMAIN ToSend(task[t])
                                        => slots[p] = ToSend(task[t])[p]
       /\ task[t].pc = "verify" => DOMAIN ToSend(task[t]) \subseteq 1..task[t].sent

\* The saved mask and the slots are those of the last confirmed push.
SavedAsPushed ==
    ~torn => /\ mask = DOMAIN ProgramFromRules(pushed)
             /\ \A p \in mask : slots[p] = ProgramFromRules(pushed)[p]

DeviceInv ==
    /\ TypeOK
    /\ OneSession
    /\ FlagsAsSent
    /\ SlotsAsSent
    /\ SavedAsPushed
    /\ ScheduleKept

\* The system starts in it.
LEMMA DeviceInit == Init => DeviceInv
<1> SUFFICES ASSUME Init PROVE DeviceInv
  OBVIOUS
<1>1. /\ rules \in Seq(Rules) /\ pushed \in Seq(Rules) /\ lockq \in Seq(Tasks)
  BY EmptySeq DEF Init
<1>2. task \in [Tasks -> Request] /\ \A t \in Tasks : task[t] = Idle
  BY IdleType DEF Init
<1>3. TypeOK
  BY <1>1, <1>2 DEF Init, TypeOK
<1>4. OneSession /\ FlagsAsSent /\ SlotsAsSent
  BY <1>2, IdleType DEF OneSession, FlagsAsSent, SlotsAsSent, InSession
<1>5. SavedAsPushed /\ ScheduleKept
  BY NoPrograms DEF Init, SavedAsPushed, ScheduleKept
<1>6. QED
  BY <1>3, <1>4, <1>5 DEF DeviceInv

\* While one task is at the head of the lock, no other is in a session.
LEMMA OthersWait ==
    ASSUME DeviceInv, NEW t \in Tasks, Head(lockq) = t, NEW u \in Tasks, u # t
    PROVE  ~InSession(task[u]) /\ task[u].sent = 0
BY DEF DeviceInv, OneSession, SlotsAsSent

\* A request arrives.
LEMMA ArrivalStep ==
    ASSUME DeviceInv, NEW t \in Tasks, NEW r \in Request, Free(t), r.sent = 0,
           JoinLock(t, r), UNCHANGED <<rules, mask, job, device, history>>
    PROVE  DeviceInv'
<1> USE DEF device, history
<1> DEFINE w == [r EXCEPT !.pc = "wait"]
<1>1. w \in Request /\ w.pc = "wait" /\ w.sent = 0
  BY DEF Request
<1>2. /\ task' = [task EXCEPT ![t] = w]
      /\ lockq' = Append(lockq, t)
  BY DEF JoinLock
<1> HIDE DEF w
<1>3. /\ task' \in [Tasks -> Request] /\ task'[t] = w
      /\ \A u \in Tasks : u # t => task'[u] = task[u]
  BY <1>1, <1>2 DEF DeviceInv, TypeOK
<1>4. lockq' \in Seq(Tasks) /\ (lockq # <<>> => lockq' # <<>> /\ Head(lockq') = Head(lockq))
  BY <1>2, QueueAppend DEF DeviceInv, TypeOK
<1>5. TypeOK'
  BY <1>3, <1>4 DEF DeviceInv, TypeOK
<1>6. ~InSession(w)
  BY <1>1 DEF InSession
<1>7. OneSession'
  BY <1>3, <1>4, <1>6 DEF DeviceInv, OneSession
<1>8. FlagsAsSent'
  BY <1>1, <1>3 DEF DeviceInv, FlagsAsSent, ToSend
<1>9. SlotsAsSent'
  BY <1>1, <1>3, <1>6 DEF DeviceInv, SlotsAsSent, ToSend
<1>10. QED
  BY <1>5, <1>7, <1>8, <1>9 DEF DeviceInv, SavedAsPushed, ScheduleKept

\* A request is answered; what is saved and noted down is left to the caller.
LEMMA AnswerStep ==
    ASSUME DeviceInv, NEW t \in Tasks, lockq # <<>>, Head(lockq) = t, Answer(t),
           UNCHANGED <<rules, job, device>>
    PROVE  /\ task' \in [Tasks -> Request] /\ lockq' \in Seq(Tasks)
           /\ OneSession' /\ FlagsAsSent' /\ SlotsAsSent'
<1> USE DEF device
<1>1. /\ task' \in [Tasks -> Request] /\ task'[t] = Idle
      /\ \A u \in Tasks : u # t => task'[u] = task[u]
  BY IdleType DEF Answer, DeviceInv, TypeOK
<1>2. lockq' \in Seq(Tasks)
  BY QueueTail DEF Answer, DeviceInv, TypeOK
<1>3. \A u \in Tasks : ~InSession(task'[u]) /\ task'[u].sent = 0
  BY <1>1, OthersWait, IdleType DEF InSession
<1>4. OneSession'
  BY <1>3 DEF OneSession
<1>5. FlagsAsSent'
  BY <1>3 DEF FlagsAsSent, InSession
<1>6. SlotsAsSent'
  BY <1>3 DEF SlotsAsSent, InSession
<1>7. QED
  BY <1>1, <1>2, <1>4, <1>5, <1>6

\* The holder of the lock goes on with its session, as r.
LEMMA SessionStep ==
    ASSUME DeviceInv, NEW t \in Tasks, lockq # <<>>, Head(lockq) = t,
           NEW r \in Request, InSession(r), task' = [task EXCEPT ![t] = r],
           UNCHANGED <<rules, mask, job, lockq, fresh, pushed>>, ended' = FALSE,
           slots' \in [ProgramIds -> Runs \cup {NoRun}], active' \subseteq ProgramIds,
           torn' \in BOOLEAN,
           r.pc = "ready" /\ r.kind \in {"control", "fire"} => active' = r.mask,
           r.pc = "verify" => /\ active' = DOMAIN ToSend(r)
                              /\ DOMAIN ToSend(r) \subseteq 1..r.sent,
           r.pc = "closing" => active' = {},
           \A p \in 1..r.sent : p \in DOMAIN ToSend(r) => slots'[p] = ToSend(r)[p],
           torn' \/ (torn' = torn /\ slots' = slots)
    PROVE  DeviceInv'
<1>1. /\ task' \in [Tasks -> Request] /\ task'[t] = r
      /\ \A u \in Tasks : u # t => task'[u] = task[u]
  BY DEF DeviceInv, TypeOK
<1>2. \A u \in Tasks : u # t => ~InSession(task'[u]) /\ task'[u].sent = 0
  BY <1>1, OthersWait
<1>3. TypeOK'
  BY <1>1 DEF DeviceInv, TypeOK
<1>4. OneSession'
  BY <1>1, <1>2 DEF OneSession
<1>5. FlagsAsSent'
  BY <1>1, <1>2 DEF FlagsAsSent, ToSend, InSession
<1>6. SlotsAsSent'
  BY <1>1, <1>2 DEF SlotsAsSent, ToSend, InSession
<1>7. SavedAsPushed'
  BY DEF DeviceInv, SavedAsPushed
<1>8. ScheduleKept'
  BY DEF ScheduleKept
<1>9. QED
  BY <1>3, <1>4, <1>5, <1>6, <1>7, <1>8 DEF DeviceInv

\* Every step of the session of the lock's holder keeps the invariant.
LEMMA WorkStep ==
    ASSUME DeviceInv, NEW t \in Tasks, Work(t)
    PROVE  DeviceInv'
<1> DEFINE r == task[t]
<1> USE DEF device, history
<1>1. /\ r \in Request /\ r.rules \in Seq(Rules) /\ r.sent \in 0..MaxPrograms
      /\ r.mask \subseteq ProgramIds /\ task \in [Tasks -> Request]
  BY DEF DeviceInv, TypeOK, Request
<1>2. /\ DOMAIN ToSend(r) \subseteq ProgramIds
      /\ \A p \in DOMAIN ToSend(r) : ToSend(r)[p] \in Runs
  BY <1>1, ProgramsType DEF ToSend
<1>3. lockq # <<>> /\ Head(lockq) = t
  BY DEF Work, Arm, Reenable, EndControl, WriteProgram, SetActivePrograms, Verified,
     Unverified, Cleared, LinkDrops, At
<1>4. \A p \in 1..r.sent : p \in DOMAIN ToSend(r) => slots[p] = ToSend(r)[p]
  BY DEF DeviceInv, SlotsAsSent
<1>5. ASSUME Arm(t)
      PROVE  DeviceInv'
  <2> DEFINE m == BuiltWith(r)
             n == [r EXCEPT !.mask = m, !.pc = AfterSetup(m)]
  <2>1. m \subseteq ProgramIds
    BY <1>1 DEF BuiltWith, DeviceInv, TypeOK
  <2>2. AfterSetup(m) \in {"ready", "arming"} /\ (AfterSetup(m) = "ready" => m = {})
    BY DEF AfterSetup
  <2> HIDE DEF m
  <2>3. n \in Request /\ InSession(n) /\ n.mask = m /\ n.pc = AfterSetup(m)
        /\ n.rules = r.rules /\ n.sent = r.sent /\ n.kind = r.kind
    BY <1>1, <2>1, <2>2 DEF Request, InSession
  <2>4. task' = [task EXCEPT ![t] = n]
    BY <1>1, <1>5 DEF Arm, m
  <2>5. /\ active' = {} /\ ended' = FALSE
        /\ UNCHANGED <<rules, mask, job, slots, lockq, fresh, pushed, torn>>
    BY <1>5 DEF Arm
  <2> HIDE DEF n
  <2>6. \A p \in 1..n.sent : p \in DOMAIN ToSend(n) => slots'[p] = ToSend(n)[p]
    BY <1>4, <2>3, <2>5 DEF ToSend
  <2>7. slots' \in [ProgramIds -> Runs \cup {NoRun}] /\ torn' \in BOOLEAN
    BY <2>5 DEF DeviceInv, TypeOK
  <2>8. n.pc = "ready" => active' = n.mask
    BY <2>2, <2>3, <2>5
  <2>9. n.pc # "verify" /\ n.pc # "closing"
    BY <2>2, <2>3
  <2>10. QED
    BY <1>3, <2>3, <2>4, <2>5, <2>6, <2>7, <2>8, <2>9, SessionStep
<1>6. ASSUME Reenable(t)
      PROVE  DeviceInv'
  <2> DEFINE n == [r EXCEPT !.pc = "ready"]
  <2>1. n \in Request /\ InSession(n) /\ n.mask = r.mask /\ n.pc = "ready"
        /\ n.rules = r.rules /\ n.sent = r.sent /\ n.kind = r.kind
    BY <1>1 DEF Request, InSession
  <2>2. InSession(r)
    BY <1>6 DEF Reenable, At, InSession
  <2>3. ended = FALSE
    BY <2>2 DEF DeviceInv, OneSession, TypeOK
  <2>4. /\ task' = [task EXCEPT ![t] = n]
        /\ active' = r.mask /\ ended' = FALSE
        /\ UNCHANGED <<rules, mask, job, slots, lockq, fresh, pushed, torn>>
    BY <1>1, <1>6, <2>3 DEF Reenable
  <2> HIDE DEF n
  <2>5. \A p \in 1..n.sent : p \in DOMAIN ToSend(n) => slots'[p] = ToSend(n)[p]
    BY <1>4, <2>1, <2>4 DEF ToSend
  <2>6. slots' \in [ProgramIds -> Runs \cup {NoRun}] /\ torn' \in BOOLEAN
    BY <2>4 DEF DeviceInv, TypeOK
  <2>7. QED
    BY <1>1, <1>3, <2>1, <2>4, <2>5, <2>6, SessionStep
<1>7. ASSUME WriteProgram(t)
      PROVE  DeviceInv'
  <2> DEFINE p == r.sent + 1
             n == [r EXCEPT !.sent = p]
  <2>1. p \in DOMAIN ToSend(r) /\ p \in ProgramIds /\ p \in 0..MaxPrograms
    BY <1>2, <1>7 DEF WriteProgram, ProgramIds
  <2>2. n \in Request /\ InSession(n) /\ n.mask = r.mask /\ n.pc = "ready"
        /\ n.rules = r.rules /\ n.sent = p /\ n.kind = "push"
    BY <1>1, <1>7, <2>1 DEF Request, InSession, WriteProgram, At
  <2>3. InSession(r)
    BY <1>7 DEF WriteProgram, At, InSession
  <2>4. ended = FALSE
    BY <2>3 DEF DeviceInv, OneSession, TypeOK
  <2>5. /\ task' = [task EXCEPT ![t] = n]
        /\ slots' = [slots EXCEPT ![p] = ToSend(r)[p]]
        /\ ended' = FALSE /\ torn' = TRUE
        /\ UNCHANGED <<rules, mask, job, active, lockq, fresh, pushed>>
    BY <1>1, <1>7, <2>4 DEF WriteProgram
  <2>6. slots' \in [ProgramIds -> Runs \cup {NoRun}] /\ active' \subseteq ProgramIds
    BY <1>2, <2>1, <2>5 DEF DeviceInv, TypeOK
  <2>7. ASSUME NEW q \in 1..n.sent, q \in DOMAIN ToSend(n)
        PROVE  slots'[q] = ToSend(n)[q]
    <3>1. ToSend(n) = ToSend(r)
      BY <2>2 DEF ToSend
    <3>2. CASE q = p
      BY <2>1, <2>5, <3>1, <3>2 DEF DeviceInv, TypeOK
    <3>3. CASE q # p
      <4>1. q \in 1..r.sent
        BY <1>1, <2>2, <3>3
      <4>2. slots[q] = ToSend(r)[q]
        BY <1>4, <2>7, <3>1, <4>1
      <4>3. slots'[q] = slots[q]
        BY <1>2, <2>5, <2>7, <3>1, <3>3 DEF DeviceInv, TypeOK
      <4>4. QED
        BY <3>1, <4>2, <4>3
    <3>4. QED
      BY <3>2, <3>3
  <2> HIDE DEF n, p
  <2>8. QED
    BY <1>3, <2>2, <2>5, <2>6, <2>7, SessionStep
<1>8. ASSUME SetActivePrograms(t)
      PROVE  DeviceInv'
  <2>1. InSession(r) /\ r.pc = "ready"
    BY <1>8 DEF SetActivePrograms, At, InSession
  <2>2. ended = FALSE
    BY <2>1 DEF DeviceInv, OneSession, TypeOK
  <2>3. slots' = slots /\ slots' \in [ProgramIds -> Runs \cup {NoRun}] /\ ended' = FALSE
        /\ UNCHANGED <<rules, mask, job, lockq, fresh, pushed>>
    BY <1>8, <2>2 DEF SetActivePrograms, DeviceInv, TypeOK
  <2>4. CASE r.kind = "push"
    <3> DEFINE n == [r EXCEPT !.pc = "verify"]
    <3>1. n \in Request /\ InSession(n) /\ n.mask = r.mask /\ n.pc = "verify"
          /\ n.rules = r.rules /\ n.sent = r.sent /\ n.kind = r.kind
      BY <1>1 DEF Request, InSession
    <3>2. ToSend(n) = ToSend(r)
      BY <3>1 DEF ToSend
    <3>3. /\ task' = [task EXCEPT ![t] = n] /\ torn' = TRUE
          /\ active' = DOMAIN ToSend(r) /\ DOMAIN ToSend(r) \subseteq 1..r.sent
      BY <1>1, <1>8, <2>4 DEF SetActivePrograms
    <3> HIDE DEF n
    <3>4. QED
      BY <1>2, <1>3, <1>4, <2>3, <3>1, <3>2, <3>3, SessionStep
  <2>5. CASE r.kind = "clear"
    <3> DEFINE n == [r EXCEPT !.pc = "closing"]
    <3>1. n \in Request /\ InSession(n) /\ n.mask = r.mask /\ n.pc = "closing"
          /\ n.rules = r.rules /\ n.sent = r.sent /\ n.kind = r.kind
      BY <1>1 DEF Request, InSession
    <3>2. ToSend(n) = ToSend(r)
      BY <3>1 DEF ToSend
    <3>3. task' = [task EXCEPT ![t] = n] /\ torn' = torn /\ active' = {}
          /\ torn' \in BOOLEAN
      BY <1>1, <1>8, <2>5 DEF SetActivePrograms, DeviceInv, TypeOK
    <3> HIDE DEF n
    <3>4. QED
      BY <1>3, <1>4, <2>3, <3>1, <3>2, <3>3, SessionStep
  <2>6. QED
    BY <1>8, <2>4, <2>5 DEF SetActivePrograms
<1>9. ASSUME EndControl(t)
      PROVE  DeviceInv'
  <2>1. /\ Answer(t) /\ UNCHANGED <<rules, mask, job, device, pushed, torn>>
        /\ ended' = TRUE /\ fresh' = (task[t].mask = mask)
        /\ task[t].pc = "ready" /\ task[t].kind \in {"control", "fire"}
    BY <1>9 DEF EndControl, At
  <2>2. active = task[t].mask
    BY <2>1 DEF DeviceInv, FlagsAsSent
  <2>3. ScheduleKept'
    BY <2>1, <2>2 DEF ScheduleKept
  <2>4. fresh' \in BOOLEAN
    BY <2>1
  <2>5. SavedAsPushed'
    BY <2>1 DEF DeviceInv, SavedAsPushed
  <2>6. /\ task' \in [Tasks -> Request] /\ lockq' \in Seq(Tasks)
        /\ OneSession' /\ FlagsAsSent' /\ SlotsAsSent'
    BY <1>3, <2>1, AnswerStep
  <2>7. TypeOK'
    BY <2>1, <2>4, <2>6 DEF DeviceInv, TypeOK
  <2>8. QED
    BY <2>3, <2>5, <2>6, <2>7 DEF DeviceInv
<1>10. ASSUME Verified(t)
       PROVE  DeviceInv'
  <2>1. /\ Answer(t) /\ UNCHANGED <<rules, job, device>>
        /\ active = DOMAIN ToSend(r)
        /\ mask' = DOMAIN ToSend(r) /\ pushed' = r.rules
        /\ ended' = TRUE /\ fresh' = TRUE /\ torn' = FALSE
        /\ r.pc = "verify"
    BY <1>10 DEF Verified, At
  <2>2. \A p \in DOMAIN ToSend(r) : slots[p] = ToSend(r)[p]
    BY <1>4, <2>1 DEF DeviceInv, SlotsAsSent
  <2>3. ScheduleKept'
    BY <2>1 DEF ScheduleKept
  <2>4. SavedAsPushed'
    BY <2>1, <2>2 DEF SavedAsPushed, ToSend
  <2>5. /\ task' \in [Tasks -> Request] /\ lockq' \in Seq(Tasks)
        /\ OneSession' /\ FlagsAsSent' /\ SlotsAsSent'
    BY <1>3, <2>1, AnswerStep
  <2>6. TypeOK'
    BY <1>1, <1>2, <2>1, <2>5 DEF DeviceInv, TypeOK
  <2>7. QED
    BY <2>3, <2>4, <2>5, <2>6 DEF DeviceInv
<1>11. ASSUME Cleared(t)
       PROVE  DeviceInv'
  <2>1. /\ Answer(t) /\ UNCHANGED <<rules, job, device>>
        /\ mask' = {} /\ pushed' = <<>>
        /\ ended' = TRUE /\ fresh' = TRUE /\ torn' = FALSE
        /\ r.pc = "closing"
    BY <1>11 DEF Cleared, At
  <2>2. active = {}
    BY <2>1 DEF DeviceInv, FlagsAsSent
  <2>3. ScheduleKept'
    BY <2>1, <2>2 DEF ScheduleKept
  <2>4. SavedAsPushed'
    BY <2>1, NoPrograms DEF SavedAsPushed
  <2>5. /\ task' \in [Tasks -> Request] /\ lockq' \in Seq(Tasks)
        /\ OneSession' /\ FlagsAsSent' /\ SlotsAsSent'
    BY <1>3, <2>1, AnswerStep
  <2>6. pushed' \in Seq(Rules)
    BY <2>1, EmptySeq
  <2>7. TypeOK'
    BY <2>1, <2>5, <2>6 DEF DeviceInv, TypeOK
  <2>8. QED
    BY <2>3, <2>4, <2>5, <2>7 DEF DeviceInv
<1>12. ASSUME Unverified(t) \/ LinkDrops(t)
       PROVE  DeviceInv'
  <2>1. Answer(t) /\ UNCHANGED <<rules, mask, job, device, history>>
    BY <1>12 DEF Unverified, LinkDrops
  <2>2. /\ task' \in [Tasks -> Request] /\ lockq' \in Seq(Tasks)
        /\ OneSession' /\ FlagsAsSent' /\ SlotsAsSent'
    BY <1>3, <2>1, AnswerStep
  <2>3. TypeOK'
    BY <2>1, <2>2 DEF DeviceInv, TypeOK
  <2>4. SavedAsPushed' /\ ScheduleKept'
    BY <2>1 DEF DeviceInv, SavedAsPushed, ScheduleKept
  <2>5. QED
    BY <2>2, <2>3, <2>4 DEF DeviceInv
<1>13. QED
  BY <1>5, <1>6, <1>7, <1>8, <1>9, <1>10, <1>11, <1>12 DEF Work

\* Every step of the system keeps the invariant.
LEMMA DeviceStep == DeviceInv /\ [Next]_vars => DeviceInv'
<1> SUFFICES ASSUME DeviceInv, [Next]_vars
             PROVE  DeviceInv'
  OBVIOUS
<1> USE DEF device, history
<1>1. ASSUME NEW t \in Tasks, Control(t) \/ Fire(t) \/ PushSchedules(t) \/ ClearSchedules(t)
      PROVE  DeviceInv'
  <2>1. /\ [Idle EXCEPT !.kind = "control", !.mask = mask] \in Request
        /\ [Idle EXCEPT !.kind = "fire"] \in Request
        /\ [Idle EXCEPT !.kind = "push", !.rules = rules] \in Request
        /\ [Idle EXCEPT !.kind = "clear"] \in Request
    BY IdleType DEF DeviceInv, TypeOK, Request
  <2>2. /\ [Idle EXCEPT !.kind = "control", !.mask = mask].sent = 0
        /\ [Idle EXCEPT !.kind = "fire"].sent = 0
        /\ [Idle EXCEPT !.kind = "push", !.rules = rules].sent = 0
        /\ [Idle EXCEPT !.kind = "clear"].sent = 0
    BY DEF Idle
  <2>3. \E r \in Request : r.sent = 0 /\ JoinLock(t, r)
    BY <1>1, <2>1, <2>2 DEF Control, Fire, PushSchedules, ClearSchedules
  <2>4. Free(t) /\ UNCHANGED <<rules, mask, job, device, history>>
    BY <1>1 DEF Control, Fire, PushSchedules, ClearSchedules
  <2>5. QED
    BY <2>3, <2>4, ArrivalStep
<1>2. ASSUME PutSchedules \/ OnboardJob \/ UNCHANGED vars
      PROVE  DeviceInv'
  <2>1. rules' \in Seq(Rules) /\ job' \in BOOLEAN
    BY <1>2, DeviceScheduleAssumption DEF PutSchedules, OnboardJob, vars, DeviceInv, TypeOK
  <2>2. UNCHANGED <<mask, device, lockq, task, history>>
    BY <1>2 DEF PutSchedules, OnboardJob, vars
  <2>3. TypeOK'
    BY <2>1, <2>2 DEF DeviceInv, TypeOK
  <2>4. QED
    BY <2>2, <2>3 DEF DeviceInv, OneSession, FlagsAsSent, SlotsAsSent, SavedAsPushed,
       ScheduleKept
<1>3. ASSUME Restart
      PROVE  DeviceInv'
  <2>1. /\ job' = FALSE /\ lockq' = <<>>
        /\ UNCHANGED <<rules, mask, device, history>>
        /\ task' \in [Tasks -> Request] /\ \A t \in Tasks : task'[t] = Idle
    BY <1>3, IdleType DEF Restart
  <2>2. lockq' \in Seq(Tasks)
    BY <2>1, EmptySeq
  <2>3. TypeOK'
    BY <2>1, <2>2 DEF DeviceInv, TypeOK
  <2>4. OneSession' /\ FlagsAsSent' /\ SlotsAsSent'
    BY <2>1, IdleType DEF OneSession, FlagsAsSent, SlotsAsSent, InSession
  <2>5. SavedAsPushed' /\ ScheduleKept'
    BY <2>1 DEF DeviceInv, SavedAsPushed, ScheduleKept
  <2>6. QED
    BY <2>3, <2>4, <2>5 DEF DeviceInv
<1>4. QED
  BY <1>1, <1>2, <1>3, WorkStep DEF Next

LEMMA DeviceInvariant == Spec => []DeviceInv
BY DeviceInit, DeviceStep, PTL DEF Spec

\* Every reachable state is well-typed: no program beyond the timer's slots is
\* ever written or switched on (MAX_PROGRAMS, schedule_device.py:80).
THEOREM DeviceTypeCorrect == Spec => []TypeOK
<1>1. DeviceInv => TypeOK
  BY DEF DeviceInv
<1>2. QED
  BY <1>1, DeviceInvariant, PTL

\* A session with the saved mask that ends well leaves the timer with just the
\* programs of that mask, whatever was cut off before it (bhyve_xd.py:430-441).
THEOREM SessionsKeepSchedules == Spec => []ScheduleKept
<1>1. DeviceInv => ScheduleKept
  BY DEF DeviceInv
<1>2. QED
  BY <1>1, DeviceInvariant, PTL

-----------------------------------------------------------------------------
(***************************************************************************)
(* What the programs are.                                                  *)
(***************************************************************************)

\* A rule list has finitely many enabled rules.
LEMMA EnabledFinite ==
    ASSUME NEW rs \in Seq(Rules)
    PROVE  /\ EnabledAt(rs) \subseteq 1..Len(rs) /\ Len(rs) \in Nat
           /\ IsFiniteSet(EnabledAt(rs)) /\ Cardinality(EnabledAt(rs)) \in Nat
<1>1. EnabledAt(rs) \subseteq 1..Len(rs) /\ Len(rs) \in Nat
  BY DEF EnabledAt
<1>2. IsFiniteSet(1..Len(rs))
  BY <1>1, FS_Interval
<1>3. IsFiniteSet(EnabledAt(rs))
  BY <1>1, <1>2, FS_Subset
<1>4. QED
  BY <1>1, <1>3, FS_CardinalityType

\* Enabled rules have programs of their own, numbered in order from 1.
LEMMA ProgramNumbers ==
    ASSUME NEW rs \in Seq(Rules), NEW i \in EnabledAt(rs)
    PROVE  /\ ProgramId(rs, i) \in 1..Cardinality(EnabledAt(rs))
           /\ \A j \in EnabledAt(rs) : i < j => ProgramId(rs, i) < ProgramId(rs, j)
<1> DEFINE E == EnabledAt(rs)
           UpTo(j) == {k \in E : k <= j}
<1>1. Len(rs) \in Nat /\ E \subseteq 1..Len(rs)
  BY DEF EnabledAt
<1>2. IsFiniteSet(E) /\ Cardinality(E) \in Nat
  BY EnabledFinite
<1>3. ASSUME NEW j \in E
      PROVE  /\ IsFiniteSet(UpTo(j)) /\ Cardinality(UpTo(j)) \in Nat
             /\ Cardinality(UpTo(j)) <= Cardinality(E)
             /\ ProgramId(rs, j) = Cardinality(UpTo(j))
  <2>1. UpTo(j) \subseteq E
    OBVIOUS
  <2>2. QED
    BY <1>2, <2>1, FS_Subset, FS_CardinalityType DEF ProgramId
<1>4. ProgramId(rs, i) >= 1
  <2>1. UpTo(i) # {} /\ IsFiniteSet(UpTo(i))
    BY <1>1, <1>3
  <2> HIDE DEF UpTo
  <2>2. Cardinality(UpTo(i)) # 0
    BY <2>1, FS_EmptySet
  <2>3. QED
    BY <1>3, <2>2
<1>5. ASSUME NEW j \in E, i < j
      PROVE  ProgramId(rs, i) < ProgramId(rs, j)
  <2>1. i \in Int /\ j \in Int
    BY <1>1
  <2>2. UpTo(i) \subseteq UpTo(j) /\ j \in UpTo(j) /\ j \notin UpTo(i)
    BY <1>1, <1>5, <2>1
  <2>3. UpTo(i) # UpTo(j)
    BY <2>2
  <2>4. IsFiniteSet(UpTo(j)) /\ UpTo(i) \in SUBSET UpTo(j)
    BY <1>3, <1>5, <2>2
  <2> HIDE DEF UpTo
  <2>5. Cardinality(UpTo(i)) <= Cardinality(UpTo(j))
        /\ Cardinality(UpTo(i)) # Cardinality(UpTo(j))
    BY <2>3, <2>4, FS_Subset
  <2>6. QED
    BY <1>3, <1>5, <2>5
<1>6. ProgramId(rs, i) \in Nat /\ ProgramId(rs, i) <= Cardinality(E)
  BY <1>3
<1> HIDE DEF UpTo
<1>7. ProgramId(rs, i) \in 1..Cardinality(E)
  BY <1>2, <1>4, <1>6
<1>8. QED
  BY <1>5, <1>7

\* If they all fit, each enabled rule has its program on the timer.
LEMMA AllFit ==
    ASSUME NEW rs \in Seq(Rules), NEW i \in EnabledAt(rs),
           Cardinality(EnabledAt(rs)) <= MaxPrograms
    PROVE  \E p \in DOMAIN ProgramFromRules(rs) : ProgramFromRules(rs)[p] = rs[i].run
<1> DEFINE p == ProgramId(rs, i)
<1>0. EnabledAt(rs) \subseteq 1..Len(rs) /\ Len(rs) \in Nat
  BY EnabledFinite
<1>1. Cardinality(EnabledAt(rs)) \in Nat
  BY EnabledFinite
<1>2. p \in ProgramIds
  <2>1. p \in 1..Cardinality(EnabledAt(rs))
    BY ProgramNumbers
  <2> HIDE DEF p
  <2>2. QED
    BY <1>1, <2>1, DeviceScheduleAssumption DEF ProgramIds
<1>3. p \in DOMAIN ProgramFromRules(rs)
  BY <1>2 DEF ProgramFromRules
<1>4. RuleOf(rs, p) \in EnabledAt(rs) /\ ProgramId(rs, RuleOf(rs, p)) = p
      /\ ProgramFromRules(rs)[p] = rs[RuleOf(rs, p)].run
  BY <1>3, ProgramsType
<1>5. p \in Nat /\ i \in Int /\ RuleOf(rs, p) \in Int
  BY <1>0, <1>2, <1>4 DEF ProgramIds
<1> HIDE DEF p
<1>6. ~(i < RuleOf(rs, p)) /\ ~(RuleOf(rs, p) < i)
  <2>1. ProgramId(rs, i) = p
    BY DEF p
  <2>2. QED
    BY <1>4, <1>5, <2>1, ProgramNumbers
<1>7. RuleOf(rs, p) = i
  BY <1>5, <1>6
<1>8. QED
  BY <1>3, <1>4, <1>7

\* The programs that run are the enabled rules of the last confirmed push, all
\* of them if they fit (program_from_rules and push_schedules).
THEOREM TimerRunsTheRules == Spec => []RunsTheRules
<1>1. DeviceInv => RunsTheRules
  <2> DEFINE wanted == {pushed[i].run : i \in EnabledAt(pushed)}
             running == {slots[p] : p \in active}
  <2> SUFFICES ASSUME DeviceInv, ended, fresh, ~torn
               PROVE  /\ running \subseteq wanted
                      /\ Cardinality(EnabledAt(pushed)) <= MaxPrograms => running = wanted
    BY DEF RunsTheRules
  <2>1. /\ pushed \in Seq(Rules)
        /\ active = DOMAIN ProgramFromRules(pushed)
        /\ \A p \in active : slots[p] = ProgramFromRules(pushed)[p]
    BY DEF DeviceInv, TypeOK, ScheduleKept, SavedAsPushed
  <2>2. running \subseteq wanted
    BY <2>1, ProgramsType
  <2>3. ASSUME Cardinality(EnabledAt(pushed)) <= MaxPrograms, NEW i \in EnabledAt(pushed)
        PROVE  pushed[i].run \in running
    BY <2>1, <2>3, AllFit
  <2>4. QED
    BY <2>2, <2>3
<1>2. QED
  BY <1>1, DeviceInvariant, PTL
=============================================================================

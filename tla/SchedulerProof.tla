--------------------------- MODULE SchedulerProof ---------------------------
(***************************************************************************)
(* Proofs about the host scheduler, for any calendar, timers, rules, grace *)
(* window and sequence of events; first, what next_occurrence returns, for *)
(* every rule and every time.                                              *)
(***************************************************************************)
EXTENDS Scheduler, WellFoundedInduction, SequenceTheorems, TLAPS

\* A set of natural numbers has a least one.
LEMMA LeastNumber ==
    ASSUME NEW S, S \subseteq Nat, S # {}
    PROVE  \E o \in S : \A p \in S : o <= p
<1>1. PICK o \in S : \A p \in S : ~(<<p, o>> \in OpToRel(<, Nat))
  BY NatLessThanWellFounded, WFMin
<1>2. ASSUME NEW p \in S, p < o PROVE FALSE
  <2> DEFINE pair == <<p, o>>
  <2>1. pair \in Nat \X Nat /\ pair[1] = p /\ pair[2] = o
    OBVIOUS
  <2> HIDE DEF pair
  <2>2. pair[1] < pair[2]
    BY <1>2, <2>1
  <2>3. pair \in OpToRel(<, Nat)
    BY <2>1, <2>2, Zenon DEF OpToRel
  <2>4. QED
    BY <1>1, <2>3 DEF pair
<1>3. QED
  BY <1>2

\* Some day of the coming week has weekday w.
LEMMA WeekdayAhead ==
    ASSUME NEW day \in Nat, NEW w \in 0..6
    PROVE  \E o \in 1..7 : (day + o) % 7 = w
<1>1. PICK q \in Nat, r \in 0..6 : day = 7 * q + r
  <2>1. day = 7 * (day \div 7) + (day % 7) /\ day \div 7 \in Nat /\ day % 7 \in 0..6
    OBVIOUS
  <2>2. QED
    BY <2>1
<1>2. CASE r < w
  <2>1. (day + (w - r)) % 7 = w
    BY <1>1, <1>2
  <2>2. w - r \in 1..7
    BY <1>1, <1>2
  <2>3. QED
    BY <2>1, <2>2
<1>3. CASE ~(r < w)
  <2>1. day + (w - r + 7) = 7 * (q + 1) + w
    BY <1>1
  <2>2. (day + (w - r + 7)) % 7 = w
    BY <2>1
  <2>3. w - r + 7 \in 1..7
    BY <1>1, <1>3
  <2>4. QED
    BY <2>2, <2>3
<1>4. QED
  BY <1>2, <1>3

\* The loop over offsets 0..7 meets every weekday after from, the weekday of
\* today twice.
LEMMA SomeOffset ==
    ASSUME NEW start \in 0..(DayLength - 1), NEW days, days \subseteq Weekdays,
           days # {}, NEW from \in Time
    PROVE  /\ Offsets(start, days, from) # {}
           /\ Offsets(start, days, from) \subseteq 0..7
<1>1. PICK w \in days : w \in 0..6
  BY DEF Weekdays
<1>2. from.day \in Nat /\ from.minute \in 0..(DayLength - 1)
  BY DEF Time
<1>3. \E o \in 1..7 : (from.day + o) % 7 = w
  BY <1>1, <1>2, WeekdayAhead
<1>4. \A o \in 1..7 : Before(from, Candidate(start, from, o))
  BY <1>2 DEF Before, Candidate
<1>5. QED
  BY <1>1, <1>3, <1>4 DEF Offsets, Weekday

\* next_occurrence is right: with at least one weekday it returns the first
\* start of the rule that lies strictly after from, at most a week ahead
\* (scheduler.py:36-52).
THEOREM NextOccurrenceIsNext ==
    ASSUME NEW start \in 0..(DayLength - 1), NEW days, days \subseteq Weekdays,
           days # {}, NEW from \in Time
    PROVE  IsNextOccurrence(start, days, from, NextOccurrence(start, days, from))
<1> DEFINE S == Offsets(start, days, from)
           o == CHOOSE o \in S : \A p \in S : o <= p
           t == Candidate(start, from, o)
<1>1. S # {} /\ S \subseteq 0..7
  BY SomeOffset
<1>2. o \in S /\ \A p \in S : o <= p
  BY <1>1, LeastNumber
<1>3. NextOccurrence(start, days, from) = t
  BY <1>1 DEF NextOccurrence
<1>4. o \in 0..7 /\ Weekday(from.day + o) \in days /\ Before(from, t)
  BY <1>2 DEF Offsets
<1>5. from.day \in Nat
  BY DEF Time
<1>6. t.minute = start /\ t.day = from.day + o
  BY DEF Candidate
<1> HIDE DEF o, t
<1>7. ASSUME NEW d \in from.day..t.day, Weekday(d) \in days,
             Before(from, [day |-> d, minute |-> start])
      PROVE  d = t.day
  <2>1. d \in from.day..(from.day + o)
    BY <1>6
  <2> DEFINE e == d - from.day
  <2>2. e \in 0..o /\ from.day + e = d
    BY <1>4, <1>5, <2>1
  <2>3. e \in 0..7
    BY <1>4, <2>2
  <2>4. e \in S
    BY <1>7, <2>2, <2>3 DEF Offsets, Candidate
  <2>5. o <= e
    BY <1>2, <2>4
  <2> HIDE DEF e
  <2>6. e = o
    BY <1>4, <2>2, <2>5
  <2>7. QED
    BY <1>6, <2>2, <2>6
<1>8. QED
  BY <1>3, <1>4, <1>6, <1>7 DEF IsNextOccurrence

-----------------------------------------------------------------------------
\* The rule run_due comes to next is one of those it has still to fire.
LEMMA FirstOfIn ==
    ASSUME NEW S, S \subseteq Nat \X Nat, S # {}
    PROVE  FirstOf(S) \in S
<1> DEFINE I == {i \in Nat : \E j \in Nat : <<i, j>> \in S}
<1>1. I \subseteq Nat /\ I # {}
  <2>1. PICK p \in S : TRUE
    OBVIOUS
  <2>2. p = <<p[1], p[2]>> /\ p[1] \in Nat /\ p[2] \in Nat
    OBVIOUS
  <2>3. <<p[1], p[2]>> \in S
    BY <2>2
  <2>4. p[1] \in I
    BY <2>2, <2>3
  <2>5. QED
    BY <2>4
<1>2. PICK i \in I : \A k \in I : i <= k
  BY <1>1, LeastNumber
<1> DEFINE J == {j \in Nat : <<i, j>> \in S}
<1>3. J \subseteq Nat /\ J # {}
  BY <1>2
<1>4. PICK j \in J : \A k \in J : j <= k
  BY <1>3, LeastNumber
<1>5. ASSUME NEW q \in S
      PROVE  i < q[1] \/ (i = q[1] /\ j <= q[2])
  <2>1. q = <<q[1], q[2]>> /\ q[1] \in Nat /\ q[2] \in Nat
    OBVIOUS
  <2>2. <<q[1], q[2]>> \in S
    BY <2>1
  <2>3. q[1] \in I
    BY <2>1, <2>2
  <2>4. i <= q[1] /\ i \in Nat
    BY <1>2, <2>3
  <2>5. q[1] = i => q[2] \in J
    BY <2>1, <2>2
  <2>6. QED
    BY <1>4, <2>1, <2>4, <2>5
<1>6. <<i, j>> \in S
  BY <1>4
<1>7. \E p \in S : \A q \in S : p[1] < q[1] \/ (p[1] = q[1] /\ p[2] <= q[2])
  BY <1>5, <1>6
<1>8. QED
  BY <1>7 DEF FirstOf

\* The due rules of a config are rules of its devices.
LEMMA DuePlacesType ==
    ASSUME NEW c \in Seq(Devices), NEW t, NEW grace, NEW p \in DuePlaces(c, t, grace)
    PROVE  /\ p \in Nat \X Nat
           /\ p[1] \in DOMAIN c
           /\ p[2] \in DOMAIN c[p[1]].rules
<1> DEFINE At(i) == {<<i, j>> : j \in {j \in DOMAIN c[i].rules :
                                        Due(c[i].rules[j], t, grace)}}
<1>1. p \in UNION {At(i) : i \in DOMAIN c}
  BY DEF DuePlaces
<1>2. PICK i \in DOMAIN c : p \in At(i)
  BY <1>1
<1>3. PICK j \in DOMAIN c[i].rules : p = <<i, j>>
  BY <1>2
<1>4. c[i] \in Devices
  OBVIOUS
<1> HIDE DEF At
<1>5. c[i].rules \in Seq(Rules)
  BY <1>4 DEF Devices
<1>6. i \in Nat /\ j \in Nat
  BY <1>3, <1>5
<1>7. QED
  BY <1>3, <1>6

\* What a place in a config is about.
LEMMA PlaceType ==
    ASSUME NEW c \in Seq(Devices), NEW p, p[1] \in DOMAIN c,
           p[2] \in DOMAIN c[p[1]].rules, NEW day \in 0..LastDay
    PROVE  /\ c[p[1]].mac \in Macs
           /\ c[p[1]].rules[p[2]] \in Rules
           /\ c[p[1]].rules[p[2]].valve \in Valves
           /\ c[p[1]].rules[p[2]].start \in Minutes
           /\ PlaceKey(c, p, day) \in Keys
           /\ PlaceKey(c, p, day).day = day
<1>1. c[p[1]] \in Devices
  OBVIOUS
<1>2. c[p[1]].mac \in Macs /\ c[p[1]].rules \in Seq(Rules)
  BY <1>1 DEF Devices
<1>3. c[p[1]].rules[p[2]] \in Rules
  BY <1>2
<1>4. /\ c[p[1]].rules[p[2]].valve \in Valves
      /\ c[p[1]].rules[p[2]].start \in Minutes
  BY <1>3 DEF Rules, Minutes
<1>5. QED
  BY <1>2, <1>3, <1>4 DEF PlaceKey, KeyOf, Keys

\* A history in which no rule was tried is well-typed.
LEMMA UntriedType == Untried \in [Keys -> Minutes \cup {-1}]
BY DEF Untried

\* The empty plan is a config.
LEMMA EmptyPlan == <<>> \in Seq(Devices)
BY EmptySeq

-----------------------------------------------------------------------------
(***************************************************************************)
(* Type correctness.                                                       *)
(***************************************************************************)

\* run_due's bookkeeping after a fire.
LEMMA AttemptedType ==
    ASSUME TypeOK, todo # {}, NEW ok \in BOOLEAN, Attempted(ok)
    PROVE  /\ fired' \subseteq Keys
           /\ lastRuns' \in [Macs \X Valves -> Runs \cup {NoRun}]
           /\ confirmed' \subseteq Keys
           /\ tried' \in [Keys -> Minutes \cup {-1}]
           /\ plan' \in Seq(Devices)
           /\ todo' \subseteq (Nat \X Nat)
           /\ \A p \in todo' : p[1] \in DOMAIN plan' /\ p[2] \in DOMAIN plan'[p[1]].rules
           /\ timer' \in Macs \cup {NoTimer}
           /\ busy' \in 0..TickMinutes
           /\ awake' \in BOOLEAN
<1> DEFINE p == FirstOf(todo)
           r == plan[p[1]].rules[p[2]]
           k == PlaceKey(plan, p, at.day)
           run == [start |-> r.start, at |-> at, ok |-> ok]
<1>1. p \in todo
  BY FirstOfIn DEF TypeOK
<1>2. at.day \in 0..LastDay /\ at.minute \in Minutes /\ at \in Times
  BY DEF TypeOK, Times
<1>3. /\ plan[p[1]].mac \in Macs /\ r.valve \in Valves /\ r.start \in Minutes
      /\ k \in Keys
  BY <1>1, <1>2, PlaceType DEF TypeOK
<1>4. run \in Runs
  BY <1>2, <1>3 DEF Runs
<1>5. /\ lastRuns' = [lastRuns EXCEPT ![<<plan[p[1]].mac, r.valve>>] = run]
      /\ fired' \in {fired, fired \cup {k}}
      /\ confirmed' \in {confirmed, confirmed \cup {k}}
      /\ tried' \in {tried, [tried EXCEPT ![k] = at.minute]}
      /\ todo' \subseteq todo
      /\ plan' = IF todo' = {} THEN <<>> ELSE plan
      /\ busy' = IF todo' = {} THEN 0 ELSE busy
      /\ timer' = NoTimer
      /\ awake' = TRUE
  BY DEF Attempted, Marked, PlanFor, Unfired
<1> HIDE DEF p, r, k, run
<1>6. fired' \subseteq Keys /\ confirmed' \subseteq Keys
  BY <1>3, <1>5 DEF TypeOK
<1>7. lastRuns' \in [Macs \X Valves -> Runs \cup {NoRun}]
  BY <1>3, <1>4, <1>5 DEF TypeOK
<1>8. tried' \in [Keys -> Minutes \cup {-1}]
  BY <1>2, <1>3, <1>5 DEF TypeOK
<1>9. plan' \in Seq(Devices)
  BY <1>5, EmptyPlan DEF TypeOK
<1>10. /\ todo' \subseteq (Nat \X Nat)
       /\ \A q \in todo' : q[1] \in DOMAIN plan' /\ q[2] \in DOMAIN plan'[q[1]].rules
  BY <1>5 DEF TypeOK
<1>11. timer' \in Macs \cup {NoTimer} /\ busy' \in 0..TickMinutes /\ awake' \in BOOLEAN
  BY <1>5, SchedulerAssumption DEF TypeOK
<1>12. QED
  BY <1>6, <1>7, <1>8, <1>9, <1>10, <1>11

\* A timer is looked up only by a tick that still has rules to fire.
TimerFiring == timer # NoTimer => todo # {}

\* The server starts well-typed.
LEMMA TypeInit == Init => TypeOK
<1> SUFFICES ASSUME Init PROVE TypeOK
  OBVIOUS
<1>1. DayLength \in Nat \ {0} /\ LastDay \in Nat /\ TickMinutes \in Nat /\ MaxEvents \in Nat
  BY ScheduleAssumption, SchedulerAssumption
<1>2. Start \in Times
  BY <1>1 DEF Start, Times, Minutes
<1>3. config \in Seq(Devices)
  BY SchedulerAssumption DEF Init
<1>4. lastRuns \in [Macs \X Valves -> Runs \cup {NoRun}]
  BY DEF Init
<1>5. tried \in [Keys -> Minutes \cup {-1}]
  BY UntriedType DEF Init
<1>6. now \in Times /\ at \in Times /\ since \in Times
  BY <1>2 DEF Init
<1>7. busy \in 0..TickMinutes /\ events \in 0..MaxEvents
  BY <1>1 DEF Init
<1>8. plan \in Seq(Devices)
  BY EmptyPlan DEF Init
<1>9. /\ enabled \in BOOLEAN /\ job \in BOOLEAN /\ awake \in BOOLEAN
      /\ timer = NoTimer
      /\ todo = {} /\ fired = {} /\ confirmed = {} /\ earlier = {}
  BY DEF Init
<1>10. QED
  BY <1>3, <1>4, <1>5, <1>6, <1>7, <1>8, <1>9 DEF TypeOK

\* Every step of the scheduler, its users and its clock keeps the types.
LEMMA TypeStep ==
    ASSUME TypeOK, TimerFiring, [Next]_vars
    PROVE  TypeOK'
<1> USE DEF loop, history
<1>1. ASSUME Tick
      PROVE  TypeOK'
  <2>1. CASE job \/ ~enabled
    BY <1>1, <2>1 DEF Tick, TypeOK
  <2>2. CASE ~(job \/ ~enabled)
    <3>1. /\ at' = now /\ fired' = Prune(fired, now.day) /\ busy' = 0 /\ awake' = TRUE
          /\ todo' = Unfired(config, DuePlaces(config, now, Grace), fired', now.day)
          /\ plan' = IF todo' = {} THEN <<>> ELSE config
          /\ UNCHANGED <<now, config, enabled, job, lastRuns, timer, history, since, events>>
      BY <1>1, <2>2 DEF Tick
    <3>2. fired' \subseteq Keys
      BY <3>1 DEF TypeOK, Prune
    <3>3. \A p \in todo' : /\ p \in Nat \X Nat
                           /\ p[1] \in DOMAIN config
                           /\ p[2] \in DOMAIN config[p[1]].rules
      BY <3>1, DuePlacesType DEF Unfired, TypeOK
    <3>4. plan' \in Seq(Devices)
      BY <3>1, EmptyPlan DEF TypeOK
    <3>5. \A p \in todo' : p[1] \in DOMAIN plan' /\ p[2] \in DOMAIN plan'[p[1]].rules
      BY <3>1, <3>3
    <3>6. todo' \subseteq (Nat \X Nat)
      BY <3>3
    <3>7. busy' \in 0..TickMinutes
      BY <3>1, SchedulerAssumption
    <3>8. QED
      BY <3>1, <3>2, <3>4, <3>5, <3>6, <3>7 DEF TypeOK
  <2>3. QED
    BY <2>1, <2>2
<1>2. ASSUME RadioGranted
      PROVE  TypeOK'
  <2> DEFINE i == FirstOf(todo)[1]
  <2>1. CASE i \in DOMAIN config
    <3>1. config[i] \in Devices
      BY <2>1 DEF TypeOK
    <3>2. config[i].mac \in Macs
      BY <3>1 DEF Devices
    <3>3. /\ timer' = config[i].mac
          /\ UNCHANGED <<now, config, enabled, job, fired, lastRuns, at, plan, todo,
                         busy, awake, history, since, events>>
      BY <1>2, <2>1 DEF RadioGranted
    <3>4. QED
      BY <3>2, <3>3 DEF TypeOK
  <2>2. CASE i \notin DOMAIN config
    <3>1. /\ todo # {} /\ Attempted(FALSE)
          /\ UNCHANGED <<now, config, enabled, job, at, earlier, since, events>>
      BY <1>2, <2>2 DEF RadioGranted
    <3>2. QED
      BY <3>1, AttemptedType DEF TypeOK
  <2>3. QED
    BY <2>1, <2>2
<1>3. ASSUME todo # {}, NEW ok \in BOOLEAN, Attempted(ok),
             UNCHANGED <<now, config, enabled, job, at, earlier, since, events>>
      PROVE  TypeOK'
  BY <1>3, AttemptedType DEF TypeOK
<1>4. ASSUME NextMinute
      PROVE  TypeOK'
  <2> DEFINE sameDay == [now EXCEPT !.minute = now.minute + 1]
             nextDay == [day |-> now.day + 1, minute |-> 0]
  <2>0. now = [day |-> now.day, minute |-> now.minute] /\ now.day \in 0..LastDay
        /\ now.minute \in Minutes /\ DayLength \in Nat \ {0} /\ LastDay \in Nat
    BY ScheduleAssumption, SchedulerAssumption DEF TypeOK, Times
  <2>1. now' \in Times
    <3>1. CASE now.minute < DayLength - 1 /\ now' = sameDay
      <4>1. now.minute + 1 \in Minutes
        BY <2>0, <3>1 DEF Minutes
      <4>2. QED
        BY <2>0, <3>1, <4>1 DEF Times
    <3>2. CASE now.day < LastDay /\ now' = nextDay
      BY <2>0, <3>2 DEF Times, Minutes
    <3>3. QED
      BY <1>4, <3>1, <3>2 DEF NextMinute
  <2>2. tried' \in [Keys -> Minutes \cup {-1}]
    BY <1>4, UntriedType DEF NextMinute, TypeOK
  <2>3. busy' \in 0..TickMinutes
    <3>1. busy \in 0..TickMinutes /\ TickMinutes \in Nat
      BY SchedulerAssumption DEF TypeOK
    <3>2. (busy < TickMinutes /\ busy' = busy + 1) \/ busy' = 0
      BY <1>4 DEF NextMinute
    <3>3. QED
      BY <3>1, <3>2
  <2>4. QED
    BY <1>4, <2>1, <2>2, <2>3 DEF NextMinute, TypeOK
<1>5. ASSUME ClockBack
      PROVE  TypeOK'
  <2>1. PICK m \in Minutes : /\ now' = [now EXCEPT !.minute = m]
                             /\ Interfere("clock", [now EXCEPT !.minute = m])
    BY <1>5 DEF ClockBack
  <2>2. [now EXCEPT !.minute = m] \in Times
    BY <2>1 DEF TypeOK, Times
  <2>3. now' \in Times /\ since' \in Times
    BY <2>1, <2>2 DEF Interfere
  <2>4. events' \in 0..MaxEvents
    BY <2>1, SchedulerAssumption DEF Interfere, TypeOK
  <2>5. QED
    BY <1>5, <2>3, <2>4 DEF ClockBack, TypeOK
<1>6. ASSUME NEW event, Interfere(event, now)
      PROVE  since' \in Times /\ events' \in 0..MaxEvents
  BY <1>6, SchedulerAssumption DEF Interfere, TypeOK
<1>7. ASSUME NEW i \in DOMAIN config, NEW rules \in Programs, PutSchedules(i, rules)
      PROVE  TypeOK'
  <2>1. config[i] \in Devices /\ rules \in Seq(Rules)
    BY SchedulerAssumption DEF TypeOK
  <2>2. [config[i] EXCEPT !.rules = rules] \in Devices
    BY <2>1 DEF Devices
  <2>3. config' = [config EXCEPT ![i] = [config[i] EXCEPT !.rules = rules]]
    BY <1>7 DEF PutSchedules
  <2>4. config' \in Seq(Devices)
    BY <2>2, <2>3, ExceptSeq DEF TypeOK
  <2>5. since' \in Times /\ events' \in 0..MaxEvents
    BY <1>6, <1>7 DEF PutSchedules
  <2>6. QED
    BY <1>7, <2>4, <2>5 DEF PutSchedules, TypeOK
<1>8. ASSUME NEW i \in DOMAIN config, RemoveDevice(i)
      PROVE  TypeOK'
  <2>1. config \in Seq(Devices) /\ Len(config) \in Nat /\ i \in 1..Len(config)
    BY DEF TypeOK
  <2>2. SubSeq(config, 1, i - 1) \in Seq(Devices)
    BY <2>1, SubSeqProperties
  <2>3. SubSeq(config, i + 1, Len(config)) \in Seq(Devices)
    BY <2>1, SubSeqProperties
  <2>4. config' \in Seq(Devices)
    BY <1>8, <2>2, <2>3, ConcatProperties DEF RemoveDevice
  <2>5. since' \in Times /\ events' \in 0..MaxEvents
    BY <1>6, <1>8 DEF RemoveDevice
  <2>6. QED
    BY <1>8, <2>4, <2>5 DEF RemoveDevice, TypeOK
<1>9. ASSUME NEW on \in BOOLEAN, PutScheduling(on)
      PROVE  TypeOK'
  <2>1. since' \in Times /\ events' \in 0..MaxEvents
    BY <1>6, <1>9 DEF PutScheduling
  <2>2. QED
    BY <1>9, <2>1 DEF PutScheduling, TypeOK
<1>10. ASSUME OnboardJob
       PROVE  TypeOK'
  <2>1. since' \in Times /\ events' \in 0..MaxEvents
    BY <1>6, <1>10 DEF OnboardJob
  <2>2. job' \in BOOLEAN
    BY <1>10 DEF OnboardJob, TypeOK
  <2>3. QED
    BY <1>10, <2>1, <2>2 DEF OnboardJob, TypeOK
<1>11. ASSUME Restart
       PROVE  TypeOK'
  <2>1. since' \in Times /\ events' \in 0..MaxEvents
    BY <1>6, <1>11 DEF Restart
  <2>2. lastRuns' \in [Macs \X Valves -> Runs \cup {NoRun}]
    BY <1>11 DEF Restart
  <2>3. /\ earlier' \subseteq Keys /\ confirmed' = {} /\ fired' = {} /\ todo' = {}
        /\ busy' \in 0..TickMinutes
    BY <1>11, SchedulerAssumption DEF Restart, TypeOK
  <2>4. plan' \in Seq(Devices)
    BY <1>11, EmptyPlan DEF Restart
  <2>5. QED
    BY <1>11, <2>1, <2>2, <2>3, <2>4 DEF Restart, TypeOK
<1>12. ASSUME FireFails \/ FireConfirmed
       PROVE  TypeOK'
  BY <1>12, <1>3 DEF FireFails, FireConfirmed, TimerFiring
<1>13. ASSUME UNCHANGED vars
       PROVE  TypeOK'
  BY <1>13 DEF vars, TypeOK
<1>14. QED
  BY <1>1, <1>2, <1>4, <1>5, <1>7, <1>8, <1>9, <1>10, <1>11, <1>12, <1>13 DEF Next

-----------------------------------------------------------------------------
(***************************************************************************)
(* No rule is fired twice a day.  _fired answers for the day of the last   *)
(* tick: it holds all that was confirmed on that day, and nothing was      *)
(* confirmed for a later one.  What a tick has still to fire is not in it. *)
(***************************************************************************)

TicksPast == at.day <= now.day

FiredAnswers ==
    \A k \in confirmed : k.day <= at.day /\ (k.day = at.day => k \in fired)

TodoUnfired == \A p \in todo : PlaceKey(plan, p, at.day) \notin fired

FiredInv == TypeOK /\ TimerFiring /\ TicksPast /\ FiredAnswers /\ TodoUnfired

\* A fresh process has confirmed nothing.
LEMMA FiredInit == Init => FiredInv
<1> SUFFICES ASSUME Init PROVE FiredInv
  OBVIOUS
<1>1. now.day = 0 /\ at.day = 0
  BY DEF Init, Start
<1>2. timer = NoTimer /\ confirmed = {} /\ todo = {}
  BY DEF Init
<1>3. QED
  BY <1>1, <1>2, TypeInit DEF FiredInv, TimerFiring, TicksPast, FiredAnswers, TodoUnfired

\* run_due's bookkeeping after a fire: a confirmed key is marked, and the rules
\* that share it are passed over.
LEMMA AttemptedFired ==
    ASSUME FiredInv, todo # {}, NEW ok \in BOOLEAN, Attempted(ok), at' = at
    PROVE  FiredAnswers' /\ TodoUnfired'
<1> DEFINE p == FirstOf(todo)
           k == PlaceKey(plan, p, at.day)
<1>1. p \in todo /\ at.day \in 0..LastDay
  BY FirstOfIn DEF FiredInv, TypeOK, Times
<1>2. k.day = at.day
  BY <1>1, PlaceType DEF FiredInv, TypeOK
<1>3. /\ fired' = IF ok THEN fired \cup {k} ELSE fired
      /\ confirmed' = IF ok THEN confirmed \cup {k} ELSE confirmed
      /\ todo' = Unfired(plan, todo \ {p}, fired', at.day)
      /\ plan' = IF todo' = {} THEN <<>> ELSE plan
  BY DEF Attempted, Marked, PlanFor
<1> HIDE DEF p, k
<1>4. FiredAnswers'
  BY <1>1, <1>2, <1>3 DEF FiredInv, FiredAnswers
<1>5. ASSUME NEW q \in todo'
      PROVE  PlaceKey(plan, q, at.day) \notin fired' /\ plan' = plan
  BY <1>3 DEF Unfired
<1>6. TodoUnfired'
  BY <1>5 DEF TodoUnfired
<1>7. QED
  BY <1>4, <1>6

\* Every step of the scheduler, its users and its clock keeps the invariant.
LEMMA FiredStep == FiredInv /\ [Next]_vars => FiredInv'
<1> SUFFICES ASSUME FiredInv, [Next]_vars
             PROVE  FiredInv'
  OBVIOUS
<1> USE DEF loop, history
<1>1. TypeOK'
  BY TypeStep DEF FiredInv
<1>2. /\ now.day \in Nat /\ now.minute \in Int /\ at.day \in Nat /\ DayLength \in Nat
      /\ \A k \in confirmed : k.day \in Nat
  BY ScheduleAssumption, SchedulerAssumption DEF FiredInv, TypeOK, Times, Minutes, Keys
<1>3. ASSUME Tick
      PROVE  TimerFiring' /\ TicksPast' /\ FiredAnswers' /\ TodoUnfired'
  <2>1. todo = {} /\ timer = NoTimer /\ timer' = timer /\ now' = now /\ confirmed' = confirmed
    BY <1>3 DEF Tick, FiredInv, TimerFiring
  <2>2. CASE job \/ ~enabled
    BY <1>3, <2>1, <2>2 DEF Tick, FiredInv, TimerFiring, TicksPast, FiredAnswers, TodoUnfired
  <2>3. CASE ~(job \/ ~enabled)
    <3>1. /\ at' = now /\ fired' = Prune(fired, now.day)
          /\ todo' = Unfired(config, DuePlaces(config, now, Grace), fired', now.day)
          /\ plan' = IF todo' = {} THEN <<>> ELSE config
      BY <1>3, <2>3 DEF Tick
    <3>2. TicksPast'
      BY <1>2, <2>1, <3>1 DEF TicksPast
    <3>3. FiredAnswers'
      BY <1>2, <2>1, <3>1 DEF FiredInv, TicksPast, FiredAnswers, Prune
    <3>4. ASSUME NEW p \in todo'
          PROVE  PlaceKey(config, p, now.day) \notin fired' /\ plan' = config
      BY <3>1 DEF Unfired
    <3>5. TodoUnfired'
      BY <3>1, <3>4 DEF TodoUnfired
    <3>6. QED
      BY <2>1, <3>2, <3>3, <3>5 DEF TimerFiring
  <2>4. QED
    BY <2>2, <2>3
<1>4. ASSUME todo # {}, NEW ok \in BOOLEAN, Attempted(ok), UNCHANGED <<now, at>>
      PROVE  TimerFiring' /\ TicksPast' /\ FiredAnswers' /\ TodoUnfired'
  <2>1. timer' = NoTimer
    BY <1>4 DEF Attempted
  <2>2. QED
    BY <1>4, <2>1, AttemptedFired DEF FiredInv, TimerFiring, TicksPast
<1>5. ASSUME RadioGranted
      PROVE  TimerFiring' /\ TicksPast' /\ FiredAnswers' /\ TodoUnfired'
  <2>1. CASE FirstOf(todo)[1] \in DOMAIN config
    BY <1>5, <2>1 DEF RadioGranted, FiredInv, TimerFiring, TicksPast, FiredAnswers,
       TodoUnfired
  <2>2. CASE FirstOf(todo)[1] \notin DOMAIN config
    BY <1>4, <1>5, <2>2 DEF RadioGranted
  <2>3. QED
    BY <2>1, <2>2
<1>6. ASSUME FireFails \/ FireConfirmed
      PROVE  TimerFiring' /\ TicksPast' /\ FiredAnswers' /\ TodoUnfired'
  BY <1>4, <1>6 DEF FireFails, FireConfirmed, FiredInv, TimerFiring
<1>7. ASSUME UNCHANGED <<timer, todo, plan, at, fired, confirmed>>, now'.day >= now.day,
             now'.day \in Nat
      PROVE  TimerFiring' /\ TicksPast' /\ FiredAnswers' /\ TodoUnfired'
  BY <1>2, <1>7 DEF FiredInv, TimerFiring, TicksPast, FiredAnswers, TodoUnfired
<1>8. ASSUME NextMinute
      PROVE  TimerFiring' /\ TicksPast' /\ FiredAnswers' /\ TodoUnfired'
  <2>1. now'.day >= now.day /\ now'.day \in Nat
    <3>1. now'.day = now.day \/ now'.day = now.day + 1
      <4>1. now.day \in 0..LastDay /\ now \in Times
        BY DEF FiredInv, TypeOK, Times
      <4>2. \/ now' = [now EXCEPT !.minute = @ + 1]
            \/ now' = [day |-> now.day + 1, minute |-> 0]
        BY <1>8 DEF NextMinute
      <4>3. QED
        BY <4>1, <4>2 DEF Times
    <3>2. QED
      BY <1>2, <3>1
  <2>2. QED
    BY <1>7, <1>8, <2>1 DEF NextMinute
<1>9. ASSUME ClockBack
      PROVE  TimerFiring' /\ TicksPast' /\ FiredAnswers' /\ TodoUnfired'
  <2>1. now'.day = now.day
    BY <1>9 DEF ClockBack, FiredInv, TypeOK, Times
  <2>2. QED
    BY <1>2, <1>7, <1>9, <2>1 DEF ClockBack
<1>10. ASSUME \/ \E i \in DOMAIN config :
                    \/ \E rules \in Programs : PutSchedules(i, rules)
                    \/ RemoveDevice(i)
              \/ \E on \in BOOLEAN : PutScheduling(on)
              \/ OnboardJob \/ UNCHANGED vars
       PROVE  TimerFiring' /\ TicksPast' /\ FiredAnswers' /\ TodoUnfired'
  <2>1. UNCHANGED <<now, timer, todo, plan, at, fired, confirmed>>
    BY <1>10 DEF PutSchedules, RemoveDevice, PutScheduling, OnboardJob, vars
  <2>2. QED
    BY <1>2, <1>7, <2>1
<1>11. ASSUME Restart
       PROVE  TimerFiring' /\ TicksPast' /\ FiredAnswers' /\ TodoUnfired'
  BY <1>2, <1>11 DEF Restart, TimerFiring, TicksPast, FiredAnswers, TodoUnfired
<1>12. QED
  BY <1>1, <1>3, <1>5, <1>6, <1>8, <1>9, <1>10, <1>11 DEF Next, FiredInv

\* The inductive invariant of the scheduler.
LEMMA FiredInvariant == Spec => []FiredInv
BY FiredInit, FiredStep, PTL DEF Spec

\* Every reachable state of the scheduler is well-typed: run_due's places are
\* places of the config it has read, however the config changes meanwhile.
THEOREM SchedulerTypeCorrect == Spec => []TypeOK
<1>1. FiredInv => TypeOK
  BY DEF FiredInv
<1>2. QED
  BY <1>1, FiredInvariant, PTL

\* While the process runs, run_due never fires a rule that was confirmed before
\* on that day (server.py:583-595), whatever users do, over midnight and with the
\* clock set back within the day.
THEOREM NeverTwiceADay == Spec => []FiredOnce
<1>1. FiredInv => FiredOnce
  <2> SUFFICES ASSUME FiredInv, todo # {}
               PROVE  PlaceKey(plan, FirstOf(todo), at.day) \notin confirmed
    BY DEF FiredOnce
  <2>1. FirstOf(todo) \in todo /\ at.day \in 0..LastDay
    BY FirstOfIn DEF FiredInv, TypeOK, Times
  <2>2. PlaceKey(plan, FirstOf(todo), at.day).day = at.day
    BY <2>1, PlaceType DEF FiredInv, TypeOK
  <2>3. QED
    BY <2>1, <2>2 DEF FiredInv, FiredAnswers, TodoUnfired
<1>2. QED
  BY <1>1, FiredInvariant, PTL

-----------------------------------------------------------------------------
(***************************************************************************)
(* What is shown of today's runs agrees with _fired: a run is dated by the *)
(* tick that made it, so none is from a day after the last tick's, and     *)
(* pruning by the day of a tick forgets no key of a run shown for it.      *)
(***************************************************************************)

RunsPast ==
    \A mv \in Macs \X Valves : lastRuns[mv] # NoRun => lastRuns[mv].at.day <= at.day

\* The entry of _last_runs for mv and the key it was made under are of one mind.
RunTrue(mv) ==
    LET run == lastRuns[mv]
    IN  run # NoRun /\ run.at.day = at.day =>
           (run.ok <=> [mac |-> mv[1], valve |-> mv[2], day |-> at.day,
                        start |-> run.start] \in fired)

RunsTrue == \A mv \in Macs \X Valves : RunTrue(mv)

RunsInv == FiredInv /\ RunsPast /\ RunsTrue

\* A fresh process shows no run.
LEMMA RunsInit == Init => RunsInv
BY FiredInit DEF RunsInv, Init, RunsPast, RunsTrue, RunTrue

\* The run that run_due notes down is ok just if its key was marked; the other
\* entries belong to other keys.
LEMMA AttemptedRuns ==
    ASSUME RunsInv, todo # {}, NEW ok \in BOOLEAN, Attempted(ok), at' = at
    PROVE  RunsPast' /\ RunsTrue'
<1> DEFINE p == FirstOf(todo)
           r == plan[p[1]].rules[p[2]]
           mac == plan[p[1]].mac
           k == PlaceKey(plan, p, at.day)
           run == [start |-> r.start, at |-> at, ok |-> ok]
<1>1. p \in todo /\ at.day \in 0..LastDay /\ at.day \in Nat
  BY FirstOfIn, SchedulerAssumption DEF RunsInv, FiredInv, TypeOK, Times
<1>2. mac \in Macs /\ r.valve \in Valves
  BY <1>1, PlaceType DEF RunsInv, FiredInv, TypeOK
<1>3. k = [mac |-> mac, valve |-> r.valve, day |-> at.day, start |-> r.start]
  BY DEF PlaceKey, KeyOf
<1>4. k \notin fired
  BY <1>1 DEF RunsInv, FiredInv, TodoUnfired
<1>5. /\ lastRuns' = [lastRuns EXCEPT ![<<mac, r.valve>>] = run]
      /\ fired' = IF ok THEN fired \cup {k} ELSE fired
  BY DEF Attempted, Marked
<1>6. run.start = r.start /\ run.at = at /\ run.ok = ok
  OBVIOUS
<1>7. lastRuns \in [Macs \X Valves -> Runs \cup {NoRun}]
  BY DEF RunsInv, FiredInv, TypeOK
<1> HIDE DEF p, run
<1>8. ASSUME NEW mv \in Macs \X Valves
      PROVE  /\ lastRuns'[mv] # NoRun => lastRuns'[mv].at.day <= at.day
             /\ RunTrue(mv)'
  <2>1. mv = <<mv[1], mv[2]>>
    OBVIOUS
  <2>2. CASE mv = <<mac, r.valve>>
    <3>1. lastRuns'[mv] = run
      BY <1>2, <1>5, <1>7, <2>2
    <3>2. mv[1] = mac /\ mv[2] = r.valve
      BY <2>2
    <3>3. [mac |-> mv[1], valve |-> mv[2], day |-> at'.day, start |-> lastRuns'[mv].start] = k
      BY <1>3, <1>6, <3>1, <3>2
    <3>4. k \in fired' <=> ok
      BY <1>4, <1>5
    <3>5. QED
      BY <1>1, <1>6, <3>1, <3>3, <3>4 DEF RunTrue
  <2>3. CASE mv # <<mac, r.valve>>
    <3>1. lastRuns'[mv] = lastRuns[mv]
      BY <1>2, <1>5, <1>7, <2>3
    <3> DEFINE other == [mac |-> mv[1], valve |-> mv[2], day |-> at.day,
                         start |-> lastRuns[mv].start]
    <3>2. other.mac = mv[1] /\ other.valve = mv[2] /\ k.mac = mac /\ k.valve = r.valve
      BY <1>3
    <3>3. other # k
      BY <2>1, <2>3, <3>2
    <3>4. other \in fired' <=> other \in fired
      BY <1>5, <3>3
    <3>5. RunTrue(mv)
      BY DEF RunsInv, RunsTrue
    <3>6. QED
      BY <3>1, <3>4, <3>5 DEF RunsInv, RunsPast, RunTrue
  <2>4. QED
    BY <2>2, <2>3
<1>9. QED
  BY <1>8 DEF RunsPast, RunsTrue

\* Every step keeps it.
LEMMA RunsStep == RunsInv /\ [Next]_vars => RunsInv'
<1> SUFFICES ASSUME RunsInv, [Next]_vars
             PROVE  RunsInv'
  OBVIOUS
<1> USE DEF loop, history
<1>1. FiredInv'
  BY FiredStep DEF RunsInv
<1>2. /\ now.day \in Nat /\ at.day \in Nat /\ at.day <= now.day
      /\ \A mv \in Macs \X Valves : lastRuns[mv] # NoRun => lastRuns[mv].at.day \in Nat
  BY SchedulerAssumption DEF RunsInv, FiredInv, TicksPast, TypeOK, Times, Runs
<1>3. ASSUME UNCHANGED <<lastRuns, at, fired>>
      PROVE  RunsPast' /\ RunsTrue'
  BY <1>3 DEF RunsInv, RunsPast, RunsTrue, RunTrue
<1>4. ASSUME Tick, ~(job \/ ~enabled)
      PROVE  RunsPast' /\ RunsTrue'
  <2>1. at' = now /\ fired' = Prune(fired, now.day) /\ lastRuns' = lastRuns
    BY <1>4 DEF Tick
  <2>2. RunsPast'
    BY <1>2, <2>1 DEF RunsInv, RunsPast
  <2>3. ASSUME NEW mv \in Macs \X Valves, lastRuns[mv] # NoRun, lastRuns[mv].at.day = now.day
        PROVE  at.day = now.day
    BY <1>2, <2>3 DEF RunsInv, RunsPast
  <2>4. ASSUME NEW m, NEW v, NEW s
        PROVE  [mac |-> m, valve |-> v, day |-> now.day, start |-> s] \in fired'
                  <=> [mac |-> m, valve |-> v, day |-> now.day, start |-> s] \in fired
    BY <2>1 DEF Prune
  <2>5. RunsTrue'
    BY <2>1, <2>3, <2>4 DEF RunsInv, RunsTrue, RunTrue
  <2>6. QED
    BY <2>2, <2>5
<1>5. ASSUME Tick
      PROVE  RunsPast' /\ RunsTrue'
  BY <1>3, <1>4, <1>5 DEF Tick
<1>6. ASSUME RadioGranted \/ FireFails \/ FireConfirmed
      PROVE  RunsPast' /\ RunsTrue'
  <2>1. todo # {}
    BY <1>6 DEF RadioGranted, FireFails, FireConfirmed, RunsInv, FiredInv, TimerFiring
  <2>2. \/ UNCHANGED <<lastRuns, at, fired>>
        \/ at' = at /\ \E ok \in BOOLEAN : Attempted(ok)
    BY <1>6 DEF RadioGranted, FireFails, FireConfirmed
  <2>3. QED
    BY <1>3, <2>1, <2>2, AttemptedRuns
<1>7. ASSUME \/ NextMinute \/ ClockBack \/ OnboardJob \/ UNCHANGED vars
             \/ \E i \in DOMAIN config :
                   \/ \E rules \in Programs : PutSchedules(i, rules)
                   \/ RemoveDevice(i)
             \/ \E on \in BOOLEAN : PutScheduling(on)
      PROVE  RunsPast' /\ RunsTrue'
  <2>1. UNCHANGED <<lastRuns, at, fired>>
    BY <1>7 DEF NextMinute, ClockBack, OnboardJob, vars, PutSchedules, RemoveDevice,
                PutScheduling
  <2>2. QED
    BY <1>3, <2>1
<1>8. ASSUME Restart
      PROVE  RunsPast' /\ RunsTrue'
  BY <1>8 DEF Restart, RunsPast, RunsTrue, RunTrue
<1>9. QED
  BY <1>1, <1>5, <1>6, <1>7, <1>8 DEF Next, RunsInv

\* GET /api/scheduling never shows a run as ok that will be fired again today, nor
\* one as failed that will not (server.py:588-593), for any rules and events.
THEOREM ShownRunsAreTrue == Spec => []LastRunsTrue
<1>1. RunsInv => LastRunsTrue
  <2> SUFFICES ASSUME RunsInv, NEW m \in Macs, NEW v \in Valves
               PROVE  LET run == lastRuns[<<m, v>>]
                      IN  run # NoRun /\ run.at.day = at.day =>
                             (run.ok <=> [mac |-> m, valve |-> v, day |-> at.day,
                                          start |-> run.start] \in fired)
    BY DEF LastRunsTrue
  <2>1. <<m, v>> \in Macs \X Valves /\ <<m, v>>[1] = m /\ <<m, v>>[2] = v
    OBVIOUS
  <2>2. RunTrue(<<m, v>>)
    BY <2>1 DEF RunsInv, RunsTrue
  <2>3. QED
    BY <2>1, <2>2 DEF RunTrue
<1>2. QED
  BY <1>1, RunsInit, RunsStep, PTL DEF Spec

-----------------------------------------------------------------------------
(***************************************************************************)
(* The next run that is shown is the next that is due.                     *)
(***************************************************************************)

\* What the rules of c are asked for by _next_due.
StartsOf(c, t) ==
    {NextOccurrence(r.start, r.days, t) :
        r \in {r \in UNION {{c[i].rules[j] : j \in DOMAIN c[i].rules} : i \in DOMAIN c} :
                  r.enabled}} \ {NoTime}

\* Of a set of times, one is the first.
LEMMA FirstTime ==
    ASSUME NEW S, S \subseteq [day : Nat, minute : Nat], S # {}
    PROVE  \E s \in S : \A u \in S : ~Before(u, s)
<1> DEFINE D == {d \in Nat : \E s \in S : s.day = d}
<1>1. D \subseteq Nat /\ D # {}
  OBVIOUS
<1>2. PICK d \in D : \A e \in D : d <= e
  BY <1>1, LeastNumber
<1> DEFINE M == {m \in Nat : \E s \in S : s.day = d /\ s.minute = m}
<1>3. M \subseteq Nat /\ M # {}
  BY <1>2
<1>4. PICK m \in M : \A n \in M : m <= n
  BY <1>3, LeastNumber
<1>5. PICK s \in S : s.day = d /\ s.minute = m
  BY <1>4
<1>6. ASSUME NEW u \in S PROVE ~Before(u, s)
  <2>1. u.day \in D /\ (u.day = d => u.minute \in M)
    BY <1>6
  <2>2. d <= u.day /\ (u.day = d => m <= u.minute)
    BY <1>2, <1>4, <2>1
  <2>3. d \in Nat /\ m \in Nat /\ u.day \in Nat /\ u.minute \in Nat
    BY <1>2, <1>4, <1>6
  <2>4. QED
    BY <1>5, <2>2, <2>3 DEF Before
<1>7. QED
  BY <1>6

\* An enabled rule of c, by its place.
LEMMA RuleOfConfig ==
    ASSUME NEW c \in Seq(Devices), NEW i \in DOMAIN c, NEW j \in DOMAIN c[i].rules
    PROVE  /\ c[i].rules[j] \in Rules
           /\ c[i].rules[j].start \in Minutes /\ c[i].rules[j].days \subseteq Weekdays
           /\ c[i].mac \in Macs
<1>1. c[i] \in Devices
  OBVIOUS
<1>2. c[i].mac \in Macs /\ c[i].rules \in Seq(Rules)
  BY <1>1 DEF Devices
<1>3. c[i].rules[j] \in Rules
  BY <1>2
<1>4. QED
  BY <1>2, <1>3 DEF Rules, Minutes

\* What next_occurrence returns for a rule with a weekday.
LEMMA OccurrenceType ==
    ASSUME NEW t \in Time, NEW start \in Minutes, NEW days, days \subseteq Weekdays
    PROVE  /\ NextOccurrence(start, days, t) # NoTime =>
                /\ days # {}
                /\ NextOccurrence(start, days, t) \in [day : Nat, minute : Nat]
                /\ NextOccurrence(start, days, t).minute = start
                /\ Weekday(NextOccurrence(start, days, t).day) \in days
           /\ days # {} => NextOccurrence(start, days, t) # NoTime
<1> DEFINE n == NextOccurrence(start, days, t)
<1>1. start \in Nat /\ start \in 0..(DayLength - 1) /\ t.day \in Nat
  BY ScheduleAssumption DEF Minutes, Time
<1>2. CASE days = {}
  <2>1. Offsets(start, days, t) = {}
    BY <1>2 DEF Offsets
  <2>2. QED
    BY <1>2, <2>1 DEF NextOccurrence
<1>3. CASE days # {}
  <2>1. PICK o \in 0..7 : n = Candidate(start, t, o)
    <3> DEFINE S == Offsets(start, days, t)
    <3>1. S # {} /\ S \subseteq 0..7
      BY <1>1, <1>3, SomeOffset
    <3>2. \E o \in S : \A p \in S : o <= p
      BY <3>1, LeastNumber
    <3>3. (CHOOSE o \in S : \A p \in S : o <= p) \in S
      BY <3>2
    <3>4. QED
      BY <3>1, <3>3 DEF NextOccurrence
  <2>2. n.day = t.day + o /\ n.minute = start /\ n \in [day : Nat, minute : Nat]
    BY <1>1, <2>1 DEF Candidate
  <2>3. n # NoTime
    BY <1>1, <2>2 DEF NoTime
  <2>4. Weekday(n.day) \in days
    BY <1>1, <1>3, NextOccurrenceIsNext DEF IsNextOccurrence
  <2>5. QED
    BY <1>3, <2>2, <2>3, <2>4
<1>4. QED
  BY <1>2, <1>3

\* _next_due is one of the rules' next occurrences, and none is before it.
LEMMA NextDueFirst ==
    ASSUME NEW c \in Seq(Devices), NEW t \in Time
    PROVE  /\ NextDue(c, t) # NoTime =>
                /\ NextDue(c, t) \in StartsOf(c, t)
                /\ NextDue(c, t) \in [day : Nat, minute : Nat]
                /\ \A u \in StartsOf(c, t) : ~Before(u, NextDue(c, t))
           /\ NextDue(c, t) = NoTime => StartsOf(c, t) = {}
<1> DEFINE S == StartsOf(c, t)
<1>1. S \subseteq [day : Nat, minute : Nat]
  <2> SUFFICES ASSUME NEW n \in S PROVE n \in [day : Nat, minute : Nat]
    OBVIOUS
  <2>1. PICK i \in DOMAIN c : \E j \in DOMAIN c[i].rules :
                LET r == c[i].rules[j] IN n = NextOccurrence(r.start, r.days, t)
    BY DEF StartsOf
  <2>2. PICK j \in DOMAIN c[i].rules :
                n = NextOccurrence(c[i].rules[j].start, c[i].rules[j].days, t)
    BY <2>1
  <2>3. n # NoTime
    BY DEF StartsOf
  <2>4. QED
    BY <2>2, <2>3, RuleOfConfig, OccurrenceType
<1>2. NoTime \notin S
  BY DEF StartsOf
<1>3. NextDue(c, t) = IF S = {} THEN NoTime
                      ELSE CHOOSE s \in S : \A u \in S : ~Before(u, s)
  BY DEF NextDue, StartsOf
<1>4. CASE S = {}
  BY <1>3, <1>4
<1>5. CASE S # {}
  <2>1. \E s \in S : \A u \in S : ~Before(u, s)
    BY <1>1, <1>5, FirstTime
  <2> HIDE DEF S
  <2>2. NextDue(c, t) \in S /\ \A u \in S : ~Before(u, NextDue(c, t))
    BY <1>3, <1>5, <2>1
  <2>3. QED
    BY <1>1, <1>2, <2>2 DEF S
<1>6. QED
  BY <1>4, <1>5

\* The next run that GET /api/scheduling shows is the first minute after now in which
\* run_due has a rule to fire, for any rules (server.py:497, scheduler.py:17-52).
THEOREM NextRunIsFirst == Spec => []NextDueIsFirst
<1>1. TypeOK => NextDueIsFirst
  <2> SUFFICES ASSUME TypeOK PROVE NextDueIsFirst
    OBVIOUS
  <2> DEFINE next == NextDue(config, now)
  <2>1. /\ config \in Seq(Devices) /\ now \in Time
        /\ now.day \in Nat /\ now.minute \in Minutes
    BY SchedulerAssumption DEF TypeOK, Times, Time, Minutes
  <2>2. ASSUME next # NoTime
        PROVE  DuePlaces(config, next, 0) # {}
    <3>1. next \in StartsOf(config, now)
      BY <2>1, <2>2, NextDueFirst
    <3>2. PICK i \in DOMAIN config : \E j \in DOMAIN config[i].rules :
                 LET r == config[i].rules[j]
                 IN  r.enabled /\ next = NextOccurrence(r.start, r.days, now)
      BY <3>1 DEF StartsOf
    <3>3. PICK j \in DOMAIN config[i].rules :
                 /\ config[i].rules[j].enabled
                 /\ next = NextOccurrence(config[i].rules[j].start,
                                          config[i].rules[j].days, now)
      BY <3>2
    <3> DEFINE r == config[i].rules[j]
    <3>4. r.start \in Minutes /\ r.days \subseteq Weekdays
      BY <2>1, RuleOfConfig
    <3>5. next.minute = r.start /\ Weekday(next.day) \in r.days
      BY <2>1, <2>2, <3>3, <3>4, OccurrenceType
    <3>6. next.minute - r.start \in 0..0
      BY <3>4, <3>5 DEF Minutes
    <3>7. Due(r, next, 0)
      BY <3>3, <3>5, <3>6 DEF Due
    <3>8. <<i, j>> \in DuePlaces(config, next, 0)
      BY <3>7 DEF DuePlaces
    <3>9. QED
      BY <3>8
  <2>3. ASSUME NEW d \in 0..7, NEW m \in Minutes,
               Before(now, [day |-> now.day + d, minute |-> m]),
               \/ next = NoTime
               \/ Before([day |-> now.day + d, minute |-> m], next),
               NEW p \in DuePlaces(config, [day |-> now.day + d, minute |-> m], 0)
        PROVE  FALSE
    <3> DEFINE s == [day |-> now.day + d, minute |-> m]
    <3>1. PICK i \in DOMAIN config : \E j \in DOMAIN config[i].rules :
                 Due(config[i].rules[j], s, 0)
      BY <2>3 DEF DuePlaces
    <3>2. PICK j \in DOMAIN config[i].rules : Due(config[i].rules[j], s, 0)
      BY <3>1
    <3> DEFINE r == config[i].rules[j]
               t == NextOccurrence(r.start, r.days, now)
    <3>3. r.start \in Minutes /\ r.days \subseteq Weekdays
      BY <2>1, RuleOfConfig
    <3>4. s.day = now.day + d /\ s.minute = m
      OBVIOUS
    <3>5. r.enabled /\ Weekday(s.day) \in r.days /\ m = r.start
      BY <3>2, <3>3, <3>4 DEF Due, Minutes
    <3>6. /\ t # NoTime /\ t \in [day : Nat, minute : Nat] /\ t.minute = r.start
      BY <2>1, <3>3, <3>5, OccurrenceType
    <3>7. t \in StartsOf(config, now)
      BY <3>5, <3>6 DEF StartsOf
    <3>8. next # NoTime /\ ~Before(t, next) /\ next \in [day : Nat, minute : Nat]
      BY <2>1, <3>7, NextDueFirst
    <3>9. \A e \in now.day..t.day :
             Weekday(e) \in r.days /\ Before(now, [day |-> e, minute |-> r.start])
                => e = t.day
      <4>1. r.start \in 0..(DayLength - 1) /\ r.days # {}
        BY <3>3, <3>5 DEF Minutes
      <4> HIDE DEF r
      <4>2. IsNextOccurrence(r.start, r.days, now, t)
        BY <2>1, <3>3, <4>1, NextOccurrenceIsNext
      <4> HIDE DEF t
      <4>3. QED
        BY <4>2 DEF IsNextOccurrence
    <3>10. s.day <= t.day => s.day = t.day
      <4>1. s = [day |-> s.day, minute |-> r.start]
        BY <3>4, <3>5
      <4>2. s.day \in Nat /\ now.day <= s.day /\ t.day \in Nat
        BY <2>1, <3>4, <3>6
      <4>3. QED
        BY <2>1, <2>3, <3>5, <3>9, <4>1, <4>2
    <3>11. Before(s, next)
      BY <2>3, <3>8
    <3> HIDE DEF s, t, next, r
    <3>12. s.day \in Nat /\ s.minute = t.minute
      BY <2>1, <3>4, <3>5, <3>6
    <3>13. QED
      BY <3>6, <3>8, <3>10, <3>11, <3>12 DEF Before
  <2>4. QED
    BY <2>2, <2>3 DEF NextDueIsFirst
<1>2. QED
  BY <1>1, SchedulerTypeCorrect, PTL

-----------------------------------------------------------------------------
(***************************************************************************)
(* Every window is used.  Between the starts of two ticks lie TickMinutes  *)
(* and one at most; a tick that meets the window fires the rule or finds   *)
(* it confirmed.  Users, clock and crashes reset the account: what holds   *)
(* is about the rules that start after the last of them.                   *)
(***************************************************************************)

\* How long ago the last tick, or the one under way, may have read the time.
Slack == IF todo # {} THEN busy ELSE IF awake THEN TickMinutes ELSE TickMinutes + 1

\* A tick under way has read the time busy minutes ago, or the clock was set back.
TickRecent == todo # {} /\ at.day = now.day => now.minute <= at.minute + busy

FiredConfirmed == fired \subseteq confirmed

\* Confirmed, being fired, or tried at m or later.
Served(k, m) ==
    \/ k \in confirmed
    \/ \E p \in todo : PlaceKey(plan, p, at.day) = k
    \/ tried[k] >= m

\* A rule of today, undisturbed since its start.
Today(r) == r.enabled /\ Weekday(now.day) \in r.days /\ Undisturbed(r.start)

\* The rule was served by a tick at m or later, for every m that a tick has passed
\* and that is not within TickMinutes of the window's end.
ServedUpTo(mac, r) ==
    Today(r) => \A m \in r.start..(r.start + Grace - TickMinutes) :
                   m <= now.minute - Slack => Served(KeyOf(mac, r, now.day), m)

AllServed ==
    \A i \in DOMAIN config : \A j \in DOMAIN config[i].rules :
       ServedUpTo(config[i].mac, config[i].rules[j])

WindowInv == FiredInv /\ FiredConfirmed /\ TickRecent /\ AllServed

\* The arithmetic of minutes is one of integers.
LEMMA MinuteTypes ==
    ASSUME TypeOK
    PROVE  /\ now.minute \in Nat /\ at.minute \in Nat /\ since.minute \in Nat
           /\ now.day \in 0..LastDay /\ at.day \in 0..LastDay /\ now.day \in Nat
           /\ at.day \in Nat /\ busy \in 0..TickMinutes
           /\ Grace \in Nat /\ TickMinutes \in Nat
           /\ Slack \in 0..(TickMinutes + 1)
<1>1. DayLength \in Nat /\ Grace \in Nat /\ TickMinutes \in Nat /\ LastDay \in Nat
  BY ScheduleAssumption, SchedulerAssumption
<1>2. /\ now.minute \in Nat /\ at.minute \in Nat /\ since.minute \in Nat
      /\ now.day \in 0..LastDay /\ at.day \in 0..LastDay /\ busy \in 0..TickMinutes
  BY <1>1 DEF TypeOK, Times, Minutes
<1>3. QED
  BY <1>1, <1>2 DEF Slack

\* The key of a rule of the config on the day that it is.
LEMMA RuleKey ==
    ASSUME TypeOK, NEW i \in DOMAIN config, NEW j \in DOMAIN config[i].rules
    PROVE  /\ config[i].rules[j].start \in Nat
           /\ KeyOf(config[i].mac, config[i].rules[j], now.day) \in Keys
           /\ KeyOf(config[i].mac, config[i].rules[j], now.day).day = now.day
<1>1. /\ config[i].rules[j] \in Rules /\ config[i].rules[j].start \in Minutes
      /\ config[i].mac \in Macs
  BY RuleOfConfig DEF TypeOK
<1>2. config[i].rules[j].valve \in Valves
  BY <1>1 DEF Rules
<1>3. QED
  BY <1>1, <1>2, MinuteTypes, ScheduleAssumption DEF KeyOf, Keys, Minutes

\* At the start no rule is late.
LEMMA WindowInit == Init => WindowInv
<1> SUFFICES ASSUME Init PROVE WindowInv
  OBVIOUS
<1>1. FiredInv /\ TypeOK
  BY FiredInit DEF FiredInv
<1>2. FiredConfirmed /\ TickRecent
  BY DEF Init, FiredConfirmed, TickRecent
<1>3. Slack = TickMinutes + 1 /\ now.minute = 0
  BY DEF Init, Slack, Start
<1>4. AllServed
  <2> SUFFICES ASSUME NEW i \in DOMAIN config, NEW j \in DOMAIN config[i].rules,
                      NEW m \in Int, config[i].rules[j].start <= m, m <= now.minute - Slack
               PROVE  FALSE
    BY <1>1, RuleKey, MinuteTypes DEF AllServed, ServedUpTo
  <2>1. QED
    BY <1>1, <1>3, RuleKey, MinuteTypes
<1>5. QED
  BY <1>1, <1>2, <1>4 DEF WindowInv

\* Whoever interferes resets the account.
LEMMA DisturbedServed == TypeOK /\ since = now => AllServed
<1> SUFFICES ASSUME TypeOK, since = now, NEW i \in DOMAIN config,
                    NEW j \in DOMAIN config[i].rules, NEW m \in Int,
                    config[i].rules[j].start <= m, m <= now.minute - Slack,
                    Undisturbed(config[i].rules[j].start)
             PROVE  FALSE
  BY RuleKey, MinuteTypes DEF AllServed, ServedUpTo, Today
<1>1. since.minute < config[i].rules[j].start
  BY MinuteTypes DEF Undisturbed
<1>2. QED
  BY <1>1, RuleKey, MinuteTypes

\* Where neither the rules nor the marks change and time stands or goes on by as
\* much as the slack, what was served is served.
LEMMA SameServed ==
    ASSUME WindowInv,
           UNCHANGED <<config, enabled, job, since, confirmed, todo, plan, at, tried>>,
           now'.day = now.day, now'.minute - Slack' <= now.minute - Slack,
           Slack' \in Int, now'.minute \in Int
    PROVE  AllServed'
<1> SUFFICES ASSUME NEW i \in DOMAIN config, NEW j \in DOMAIN config[i].rules
             PROVE  ServedUpTo(config[i].mac, config[i].rules[j])'
  BY DEF AllServed
<1>1. ServedUpTo(config[i].mac, config[i].rules[j]) /\ TypeOK
  BY DEF WindowInv, AllServed, FiredInv
<1>2. Today(config[i].rules[j])' => Today(config[i].rules[j])
  BY DEF Today, Undisturbed
<1>3. ASSUME NEW m \in Int, m <= now'.minute - Slack'
      PROVE  m <= now.minute - Slack
  BY <1>1, <1>3, MinuteTypes
<1>4. ASSUME NEW k, NEW m, Served(k, m)
      PROVE  Served(k, m)'
  BY <1>4 DEF Served
<1>5. \A m \in config[i].rules[j].start..(config[i].rules[j].start + Grace - TickMinutes) :
         m \in Int
  OBVIOUS
<1>6. QED
  BY <1>1, <1>2, <1>3, <1>4, <1>5 DEF ServedUpTo

\* A fire serves its rule, and drops from the tick only rules that are confirmed.
LEMMA AttemptedServed ==
    ASSUME WindowInv, todo # {}, NEW ok \in BOOLEAN, Attempted(ok),
           NEW k \in Keys, k.day = now.day, NEW m \in Int, m <= now.minute - busy,
           Served(k, m), at' = at
    PROVE  Served(k, m)'
<1> DEFINE p == FirstOf(todo)
           f == PlaceKey(plan, p, at.day)
<1>1. TypeOK /\ tried \in [Keys -> Minutes \cup {-1}] /\ DayLength \in Nat
  BY ScheduleAssumption DEF WindowInv, FiredInv, TypeOK
<1>2. /\ fired' = Marked(f, ok)
      /\ confirmed' = IF ok THEN confirmed \cup {f} ELSE confirmed
      /\ tried' = IF at.day = now.day THEN [tried EXCEPT ![f] = at.minute] ELSE tried
      /\ todo' = Unfired(plan, todo \ {p}, fired', at.day)
      /\ plan' = IF todo' = {} THEN <<>> ELSE plan
  BY DEF Attempted, PlanFor
<1>3. fired' \subseteq confirmed'
  BY <1>2 DEF WindowInv, FiredConfirmed, Marked
<1>4. at.day = now.day => m <= at.minute
  BY <1>1, MinuteTypes DEF WindowInv, TickRecent
<1> HIDE DEF p, f
<1>5. CASE k \in confirmed
  BY <1>2, <1>5 DEF Served
<1>6. ASSUME tried[k] >= m
      PROVE  tried'[k] >= m
  BY <1>1, <1>2, <1>4, <1>6
<1>7. ASSUME NEW q \in todo, PlaceKey(plan, q, at.day) = k
      PROVE  Served(k, m)'
  <2>1. at.day = now.day
    BY <1>1, <1>7, PlaceType, MinuteTypes DEF TypeOK
  <2>2. CASE k = f
    <3>1. tried'[k] = at.minute
      BY <1>1, <1>2, <2>1, <2>2
    <3>2. QED
      BY <1>4, <2>1, <3>1 DEF Served
  <2>3. CASE k \in fired'
    BY <1>3, <2>3 DEF Served
  <2>4. CASE k # f /\ k \notin fired'
    <3>1. q # p
      BY <1>7, <2>4 DEF f
    <3>2. q \in todo'
      BY <1>2, <1>7, <2>4, <3>1 DEF Unfired
    <3>3. PlaceKey(plan', q, at') = PlaceKey(plan, q, at')
      BY <1>2, <3>2
    <3>4. QED
      BY <1>2, <1>7, <3>2 DEF Served
  <2>5. QED
    BY <2>2, <2>3, <2>4
<1>8. QED
  BY <1>5, <1>6, <1>7 DEF Served

\* run_due after a fire keeps the account.
LEMMA AttemptedWindow ==
    ASSUME WindowInv, todo # {}, NEW ok \in BOOLEAN, Attempted(ok),
           UNCHANGED <<now, config, enabled, job, at, since>>
    PROVE  FiredConfirmed' /\ TickRecent' /\ AllServed'
<1>1. TypeOK
  BY DEF WindowInv, FiredInv
<1>2. /\ busy' = IF todo' = {} THEN 0 ELSE busy
      /\ awake' = TRUE
  BY DEF Attempted
<1>3. FiredConfirmed'
  BY DEF Attempted, Marked, WindowInv, FiredConfirmed
<1>4. TickRecent'
  BY <1>2 DEF WindowInv, TickRecent
<1>5. Slack' \in Int /\ busy <= Slack'
  BY <1>1, <1>2, MinuteTypes DEF Slack
<1>6. ASSUME NEW i \in DOMAIN config, NEW j \in DOMAIN config[i].rules
      PROVE  ServedUpTo(config[i].mac, config[i].rules[j])'
  <2> DEFINE r == config[i].rules[j]
             key == KeyOf(config[i].mac, r, now.day)
  <2>1. key \in Keys /\ key.day = now.day /\ r.start \in Nat
    BY <1>1, RuleKey
  <2>2. ServedUpTo(config[i].mac, r)
    BY DEF WindowInv, AllServed
  <2>3. Today(r)' => Today(r)
    BY DEF Today, Undisturbed
  <2>4. Slack = busy
    BY DEF Slack
  <2>5. ASSUME Today(r), NEW k \in Keys, k = key,
               NEW m \in r.start..(r.start + Grace - TickMinutes),
               m <= now.minute - Slack'
        PROVE  Served(k, m)'
    <3>1. m \in Int /\ m <= now.minute - busy
      BY <1>1, <1>5, <2>1, <2>5, MinuteTypes
    <3>2. Served(k, m) /\ k.day = now.day
      BY <2>1, <2>2, <2>4, <2>5, <3>1 DEF ServedUpTo
    <3>3. QED
      BY <3>1, <3>2, AttemptedServed
  <2>6. QED
    BY <2>1, <2>3, <2>5 DEF ServedUpTo
<1>7. QED
  BY <1>3, <1>4, <1>6 DEF AllServed

\* A tick serves every rule whose window it meets; with ticks no further apart than
\* the grace, the windows that it finds over were met by an earlier one.
LEMMA TickWindow ==
    ASSUME WindowInv, Tick
    PROVE  FiredConfirmed' /\ TickRecent' /\ AllServed'
<1>1. /\ todo = {} /\ awake' = TRUE
      /\ UNCHANGED <<now, config, enabled, job, since, confirmed, tried>>
  BY DEF Tick, history
<1>2. TypeOK /\ config \in Seq(Devices)
  BY DEF WindowInv, FiredInv, TypeOK
<1>3. CASE job \/ ~enabled
  <2>1. UNCHANGED <<fired, at, plan, todo, busy>>
    BY <1>3 DEF Tick
  <2>2. ASSUME NEW r PROVE ~Today(r)'
    BY <1>1, <1>3 DEF Today, Undisturbed
  <2>3. QED
    BY <1>1, <2>1, <2>2 DEF WindowInv, FiredConfirmed, TickRecent, AllServed, ServedUpTo
<1>4. CASE ~(job \/ ~enabled)
  <2>1. /\ at' = now /\ fired' = Prune(fired, now.day) /\ busy' = 0
        /\ todo' = Unfired(config, DuePlaces(config, now, Grace), fired', now.day)
        /\ plan' = IF todo' = {} THEN <<>> ELSE config
    BY <1>4 DEF Tick
  <2>2. FiredConfirmed'
    BY <1>1, <2>1 DEF Prune, WindowInv, FiredConfirmed
  <2>3. TickRecent'
    BY <1>1, <1>2, <2>1, MinuteTypes DEF TickRecent
  <2>4. Slack' \in Nat
    BY <1>1, <1>2, <2>1, MinuteTypes DEF Slack
  <2>5. ASSUME NEW i \in DOMAIN config, NEW j \in DOMAIN config[i].rules
        PROVE  ServedUpTo(config[i].mac, config[i].rules[j])'
    <3> DEFINE r == config[i].rules[j]
               key == KeyOf(config[i].mac, r, now.day)
    <3>1. r.start \in Nat /\ key \in Keys
      BY <1>2, RuleKey
    <3>2. ServedUpTo(config[i].mac, r)
      BY DEF WindowInv, AllServed
    <3>3. Today(r)' => Today(r)
      BY <1>1 DEF Today, Undisturbed
    <3>4. ASSUME Today(r), now.minute - r.start \in 0..Grace, key \notin fired'
          PROVE  \E p \in todo' : PlaceKey(plan', p, at'.day) = key
      <4>1. Due(r, now, Grace)
        BY <3>4 DEF Due, Today
      <4>2. <<i, j>> \in DuePlaces(config, now, Grace)
        BY <4>1 DEF DuePlaces
      <4>3. PlaceKey(config, <<i, j>>, now.day) = key
        BY DEF PlaceKey
      <4>4. <<i, j>> \in todo'
        BY <2>1, <3>4, <4>2, <4>3 DEF Unfired
      <4>5. plan' = config
        BY <2>1, <4>4
      <4>6. QED
        BY <2>1, <4>3, <4>4, <4>5
    <3>5. ASSUME Today(r), NEW k \in Keys, k = key,
                 NEW m \in r.start..(r.start + Grace - TickMinutes),
                 m <= now.minute - Slack'
          PROVE  Served(k, m)'
      <4>1. m \in Int /\ m >= r.start /\ m <= r.start + Grace - TickMinutes /\ m <= now.minute
        BY SMTT(20), <1>2, <2>4, <3>1, <3>5, MinuteTypes
      <4> DEFINE s == r.start
      <4>0. /\ now.minute \in Nat /\ Grace \in Nat /\ TickMinutes \in Nat
            /\ Slack \in 0..(TickMinutes + 1) /\ s \in Nat
        BY <1>2, <3>1, MinuteTypes
      <4>2. CASE now.minute <= r.start + Grace
        <5>1. now.minute - s \in 0..Grace
          BY <4>0, <4>1, <4>2
        <5>2. k \in confirmed' \/ \E p \in todo' : PlaceKey(plan', p, at'.day) = k
          BY <2>2, <3>4, <3>5, <5>1 DEF FiredConfirmed
        <5>3. QED
          BY <5>2 DEF Served
      <4>3. CASE ~(now.minute <= r.start + Grace)
        <5>1. m <= now.minute - Slack
          BY <4>0, <4>1, <4>3
        <5>2. Served(k, m)
          BY <3>2, <3>5, <5>1 DEF ServedUpTo
        <5>3. QED
          BY <1>1, <5>2 DEF Served
      <4>4. QED
        BY <4>2, <4>3
    <3>6. QED
      BY <1>1, <3>1, <3>3, <3>5 DEF ServedUpTo
  <2>6. QED
    BY <1>1, <2>2, <2>3, <2>5 DEF AllServed
<1>5. QED
  BY <1>3, <1>4

\* Every step keeps the account.
LEMMA WindowStep == WindowInv /\ [Next]_vars => WindowInv'
<1> SUFFICES ASSUME WindowInv, [Next]_vars
             PROVE  WindowInv'
  OBVIOUS
<1> USE DEF loop, history
<1>1. FiredInv' /\ TypeOK' /\ TypeOK /\ TimerFiring
  BY FiredStep DEF WindowInv, FiredInv
<1>2. ASSUME RadioGranted
      PROVE  FiredConfirmed' /\ TickRecent' /\ AllServed'
  <2>1. CASE FirstOf(todo)[1] \in DOMAIN config
    <3>1. UNCHANGED <<now, config, enabled, job, fired, at, plan, todo, busy, awake,
                      confirmed, tried, since>>
      BY <1>2, <2>1 DEF RadioGranted
    <3>2. Slack' = Slack
      BY <3>1 DEF Slack
    <3>3. AllServed'
      BY <1>1, <3>1, <3>2, SameServed, MinuteTypes
    <3>4. QED
      BY <3>1, <3>3 DEF WindowInv, FiredConfirmed, TickRecent
  <2>2. CASE FirstOf(todo)[1] \notin DOMAIN config
    <3>1. /\ todo # {} /\ Attempted(FALSE)
          /\ UNCHANGED <<now, config, enabled, job, at, since>>
      BY <1>2, <2>2 DEF RadioGranted
    <3>2. QED
      BY <3>1, AttemptedWindow
  <2>3. QED
    BY <2>1, <2>2
<1>3. ASSUME FireFails \/ FireConfirmed
      PROVE  FiredConfirmed' /\ TickRecent' /\ AllServed'
  <2>1. /\ todo # {} /\ \E ok \in BOOLEAN : Attempted(ok)
        /\ UNCHANGED <<now, config, enabled, job, at, since>>
    BY <1>1, <1>3 DEF FireFails, FireConfirmed, TimerFiring
  <2>2. QED
    BY <2>1, AttemptedWindow
<1>4. ASSUME NextMinute
      PROVE  FiredConfirmed' /\ TickRecent' /\ AllServed'
  <2>1. UNCHANGED <<config, enabled, job, fired, at, plan, todo, confirmed, since>>
    BY <1>4 DEF NextMinute
  <2>2. /\ IF todo = {} THEN awake ELSE busy < TickMinutes
        /\ busy' = IF todo = {} THEN 0 ELSE busy + 1
        /\ awake' = FALSE
    BY <1>4 DEF NextMinute
  <2>3. Slack' = Slack + 1
    BY <1>1, <2>1, <2>2, MinuteTypes DEF Slack
  <2>4. FiredConfirmed'
    BY <2>1 DEF WindowInv, FiredConfirmed
  <2>5. CASE now' = [now EXCEPT !.minute = @ + 1] /\ tried' = tried
    <3>1. now'.day = now.day /\ now'.minute = now.minute + 1
      BY <1>1, <2>5 DEF TypeOK, Times
    <3>2. TickRecent'
      BY <1>1, <2>1, <2>2, <3>1, MinuteTypes DEF WindowInv, TickRecent
    <3>3. AllServed'
      BY <1>1, <2>1, <2>3, <2>5, <3>1, SameServed, MinuteTypes
    <3>4. QED
      BY <2>4, <3>2, <3>3
  <2>6. CASE now' = [day |-> now.day + 1, minute |-> 0]
    <3>1. now'.day = now.day + 1 /\ now'.minute = 0
      BY <2>6
    <3>2. TickRecent'
      BY <1>1, <2>1, <3>1, MinuteTypes DEF WindowInv, FiredInv, TicksPast, TickRecent
    <3>3. now'.minute - Slack' < 0 /\ Slack' \in Int
      BY <1>1, <2>3, <3>1, MinuteTypes
    <3>4. ASSUME NEW i \in DOMAIN config, NEW j \in DOMAIN config[i].rules,
                 NEW m \in config[i].rules[j].start..
                           (config[i].rules[j].start + Grace - TickMinutes),
                 m <= now'.minute - Slack'
          PROVE  FALSE
      BY <1>1, <3>1, <3>3, <3>4, RuleKey, MinuteTypes
    <3>5. AllServed'
      BY <2>1, <3>4 DEF AllServed, ServedUpTo
    <3>6. QED
      BY <2>4, <3>2, <3>5
  <2>7. QED
    BY <1>4, <2>5, <2>6 DEF NextMinute
<1>5. ASSUME since' = now', FiredConfirmed', TickRecent'
      PROVE  FiredConfirmed' /\ TickRecent' /\ AllServed'
  <2>1. (TypeOK /\ since = now)' => AllServed'
    BY DisturbedServed, PTL
  <2>2. QED
    BY <1>1, <1>5, <2>1
<1>6. ASSUME ClockBack
      PROVE  FiredConfirmed' /\ TickRecent' /\ AllServed'
  <2>1. PICK m \in Minutes : /\ m < now.minute /\ now' = [now EXCEPT !.minute = m]
                             /\ since' = [now EXCEPT !.minute = m]
    BY <1>6 DEF ClockBack, Interfere
  <2>2. now'.day = now.day /\ now'.minute = m /\ m \in Int /\ since' = now'
    BY <1>1, <2>1 DEF TypeOK, Times, Minutes
  <2>3. UNCHANGED <<todo, at, busy, fired, confirmed>>
    BY <1>6 DEF ClockBack
  <2>4. TickRecent'
    BY <1>1, <2>1, <2>2, <2>3, MinuteTypes DEF WindowInv, TickRecent
  <2>5. FiredConfirmed'
    BY <2>3 DEF WindowInv, FiredConfirmed
  <2>6. QED
    BY <1>5, <2>2, <2>4, <2>5
<1>7. ASSUME \/ \E i \in DOMAIN config :
                   \/ \E rules \in Programs : PutSchedules(i, rules)
                   \/ RemoveDevice(i)
             \/ \E on \in BOOLEAN : PutScheduling(on)
             \/ OnboardJob
      PROVE  FiredConfirmed' /\ TickRecent' /\ AllServed'
  <2>1. UNCHANGED <<now, todo, at, busy, fired, confirmed>> /\ since' = now
    BY <1>7 DEF PutSchedules, RemoveDevice, PutScheduling, OnboardJob, Interfere
  <2>2. QED
    BY <1>5, <2>1 DEF WindowInv, FiredConfirmed, TickRecent
<1>8. ASSUME Restart
      PROVE  FiredConfirmed' /\ TickRecent' /\ AllServed'
  <2>1. now' = now /\ todo' = {} /\ fired' = {} /\ confirmed' = {} /\ since' = now
    BY <1>8 DEF Restart, Interfere
  <2>2. QED
    BY <1>5, <2>1 DEF FiredConfirmed, TickRecent
<1>9. ASSUME UNCHANGED vars
      PROVE  FiredConfirmed' /\ TickRecent' /\ AllServed'
  BY <1>9 DEF vars, WindowInv, FiredConfirmed, TickRecent, AllServed, ServedUpTo, Served,
              Today, Undisturbed, Slack
<1>10. QED
  BY <1>1, <1>2, <1>3, <1>4, <1>6, <1>7, <1>8, <1>9, TickWindow DEF Next, WindowInv

\* With ticks that take no longer than the grace, a rule of a stored program whose
\* window has passed undisturbed was confirmed, is being fired, or was tried as late
\* as the ticks allow (server.py:563-600), whatever else is due and fails.
THEOREM EveryWindowIsUsed == TickMinutes <= Grace => (Spec => []WindowUsed)
<1> SUFFICES ASSUME TickMinutes <= Grace PROVE Spec => []WindowUsed
  OBVIOUS
<1>1. WindowInv => WindowUsed
  <2> SUFFICES ASSUME WindowInv, NEW i \in DOMAIN config, NEW j \in DOMAIN config[i].rules,
                      Today(config[i].rules[j]),
                      config[i].rules[j].start + Grace < now.minute
               PROVE  Served(KeyOf(config[i].mac, config[i].rules[j], now.day),
                             config[i].rules[j].start + Grace - TickMinutes)
    BY DEF WindowUsed, Today, Served
  <2> DEFINE r == config[i].rules[j]
             m == r.start + Grace - TickMinutes
  <2>1. TypeOK /\ ServedUpTo(config[i].mac, r)
    BY DEF WindowInv, FiredInv, AllServed
  <2>2. r.start \in Nat
    BY <2>1, RuleKey
  <2>3. m \in r.start..m /\ m <= now.minute - Slack
    BY <2>1, <2>2, MinuteTypes
  <2> HIDE DEF m
  <2>4. QED
    BY <2>1, <2>3 DEF ServedUpTo, m
<1>2. WindowInv /\ [Next]_vars => WindowInv'
  BY WindowStep
<1>3. QED
  BY <1>1, <1>2, WindowInit, PTL DEF Spec

-----------------------------------------------------------------------------
(***************************************************************************)
(* What takes a removal or a restart to go wrong.                          *)
(***************************************************************************)

\* The devices of the config a tick has read are where they were.
SamePlaces ==
    todo # {} => /\ DOMAIN plan = DOMAIN config
                 /\ \A i \in DOMAIN plan : plan[i].mac = config[i].mac

OwnInv == FiredInv /\ SamePlaces /\ OwnTimer

\* As long as no timer is removed, an edit of the rules leaves them there.
LEMMA OwnStep == "remove" \notin Events => (OwnInv /\ [Next]_vars => OwnInv')
<1> SUFFICES ASSUME "remove" \notin Events, OwnInv, [Next]_vars
             PROVE  OwnInv'
  OBVIOUS
<1> USE DEF loop, history
<1>1. FiredInv' /\ TypeOK /\ TimerFiring
  BY FiredStep DEF OwnInv, FiredInv
<1>2. ASSUME Tick
      PROVE  SamePlaces' /\ OwnTimer'
  <2>1. timer' = NoTimer /\ config' = config
    BY <1>1, <1>2 DEF Tick, TimerFiring
  <2>2. todo' # {} => plan' = config
    BY <1>2 DEF Tick
  <2>3. QED
    BY <2>1, <2>2 DEF SamePlaces, OwnTimer
<1>3. ASSUME RadioGranted \/ FireFails \/ FireConfirmed
      PROVE  SamePlaces' /\ OwnTimer'
  <2>1. todo # {} /\ config' = config
    BY <1>1, <1>3 DEF RadioGranted, FireFails, FireConfirmed, TimerFiring
  <2>2. CASE timer' = NoTimer /\ (todo' # {} => plan' = plan)
    BY <2>1, <2>2 DEF OwnInv, SamePlaces, OwnTimer
  <2>3. CASE \E ok \in BOOLEAN : Attempted(ok)
    BY <2>2, <2>3 DEF Attempted, PlanFor
  <2>4. CASE ~\E ok \in BOOLEAN : Attempted(ok)
    <3>1. /\ UNCHANGED <<todo, plan>> /\ FirstOf(todo)[1] \in DOMAIN config
          /\ timer' = config[FirstOf(todo)[1]].mac
      BY <1>3, <2>4 DEF RadioGranted, FireFails, FireConfirmed
    <3>2. QED
      BY <2>1, <3>1 DEF OwnInv, SamePlaces, OwnTimer
  <2>5. QED
    BY <2>3, <2>4
<1>4. ASSUME UNCHANGED <<timer, todo, plan, config>>
      PROVE  SamePlaces' /\ OwnTimer'
  BY <1>4 DEF OwnInv, SamePlaces, OwnTimer
<1>5. ASSUME NextMinute \/ ClockBack \/ OnboardJob \/ UNCHANGED vars
             \/ \E on \in BOOLEAN : PutScheduling(on)
      PROVE  SamePlaces' /\ OwnTimer'
  BY <1>4, <1>5 DEF NextMinute, ClockBack, OnboardJob, PutScheduling, vars
<1>6. ASSUME NEW i \in DOMAIN config, NEW rules \in Programs, PutSchedules(i, rules)
      PROVE  SamePlaces' /\ OwnTimer'
  <2>1. /\ config' = [config EXCEPT ![i].rules = rules]
        /\ UNCHANGED <<timer, todo, plan>>
    BY <1>6 DEF PutSchedules
  <2>2. config \in Seq(Devices)
    BY <1>1 DEF TypeOK
  <2>3. DOMAIN config' = DOMAIN config
    BY <2>1
  <2>4. ASSUME NEW j \in DOMAIN config PROVE config'[j].mac = config[j].mac
    <3>1. config[j] \in Devices
      BY <2>2
    <3>2. config'[j] = IF j = i THEN [config[j] EXCEPT !.rules = rules] ELSE config[j]
      BY <2>1
    <3>3. [config[j] EXCEPT !.rules = rules].mac = config[j].mac
      BY <3>1 DEF Devices
    <3>4. QED
      BY <3>2, <3>3
  <2>5. QED
    BY <2>1, <2>3, <2>4 DEF OwnInv, SamePlaces, OwnTimer
<1>7. ASSUME NEW i \in DOMAIN config, RemoveDevice(i)
      PROVE  FALSE
  BY <1>7 DEF RemoveDevice, Interfere
<1>8. ASSUME Restart
      PROVE  SamePlaces' /\ OwnTimer'
  BY <1>8 DEF Restart, SamePlaces, OwnTimer
<1>9. QED
  BY <1>1, <1>2, <1>3, <1>5, <1>6, <1>7, <1>8 DEF Next, OwnInv

\* "Schedules are keyed by MAC (stable)" (server.py:485) holds of the fires as long as
\* no timer is removed: whatever rules are edited while a tick is under way, each
\* fire goes to the timer whose rule it is.
THEOREM FiresGoHome == "remove" \notin Events => (Spec => []OwnTimer)
<1> SUFFICES ASSUME "remove" \notin Events PROVE Spec => []OwnTimer
  OBVIOUS
<1>1. Init => OwnInv
  BY FiredInit DEF Init, OwnInv, SamePlaces, OwnTimer
<1>2. OwnInv /\ [Next]_vars => OwnInv'
  BY OwnStep
<1>3. OwnInv => OwnTimer
  BY DEF OwnInv
<1>4. QED
  BY <1>1, <1>2, <1>3, PTL DEF Spec

\* "already run today - one fire per rule/day" (server.py:520) holds as long as the
\* process is not restarted: _fired is all that is needed, and all that is lost.
THEOREM OnceWithoutRestarts == "crash" \notin Events => (Spec => []OncePerDay)
<1> SUFFICES ASSUME "crash" \notin Events PROVE Spec => []OncePerDay
  OBVIOUS
<1> DEFINE NoneEarlier == earlier = {}
<1>1. Init => NoneEarlier
  BY DEF Init
<1>2. NoneEarlier /\ [Next]_vars => NoneEarlier'
  <2> SUFFICES ASSUME earlier = {}, [Next]_vars PROVE earlier' = earlier
    OBVIOUS
  <2> USE DEF loop, history
  <2>1. ~Restart
    BY DEF Restart, Interfere
  <2>2. QED
    BY <2>1 DEF Next, vars, Tick, RadioGranted, FireFails, FireConfirmed, NextMinute,
                ClockBack, PutSchedules, RemoveDevice, PutScheduling, OnboardJob
<1>3. FiredOnce /\ NoneEarlier => OncePerDay
  BY DEF FiredOnce, OncePerDay
<1> HIDE DEF NoneEarlier
<1>4. QED
  BY <1>1, <1>2, <1>3, NeverTwiceADay, PTL DEF Spec
=============================================================================

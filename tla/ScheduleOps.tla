---------------------------- MODULE ScheduleOps ----------------------------
(***************************************************************************)
(* The pure part of host scheduling: scheduler.py (which rules are due,    *)
(* when a rule runs next) and the rule check of schedule.py.               *)
(*                                                                         *)
(* A time is a record of a day, counted from a Monday, and a minute of the *)
(* day; the code's datetime is cut off at the minute.                      *)
(***************************************************************************)
EXTENDS Integers, Sequences

CONSTANTS DayLength,    \* minutes in a day (the code: 24 * 60)
          Valves        \* the valves of a timer, 1..stations

ASSUME ScheduleAssumption == DayLength \in Nat \ {0} /\ Valves \subseteq Nat

Time == [day : Nat, minute : 0..(DayLength - 1)]

Weekdays == 0..6

\* datetime.weekday(): 0 is Monday
Weekday(day) == day % 7

Before(a, b) == a.day < b.day \/ (a.day = b.day /\ a.minute < b.minute)

\* A stored rule.  Its run time is left out: nothing here depends on it.
Rules == [valve : Valves, start : 0..(DayLength - 1), days : SUBSET Weekdays,
          enabled : BOOLEAN]

\* What validate_rule accepts, of a rule whose fields have the right types.
ValidRule(r) == /\ r.valve \in Valves
                /\ r.start \in 0..(DayLength - 1)
                /\ r.days # {} /\ r.days \subseteq Weekdays

(* Mutant: the catch-up window is open at its end. *)
DueBeforeGraceEnds(r, now, grace) ==
    /\ r.enabled
    /\ Weekday(now.day) \in r.days
    /\ now.minute - r.start \in 0..(grace - 1)

\* due_rules' test of one rule.
Due(r, now, grace) ==
    /\ r.enabled
    /\ Weekday(now.day) \in r.days
    /\ now.minute - r.start \in 0..grace

\* due_rules
DueRules(rules, now, grace) == SelectSeq(rules, LAMBDA r : Due(r, now, grace))

\* next_occurrence's candidate, offset days from today.
Candidate(start, now, offset) == [day |-> now.day + offset, minute |-> start]

(* Mutant: a week has seven offsets, not eight. *)
OffsetsOneWeek(start, days, now) ==
    {o \in 0..6 : /\ Weekday(now.day + o) \in days
                  /\ Before(now, Candidate(start, now, o))}

\* The offsets at which the loop of next_occurrence would return.
Offsets(start, days, now) ==
    {o \in 0..7 : /\ Weekday(now.day + o) \in days
                  /\ Before(now, Candidate(start, now, o))}

\* next_occurrence: the first of them; NoTime (None in the code) without any.
NoTime == [day |-> -1, minute |-> -1]

NextOccurrence(start, days, now) ==
    LET offsets == Offsets(start, days, now)
    IN  IF offsets = {} THEN NoTime
        ELSE Candidate(start, now, CHOOSE o \in offsets : \A p \in offsets : o <= p)

-----------------------------------------------------------------------------
\* next_occurrence means: the first start after now, of any day.
IsNextOccurrence(start, days, now, t) ==
    /\ t.minute = start /\ Weekday(t.day) \in days /\ Before(now, t)
    /\ \A d \in now.day..t.day :
          Weekday(d) \in days /\ Before(now, [day |-> d, minute |-> start]) => d = t.day
=============================================================================

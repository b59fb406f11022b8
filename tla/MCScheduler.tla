---------------------------- MODULE MCScheduler ----------------------------
(* Small instances of Scheduler: two timers, days of five minutes.          *)
EXTENDS Scheduler

CONSTANTS m1, m2

Rule(start, days) == [valve |-> 1, start |-> start, days |-> days, enabled |-> TRUE]

\* Both days; twice on the first day; the first day, with a rule switched off;
\* and one that is refused.
MCDaily == <<Rule(1, {0, 1})>>
MCTwice == <<Rule(1, {0}), Rule(2, {0, 1})>>
MCFirst == <<Rule(2, {0}), [Rule(1, {1}) EXCEPT !.enabled = FALSE]>>
MCNoDays == <<Rule(2, {})>>

MCPrograms == {MCTwice, MCNoDays}

MCConfigured == <<[mac |-> m1, rules |-> MCDaily], [mac |-> m2, rules |-> MCFirst]>>
=============================================================================

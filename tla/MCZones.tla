------------------------------ MODULE MCZones ------------------------------
(* Small instances of Zones: two timers, all configured at the start.      *)
EXTENDS ZonesExclusion

CONSTANTS tm1, tm2, r1, r2, r3

MCTwoTimers == <<tm1, tm2>>
=============================================================================

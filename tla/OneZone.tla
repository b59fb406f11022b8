------------------------------ MODULE OneZone ------------------------------
(***************************************************************************)
(* What the zone dashboard means to be, with no radio in it: one zone, at  *)
(* most, runs over all timers; the server believes a zone to be running    *)
(* only after it ran, drops that belief only when nothing runs, and never  *)
(* believes one zone while another runs (server.py:80 and 805-808).        *)
(***************************************************************************)
CONSTANTS Zones,    \* every <<device, zone>>
          None      \* no zone

VARIABLES running,  \* the zone that waters, or None
          believed  \* the zone the dashboard shows, or None

vars == <<running, believed>>

Init == running = None /\ believed = None

\* Water starts on an idle system, not against what the dashboard shows.
Start(z) ==
    /\ running = None
    /\ believed \in {None, z}
    /\ running' = z
    /\ UNCHANGED believed

\* A stop command, or the end of the run's duration.
Stop ==
    /\ running # None
    /\ running' = None
    /\ UNCHANGED believed

Believe ==
    /\ running # None
    /\ believed' = running
    /\ UNCHANGED running

Forget ==
    /\ running = None
    /\ believed' = None
    /\ UNCHANGED running

Next == (\E z \in Zones : Start(z)) \/ Stop \/ Believe \/ Forget

Spec == Init /\ [][Next]_vars
=============================================================================

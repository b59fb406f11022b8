-------------------------- MODULE MCDeviceSchedule --------------------------
(* A small instance of DeviceSchedule: a timer with two program slots.     *)
EXTENDS DeviceSchedule

CONSTANTS a, b, c, r1, r2

On(run) == [run |-> run, enabled |-> TRUE]
Off(run) == [run |-> run, enabled |-> FALSE]

\* A rule that is off before one that is on, and one rule too many.
MCPrograms == {<<Off(a), On(b)>>, <<On(a), On(b), On(c)>>}
=============================================================================

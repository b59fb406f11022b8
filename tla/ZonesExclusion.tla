--------------------------- MODULE ZonesExclusion ---------------------------
(***************************************************************************)
(* When the dashboard does keep one zone at most open, and why.            *)
(*                                                                         *)
(* server.py keeps the promise when only one dashboard start is handled at *)
(* a time and reconciles, stops and onboarding jobs, any number of each,   *)
(* are all that comes beside it: no stop-all, no start by REST, MQTT or    *)
(* the scheduler, no device added or removed, no restart.  A BLE operation *)
(* may fail before the timer acts and a command may be lost on the air,    *)
(* but an operation that reached its timer reads back truly, and no        *)
(* bridge lies between the read-back and the handler.                      *)
(***************************************************************************)
EXTENDS Zones

\* A task at the radio, or waiting for it after _run, has looked its timer up.
TimersResolved ==
    \A t \in Tasks :
       (task[t].pc = "acted" \/ (task[t].pc = "wait" /\ task[t].kind # "fire"))
          => task[t].timer \in Timers

\* The inductive invariant behind TypeOK.
TypeInv == TypeOK /\ TimersResolved

Disciplined ==
    /\ Events \subseteq {"zone start", "reconcile", "stop", "onboard"}
    /\ Faults \subseteq {"early", "lost", "disk"}
    /\ ~Mqtt
    /\ \A s, u \in Starters : s = u

\* A request r in flight: a dashboard start in its start or its stop phase, or
\* a reconcile.
Busy(r) == r.pc # "idle"
Starting(r) == r.kind = "zone start" /\ r.op = "start" /\ Busy(r)
Stopping(r) == r.kind = "zone start" /\ r.op = "stop" /\ Busy(r)
Reconciling(r) == r.kind = "reconcile" /\ Busy(r)

ConfigStays == config = Configured

\* The queue of the lock holds the tasks that wait or act, once each, and
\* only its head acts.
QueueOK ==
    /\ \A i, j \in DOMAIN lockq : lockq[i] = lockq[j] => i = j
    /\ \A i \in DOMAIN lockq : task[lockq[i]].pc \in {"wait", "acted"}
    /\ \A t \in Tasks : task[t].pc \in {"wait", "acted"} =>
          \E i \in DOMAIN lockq : lockq[i] = t
    /\ \A t \in Tasks : task[t].pc = "acted" => Holds(t)

\* What a request in flight looks like.
TaskOK(t) ==
    /\ task[t].pc \in {"idle", "wait", "acted", "retry"}
    /\ Busy(task[t]) => task[t].kind \in {"zone start", "reconcile", "stop"}
    /\ task[t].kind = "zone start" => /\ t \in Starters
                                      /\ task[t].op \in {"start", "stop"}
                                      /\ task[t].goal \in Goals
    /\ task[t].kind = "reconcile" => task[t].op = "read" /\ task[t].pc # "retry"
    /\ task[t].kind = "stop" => task[t].op = "stop"
    /\ task[t].pc \in {"wait", "acted"} =>
          /\ task[t].dev \in DOMAIN config
          /\ task[t].timer = config[task[t].dev]
    /\ Starting(task[t]) => task[t].dev = task[t].goal[1]

TasksOK == \A t \in Tasks : TaskOK(t)

\* The belief a dashboard start works against.
BeliefAtStart ==
    \A t \in Tasks :
       /\ Starting(task[t]) => active \in {None, task[t].goal}
       /\ Stopping(task[t]) => active = None \/ active[1] = task[t].dev

\* A queued reconcile reads the device that is believed to be running when its
\* turn comes.
ReadsBelieved ==
    \A t \in Tasks : Reconciling(task[t]) /\ active # None => task[t].dev = active[1]

\* The lock is first come first served: a reconcile that looked its device up
\* before a switch is through before the switch's start.
ReadsAfterSwitch ==
    \A i, j \in DOMAIN lockq :
       i < j /\ Starting(task[lockq[i]]) /\ Reconciling(task[lockq[j]])
          => task[lockq[j]].dev = task[lockq[i]].goal[1]

\* z, a <<device, zone>>, is what timer tm waters.
Waters(tm, z) == /\ z[1] \in DOMAIN config
                 /\ config[z[1]] = tm
                 /\ valve[tm] = z[2]

\* An open valve is the believed zone, or the one a start has just opened.
OpenIsKnown ==
    \A tm \in Timers : valve[tm] # 0 =>
       \/ active # None /\ Waters(tm, active)
       \/ \E t \in Tasks : /\ Starting(task[t]) /\ task[t].pc = "acted"
                           /\ Waters(tm, task[t].goal)

\* The inductive invariant behind AtMostOneOpen.
ExclusionInv ==
    /\ TypeInv
    /\ ConfigStays
    /\ QueueOK
    /\ TasksOK
    /\ BeliefAtStart
    /\ ReadsBelieved
    /\ ReadsAfterSwitch
    /\ OpenIsKnown

-----------------------------------------------------------------------------
Open(i) == i \in DOMAIN config /\ valve[config[i]] # 0

\* The zone that is open, seen through the config.
RunningZone == IF \E i \in DOMAIN config : Open(i)
                 THEN LET i == CHOOSE j \in DOMAIN config : Open(j)
                      IN  <<i, valve[config[i]]>>
                 ELSE None

Abstract == INSTANCE OneZone WITH Zones <- Goals, None <- None,
                                  running <- RunningZone, believed <- active

\* Seen from outside, a disciplined server (zones_start, zones and the single-zone
\* stops, server.py:795-801, 851-913) is the one-zone system of OneZone.
OneZoneSpec == Abstract!Spec
=============================================================================

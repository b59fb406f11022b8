------------------------------- MODULE Zones -------------------------------
(***************************************************************************)
(* The watering requests of server.py: the /api/zones dashboard (start,    *)
(* stop-all, reconcile), the single-zone REST and MQTT requests and the    *)
(* scheduler's fire.  They share one asyncio.Lock (_ble_lock), the         *)
(* believed running zone (_active_zone) and its file (active_zone.json).   *)
(*                                                                         *)
(* The server is one asyncio thread, so a handler runs without             *)
(* interruption between two awaits.  A step below is one such stretch.     *)
(* Config indices are 1-based here, 0-based in the code.                   *)
(***************************************************************************)
EXTENDS Naturals, Sequences, FiniteSets

CONSTANTS
    Timers,         \* physical B-Hyve timers
    NoTimer,        \* a request that has not looked its timer up
    ZoneCount,      \* valves per timer (the code: 4)
    Tasks,          \* requests that may be in flight together
    Starters,       \* the tasks that may carry a dashboard start
    Events,         \* the requests and environment events of this instance
    Faults,         \* how a BLE operation may go wrong
    Mqtt,           \* the Home Assistant bridge is connected
    RetryAttempts,  \* RETRY_ATTEMPTS
    Configured      \* config.json's devices when the server first starts

EventNames == {"zone start", "stop all", "reconcile", "start", "stop", "fire",
               "remove", "add", "onboard", "crash"}

\* "early": the operation raises before the timer acted (no connection);
\* "late":  it raises after the timer acted (link lost before the read-back);
\* "empty": no reply decodes, read_status returns the default DeviceStatus;
\* "lost":  the write-without-response never reaches the timer;
\* "stale": the reply that decodes is a late one, to the query sent on arming;
\* "disk":  active_zone.json cannot be written (OSError, swallowed).
FaultNames == {"early", "late", "empty", "lost", "stale", "disk"}

ASSUME ZonesAssumption ==
    /\ IsFiniteSet(Timers) /\ NoTimer \notin Timers
    /\ ZoneCount \in Nat \ {0}
    /\ RetryAttempts \in Nat /\ RetryAttempts >= 2
    /\ Starters \subseteq Tasks
    /\ Events \subseteq EventNames
    /\ Faults \subseteq FaultNames
    /\ Mqtt \in BOOLEAN
    /\ Configured \in Seq(Timers)
    /\ \A i, j \in DOMAIN Configured : Configured[i] = Configured[j] => i = j

Zone == 1..ZoneCount
None == <<0, 0>>                  \* _active_zone is None

VARIABLES
    config,     \* config.json's device list
    job,        \* an onboarding job is running (_job, not done)
    active,     \* _active_zone, <<device, zone>>
    persisted,  \* what active_zone.json holds
    lockq,      \* _ble_lock: the holder, then its waiters in order
    task,       \* the request each task is handling
    valve       \* the zone each timer is watering, 0 when idle

vars == <<config, job, active, persisted, lockq, task, valve>>

(***************************************************************************)
(* A request.  pc: "wait" for the lock (or its head: about to connect),    *)
(* "acted" on the timer with the read-back to come, "publish" awaiting the *)
(* MQTT mirror, "retry" after asyncio.sleep(0).                            *)
(***************************************************************************)
Idle == [kind |-> "none", pc |-> "idle", op |-> "read", dev |-> 0,
         goal |-> None, timer |-> NoTimer, attempt |-> 1, last |-> 0,
         oks |-> {}, seen |-> 0]

Request == [kind    : {"none", "zone start", "stop all", "reconcile", "start",
                       "stop", "fire"},
            pc      : {"idle", "wait", "acted", "publish", "retry"},
            op      : {"start", "stop", "read"},
            dev     : Nat,                  \* config index of the operation
            goal    : Nat \X (0..ZoneCount), \* the <<device, zone>> asked for
            timer   : Timers \cup {NoTimer},\* the BHyveXD already resolved
            attempt : 1..RetryAttempts,
            last    : Nat,                  \* stop-all: devices to go through
            oks     : SUBSET Nat,           \* stop-all: confirmed idle
            seen    : 0..ZoneCount]         \* what the timer showed when armed, then
                                            \* what the read-back showed

TypeOK ==
    /\ config \in Seq(Timers)
    /\ job \in BOOLEAN
    /\ active \in Nat \X (0..ZoneCount)
    /\ persisted \in Nat \X (0..ZoneCount)
    /\ lockq \in Seq(Tasks)
    /\ task \in [Tasks -> Request]
    /\ valve \in [Timers -> 0..ZoneCount]

Init ==
    /\ config = Configured
    /\ job = FALSE
    /\ active = None
    /\ persisted = None
    /\ lockq = <<>>
    /\ task = [t \in Tasks |-> Idle]
    /\ valve = [tm \in Timers |-> 0]

-----------------------------------------------------------------------------
(***************************************************************************)
(* The pieces handlers are made of.  q is the lock queue once the caller's *)
(* own place in it, if it had one, is given up.                            *)
(***************************************************************************)

(* Mutant: one try too many. *)
TriesOneMore(r) == IF r.kind \in {"zone start", "stop all"} THEN RetryAttempts + 1
                   ELSE 1

\* Dashboard operations go through _act_confirmed, the others call _run once.
Tries(r) == IF r.kind \in {"zone start", "stop all"} THEN RetryAttempts ELSE 1

(* Mutant: any read-back confirms. *)
AnyReplyConfirms(r, seen) == TRUE

\* is_watering == want
Confirmed(r, seen) == (seen # 0) = (r.op = "start")

\* _active_zone and _persist_active(): open(.., "w") fails, or truncates the file
\* before a dump that fails; a file that does not load counts as None.
SetActive(z) ==
    /\ active' = z
    /\ persisted' \in {z} \cup (IF "disk" \in Faults THEN {persisted, None} ELSE {})

Answer(t, q) == task' = [task EXCEPT ![t] = Idle] /\ lockq' = q

Again(t, r, q) ==
    /\ task' = [task EXCEPT ![t] = [r EXCEPT !.pc = "retry", !.attempt = @ + 1]]
    /\ lockq' = q

(* Mutant: the lock goes to the waiter that came last. *)
JoinLockFirst(t, r, q) ==
    /\ task' = [task EXCEPT ![t] = [r EXCEPT !.pc = "wait"]]
    /\ lockq' = IF q = <<>> THEN <<t>> ELSE <<Head(q), t>> \o Tail(q)

\* asyncio.Lock hands over in arrival order.
JoinLock(t, r, q) ==
    /\ task' = [task EXCEPT ![t] = [r EXCEPT !.pc = "wait"]]
    /\ lockq' = Append(q, t)

\* _run up to the lock: the 503 while onboarding, the config lookup (whose
\* IndexError no handler catches), the wait.  More tries are left.
CallRun(t, r, q) ==
    \/ /\ job
       /\ Again(t, r, q)
    \/ /\ ~job /\ r.dev \notin DOMAIN config
       /\ Answer(t, q)
    \/ /\ ~job /\ r.dev \in DOMAIN config
       /\ JoinLock(t, [r EXCEPT !.timer = config[r.dev]], q)

(* Mutant: a switch starts the new zone without dropping the old belief. *)
SwitchKeepsBelief(t, r, ok, q) ==
    /\ IF r.op = "stop" /\ ok
         THEN CallRun(t, [r EXCEPT !.op = "start", !.dev = r.goal[1], !.attempt = 1], q)
         ELSE Answer(t, q)
    /\ IF r.op = "start" /\ ok THEN SetActive(r.goal) ELSE UNCHANGED <<active, persisted>>

(* Mutant: a start that was not confirmed is believed. *)
BelievesUnconfirmed(t, r, ok, q) ==
    IF r.op = "stop" /\ ok
      THEN /\ SetActive(None)
           /\ CallRun(t, [r EXCEPT !.op = "start", !.dev = r.goal[1], !.attempt = 1], q)
      ELSE /\ IF r.op = "start" THEN SetActive(r.goal) ELSE UNCHANGED <<active, persisted>>
           /\ Answer(t, q)

\* zones_start after _act_confirmed returned ok for its stop or its start.
AfterZoneStart(t, r, ok, q) ==
    \/ /\ r.op = "stop" /\ ok
       /\ SetActive(None)
       /\ CallRun(t, [r EXCEPT !.op = "start", !.dev = r.goal[1], !.attempt = 1], q)
    \/ /\ r.op = "stop" /\ ~ok
       /\ Answer(t, q)
       /\ UNCHANGED <<active, persisted>>
    \/ /\ r.op = "start"
       /\ IF ok THEN SetActive(r.goal) ELSE UNCHANGED <<active, persisted>>
       /\ Answer(t, q)

(* Mutant: a device that was asked to stop counts as stopped. *)
StopAllCountsAsked(t, r, ok, q) ==
    IF r.dev < r.last
      THEN /\ CallRun(t, [r EXCEPT !.dev = @ + 1, !.attempt = 1, !.oks = @ \cup {r.dev}], q)
           /\ UNCHANGED <<active, persisted>>
      ELSE Answer(t, q) /\ SetActive(None)

\* zones_stop_all after one device: the next one, or the end of the loop.
AfterStopAll(t, r, ok, q) ==
    LET oks == IF ok THEN r.oks \cup {r.dev} ELSE r.oks
    IN  \/ /\ r.dev < r.last
           /\ CallRun(t, [r EXCEPT !.dev = @ + 1, !.attempt = 1, !.oks = oks], q)
           /\ UNCHANGED <<active, persisted>>
        \/ /\ r.dev >= r.last
           /\ IF active = None \/ active[1] \in oks
                THEN SetActive(None) ELSE UNCHANGED <<active, persisted>>
           /\ Answer(t, q)

(* Mutant: a reconcile shows the truth but leaves the belief alone. *)
ReconcileOnlyShows(t, ok, q) == Answer(t, q) /\ UNCHANGED <<active, persisted>>

\* zones(reconcile=1) after its read: ok is an idle read-back.
AfterReconcile(t, ok, q) ==
    /\ IF ok THEN SetActive(None) ELSE UNCHANGED <<active, persisted>>
    /\ Answer(t, q)

\* What a handler does with the outcome of one BLE attempt.
Resume(t, r, ok, q) ==
    \/ /\ ~ok /\ r.attempt < Tries(r)
       /\ Again(t, r, q)
       /\ UNCHANGED <<active, persisted>>
    \/ /\ ok \/ r.attempt >= Tries(r)
       /\ \/ r.kind = "zone start" /\ AfterZoneStart(t, r, ok, q)
          \/ r.kind = "stop all" /\ AfterStopAll(t, r, ok, q)
          \/ r.kind = "reconcile" /\ AfterReconcile(t, ok, q)
          \/ /\ r.kind \in {"start", "stop", "fire"}
             /\ Answer(t, q)
             /\ UNCHANGED <<active, persisted>>

-----------------------------------------------------------------------------
(***************************************************************************)
(* Requests arrive.                                                        *)
(***************************************************************************)

Free(t, event) == event \in Events /\ task[t].pc = "idle"

(* Mutant: the running zone is not stopped first. *)
ZonesStartAtOnce(t, goal) ==
    /\ Free(t, "zone start") /\ t \in Starters
    /\ CallRun(t, [Idle EXCEPT !.kind = "zone start", !.goal = goal, !.op = "start",
                               !.dev = goal[1]], lockq)
    /\ UNCHANGED <<config, job, active, persisted, valve>>

\* POST /api/zones/start for goal = <<device, zone>>; the device index is
\* whatever the page last saw, so it may be gone from the config.
ZonesStart(t, goal) ==
    /\ Free(t, "zone start") /\ t \in Starters
    /\ LET switch == active # None /\ active # goal
       IN  CallRun(t, [Idle EXCEPT !.kind = "zone start", !.goal = goal,
                                   !.op  = IF switch THEN "stop" ELSE "start",
                                   !.dev = IF switch THEN active[1] ELSE goal[1]],
                   lockq)
    /\ UNCHANGED <<config, job, active, persisted, valve>>

\* POST /api/zones/stop-all.  With no device it changes nothing.
ZonesStopAll(t) ==
    /\ Free(t, "stop all")
    /\ config # <<>>
    /\ CallRun(t, [Idle EXCEPT !.kind = "stop all", !.op = "stop", !.dev = 1,
                               !.last = Len(config)], lockq)
    /\ UNCHANGED <<config, job, active, persisted, valve>>

\* A request that calls _run once: nothing changes when _run refuses it.
RunOnce(t, r) ==
    /\ ~job /\ r.dev \in DOMAIN config
    /\ CallRun(t, r, lockq)
    /\ UNCHANGED <<config, job, active, persisted, valve>>

\* GET /api/zones?reconcile=1
ZonesReconcile(t) ==
    /\ Free(t, "reconcile")
    /\ active # None
    /\ RunOnce(t, [Idle EXCEPT !.kind = "reconcile", !.dev = active[1]])

\* POST /api/zones/{zone}/start?device=, or an MQTT valve turned on
RestStart(t, goal) ==
    /\ Free(t, "start")
    /\ RunOnce(t, [Idle EXCEPT !.kind = "start", !.op = "start", !.dev = goal[1],
                               !.goal = goal])

\* POST /api/stop or /api/zones/{zone}/stop, or an MQTT valve turned off
RestStop(t, dev) ==
    /\ Free(t, "stop")
    /\ RunOnce(t, [Idle EXCEPT !.kind = "stop", !.op = "stop", !.dev = dev])

\* run_due awaits _fire_start, one rule after the other: straight to the lock,
\* and only there is the device index looked up.
FireStart(t, goal) ==
    /\ Free(t, "fire")
    /\ \A u \in Tasks : task[u].kind # "fire"
    /\ JoinLock(t, [Idle EXCEPT !.kind = "fire", !.op = "start", !.dev = goal[1],
                                !.goal = goal], lockq)
    /\ UNCHANGED <<config, job, active, persisted, valve>>

-----------------------------------------------------------------------------
(***************************************************************************)
(* The lock holder's BLE operation: connect, arm, command, read back.      *)
(***************************************************************************)

Holds(t) == lockq # <<>> /\ Head(lockq) = t

Resolvable(r) == r.kind = "fire" => r.dev \in DOMAIN config

TimerOf(r) == IF r.kind = "fire" THEN config[r.dev] ELSE r.timer

(* Mutant: a failed operation keeps the lock. *)
EarlyErrorHoldsLock(t) ==
    /\ Holds(t) /\ task[t].pc = "wait"
    /\ "early" \in Faults \/ ~Resolvable(task[t])
    /\ Resume(t, task[t], FALSE, lockq)
    /\ UNCHANGED <<config, job, valve>>

\* The operation raises before the timer acted: no connection, or a fire
\* whose device is gone.
EarlyError(t) ==
    /\ Holds(t) /\ task[t].pc = "wait"
    /\ "early" \in Faults \/ ~Resolvable(task[t])
    /\ Resume(t, task[t], FALSE, Tail(lockq))
    /\ UNCHANGED <<config, job, valve>>

\* The command.  A timer runs one zone at a time: a start replaces it.
Effect(r, old) == CASE r.op = "start" -> r.goal[2]
                    [] r.op = "stop"  -> 0
                    [] OTHER          -> old

Act(t) ==
    /\ Holds(t) /\ task[t].pc = "wait" /\ Resolvable(task[t])
    /\ LET tm == TimerOf(task[t])
       IN  /\ task' = [task EXCEPT ![t].pc = "acted", ![t].timer = tm,
                                   ![t].seen = IF "stale" \in Faults THEN valve[tm] ELSE 0]
           /\ \/ valve' = [valve EXCEPT ![tm] = Effect(task[t], @)]
              \/ "lost" \in Faults /\ valve' = valve
    /\ UNCHANGED <<config, job, active, persisted, lockq>>

\* The link drops after the command: the caller sees a BLE error.
LateError(t) ==
    /\ Holds(t) /\ task[t].pc = "acted" /\ "late" \in Faults
    /\ Resume(t, task[t], FALSE, Tail(lockq))
    /\ UNCHANGED <<config, job, valve>>

\* What read_status may return: what the timer shows, what it showed when the
\* session was armed, or an idle status when no reply decodes.
Replies(t) == {valve[task[t].timer]}
              \cup (IF "empty" \in Faults THEN {0} ELSE {})
              \cup (IF "stale" \in Faults THEN {task[t].seen} ELSE {})

\* The lock is released; without the bridge the caller runs on.
ReadBack(t) ==
    /\ Holds(t) /\ task[t].pc = "acted"
    /\ \E seen \in Replies(t) :
          IF Mqtt /\ task[t].kind # "fire"
            THEN /\ task' = [task EXCEPT ![t].pc = "publish", ![t].seen = seen]
                 /\ lockq' = Tail(lockq)
                 /\ UNCHANGED <<active, persisted>>
            ELSE Resume(t, task[t], Confirmed(task[t], seen), Tail(lockq))
    /\ UNCHANGED <<config, job, valve>>

\* await br.publish_state returns and _run gives its result to the handler.
Published(t) ==
    /\ task[t].pc = "publish"
    /\ Resume(t, task[t], Confirmed(task[t], task[t].seen), lockq)
    /\ UNCHANGED <<config, job, valve>>

\* The loop of _act_confirmed after asyncio.sleep(0).  On the last try a 503
\* is an attempt that failed.
Retry(t) ==
    /\ task[t].pc = "retry"
    /\ IF job /\ task[t].attempt >= Tries(task[t])
         THEN Resume(t, task[t], FALSE, lockq)
         ELSE CallRun(t, task[t], lockq) /\ UNCHANGED <<active, persisted>>
    /\ UNCHANGED <<config, job, valve>>

Work(t) == \/ EarlyError(t) \/ Act(t) \/ LateError(t) \/ ReadBack(t)
           \/ Published(t) \/ Retry(t)

-----------------------------------------------------------------------------
(***************************************************************************)
(* The environment.                                                        *)
(***************************************************************************)

\* A run reaches its duration: the timer stops by itself.
AutoStop(tm) ==
    /\ valve[tm] # 0
    /\ valve' = [valve EXCEPT ![tm] = 0]
    /\ UNCHANGED <<config, job, active, persisted, lockq, task>>

\* DELETE /api/devices/{index}: later devices move down by one.
RemoveDevice(i) ==
    /\ "remove" \in Events
    /\ config' = SubSeq(config, 1, i - 1) \o SubSeq(config, i + 1, Len(config))
    /\ UNCHANGED <<job, active, persisted, lockq, task, valve>>

\* Onboarding's write_config appends a timer that is not there yet.
AddDevice(tm) ==
    /\ "add" \in Events
    /\ \A i \in DOMAIN config : config[i] # tm
    /\ config' = Append(config, tm)
    /\ UNCHANGED <<job, active, persisted, lockq, task, valve>>

\* An onboarding job starts (whatever is in flight), or ends.
OnboardJob ==
    /\ "onboard" \in Events
    /\ job' = ~job
    /\ UNCHANGED <<config, active, persisted, lockq, task, valve>>

\* Task t is about to save its confirmed start.
Saving(t) ==
    /\ task[t].kind = "zone start" /\ task[t].op = "start"
    /\ \/ task[t].pc = "publish" /\ task[t].seen # 0
       \/ task[t].pc = "acted" /\ ~Mqtt /\ Replies(t) # {0}

\* The process dies and systemd starts it again; _load_active reads the file,
\* which a death between truncating and writing it leaves without a zone.
Restart ==
    /\ "crash" \in Events
    /\ job' = FALSE
    /\ persisted' \in {persisted} \cup (IF \E t \in Tasks : Saving(t) THEN {None} ELSE {})
    /\ active' = persisted'
    /\ lockq' = <<>>
    /\ task' = [t \in Tasks |-> Idle]
    /\ UNCHANGED <<config, valve>>

Goals == (1..Cardinality(Timers)) \X Zone

Next ==
    \/ \E t \in Tasks :
          \/ \E goal \in Goals : ZonesStart(t, goal) \/ RestStart(t, goal)
                                 \/ FireStart(t, goal)
          \/ \E i \in DOMAIN config : RestStop(t, i)
          \/ ZonesStopAll(t) \/ ZonesReconcile(t)
          \/ Work(t)
    \/ \E tm \in Timers : AutoStop(tm) \/ AddDevice(tm)
    \/ \E i \in DOMAIN config : RemoveDevice(i)
    \/ OnboardJob \/ Restart

Spec == Init /\ [][Next]_vars

\* The event loop runs every task that can run, and a BLE operation ends: each
\* of its awaits has a timeout.
WorkersRun == \A t \in Tasks : WF_vars(Work(t))

\* Pages keep asking for a reconcile (on load, after each action, on refresh), and
\* the link does not fail every one of them.
PagesReconcile == \A t \in Tasks :
    /\ SF_vars(ZonesReconcile(t))
    /\ SF_vars(task[t].kind = "reconcile" /\ Act(t))
    /\ SF_vars(task[t].kind = "reconcile" /\ ReadBack(t))

\* In the end the server stays up.
StaysUp == <>[][~Restart]_vars

LiveSpec == Spec /\ WorkersRun

-----------------------------------------------------------------------------
(***************************************************************************)
(* What the dashboard promises.                                            *)
(***************************************************************************)

\* At most one valve is open over all timers: "only one zone runs at a time"
\* (README.md:141), the reason for _active_zone (server.py:80).
AtMostOneOpen == \A a, b \in Timers : valve[a] # 0 /\ valve[b] # 0 => a = b

\* A dashboard start has its own zone, or none, as the believed zone from the
\* moment it asks for its start: another zone was confirmed stopped first
\* (zones_start, server.py:861-866).
StartsOnlyOverNothing ==
    \A t \in Tasks : task[t].kind = "zone start" /\ task[t].op = "start"
                        => active \in {None, task[t].goal}

\* A request makes a zone the believed one only in a step where its timer waters
\* just that zone ("set ONLY on a read-back-confirmed start", server.py:806); a
\* restart takes up what the file holds.
BelievedOnlyWhenWatering ==
    [][active' \notin {active, None} /\ ~Restart =>
          /\ active'[1] \in DOMAIN config
          /\ valve[config[active'[1]]] = active'[2]]_vars

\* The believed zone is dropped only in a step where its timer is idle: by the
\* stop before a switch and by reconcile (server.py:866, 903).  Where a stop-all
\* (server.py:886) is among the requests this fails: it drops the belief at its
\* end, whatever was started on that timer since its stop.
ClearedOnlyWhenOff ==
    [][active # None /\ active' = None /\ active[1] \in DOMAIN config =>
          valve[config[active[1]]] = 0]_vars

\* stop-all counts a device as off only in a step where its timer is idle
\* (server.py:882-885).
StopAllReportsOff ==
    [][\A t \in Tasks : task[t].kind = "stop all" /\ task'[t].kind = "stop all"
          => \A d \in task'[t].oks \ task[t].oks : valve[config[d]] = 0]_vars

\* Every request is answered, however many others keep arriving: the lock is
\* handed over in order and the retries are bounded (RETRY_ATTEMPTS).
RequestsAnswered ==
    \A t \in Tasks : task[t].pc # "idle" ~> task[t].pc = "idle"

\* The believed zone's timer is in the config and watering.
BeliefHolds == /\ active[1] \in DOMAIN config
               /\ valve[config[active[1]]] # 0

\* A believed zone that is not watering is corrected in the end: "self-corrects
\* (clears a stale active)" (zones, server.py:894-895).  It may be stale because
\* the run ended, or because a restart took up a file that an earlier write
\* failed to bring up to date.
StaleBeliefCorrected ==
    PagesReconcile /\ StaysUp =>
       (active # None /\ ~BeliefHolds ~> active = None \/ BeliefHolds)
=============================================================================

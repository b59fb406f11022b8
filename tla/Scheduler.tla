----------------------------- MODULE Scheduler -----------------------------
(***************************************************************************)
(* The host scheduler of server.py: _scheduler_loop calls run_due about    *)
(* every 20 seconds, and run_due fires the due rules of config.json one    *)
(* after the other, each an awaited BLE start behind _ble_lock.            *)
(*                                                                         *)
(* A tick reads the time, the enable flag, the onboarding job and the      *)
(* config once; then, while its fires are awaited, minutes pass, users     *)
(* edit rules, timers come and go, and the process may be restarted.       *)
(* Config indices are 1-based here, 0-based in the code.                   *)
(***************************************************************************)
EXTENDS ScheduleOps, FiniteSets

CONSTANTS
    Macs,           \* timers
    NoTimer,        \* no timer
    Configured,     \* config.json's devices at the start, [mac, rules] records
    Programs,       \* what users may send as a timer's rules
    Grace,          \* SCHED_GRACE_MIN
    TickMinutes,    \* how long the fires of one tick may take together
    LastDay,        \* the bound on time
    NoRun,          \* a valve without a fire attempt
    Events,         \* what may happen in this instance besides time and fires
    MaxEvents       \* the bound on how often users, clock and crashes interfere

EventNames == {"fail", "edit", "remove", "enable", "onboard", "clock", "crash"}

Minutes == 0..(DayLength - 1)
Times == [day : 0..LastDay, minute : Minutes]
Devices == [mac : Macs, rules : Seq(Rules)]
Runs == [start : Minutes, at : Times, ok : BOOLEAN]

ASSUME SchedulerAssumption ==
    /\ Grace \in Nat /\ TickMinutes \in Nat /\ LastDay \in Nat
    /\ MaxEvents \in Nat
    /\ NoTimer \notin Macs /\ NoRun \notin Runs
    /\ \A rules \in Programs : rules \in Seq(Rules)
    /\ Configured \in Seq(Devices)
    /\ \A i, j \in DOMAIN Configured : Configured[i].mac = Configured[j].mac => i = j
    /\ Events \subseteq EventNames

VARIABLES
    now,        \* the host's local time
    config,     \* config.json's device list, with the rules
    enabled,    \* config.json's host_scheduling
    job,        \* an onboarding job is running
    fired,      \* _fired
    lastRuns,   \* _last_runs, by <<mac, valve>>
    at,         \* the time of the last tick that was not refused
    plan,       \* the config that tick has read, while it is under way
    todo,       \* its <<device index, rule number>> pairs still to fire
    timer,      \* the timer the fire under way has looked up
    busy,       \* the minutes the tick has taken so far
    awake,      \* the loop ran in this minute
    confirmed,  \* history: the keys confirmed since the process started
    earlier,    \* history: the keys confirmed before it was restarted
    tried,      \* history: the tick minute of today's last attempt, or -1
    since,      \* history: when users, clock or a crash interfered last
    events      \* how often they did

loop == <<at, plan, todo, timer, busy, awake>>
history == <<confirmed, earlier, tried>>
vars == <<now, config, enabled, job, fired, lastRuns, loop, history, since, events>>

\* "(timer, valve, date, rule-start)"
Keys == [mac : Macs, valve : Valves, day : 0..LastDay, start : Minutes]

KeyOf(mac, rule, day) ==
    [mac |-> mac, valve |-> rule.valve, day |-> day, start |-> rule.start]

TypeOK ==
    /\ now \in Times
    /\ config \in Seq(Devices)
    /\ enabled \in BOOLEAN /\ job \in BOOLEAN
    /\ fired \subseteq Keys
    /\ lastRuns \in [Macs \X Valves -> Runs \cup {NoRun}]
    /\ at \in Times
    /\ plan \in Seq(Devices)
    /\ todo \subseteq (Nat \X Nat)
    /\ \A p \in todo : p[1] \in DOMAIN plan /\ p[2] \in DOMAIN plan[p[1]].rules
    /\ timer \in Macs \cup {NoTimer}
    /\ busy \in 0..TickMinutes
    /\ awake \in BOOLEAN
    /\ confirmed \subseteq Keys /\ earlier \subseteq Keys
    /\ tried \in [Keys -> Minutes \cup {-1}]
    /\ since \in Times
    /\ events \in 0..MaxEvents

Start == [day |-> 0, minute |-> 0]
Untried == [k \in Keys |-> -1]

Init ==
    /\ now = Start
    /\ config = Configured
    /\ enabled = TRUE
    /\ job = FALSE
    /\ fired = {}
    /\ lastRuns = [mv \in Macs \X Valves |-> NoRun]
    /\ at = Start
    /\ plan = <<>>
    /\ todo = {}
    /\ timer = NoTimer
    /\ busy = 0
    /\ awake = FALSE
    /\ confirmed = {}
    /\ earlier = {}
    /\ tried = Untried
    /\ since = Start
    /\ events = 0

-----------------------------------------------------------------------------
(***************************************************************************)
(* The loop.  todo = {} while it sleeps.                                   *)
(***************************************************************************)

\* The rules of c that are due, over all its devices.
DuePlaces(c, t, grace) ==
    UNION {{<<i, j>> : j \in {j \in DOMAIN c[i].rules : Due(c[i].rules[j], t, grace)}}
           : i \in DOMAIN c}

PlaceKey(c, p, day) == KeyOf(c[p[1]].mac, c[p[1]].rules[p[2]], day)

\* "if key in _fired: continue"
Unfired(c, places, keys, day) == {p \in places : PlaceKey(c, p, day) \notin keys}

\* The order of the two loops of run_due.
FirstOf(places) ==
    CHOOSE p \in places : \A q \in places : p[1] < q[1] \/ (p[1] = q[1] /\ p[2] <= q[2])

(* Mutant: today's keys are pruned instead of the stale ones. *)
PruneToday(keys, day) == {k \in keys : k.day # day}

\* "prune stale days"
Prune(keys, day) == {k \in keys : k.day = day}

\* run_due up to its first await, or refused.
Tick ==
    /\ todo = {}
    /\ awake' = TRUE
    /\ IF job \/ ~enabled
         THEN UNCHANGED <<fired, at, plan, todo, busy>>
         ELSE /\ at' = now
              /\ fired' = Prune(fired, now.day)
              /\ todo' = Unfired(config, DuePlaces(config, now, Grace), fired', now.day)
              /\ plan' = IF todo' = {} THEN <<>> ELSE config
              /\ busy' = 0
    /\ UNCHANGED <<now, config, enabled, job, lastRuns, timer, history, since, events>>

(* Mutant: a rule is marked when it was tried. *)
MarkedWhenTried(k, ok) == fired \cup {k}

\* "marked fired ONLY after a confirmed start"
Marked(k, ok) == IF ok THEN fired \cup {k} ELSE fired

(* Mutant: the config is read again between two fires. *)
RereadPlan(places) == config

\* A tick goes on with the config it has read.
PlanFor(places) == IF places = {} THEN <<>> ELSE plan

\* run_due after one fire, up to the next one or the end of the tick.
Attempted(ok) ==
    LET p == FirstOf(todo)
        r == plan[p[1]].rules[p[2]]
        k == PlaceKey(plan, p, at.day)
    IN  /\ lastRuns' = [lastRuns EXCEPT ![<<plan[p[1]].mac, r.valve>>] =
                          [start |-> r.start, at |-> at, ok |-> ok]]
        /\ fired' = Marked(k, ok)
        /\ confirmed' = IF ok THEN confirmed \cup {k} ELSE confirmed
        /\ tried' = IF at.day = now.day THEN [tried EXCEPT ![k] = at.minute] ELSE tried
        /\ todo' = Unfired(plan, todo \ {p}, fired', at.day)
        /\ plan' = PlanFor(todo')
        /\ busy' = IF todo' = {} THEN 0 ELSE busy
        /\ timer' = NoTimer
        /\ awake' = TRUE

\* _fire_start has the lock and looks the index up in the config of that moment;
\* an index that is gone is a failed fire.
RadioGranted ==
    /\ todo # {} /\ timer = NoTimer
    /\ LET i == FirstOf(todo)[1]
       IN  IF i \in DOMAIN config
             THEN /\ timer' = config[i].mac
                  /\ UNCHANGED <<fired, lastRuns, at, plan, todo, busy, awake,
                                 history>>
             ELSE Attempted(FALSE) /\ UNCHANGED <<at, earlier>>
    /\ UNCHANGED <<now, config, enabled, job, since, events>>

\* The BLE start raises, or its read-back does not show the valve watering.
FireFails ==
    /\ "fail" \in Events
    /\ timer # NoTimer
    /\ Attempted(FALSE)
    /\ UNCHANGED <<now, config, enabled, job, at, earlier, since, events>>

FireConfirmed ==
    /\ timer # NoTimer
    /\ Attempted(TRUE)
    /\ UNCHANGED <<now, config, enabled, job, at, earlier, since, events>>

-----------------------------------------------------------------------------
(***************************************************************************)
(* Time, users and crashes.                                                *)
(***************************************************************************)

\* A sleeping loop wakes every 20 seconds, so in every minute; a tick under way
\* takes TickMinutes at most.
NextMinute ==
    /\ IF todo = {} THEN awake ELSE busy < TickMinutes
    /\ \/ /\ now.minute < DayLength - 1
          /\ now' = [now EXCEPT !.minute = @ + 1]
          /\ UNCHANGED tried
       \/ /\ now.minute = DayLength - 1 /\ now.day < LastDay
          /\ now' = [day |-> now.day + 1, minute |-> 0]
          /\ tried' = Untried
    /\ busy' = IF todo = {} THEN 0 ELSE busy + 1
    /\ awake' = FALSE
    /\ UNCHANGED <<config, enabled, job, fired, lastRuns, at, plan, todo, timer,
                   confirmed, earlier, since, events>>

\* Users, the clock or a crash interfere.
Interfere(event, t) ==
    /\ event \in Events
    /\ events < MaxEvents
    /\ events' = events + 1
    /\ since' = t

\* The local clock is set back within the day, as at the end of summer time.
ClockBack ==
    /\ \E m \in Minutes :
          /\ m < now.minute
          /\ now' = [now EXCEPT !.minute = m]
          /\ Interfere("clock", [now EXCEPT !.minute = m])
    /\ UNCHANGED <<config, enabled, job, fired, lastRuns, loop, history>>

\* PUT /api/timers/{index}/schedules: all the rules are valid, or none is stored.
PutSchedules(i, rules) ==
    /\ Interfere("edit", now)
    /\ \A j \in DOMAIN rules : ValidRule(rules[j])
    /\ config' = [config EXCEPT ![i].rules = rules]
    /\ UNCHANGED <<now, enabled, job, fired, lastRuns, loop, history>>

\* DELETE /api/devices/{index}
RemoveDevice(i) ==
    /\ Interfere("remove", now)
    /\ config' = SubSeq(config, 1, i - 1) \o SubSeq(config, i + 1, Len(config))
    /\ UNCHANGED <<now, enabled, job, fired, lastRuns, loop, history>>

\* PUT /api/scheduling, or the Automatic switch of the MQTT bridge
PutScheduling(on) ==
    /\ Interfere("enable", now)
    /\ enabled' = on
    /\ UNCHANGED <<now, config, job, fired, lastRuns, loop, history>>

OnboardJob ==
    /\ Interfere("onboard", now)
    /\ job' = ~job
    /\ UNCHANGED <<now, config, enabled, fired, lastRuns, loop, history>>

\* The process is restarted; only config.json survives.
Restart ==
    /\ Interfere("crash", now)
    /\ job' = FALSE
    /\ fired' = {}
    /\ lastRuns' = [mv \in Macs \X Valves |-> NoRun]
    /\ at' = now
    /\ plan' = <<>>
    /\ todo' = {}
    /\ timer' = NoTimer
    /\ busy' = 0
    /\ awake' = FALSE
    /\ confirmed' = {}
    /\ earlier' = earlier \cup confirmed
    /\ UNCHANGED <<now, config, enabled, tried>>

Next ==
    \/ Tick \/ RadioGranted \/ FireFails \/ FireConfirmed
    \/ NextMinute \/ ClockBack
    \/ \E i \in DOMAIN config :
          \/ \E rules \in Programs : PutSchedules(i, rules)
          \/ RemoveDevice(i)
    \/ \E on \in BOOLEAN : PutScheduling(on)
    \/ OnboardJob \/ Restart

Spec == Init /\ [][Next]_vars

-----------------------------------------------------------------------------
(***************************************************************************)
(* What the scheduler promises.                                            *)
(***************************************************************************)

\* The rule about to be fired was not confirmed before on this day, over
\* overlapping windows, edits of the rules, removals, switching off and on,
\* midnight and a clock set back, for as long as the process runs.
FiredOnce ==
    todo # {} => PlaceKey(plan, FirstOf(todo), at.day) \notin confirmed

\* The same over restarts: "already run today - one fire per rule/day"
\* (server.py:520).
OncePerDay ==
    todo # {} => PlaceKey(plan, FirstOf(todo), at.day) \notin confirmed \cup earlier

\* A fire goes to the timer whose rule it is: "Schedules are keyed by MAC
\* (stable)" (_mac_at, server.py:485).
OwnTimer == timer # NoTimer => timer = plan[FirstOf(todo)[1]].mac

\* What GET /api/scheduling shows of today's runs agrees with what the engine
\* has noted down: a run shown as ok is not tried again, one shown as failed is
\* still open (server.py:588-593).
LastRunsTrue ==
    \A m \in Macs, v \in Valves :
       LET run == lastRuns[<<m, v>>]
       IN  run # NoRun /\ run.at.day = at.day =>
              (run.ok <=> [mac |-> m, valve |-> v, day |-> at.day,
                           start |-> run.start] \in fired)

\* A rule whose window has passed, undisturbed, was confirmed, is being fired,
\* or was still tried as late as the ticks allow: failures are retried up to the
\* end of the window, and rules that become due during a long tick are caught up
\* (SCHED_GRACE_MIN, server.py:563 and 569-572).  Windows that reach over
\* midnight are cut off there (due_rules: "no midnight wrap").
Undisturbed(start) == /\ enabled /\ ~job
                      /\ since.day < now.day \/ since.minute < start

WindowUsed ==
    \A i \in DOMAIN config : \A j \in DOMAIN config[i].rules :
       LET r == config[i].rules[j]
           k == KeyOf(config[i].mac, r, now.day)
       IN  /\ r.enabled /\ Weekday(now.day) \in r.days
           /\ r.start + Grace < now.minute /\ Undisturbed(r.start)
           => \/ k \in confirmed
              \/ \E p \in todo : PlaceKey(plan, p, at.day) = k
              \/ tried[k] >= r.start + Grace - TickMinutes

\* _next_due
NextDue(c, t) ==
    LET starts == {NextOccurrence(r.start, r.days, t) :
                      r \in {r \in UNION {{c[i].rules[j] : j \in DOMAIN c[i].rules} :
                                          i \in DOMAIN c} : r.enabled}} \ {NoTime}
    IN  IF starts = {} THEN NoTime
        ELSE CHOOSE s \in starts : \A u \in starts : ~Before(u, s)

\* The next run that is shown is the next minute at which the engine has a rule
\* to fire: next_occurrence and due_rules, two readings of a rule, agree.
NextDueIsFirst ==
    LET next == NextDue(config, now)
    IN  /\ next # NoTime => DuePlaces(config, next, 0) # {}
        /\ \A d \in 0..7, m \in Minutes :
              LET s == [day |-> now.day + d, minute |-> m]
              IN  Before(now, s) /\ (next = NoTime \/ Before(s, next))
                     => DuePlaces(config, s, 0) = {}
=============================================================================

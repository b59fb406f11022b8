# bhyve-xd-ble: specifications

TLA+ specifications of the B-Hyve irrigation controller in this repository: a
FastAPI server (`server.py`) that drives B-Hyve XD hose timers over Bluetooth,
with a zone dashboard, a host-side watering scheduler, on-device schedules,
onboarding of new timers, an MQTT bridge to Home Assistant, and a deploy script.

Line numbers below are those of the sources beside this directory.

## 1. The system

The server is one asyncio thread. Handlers, the scheduler loop, the MQTT command
listener and the onboarding job are coroutines of it: they interleave only where
they await. What they share is a handful of module variables, one lock
(`_ble_lock`, `server.py:72`) and two files (`config.json`, `active_zone.json`).
A timer is a remote device: commands to it are writes without response, and the
only evidence of their effect is the status it is asked for afterwards.

| Component | State | Operations | Interacts with |
|---|---|---|---|
| Zone dashboard (`server.py` 782-913, `zones.html`) | `_active_zone` and `active_zone.json` | zone start, stop-all, reconcile, single start and stop | the lock, the BLE session, `config.json` (by index), the MQTT mirror |
| One-shot BLE operation (`server.py:196` `_run`, `bhyve_xd.py`) | `_ble_lock` and its waiters; a session's counters | connect, arm, command, read back | refused while an onboarding job runs |
| Host scheduler (`server.py` 520-618, `scheduler.py`) | `_fired`, `_last_runs`, `host_scheduling` in the config | a tick about every 20 s; each due rule is an awaited fire | the lock, `config.json` (rules, by index), the onboarding job, the clock |
| Schedule store (`schedule.py`) | rules and the device mask in `config.json`, by MAC | validate, read, write | the scheduler, the on-device push |
| On-device schedules (`schedule_device.py`, `server.py` 621-677) | the timer's program slots and its active mask, `device_active_mask` | push, clear; every control session switches the programs off and on again | BLE session, `config.json` |
| Onboarding (`onboarding.py`, `server.py` 86-103, 328-397) | `_job`: its event list, its gate, its task; the session's account keys; `secrets/generated_keys.md` | start, cancel, continue, stream; discover, provision, register; write_config | the radio (without the lock), `config.json`, the cloud |
| Command line (`cli.py`) | none of its own | register and provision in a process of their own; one-shot commands | the radio and `config.json`, beside the server |
| Status cache and MQTT bridge (`server.py`, `mqtt_bridge.py`) | the last status per timer; the broker connection | mirror a status, refresh, dispatch a command | `_run`, the same handlers as REST |
| Config store (`onboarding.py` 333-380, `server.py` 399-423, `cli.py`) | `config.json`, a symlink into `shared/` in a deployment | read, change, replace | server, command line and deploy write it |
| Deploy (`deploy/*.sh`) | releases, `current`, `shared/` | test, copy, flip, health check, roll back, prune | the running server |
| Provisioning proof (`provision_proof.py`) | the trial: control, provisioning, the results of the power cycles | reset, negative control, provision, power-cycle and verify, verdict | the timer, through onboarding's functions |
| Rest | none of their own | cloud HTTP, update check, container entry point, web pages | |

### What is hard about it

- **Reads before awaits.** `zones_start` looks at `_active_zone`, then awaits several
  BLE operations; `run_due` goes on with the config it has read; `_run` builds its
  device before it waits for the lock. Each is used when it may be stale.
- **A command that may have worked.** A link can drop before or after the timer
  acted, a write can be lost, a reply can fail to decode (which is the same value as
  an idle timer).
- **Indices as names.** A timer is named by its place in `config.json`; a removal
  renames the others under queued requests, the belief and the scheduler.
- **Time.** Rules are due in a window of minutes; fires take long; local clocks are
  set back; days end.
- **Restarts.** `_active_zone` is saved, `_fired` is not.
- **Cancellation.** A job may be cancelled at any await, and `CancelledError` passes by
  every `except Exception`: what was half done on the timer stays half done.
- **A key that exists once.** A self-generated key is in one process, one file and, from
  some moment on, in a timer that answers to nothing else until it is reset.
- **Scripts that stop anywhere.** A deploy may be interrupted between any two commands, and
  the next one builds on what it left.
- **Several writers.** `config.json` is read, changed and replaced by the server, the
  command line and onboarding.

`PROJECT.json` lists them one by one, each at its line, with the properties that
watch it.

### What makes each component correct

- *Dashboard*: one zone at most is open; the belief is taken up only when the zone
  waters and dropped only when it does not; a stale belief is corrected; requests
  are answered.
- *Scheduler*: a rule runs once a day, on its own timer; a rule is tried to the end of
  its window; what is shown agrees with what happened and what will.
- *On-device schedules*: no other operation leaves a pushed schedule switched off; the
  mask in the config is what the timer runs.
- *Onboarding*: no timer ends up with a key nobody has; a timer that was saved as
  provisioned stays so; it is saved once; each human step takes a press of its own;
  a job waits for nobody but a human, and nothing keeps a link it has no use for.
- *Provisioning proof*: a PASS is never undeserved.
- *Config store, deploy*: no change is lost; what `current` names can run; a deploy leaves
  the box up if it found it up.

## 2. Modules

| Module | What it is |
|---|---|
| `Zones` | all watering requests at the lock: dashboard, REST/MQTT, the scheduler's fire; faults, onboarding refusals, removals, restarts; the dashboard's properties |
| `ZonesExclusion` | the conditions under which one valve at most is open (`Disciplined`), the inductive invariant, and the refinement of `OneZone` |
| `OneZone` | the abstract specification: one zone, believed or not, with no radio |
| `ZonesProof`, `ZonesExclusionProof` | the theorems about them |
| `MCZones` | instances for TLC |
| `ScheduleOps` | `scheduler.py` and `validate_rule` as operators on times and rules |
| `Scheduler` | `_scheduler_loop`, `run_due`, `_fire_start`, the enable flag, the passing of time, users and crashes |
| `SchedulerProof` | the theorems about both |
| `MCScheduler` | instances for TLC |
| `DeviceSchedule` | the programs in a timer's memory, the flags that run them, the saved mask; push, clear and the arming of every other session |
| `DeviceScheduleProof` | the theorems about it |
| `MCDeviceSchedule` | an instance for TLC |
| `Onboarding` | the wizard's jobs, the register request and the command line's flows, over keys, links and the config |
| `OnboardingProof` | the theorems about it |
| `MCOnboarding` | instances for TLC |
| `Deploy` | `deploy.sh` and `rollback.sh`, command by command, with the server they restart |
| `DeployProof` | the theorems about it |
| `MCDeploy` | instances for TLC |
| `Session` | one BLE session's messages, the reply counters and their window |
| `SessionProof` | the theorems about it |
| `MCSession` | an instance for TLC |
| `ProvisionProof` | the experiment of `provision_proof.py` |
| `ExperimentProof` | the theorems about it |
| `MCProvisionProof` | an instance for TLC |

### `Zones`

A step of the model is what the event loop runs without interruption: from the start
of a handler, or from an await, to the next await. `task[t]` is the request a task
handles, with a `pc` that names the await it stands at: `wait` (for `_ble_lock`, or at
its head about to connect), `acted` (the timer acted, the read-back to come),
`publish` (awaiting the MQTT mirror), `retry` (`asyncio.sleep(0)` in
`_act_confirmed`).

| Code | Model |
|---|---|
| `_ble_lock` | `lockq`: the holder, then its waiters in order (asyncio.Lock is first in, first out) |
| `_run` | `CallRun` (503, lookup, wait), `EarlyError`/`Act`/`LateError`/`ReadBack` (the BLE operation), `Published` |
| `_act_confirmed` | `Tries`, `Confirmed`, `Again`, `Retry`, `Resume` |
| `zones_start`, `zones_stop_all`, `zones` | `ZonesStart`, `ZonesStopAll`, `ZonesReconcile` and `AfterZoneStart`, `AfterStopAll`, `AfterReconcile` |
| `start`, `stop_zone`, `stop_all`, `_fire_start` | `RestStart`, `RestStop`, `FireStart` |
| `_persist_active`, `_load_active` | `SetActive`, `Restart` |

The belief and its file are two variables. `SetActive` writes the file as
`_persist_active` does: with the fault `"disk"` it stays as it was or is left empty, and the OSError is swallowed.
`Restart` reads it, and may find it empty when a request was just about to save (`Saving`): the file is truncated before it is written.

A read-back may be any of `Replies`: what the timer shows; what it showed when the session was armed (`"stale"`: a late
reply to the query that `arm()` sends, which is `Session`'s concern in detail); or an idle status, when none decodes (`"empty"`).

The timer is external and modelled as the test double `FakeTimer` (`test_e2e.py:168`)
plays it: it waters one zone at a time and a start replaces a run. Device indices
count from 1 in the model, from 0 in the code. A page's refresh that only reads the
status, and run times, are left out: nothing they change is state of the model.

### `Scheduler`

A time is a day and a minute. `Tick` is `run_due` up to its first await, or its
refusal: it reads the time (`at`), the flag, the job and the config (`plan`) and
notes the rules still to fire (`todo`). `RadioGranted` is `_fire_start` with the lock,
looking the index up in the config *of that moment*; `FireConfirmed` and `FireFails` are
the two outcomes, each with all of the bookkeeping that follows (`Attempted`).
Which rules are due is a function of the config and the time that were read, so
`todo` can be computed at once; the test against `_fired` is repeated after each fire,
since two rules may share a key.

`NextMinute` lets time pass: a sleeping loop wakes in every minute (it sleeps 20 s),
and the fires of one tick together take `TickMinutes` at most. The rest of `Next` is
what users, the clock or a crash do meanwhile. `confirmed`, `earlier`, `tried` and `since` are
history: no action looks at them.

### `DeviceSchedule`

A session is split where the link can drop: `Arm` (connect and `arm()` up to the message
that switches all programs off), `Reenable` (its last write), then the command
(`EndControl`), or one `WriteProgram` per rule and `SetActivePrograms`, then the
read-back (`Verified`, `Unverified`). `Verified` and `Cleared` include the saving of the mask:
between the release of the lock and `set_device_active_mask` there is no await.
`Control` is any request through `_run`: its BHyveXD, and so its mask, is older than its
turn at the lock; the BHyveXD of `Fire`, `PushSchedules` and `ClearSchedules` is built with the lock.

A program is abstracted to the rule it was made of (`Runs`). The numbering of programs
(`ProgramId`) is the rank of a rule among the enabled ones, which is what the loop's
`len(programs) + 1` is. `ended`, `fresh`, `pushed` and `torn` are history: did the last session
end well, with the mask that was saved by then, what was pushed last, and was a later
push cut off.

### `Onboarding`

A flow is one way from a key to a saved timer: a job of the wizard, the register request
(`Rest`) or a command line process (`Cli`). `flow[f].pc` names the await it stands at:

| `pc` | Code |
|---|---|
| `begin` | the task is scheduled, `onboard_flow` (or `onboard`, or the command) has not run |
| `cloud` | `cloud_fetch` in `_try_orbit_key` |
| `pick`, `choose`, `app`, `ready` | the gate of a job (`pick_device`, `fallback_choice`, `app_instructions`, `await_wake` or `await_reset`), a prompt of the command line |
| `lock` | the register request waits for `_ble_lock`; nothing else here takes it |
| `probe`, `write` | `provision_device`, phase A: connect to what advertises, write the key |
| `catch`, `read` | `catch_device_session`: wait for an advertisement; connected, the status asked for |
| `setup`, `answered` | `provision_setup`; the session that closes, and `write_config` right after it |

`Begin` to `Finish` are the stretches between those awaits. A flow that is adopting a
timer of the account or registering (`~Provisioning`) only catches; the others key a fresh
timer first and contact it anew. `OnboardStart`, `OnboardCancel` and `OnboardContinue` are
the requests of the page; a continue may come at any time, with any choice, an earlier step's too. Which one
a press brought is settled where it is read: `Pick` and `Choose` take any of `Choices`. `SelfKey` has `_stash_key` and its failure: a job
ends with it, the command line prints the key for its user to save (`warned`) and goes on to write it to the timer.

When a flow is cancelled, superseded or dies with its process, `Abandon` and `Crash` say what becomes of its link: the session that
finalizes has a `try/finally` and the one that is closing closes; a connection made to probe, to write the key or to read is closed
by nobody, since `CancelledError` is no `Exception`. It stays with the flow that is over until it ends by itself (`LinkDrops`); `cut`, history, has
the flows that ended so, and `LinksReleased` is about all others.

The timers are external, modelled from what the code says and does about them: a fresh timer takes a key, which is
lost with power until the finalize sequence (`final`); a reset by the dial empties it;
a status decodes only with its key; a connected timer does not advertise. The finalize
writes have no response: that they are carried out while the link stands is assumed, since
the read-back shows the key and not its persistence. Left out are the event list and its stream,
the removal of devices, and the list of nearby devices that are no B-Hyve. `pressed`, `touched`
and `outside` are history or bounds.

### `Deploy`

A step is one command a script runs on the box: `Rsync`, `Finalize` (links, venv, VERSION, import),
`Record` (PREV), `Flip`, `Restart`, `Check`, then `Prune`, or `Back` with its restart and check;
`RollbackPick` and `RollbackFlip` are `rollback.sh`. `Killed` stops a script between any two of
them (`set -e`, ssh, Ctrl-C). `dirs` is `releases/` in the order of `ls -1dt`, by which both
pruning and rollback choose: `rsync -a` sets a directory's time to the one it has at home, which may
be older than that of any release there, while a link, a venv or a saved config makes it the newest (`Modified`).
`Boot` is what systemd gets up: nothing, when the release is gone, incomplete or does not start.
`own[r]` is the config of a release that the server has saved over its link, `shared` the one in `shared/`.
`saved`, `picked` (the releases `rollback.sh` switched to) and a script's `up` are history. The tests `deploy.sh` runs at home change nothing
on the box and are left out.

### `Session`

A session is a list of what it sends and where it reads (`Arm`, `ReadStatus`, ... spell out the
code's sequences that read by `read_status`; a push reads by `read_active_mask`, a clear reads nothing, and neither is among them); each item is a step, and replies arrive between any two. `first`, `rx` and a reply's place
`at` among all blocks of the session give the counters; `InWindow` is the search of `read_status` for the
one that decrypts to the header. The header is taken to appear for that counter only. `talks` says which messages
besides a status query a timer replies to, which the code does not know either. `asked` and `heard` are history.
`PlansAssumption` is what the code's sequences have in common: whatever they read, they read as `read_status` does,
right after its query (`ReadsByReadStatus`).

### `ProvisionProof`

Each step of `main` is an action: `Reset`, `Control`, `Provision` or `ProvisionFails`, then
`PowerCycle` and `Verify` or `VerifyMisses` for each cycle. One run of `catch_device` is one step, which sees
the timers `up` that advertise at the time. What the user was asked to do may not have
happened (`"reset"`, `"skipped"`), the timer may be asleep, and a finalize may not be taken
(`"volatile"`): the experiment is there to find that out. A timer counts as present when it connects; that its session or its
status then fails, or is late, only sends the catch on (`Heard`), in the control as in a verification. `keyless`, `missed`, `survived` and
`skipped` are history, the truth about the timer and its user that the verdict is compared with.

## 3. Runs

| Run | Question | Bounds |
|---|---|---|
| `zones_single` | Is one valve at most open, is the belief dropped only over a closed one, does the invariant of the proofs hold, does the server refine `OneZone`, is each request answered? | 2 timers x 2 zones, 3 requests, 3 tries; one dashboard start at a time, reconciles, stops, 503s, failed connections, lost writes; no stop-all and no start from elsewhere |
| `zones_mixed` | What is left with the rest on? | 2 timers, 2 requests, one page that starts zones, every fault of a BLE operation, removals, additions, restarts, the bridge |
| `zones_truth` | Do the belief and the off report follow the truth with overlapping starts, links that drop at any time and a file that is not written? Is each request answered, and a stale belief corrected? | 2 timers, 2 requests, both may start, restarts; fairness below |
| `zones_overlap` | violation: two overlapping starts open two valves | 2 requests, no fault |
| `sched_day` | Does the scheduler keep its promises? | 2 timers, 2 days of 5 minutes, grace 2, ticks of up to 1 minute, 2 interferences |
| `device_push` | Does a timer run the schedule that was pushed, and come back to it? | 1 timer with 2 slots, 2 requests, programs with a disabled rule and with one rule too many, fairness |
| `onboard` | Do keys, saves and links stay sound, whatever fails, is cancelled, crashes, is reset or loses power? | 2 timers, one of them the account's; 2 flows of five kinds; 2 reconnects; 1 event from outside, all faults but the cloud's |
| `onboard_live` | Does a press pass one step only, and does a job ever hang? | the same with the login inside the wizard, the app, dropped links and all faults; fairness |
| `proof` | What does a PASS stand for, whatever was not done, not heard or failed? | 1 timer, 4 cycles where 3 are required, 3 attempts, all faults |
| `deploy` | Does `current` stand, does the server keep its directory, is the box left up? | 4 releases, 1 kept, 1 script at a time, rollback, interruptions, missed health checks, server deaths, 1 save |
| `session` | Does a read find its own reply, and none twice? | every kind of session that reads by `read_status` (control, catch, provisioning, verification, selftest; not push and clear); the code's window, counters of 128 values that start at 0 or near the wrap, status replies of 3 blocks and others of 6, 2 lost replies |
| `deploy_link` | violation: a save of the deployed server does not survive the next deploy | 2 releases, 1 save |

Why the bounds suffice. Every conflict in the dashboard is between two requests
about two timers; a third request is there for the order of the lock (a reconcile queued
before a switch, and another behind it). Two tries are the least at which a retry
happens; three separate the first, a middle and the last. One zone per timer shows
what two show wherever only "open or not" matters; `zones_single` has two, so that a
switch within a timer occurs. For the scheduler, a day of five minutes has a start that
is not midnight, a window that ends within the day and one that midnight cuts off;
the edited rules put two windows of one valve over each other, and a program without
weekdays is refused. Two days are one midnight: `_fired` is pruned and refilled. The grace is
the code's, 2 minutes; a tick of up to 1 minute makes the other rules late. `MaxEvents` = 2
lets two interferences fall into one window. For the on-device schedules, timers share nothing but
the lock; two slots and three rules reach the cap, and two requests are one that waits while the other
changes the mask.

For onboarding, two timers are the least at which the wrong one can be at hand: two B-Hyves
nearby are refused, a key may be asked of a timer that has another, a MAC may not match. Two flows are
a job and its superseder, or a job and a register request or command line, on the same or on
different timers; each has all its retries (two reconnects are a first and a last). One event from outside falls
into any step of either. `Keys` has one self-generated key for each flow that may need one; in `onboard` no
definition tells those apart, hence the symmetry, and in `onboard_live` one self-key flow suffices and there is no symmetry.
The two runs split the kinds of flows and of events, because all of them together are too many for one run; the theorems
of section 4 have them all. For deploys, `Keep` = 1 with four releases makes pruning
bite with a release to go back to, an untried one and an incomplete one on the box; the code's 5
would only lengthen the way there. In the experiment, four cycles where three are required tell a
failure in the surplus cycle from one in the others.

For a session, replies of up to 6 blocks make arming and provisioning together longer than the
window, so that the counter has to move, and two lost reads make a selftest leave it: the condition of `OwnReplyRead`
is met and not met. Counters of 128 values exceed the window and every session, as the 32 bits of the code do.

`CHECK_DEADLOCK FALSE` is in the `onboard`, `proof`, `session` and `deploy` runs, and there only: experiment and session end, and so
do the behaviours of the others when the bounds on flows, events and releases are used up. The other models cannot
get stuck: the scheduler's time ends at `LastDay`, but the loop itself goes on ticking.

### Fairness

`WorkersRun`: the event loop runs each task that can run, and a BLE operation ends
(every await in `bhyve_xd.py` has a timeout): weak fairness of `Work(t)`.
`PagesReconcile`, a hypothesis of `StaleBeliefCorrected` and of nothing else: pages keep asking for a reconcile
(`zones.html` does on load and after each action), and the link does not fail every one of them: strong fairness of that
request and of its BLE operation. `StaysUp`, the other hypothesis: restarts stop some time. The code retries
nothing of a reconcile by itself; without pages a stale belief stays.

`Fairness` of `DeviceSchedule`, for `ScheduleComesBack`: the tasks run, status requests keep coming, not every
link fails while the timer is armed, onboarding jobs end, restarts stop. Nothing in the
server retries an arm that was cut off: between the two, the timer runs nothing.

`LiveSpec` of `Onboarding`, for `JobMovesOn`: weak fairness of each flow's own steps. Each await that is not a
human's has a timeout (scan, connection, status, HTTP). Nothing is assumed of humans or timers, so a
job may wait for a press for ever.

### Disagreements with the repository's own words

Two runs show a statement of the README, a comment or a docstring violated; each is a
finding in `PROJECT.json` with the quoted line: two starts that overlap break "only one zone runs at a time"
(`zones_overlap`), and a config saved over its symlink breaks "never copied or overwritten"
(`deploy_link`).

Further ones are not kept as runs. Each shows with a small change of a configuration:

| Statement | What happens | To reproduce |
|---|---|---|
| "clear the active zone once its device is confirmed off" (`server.py:878-879`) | a zone started while stop-all is at the other timer is believed, and dropped at stop-all's end with its valve open (`server.py:886`) | `zones_single.cfg` with `Events = {"zone start", "stop all"}`, `Faults = {}`, property `ClearedOnlyWhenOff` only |
| "at most ONE zone runs globally" (`server.py:804`) | a scheduled fire (as a REST start or an MQTT command) opens a valve without a look at the believed zone (`server.py:600`) | `zones_overlap.cfg` with `Starters = {r1}`, `Events = {"zone start", "fire"}` |
| "confirm idle first" (`server.py:858-860`) | an undecodable reply is the same value as an idle timer (`bhyve_xd.py:499`) and confirms a stop | `zones_overlap.cfg` with `Starters = {r1}`, `Faults = {"empty"}` |
| "self-corrects" (`server.py:893-895`) | the belief in a removed timer's zone (`server.py:399`) is never corrected | `zones_truth.cfg` with the event `"remove"`, property `StaleBeliefCorrected` only |
| "one fire per rule/day" (`server.py:520`) | `_fired` does not outlive a restart | `sched_day.cfg` with `Events = {"crash"}`, invariant `OncePerDay` |
| "keyed by MAC (stable)" (`server.py:485`) | a removal under a waiting fire makes it open a valve of another timer (`server.py:606`) | `sched_day.cfg` with `Events = {"remove"}`, invariant `OwnTimer` |
| "control never wipes a schedule" (`bhyve_xd.py:439`) | a control request that waits behind a push or clear arms with the mask from before it (`server.py:201`) | `device_push.cfg` with `SPECIFICATION Spec` and the invariant `ControlNeverWipes` only |
| "so the UI can leave the add flow cleanly" (`server.py:362-363`) | a job cancelled while it probes, writes or reads leaves its connection open: `except Exception` does not see `CancelledError` (`onboarding.py:470-482`, 800-843) | `onboard.cfg` with `Faults = {}`, `Outside = {"cancel"}` and the invariant that a link's holder, if a job, is in `Linked` |
| "PASS only if: keyless before" (`provision_proof.py:15`) | a timer with our key that connects to the control and whose status is late counts as present and not decoded (`onboarding.py:468`, `provision_proof.py:163-167`) | `proof.cfg` with `Faults = {"reset", "unheard"}` and the invariant `verdict = "pass" => keyless` |
| "the harness cannot 'cheat' past this" (`provision_proof.py:42`) | a power cycle counts when its user pressed Enter (`provision_proof.py:204`) | `proof.cfg` with `Faults = {"reset", "skipped"}` and the invariant `verdict = "pass" => survived >= MinCycles` |
| "PASS only if ..." (`provision_proof.py:15`) | a neighbour with the same key that slept through the control answers every verification | `proof.cfg` with `Timers = {t1, t2}`, `Wanted = {t1}` |

Three facts about deploys are conditions of the properties rather than violations of a
statement: `rollback.sh` picks the newest other release even if it was never completed (hence `picked` in
`CurrentStands`, which exempts that release and no other, until it is made anew); nothing keeps two deploys from running at once (hence `OneAtATime` in the theorems); and a deploy
interrupted between its flip and its restart makes the next one record an untried release as the one to go
back to (hence `up` in `NoDowntimeLeft`).

## 4. Proofs

For every number of timers, zones, requests, retries, rules, days, minutes, flows, keys, releases, power cycles, sessions and counter widths:

| Theorem | Statement | Argument |
|---|---|---|
| `ZonesProof!TypeCorrect` | `Spec => []TypeOK` | `TypeInv`: TypeOK is not inductive alone, since a task that acts must have looked its timer up (`TimersResolved`). The bound on the retry counter is the content. |
| `ZonesProof!StartsComeLast` | `(\A s, u \in Starters : s = u) => (Spec => []StartsOnlyOverNothing)` | `StartsInv`, below |
| `ZonesProof!BelievedIsTrue` | `~Mqtt /\ {"lost", "stale"} \cap Faults = {} /\ "remove" \notin Events => (Spec => BelievedOnlyWhenWatering)` | `TruthInv`, below |
| `ZonesProof!StopAllIsTrue` | `~Mqtt /\ {"empty", "stale"} \cap Faults = {} /\ "remove" \notin Events => (Spec => StopAllReportsOff)` | `TruthInv`, below |
| `ZonesExclusionProof!ExclusionInvariant` | `Disciplined => (Spec => []ExclusionInv)` | inductive as it stands; one lemma per action, below |
| `ZonesExclusionProof!OneZoneAtATime` | `Disciplined => (Spec => []AtMostOneOpen)` | `ExclusionInv`, below |
| `ZonesExclusionProof!BeliefDroppedWhenOff` | `Disciplined => (Spec => ClearedOnlyWhenOff)` | from the same invariant, one lemma per way the belief goes |
| `ZonesExclusionProof!ImplementsOneZone` | `Disciplined => (Spec => OneZoneSpec)` | each step is a step of `OneZone` or a stutter, below |
| `SchedulerProof!NextOccurrenceIsNext` | `next_occurrence` returns the first start after now, over all days | among eight successive days each weekday occurs, and today's occurrence may be past: eight offsets are enough |
| `SchedulerProof!SchedulerTypeCorrect` | `Spec => []TypeOK` | the places of `todo` are places of `plan`, whatever happens to `config` |
| `SchedulerProof!NeverTwiceADay` | `Spec => []FiredOnce` | `FiredInv`, below |
| `SchedulerProof!ShownRunsAreTrue` | `Spec => []LastRunsTrue` | `RunsInv`, below |
| `SchedulerProof!NextRunIsFirst` | `Spec => []NextDueIsFirst` | from NextOccurrenceIsNext: the least over the rules of a valve is the first of all their starts |
| `SchedulerProof!EveryWindowIsUsed` | `TickMinutes <= Grace => (Spec => []WindowUsed)` | `WindowInv`, below |
| `SchedulerProof!FiresGoHome` | `"remove" \notin Events => (Spec => []OwnTimer)` | what was read at the tick and what is looked up at the fire have the same timers in the same places (`SamePlaces`) |
| `SchedulerProof!OnceWithoutRestarts` | `"crash" \notin Events => (Spec => []OncePerDay)` | without a restart nothing was confirmed by an earlier process, and the rest is NeverTwiceADay |
| `DeviceScheduleProof!DeviceTypeCorrect` | `Spec => []TypeOK` | no program beyond the timer's slots |
| `DeviceScheduleProof!SessionsKeepSchedules` | `Spec => []ScheduleKept` | `DeviceInv`, below |
| `DeviceScheduleProof!TimerRunsTheRules` | `Spec => []RunsTheRules` | `DeviceInv`, and the ranks of enabled rules are different and without gaps as far as they fit (`ProgramNumbers`, `AllFit`) |
| `OnboardingProof!OnboardingTypeCorrect` | `Spec => []TypeOK` | the bound on reconnects is the content |
| `OnboardingProof!NoKeyIsLost` | `Spec => []KeyNeverLost` | `OnboardingInv`, below |
| `OnboardingProof!ProvisioningIsDurable` | `Spec => []ProvisionedStaysKeyed` | from its part `SavedSound` |
| `OnboardingProof!TimersSavedOnce` | `Spec => []SavedOnce` | one entry has the MAC, or none and one is appended |
| `OnboardingProof!NoLinkIsKept` | `Spec => []LinksReleased` | with one holder per link, each step of a flow moves its own links only; a flow that ends with one is in `cut` by that same step |
| `OnboardingProof!OnePressEach` | `Spec => OnePressOneStep` | `PressedInv`, below |
| `DeployProof!CurrentAlwaysStands` | `OneAtATime => (Spec => []CurrentStands)` | `DeployInv`, below |
| `DeployProof!ServerKeepsItsDirectory` | `OneAtATime => (Spec => []RunningStays)` | a script prunes only when what runs is `current`, which stays |
| `DeployProof!DeploysLeaveItUp` | `OneAtATime => (Spec => []NoDowntimeLeft)` | a release that was up still stands when it is gone back to |
| `ExperimentProof!PassIsDurable` | `Alone => (Spec => []PassMeansDurable)` | `ExperimentInv`, below |
| `ExperimentProof!ExperimentTypeCorrect` | `Spec => []TypeOK` | inductive without `Alone`; the attempts and cycles stay within their bounds |
| `SessionProof!SessionTypeCorrect` | `Spec => []TypeOK` | a conjunct of `SessionInv`, below |
| `SessionProof!ReadsAreNew` | `Spec => EachReadIsNew` | `SessionInv`: the queue was emptied before the query (`NotifsAreNew`) |
| `SessionProof!ReadsItsOwn` | `Spec => OwnReplyRead` | `SessionInv` and what the loop over the notifications leaves (`LoopInv`), below |

`Disciplined` is the hypothesis under which the dashboard does keep its promise: one
dashboard start at a time beside any number of reconciles, single stops and onboarding jobs; no stop-all, no start by REST, MQTT
or the scheduler, no timer added or removed, no restart, no bridge; connections may fail, commands be lost and saves fail, but
no link is lost between a command and its read-back, and a reply that comes is decoded and new. That is much less than the code meets. The run
`zones_overlap` and the first three rows of the table above (stop-all, a scheduled fire, an undecodable reply) show what becomes of the promise
without it. `ExclusionInv` needs three facts that AtMostOneOpen
does not say: the belief a start works against (`BeliefAtStart`); that a queued
reconcile reads the device which is believed when its turn comes (`ReadsBelieved`,
`ReadsAfterSwitch`: this is where the lock being first in, first out matters); and
that an open valve is the believed one or the one a start has just opened
(`OpenIsKnown`).

`ImplementsOneZone` maps `active` to the zone `OneZone` believes and the open valve to the zone that runs. A timer that acts
or stops by itself is a `Start` or a `Stop` (`ActMaps`, `AutoStopMaps`). In all other steps the valves stay
(`ValveMoves`); they are stutters unless the belief changes, which is `Forget` when it goes (nothing runs then: BeliefDroppedWhenOff) and
`Believe` when it is taken up, and then the zone that was confirmed is the one that runs (`ConfirmedRuns`).

`StartsInv` adds to the types only that dashboard starts are carried by `Starters` (`OwnStarts`). Its hypothesis is part of
`Disciplined`, and the rest of that is not needed: with a single page that starts zones, REST and MQTT requests, the
scheduler, faults, removals and restarts cannot make a zone be switched on over another that is believed to water.

`TruthInv` is about one request between its act and its read-back: only the lock's holder is there (`HeadActs`), it has the timer its
device stands for (`TimersFound`), and what it does fits its kind (`OpsFit`). `CommandDone` adds that
a timer told to start waters the zone asked for or nothing. Each hypothesis excludes one way to be wrong that the model shows. With the
bridge, the mirror is awaited between the read-back and the use of its result, and other requests run in between. A lost
start leaves whatever zone was on, and its read-back says "watering". A reply that cannot be decoded reads as "not watering".
A late reply to the query sent on arming says what was before the command.
A removal moves the indices between the lookup and the lock. Overlapping requests, dropped links, retries, a watering that ends
and restarts are all left in.

`FiredInv`: the last tick's day is not in the future (`TicksPast`: the clock is set back
within a day only); `_fired` answers for that day (`FiredAnswers`: everything confirmed on
it is in `_fired`, nothing was confirmed for a later one); and nothing a tick has
still to fire is in `_fired` (`TodoUnfired`). Pruning is safe because a stale day never
comes back.

`RunsInv` adds to it that no run shown is from a later day than the last tick's (`RunsPast`), so that pruning by that day forgets no key of
a run shown for it, and that the entry of each valve and its key agree (`RunTrue`).

`WindowInv`, on top of `FiredInv`: each rule of the config that has been due, undisturbed, has been served at every
minute of its window that a tick must have seen by now (`AllServed`): confirmed, among what the tick under way will fire, or tried
at that minute or later. How far behind the last tick may be is `Slack`: the minutes the current one has used, or a whole one's and
the minute in which the loop wakes. `TickRecent` bounds the age of the time a tick under way has read. A tick longer than the
grace window can begin before a rule's start and end after its window; then nobody has tried it and the statement is false, which is why
`TickMinutes <= Grace` is there. The code bounds neither by the other.

`FiresGoHome` and `OnceWithoutRestarts` are the other side of two disagreements below the runs: what the comments
say (a fire goes to the timer of its rule; one fire per rule and day) is true of any calendar and config until a
timer is removed, or the process restarts, respectively.

`DeviceInv`: only the lock's holder is in a session (`OneSession`); the flags and slots of the timer are what that
session has sent so far (`FlagsAsSent`, `SlotsAsSent`); unless a push is unconfirmed, the saved mask and the
slots are those of the last confirmed push (`SavedAsPushed`). It holds with stale control requests, too:
what fails with them (`ControlNeverWipes`) is the same statement without the condition that the session had the
saved mask.

`OnboardingInv`: what a flow knows is sound (`FlowSound`): past its first stretch its key is the account's, a
stashed one or one the command line's user was told to save; when it has read a status or finalized, the timer at hand has that key, as long as the link stands or nobody
reset it. A timer saved as provisioned has the saved key, for good, unless reset (`SavedSound`). The lemmas per action
share the notion of a `Gentle` step: it takes no key out of the stash or from a user who was told, and none from a timer that is final or whose link stays.
Without `FlowSound` the save and the finalize of a flow could not be justified, since the key was written two
connections earlier.

`PressedInv`: a gate's event is set only while a press of continue is unspent. The gate clears the event as its wait
returns; the lemmas sort every action into those by which a flow goes on with no event set (`GoesOn`) and those that pass a gate.

`DeployInv`, with one script at a time: the release a script switches to is there, and complete if it is a new one (`RelReady`); the one to go
back to is there until pruning, complete or chosen by a rollback, and starts if it was up (`PrevReady`); `current` is what the script's place
says (`CurrentAsSwitched`) and, past the health check,
what runs is `current` (`RunsAsChecked`); what runs stands and starts (`RunningBoots`). Pruning is where
it matters: the newest releases by time need not include `current`, and `PREV` may go.

`ExperimentInv`: past the negative control the target was without the key, or was connected to and not heard (`ControlledKeyless`); if every cycle so
far was confirmed, the target had the key after each that was not skipped (`SurvivedAsConfirmed`); a verdict is the end
(`VerdictEnds`). `Alone` (one timer within reach) is needed: see the last row of the table above.

`SessionInv`: the blocks the timer sends are numbered from the start of the session, and everything else is told by those numbers.
Replies stand in the order they were sent, in the queue and on the way (`RepliesInOrder`, `AllWereSent`);
the host's counter is the end of the last reply it read, modulo `Width` (`CounterIsHeard`); what is still on the way comes after it
(`WireIsNew`), and so does what is in the queue between the clear and the read (`NotifsAreNew`); nothing is asked between the status
query and its read (`LastAsked`). The last two need to know what the session does next: `ReadsStatus`, from `PlansAssumption`. Then a
counter in the window and the true distance of a reply are the same as long as `Behind + Ahead < Width` (`AheadDecodes`, from three
lemmas about the remainder). `read_status` goes through all notifications and keeps the last that decodes; in the model this
is a fold, and its value is proved to be the last of the turns: that the recursive function exists is shown from its definition by a
least counterexample (`FoldExists`, `LoopTurns`), since the library's induction cannot be used. `LoopInv` says what
is known after each turn: the counter is where the reply read last ends, which is one of those looked at, or the one read last before.
The own reply is the last in the queue and, if it starts no further than the window, is read whatever the loop did before it.

The assumptions are those named in the modules (`ZonesAssumption`,
`ScheduleAssumption`, `SchedulerAssumption`, `DeviceScheduleAssumption`, `OnboardingAssumption`,
`DeployAssumption`, `ProofAssumption`, `SessionAssumption`, `PlansAssumption`): types of the parameters, distinct timers in
the config, at least two tries, special values that are different from the rest, a counter wider than the window, sessions that read
as `read_status` does. Where the table names no condition on faults and events, a theorem
holds for every choice of them, all of them included.

Every safety invariant and every action property of the passing runs, and the refinement of `OneZone`, is stated by a theorem above. Only
model-checked are the liveness properties `RequestsAnswered`, `StaleBeliefCorrected`, `ScheduleComesBack` and `JobMovesOn`: liveness
under fairness is beyond this prover. The runs of the theorems with
a hypothesis are of instances that meet it.

## 5. Limits of the models

- A clock that jumps forward is not modelled: a window it skips is lost, as the code
  intends ("never hours late").
- A clock set back over midnight is not modelled: `_fired` forgets the day by then, and
  the code makes no promise about it.
- `config.json` is read and replaced in one step. `write_config` has no await in it, so this is exact
  within a process; the server and a command line that write at the same moment may lose one of the changes
  (`onboarding.py:333`), which no model shows.
- `Onboarding` is not composed with `Zones`: a job takes no lock, and a control operation that
  was already waiting for it runs beside the job (`server.py:198`). `Zones` has the job's 503 only. What the
  two do to each other's scans is the radio's affair.
- The stream of a job's events and its cursor (`server.py:383`) are left out: a page that follows a
  superseded job goes on with the new one's list. Nothing but the display depends on it.
- In `DeviceSchedule` one timer keeps its place in the config; a removal under a waiting push
  (the index is looked up again, the MAC is not) is listed as a hazard without a property.
- A session's writes arrive in order or the link drops; single lost ones are in `Zones` only. `Session` has lost
  and late replies; it is not composed with `Zones`, whose read-back takes over from it what a read may return: the own reply, none, or a late one to
  the query sent on arming. `OwnReplyRead` and `EachReadIsNew` leave room for the last: a reply to an earlier query that nobody read is new.
  Pushes and clears are no plans of `Session`: the decoder of `read_active_mask`, with a window of its own (-8 to 3999) and a CRC, is left out.
- In `Onboarding` the finalize is carried out if the link stands; `ProvisionProof` is where it may not be.
- In `Deploy` two scripts may run at once when `Scripts` has two members, but the properties are
  checked and proved for one: nothing in the scripts promises more.
- The status cache and the content of the MQTT messages are left out; only the await of
  the mirror is in `Zones`. Reconnecting to the broker is the client library's.

### Not modelled

The update check (one request and a comparison of versions that nothing else reads), the container entry point
(renders the options to a file before anything runs), the main page (layout and fetches), the cloud account's HTTP requests
and their error classes (`Login` has their outcomes), the command line's one-shot commands
(the server's operations without lock or belief), ciphers, CRC and field encodings.

## 6. Plan

Done: the dashboard with its abstract specification, the host scheduler with its operators, the on-device
schedules, onboarding, the provisioning experiment, deploys and the BLE session, each with its proofs. What is left, in this order:

1. Two processes at `config.json`: the read, the change and the replacement as steps of their own,
   in a module that `Onboarding` and `Deploy` share.
2. `StatusCache`: what the bridge publishes against what was last read.
3. Proofs: `ControlNeverWipes` when no control request is older than the mask it needs;
   `CurrentStands` for deploys that overlap outside of the switch; an abstract
   specification of the scheduler (one fire per rule and day) that `Scheduler` implements without restarts.

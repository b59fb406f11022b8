----------------------------- MODULE Onboarding -----------------------------
(***************************************************************************)
(* Adding a timer: the wizard's jobs (server.py: _OnboardJob, start,       *)
(* cancel, continue; onboarding.py: onboard_flow and its gate), the        *)
(* one-shot register request and the command line's register and           *)
(* provision.  All of them get a key, let the user prepare the timer, key  *)
(* it or catch it over BLE, and save it to config.json.                    *)
(*                                                                         *)
(* A flow is one run of that: a job, the register request Rest, or a       *)
(* command line process Cli.  A step is what runs between two awaits.      *)
(***************************************************************************)
EXTENDS Integers, Sequences, FiniteSets

CONSTANTS
    Timers,             \* the B-Hyve timers within reach, each also its MAC
    NoMac,              \* no MAC was asked for
    Jobs, NoJob,        \* _OnboardJob objects; _job is None
    Rest, Cli,          \* the flows that are no job
    Keys, AccountKey,   \* network keys; the one of the Orbit account
    Fresh,              \* no key: a factory-fresh timer
    NoOne,              \* a free link
    Modes,              \* how this instance's flows get their key
    Listed,             \* the account's timers at the start
    Outside,            \* what users and timers do meanwhile, in this instance
    Faults,             \* which steps may fail
    ReconnectAttempts,  \* provision_device(reconnect_attempts)
    MaxFlows,           \* bound: the flows of a behaviour
    MaxOutside          \* bound: its events from Outside

JobModes == {"orbit", "self", "account", "reuse"}
CliModes == {"register", "provision", "self"}

ASSUME OnboardingAssumption ==
    /\ IsFiniteSet(Timers) /\ NoMac \notin Timers /\ Fresh \notin Keys
    /\ Jobs \subseteq Nat /\ {Rest, Cli} \cap Jobs = {} /\ Rest # Cli
    /\ NoJob \notin Jobs \cup {Rest, Cli}
    /\ NoOne \notin Jobs \cup {Rest, Cli}
    /\ AccountKey \in Keys
    /\ Modes \subseteq JobModes \cup CliModes
    /\ Listed \subseteq Timers
    /\ Outside \subseteq {"app", "reset", "power", "drop", "crash", "cancel"}
    /\ Faults \subseteq {"cloud", "stash", "probe", "write", "catch", "setup"}
    /\ ReconnectAttempts \in Nat \ {0} /\ MaxFlows \in Nat /\ MaxOutside \in Nat

Flows == Jobs \cup {Rest, Cli}

VARIABLES
    job,        \* _job
    flow,       \* each flow's place and what it knows
    link,       \* who holds each timer's one BLE connection
    key,        \* the network key in each timer
    final,      \* the timers whose key survives a loss of power
    config,     \* config.json's devices: <<timer, key, how it got there>>
    account,    \* an account key is in the session or in config.json
    listed,     \* the account's timers
    stash,      \* secrets/generated_keys.md
    warned,     \* the keys the command line told its user to save
    cut,        \* history: flows that died, or were cancelled, and close no link
    pressed,    \* history: jobs that got a Continue since the last step it passed
    touched,    \* history: timers somebody reset
    outside     \* the events from Outside so far

radio == <<link, key, final, touched, cut>>
secrets == <<stash, warned>>
store == <<config, account, listed, secrets>>
vars == <<job, flow, radio, store, pressed, outside>>

(***************************************************************************)
(* pc: "begin" is scheduled; "cloud" awaits the cloud; "pick", "choose",   *)
(* "app" and "ready" await a human; "lock" the BLE lock; "probe" connects  *)
(* to what advertises nearby, "write" is about to write the key; "catch"   *)
(* waits for an advertisement, "read" is connected and reads the status;   *)
(* "setup" is about to finalize; "answered" closes the link and saves.     *)
(***************************************************************************)
Human == {"pick", "choose", "app", "ready"}
Linked == {"probe", "write", "read", "setup", "answered"}
Working == Linked \cup {"begin", "cloud", "lock", "catch"}

Unborn == [pc |-> "none", mode |-> "orbit", key |-> Fresh, want |-> NoMac,
           got |-> NoMac, set |-> FALSE, seen |-> {}, tries |-> 1]

Over == [Unborn EXCEPT !.pc = "done"]

Flow == [pc     : {"none", "done"} \cup Human \cup Working,
         mode   : JobModes \cup CliModes,
         key    : Keys \cup {Fresh},
         want   : Timers \cup {NoMac},    \* the MAC asked for
         got    : Timers \cup {NoMac},    \* the timer at hand
         set    : BOOLEAN,              \* the gate's event
         seen   : SUBSET Timers,        \* advertisers tried; the login's timers
         tries  : 1..ReconnectAttempts]

TypeOK ==
    /\ job \in Jobs \cup {NoJob}
    /\ flow \in [Flows -> Flow]
    /\ link \in [Timers -> Flows \cup {NoOne}]
    /\ key \in [Timers -> Keys \cup {Fresh}]
    /\ final \subseteq Timers
    /\ config \in Seq(Timers \X Keys \X {"adopted", "provisioned"})
    /\ account \in BOOLEAN
    /\ listed \subseteq Timers
    /\ stash \subseteq Keys
    /\ warned \subseteq Keys
    /\ cut \subseteq Flows
    /\ pressed \subseteq Jobs
    /\ touched \subseteq Timers
    /\ outside \in 0..MaxOutside

Init ==
    /\ job = NoJob
    /\ flow = [f \in Flows |-> Unborn]
    /\ link = [t \in Timers |-> NoOne]
    /\ key = [t \in Timers |-> IF t \in Listed THEN AccountKey ELSE Fresh]
    /\ final = Listed
    /\ config = <<>>
    /\ account = FALSE
    /\ listed = Listed
    /\ stash = {}
    /\ warned = {}
    /\ cut = {}
    /\ pressed = {}
    /\ touched = {}
    /\ outside = 0

-----------------------------------------------------------------------------
(***************************************************************************)
(* The pieces of a flow.                                                   *)
(***************************************************************************)

Running(f) == flow[f].pc \notin {"none", "done"}

Held(f) == {t \in Timers : link[t] = f}

\* adopt a timer of the account, and register, only catch; the rest key it.
Provisioning(r) == r.mode # "register" /\ ~(r.mode = "account" /\ r.want # NoMac)

Go(f, r, pc) ==
    flow' = [flow EXCEPT ![f] = IF pc = "done" THEN Over ELSE [r EXCEPT !.pc = pc]]

\* With its key a wizard or command line asks for the timer to be prepared.
Prepared(f) == IF f = Rest THEN "lock" ELSE "ready"

\* key_from_existing_config: the key of the first device.
SavedKey == config[1][2]

Unused == Keys \ (stash \cup warned \cup {AccountKey})

(* Mutant: the self-generated key is kept for the save only. *)
SelfKeyUnstashed(f, r) ==
    /\ \E k \in Unused : Go(f, [r EXCEPT !.key = k], "ready")
    /\ UNCHANGED secrets

\* os.urandom, and _stash_key at once.  When that fails a job ends; the command
\* line prints the key ("SAVE IT NOW yourself") and goes on with it.
SelfKey(f, r) ==
    \/ \E k \in Unused : /\ Go(f, [r EXCEPT !.key = k], "ready")
                         /\ \/ stash' = stash \cup {k} /\ UNCHANGED warned
                            \/ /\ "stash" \in Faults /\ f = Cli
                               /\ warned' = warned \cup {k} /\ UNCHANGED stash
    \/ /\ "stash" \in Faults /\ f # Cli
       /\ Go(f, r, "done")
       /\ UNCHANGED secrets

Disconnect(f) == link' = [t \in Timers |-> IF link[t] = f THEN NoOne ELSE link[t]]

(* Mutant: the device is appended even when its MAC is there. *)
AppendAlways(e) == config' = Append(config, e)

\* write_config: the entry with the timer's MAC is updated, else one appended.
WriteConfig(e) ==
    config' = IF \E i \in DOMAIN config : config[i][1] = e[1]
                THEN [i \in DOMAIN config |-> IF config[i][1] = e[1] THEN e ELSE config[i]]
                ELSE Append(config, e)

\* A failure ends the flow and closes its links.
Fail(f) == Go(f, Over, "done") /\ Disconnect(f)

-----------------------------------------------------------------------------
(***************************************************************************)
(* Flows begin.                                                            *)
(***************************************************************************)

\* f has not run yet, nor MaxFlows others; jobs are numbered in order.
MayBegin(f) ==
    /\ flow[f].pc = "none"
    /\ Cardinality({g \in Flows : flow[g].pc # "none"}) < MaxFlows
    /\ f \in Jobs => \A j \in Jobs : j < f => flow[j].pc # "none"

\* Something from Outside happens.
Happens(event) == event \in Outside /\ outside < MaxOutside /\ outside' = outside + 1

\* A self-key flow starts only while the bound Keys leaves it one.
KeyLeft(mode) ==
    mode = "self" =>
        Cardinality({f \in Flows : flow[f].pc = "begin" /\ flow[f].mode = "self"})
            < Cardinality(Unused)

Superseding == job # NoJob /\ Running(job)

(* Mutant: a cancelled session is not closed while it finalizes. *)
AbandonClosesNothing(f) ==
    /\ UNCHANGED link
    /\ cut' = IF flow[f].pc \in {"probe", "write", "read"} THEN cut \cup {f} ELSE cut

\* task.cancel(): CancelledError is no Exception, so only the session that
\* finalizes, in its try/finally, or that is closing is closed.  A connection made
\* to probe, to write the key or to read stays open, and nobody has it any more.
Abandon(f) ==
    IF flow[f].pc \in {"probe", "write", "read"}
      THEN cut' = cut \cup {f} /\ UNCHANGED link
      ELSE Disconnect(f) /\ UNCHANGED cut

\* POST /api/onboard/start: supersedes the job that runs.  The account's key is
\* looked up here; the new job's task is only scheduled.
OnboardStart(j, mode, want) ==
    LET r == [Unborn EXCEPT !.mode = mode, !.want = want, !.pc = "begin",
                            !.key = IF mode = "account" /\ account THEN AccountKey
                                    ELSE Fresh]
    IN  /\ MayBegin(j) /\ mode \in Modes \cap JobModes /\ KeyLeft(mode)
        /\ IF Superseding THEN Happens("cancel") /\ Abandon(job)
           ELSE UNCHANGED <<link, cut, outside>>
        /\ job' = j
        /\ flow' = [f \in Flows |-> IF f = j THEN r
                                    ELSE IF f = job /\ Running(f) THEN Over
                                    ELSE flow[f]]
        /\ UNCHANGED <<key, final, touched, store, pressed>>

\* POST /api/onboard/cancel while a job runs.
OnboardCancel ==
    /\ Superseding /\ Happens("cancel")
    /\ job' = NoJob
    /\ Abandon(job) /\ Go(job, Over, "done")
    /\ UNCHANGED <<key, final, touched, store, pressed>>

\* POST /api/onboard/continue: at any moment, whatever the job is doing, so a late
\* second press may let another step pass.  Its choice is any at all, an earlier
\* step's too; the step that reads it settles which (Choices).
OnboardContinue ==
    /\ job # NoJob /\ Running(job)
    /\ flow' = [flow EXCEPT ![job].set = TRUE]
    /\ pressed' = pressed \cup {job}
    /\ UNCHANGED <<job, radio, store, outside>>

\* POST /api/onboard/register, or a command line that starts.
OtherStart(f, mode, want) ==
    /\ MayBegin(f) /\ mode \in Modes /\ KeyLeft(mode)
    /\ mode \in IF f = Rest THEN {"register"} ELSE CliModes
    /\ Go(f, [Unborn EXCEPT !.mode = mode, !.want = want], "begin")
    /\ UNCHANGED <<job, radio, store, pressed, outside>>

\* The first stretch: how the flow gets its key.
Begin(f) ==
    LET r == flow[f]
    IN  /\ r.pc = "begin"
        /\ \/ /\ r.mode = "self"
              /\ SelfKey(f, r)
           \/ /\ r.mode = "account"
              /\ Go(f, r, IF r.key = Fresh THEN "done" ELSE "ready")
              /\ UNCHANGED secrets
           \/ /\ r.mode \in {"reuse", "register", "provision"} /\ config # <<>>
              /\ Go(f, [r EXCEPT !.key = SavedKey], Prepared(f))
              /\ UNCHANGED secrets
           \/ /\ r.mode = "reuse" /\ config = <<>>
              /\ Go(f, r, "done")
              /\ UNCHANGED secrets
           \/ /\ r.mode \in {"orbit", "register", "provision"}  \* an e-mail was given
              /\ Go(f, r, "cloud")
              /\ UNCHANGED secrets
        /\ UNCHANGED <<job, radio, config, account, listed, pressed, outside>>

\* _try_orbit_key: the account's timers a flow may mean.
Obtainable(r) == IF r.want = NoMac THEN listed ELSE listed \cap {r.want}

\* cloud_fetch and what it is good for: one timer, several, or none.
Login(f) ==
    LET r     == flow[f]
        found == Obtainable(r)
    IN  /\ r.pc = "cloud"
        /\ \/ \E t \in found :
                 /\ found = {t}
                 /\ Go(f, [r EXCEPT !.key = AccountKey, !.want = t], Prepared(f))
           \/ /\ Cardinality(found) > 1
              /\ IF f = Rest THEN Go(f, r, "done") ELSE Go(f, [r EXCEPT !.seen = found], "pick")
           \/ /\ found = {} \/ "cloud" \in Faults
              /\ Go(f, r, IF f \in Jobs THEN "choose" ELSE "done")
        /\ UNCHANGED <<job, radio, store, pressed, outside>>

-----------------------------------------------------------------------------
(***************************************************************************)
(* The steps a human lets pass: a job's by its gate, the command line's by *)
(* a prompt.                                                               *)
(***************************************************************************)

(* Mutant: the gate's event is not cleared. *)
PassedStaysSet(f) == flow[f]

\* OnboardGate.wait returns.
Passed(f) == [flow[f] EXCEPT !.set = FALSE]

\* What the last press before a step may have brought, or the user typed.
Choices == {"none", "orbit_app_first", "self_key"} \cup Timers

Pass(f, pc) ==
    /\ flow[f].pc = pc
    /\ f \in Jobs => flow[f].set
    /\ pressed' = pressed \ {f}
    /\ UNCHANGED <<job, radio, config, account, listed, outside>>

\* pick_device: one of the timers the login returned, or all over again.
Pick(f) ==
    /\ Pass(f, "pick")
    /\ \E c \in Choices :
          LET r == [Passed(f) EXCEPT !.seen = {}]
          IN  \/ /\ c \in flow[f].seen
                 /\ Go(f, [r EXCEPT !.key = AccountKey, !.want = c], "ready")
              \/ /\ c \notin flow[f].seen
                 /\ Go(f, r, IF f = Cli THEN "done" ELSE "cloud")
    /\ UNCHANGED secrets

\* fallback_choice: whatever is not the app is a key of one's own.
Choose(f) ==
    /\ Pass(f, "choose")
    /\ \E c \in Choices :
          \/ /\ c = "orbit_app_first"
             /\ Go(f, Passed(f), "app")
             /\ UNCHANGED secrets
          \/ /\ c # "orbit_app_first"
             /\ SelfKey(f, Passed(f))

\* app_instructions
AppDone(f) == Pass(f, "app") /\ Go(f, Passed(f), "cloud") /\ UNCHANGED secrets

\* await_wake or await_reset
Ready(f) ==
    /\ Pass(f, "ready")
    /\ Go(f, Passed(f), IF Provisioning(flow[f]) THEN "probe" ELSE "catch")
    /\ UNCHANGED secrets

-----------------------------------------------------------------------------
(***************************************************************************)
(* provision_device, phase A: find the sole B-Hyve nearby and key it.      *)
(***************************************************************************)

Quiet == UNCHANGED <<job, key, final, touched, cut, store, pressed, outside>>

\* A connection is made.  Two B-Hyves: all are let go.
ProbeFinds(f, t) ==
    /\ flow[f].pc = "probe" /\ t \notin flow[f].seen /\ link[t] = NoOne
    /\ IF flow[f].got = NoMac
         THEN /\ link' = [link EXCEPT ![t] = f]
              /\ Go(f, [flow[f] EXCEPT !.seen = @ \cup {t}, !.got = t], "probe")
         ELSE Fail(f)
    /\ Quiet

\* No connection: out of reach, asleep, connected to something else, or past
\* max_probe.
ProbeMisses(f, t) ==
    /\ flow[f].pc = "probe" /\ t \notin flow[f].seen
    /\ link[t] # NoOne \/ "probe" \in Faults
    /\ Go(f, [flow[f] EXCEPT !.seen = @ \cup {t}], "probe")
    /\ UNCHANGED link
    /\ Quiet

ProbeEnds(f) ==
    /\ flow[f].pc = "probe" /\ flow[f].seen = Timers
    /\ IF flow[f].got = NoMac THEN Fail(f) ELSE Go(f, flow[f], "write") /\ UNCHANGED link
    /\ Quiet

\* The link to the timer at hand stands.
Connected(f) == flow[f].got \in Held(f)

\* Only a fresh timer takes a key.
TakesKey(f) ==
    key' = [t \in Timers |-> IF t = flow[f].got /\ key[t] = Fresh THEN flow[f].key ELSE key[t]]

\* The key is written, and the link let go; phase B looks for the timer anew.
\* A timer that has a key may let the write pass.
WriteKey(f) ==
    /\ flow[f].pc = "write" /\ Connected(f)
    /\ TakesKey(f) /\ Disconnect(f)
    /\ Go(f, [flow[f] EXCEPT !.seen = {}, !.got = NoMac], "catch")
    /\ UNCHANGED <<job, final, touched, cut, store, pressed, outside>>

\* The write fails: refused, the link lost, or only its response.
WriteFails(f) ==
    /\ flow[f].pc = "write"
    /\ \/ "write" \in Faults /\ Connected(f) /\ TakesKey(f)
       \/ /\ "write" \in Faults \/ ~Connected(f) \/ key[flow[f].got] # Fresh
          /\ UNCHANGED key
    /\ Fail(f)
    /\ UNCHANGED <<job, final, touched, cut, store, pressed, outside>>

-----------------------------------------------------------------------------
(***************************************************************************)
(* catch_device_session: connect to what advertises, keep what answers     *)
(* with the key; provision_device's phase B; the save.                     *)
(***************************************************************************)

\* The register request gets the BLE lock.
Locked(f) ==
    /\ flow[f].pc = "lock"
    /\ Go(f, flow[f], "catch")
    /\ UNCHANGED link
    /\ Quiet

CatchConnect(f, t) ==
    /\ flow[f].pc = "catch" /\ t \notin flow[f].seen /\ link[t] = NoOne
    /\ link' = [link EXCEPT ![t] = f]
    /\ Go(f, [flow[f] EXCEPT !.seen = @ \cup {t}, !.got = t], "read")
    /\ Quiet

\* The connection fails; an address is tried once.
CatchMiss(f, t) ==
    /\ flow[f].pc = "catch" /\ t \notin flow[f].seen /\ "catch" \in Faults
    /\ Go(f, [flow[f] EXCEPT !.seen = @ \cup {t}], "catch")
    /\ UNCHANGED link
    /\ Quiet

(* Mutant: the attempts are not counted. *)
TriesForEver(f, r) == Go(f, [r EXCEPT !.seen = {}], "catch")

(* Mutant: one attempt too many. *)
TriesOneTooMany(f, r) ==
    IF Provisioning(r) /\ r.tries <= ReconnectAttempts
      THEN Go(f, [r EXCEPT !.seen = {}, !.tries = @ + 1], "catch")
      ELSE Go(f, r, "done")

\* Phase B tries again, a bounded number of times; a plain catch gives up.
NextTry(f, r) ==
    IF Provisioning(r) /\ r.tries < ReconnectAttempts
      THEN Go(f, [r EXCEPT !.seen = {}, !.tries = @ + 1], "catch")
      ELSE Go(f, r, "done")

\* scan_timeout
CatchTimeout(f) ==
    /\ flow[f].pc = "catch"
    /\ "catch" \in Faults \/ \A t \in Timers \ flow[f].seen : link[t] # NoOne
    /\ NextTry(f, flow[f])
    /\ UNCHANGED link
    /\ Quiet

\* A status decodes only with the timer's key; its MAC is the one wanted.
Answers(f) ==
    Connected(f) /\ key[flow[f].got] = flow[f].key /\ flow[f].want \in {NoMac, flow[f].got}

(* Mutant: a timer that was keyed is not finalized. *)
NotFinalized(r) == "answered"

AfterRead(r) == IF Provisioning(r) THEN "setup" ELSE "answered"

ReadOk(f) ==
    /\ flow[f].pc = "read" /\ Answers(f)
    /\ Go(f, flow[f], AfterRead(flow[f]))
    /\ UNCHANGED link
    /\ Quiet

\* Nothing decodes, or another timer: on with the next advertisement.
ReadRejected(f) ==
    /\ flow[f].pc = "read"
    /\ "catch" \in Faults \/ ~Answers(f)
    /\ Go(f, [flow[f] EXCEPT !.got = NoMac], "catch") /\ Disconnect(f)
    /\ Quiet

\* provision_setup and the read-back.
Setup(f) ==
    /\ flow[f].pc = "setup" /\ Connected(f)
    /\ final' = final \cup {flow[f].got}
    /\ Go(f, flow[f], "answered")
    /\ UNCHANGED <<job, link, key, touched, cut, store, pressed, outside>>

\* The link fails on the way, before or after field 94.
SetupFails(f) ==
    /\ flow[f].pc = "setup"
    /\ \/ "setup" \in Faults /\ Connected(f) /\ final' = final \cup {flow[f].got}
       \/ ("setup" \in Faults \/ ~Connected(f)) /\ UNCHANGED final
    /\ Fail(f)
    /\ UNCHANGED <<job, key, touched, cut, store, pressed, outside>>

\* The session is closed; write_config runs with no await after it.
Finish(f) ==
    LET r == flow[f]
    IN  /\ r.pc = "answered"
        /\ WriteConfig(<<r.got, r.key, IF Provisioning(r) THEN "provisioned" ELSE "adopted">>)
        /\ Fail(f)
        /\ UNCHANGED <<job, key, final, touched, cut, account, listed, secrets, pressed, outside>>

\* What a flow does by itself, and what it does for a human.
Run(f) ==
    \/ Begin(f) \/ Login(f) \/ Locked(f)
    \/ \E t \in Timers : ProbeFinds(f, t) \/ ProbeMisses(f, t)
                         \/ CatchConnect(f, t) \/ CatchMiss(f, t)
    \/ ProbeEnds(f) \/ WriteKey(f) \/ WriteFails(f)
    \/ CatchTimeout(f) \/ ReadOk(f) \/ ReadRejected(f)
    \/ Setup(f) \/ SetupFails(f) \/ Finish(f)

HumanStep(f) == Pick(f) \/ Choose(f) \/ AppDone(f) \/ Ready(f)

-----------------------------------------------------------------------------
(***************************************************************************)
(* The account, the users and the timers.                                  *)
(***************************************************************************)

\* POST /api/account/login, when it finds a timer with a key.
AccountLogin ==
    /\ "account" \in Modes /\ listed # {}
    /\ account' = TRUE
    /\ UNCHANGED <<job, flow, radio, config, listed, secrets, pressed, outside>>

\* POST /api/account/forget
AccountForget ==
    /\ account
    /\ account' = FALSE
    /\ UNCHANGED <<job, flow, radio, config, listed, secrets, pressed, outside>>

\* A user adds a fresh timer in the Orbit app.
AddedInApp(t) ==
    /\ Happens("app") /\ key[t] = Fresh /\ link[t] = NoOne
    /\ key' = [key EXCEPT ![t] = AccountKey]
    /\ final' = final \cup {t}
    /\ listed' = listed \cup {t}
    /\ UNCHANGED <<job, flow, link, touched, cut, config, account, secrets, pressed>>

\* A factory reset by the dial.
ResetTimer(t) ==
    /\ Happens("reset")
    /\ key' = [key EXCEPT ![t] = Fresh]
    /\ final' = final \ {t}
    /\ link' = [link EXCEPT ![t] = NoOne]
    /\ touched' = touched \cup {t}
    /\ UNCHANGED <<job, flow, cut, store, pressed>>

\* Batteries out and in: a key that was not finalized is gone.
PowerCycle(t) ==
    /\ Happens("power")
    /\ key' = [key EXCEPT ![t] = IF t \in final THEN @ ELSE Fresh]
    /\ link' = [link EXCEPT ![t] = NoOne]
    /\ UNCHANGED <<job, flow, final, touched, cut, store, pressed>>

LinkDrops(t) ==
    /\ link[t] # NoOne
    /\ IF link[t] \in cut THEN UNCHANGED outside ELSE Happens("drop")
    /\ link' = [link EXCEPT ![t] = NoOne]
    /\ UNCHANGED <<job, flow, key, final, touched, cut, store, pressed>>

\* A process ends, the server's or the command line's: its flows are gone, and a
\* timer of theirs stays connected until it notices.
Crash(fs) ==
    /\ Happens("crash") /\ \E f \in fs : Running(f)
    /\ job' = IF job \in fs THEN NoJob ELSE job
    /\ flow' = [f \in Flows |-> IF f \in fs /\ Running(f) THEN Over ELSE flow[f]]
    /\ cut' = cut \cup {f \in fs : Running(f)}
    /\ UNCHANGED <<link, key, final, touched, store, pressed>>

Next ==
    \/ \E j \in Jobs, mode \in JobModes, want \in Timers \cup {NoMac} : OnboardStart(j, mode, want)
    \/ \E f \in {Rest, Cli}, mode \in CliModes, want \in Timers \cup {NoMac} :
          OtherStart(f, mode, want)
    \/ OnboardCancel \/ OnboardContinue
    \/ \E f \in Flows : Run(f) \/ HumanStep(f)
    \/ AccountLogin \/ AccountForget
    \/ \E t \in Timers : AddedInApp(t) \/ ResetTimer(t) \/ PowerCycle(t) \/ LinkDrops(t)
    \/ \E fs \in {Jobs \cup {Rest}, {Cli}} : Crash(fs)

Spec == Init /\ [][Next]_vars

\* The event loop runs what can run, and every await of a flow but a human's
\* has its timeout.
LiveSpec == Spec /\ \A f \in Flows : WF_vars(Run(f))

-----------------------------------------------------------------------------
(***************************************************************************)
(* What adding a timer promises.                                           *)
(***************************************************************************)

\* A key of one's own exists nowhere but here, so a timer never holds one that is
\* not stashed, whatever fails, is cancelled or dies: "so it's never lost"
\* (_stash_key, onboarding.py:530).  Where the stash itself fails, a timer gets the
\* key only from a command line that told its user to save it (cli.py:191-195).
KeyNeverLost == \A t \in Timers : key[t] \in {Fresh, AccountKey} \cup stash \cup warned

\* A timer saved by a flow that keyed it answers to the saved key for good,
\* batteries out or not, unless somebody resets it: the sequence that persists
\* the key came first (PROV_*, bhyve_xd.py:177-182).
ProvisionedStaysKeyed ==
    \A i \in DOMAIN config :
        LET t == config[i][1]
        IN  config[i][3] = "provisioned" /\ t \notin touched => key[t] = config[i][2]

\* A timer is saved once, however many flows add it: "re-registering a drifted
\* address updates in place" (onboarding.py:300-301).
SavedOnce == \A i, j \in DOMAIN config : config[i][1] = config[j][1] => i = j

\* No flow keeps a BLE link past its use of it, for a timer that stays connected
\* does not advertise and cannot be reached: whatever fails, and also when a job is
\* cancelled while it finalizes or saves.  Not so a flow that died, or was cancelled
\* in its probe, its key write or a read (onboarding.py:468-482, 789-843).
LinksReleased ==
    \A t \in Timers : link[t] \in Flows => \/ flow[link[t]].pc \in Linked
                                          \/ link[t] \in cut

\* One press of Continue lets one step pass: a job goes on from a step only if
\* it got a Continue since the last one it passed (OnboardGate.wait).
OnePressOneStep ==
    [][\A j \in Jobs :
          flow[j].pc \in Human /\ flow'[j].pc \notin {flow[j].pc, "done"} => j \in pressed]_vars

\* A job never hangs but on a human: no fault of the cloud or of BLE leaves it
\* working for ever.
JobMovesOn == \A j \in Jobs : flow[j].pc \in Working ~> flow[j].pc \in Human \cup {"done"}
=============================================================================

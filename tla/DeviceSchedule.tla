--------------------------- MODULE DeviceSchedule ---------------------------
(***************************************************************************)
(* On-device schedules: the programs in one timer's memory, the flags that *)
(* say which of them run, and the two places that must keep up with them,  *)
(* device_active_mask in config.json and the mask each BHyveXD object was  *)
(* built with.                                                             *)
(*                                                                         *)
(* Every BLE session arms the timer, and arming switches all programs off; *)
(* arm() then switches those of the mask on again.  Sessions come one at a *)
(* time (_ble_lock), but a link can drop between any two of their writes.  *)
(* Timers do not depend on each other, so there is one; its place in the   *)
(* config stays.                                                           *)
(***************************************************************************)
EXTENDS Integers, Sequences, FiniteSets

CONSTANTS
    Runs,           \* what a rule or a program does: when, where, how long
    NoRun,          \* an empty program slot
    MaxPrograms,    \* MAX_PROGRAMS (the code: 6)
    Programs,       \* what users may save as the timer's rules
    Tasks,          \* requests that may be in flight together
    Faults          \* "drop": a link drops; "unread": no reply to the query decodes

\* Days are left out: program_from_rules maps each rule to a daily program.
Rules == [run : Runs, enabled : BOOLEAN]

ASSUME DeviceScheduleAssumption ==
    /\ NoRun \notin Runs
    /\ MaxPrograms \in Nat \ {0}
    /\ \A rules \in Programs : rules \in Seq(Rules)
    /\ Faults \subseteq {"drop", "unread"}

ProgramIds == 1..MaxPrograms

VARIABLES
    rules,      \* config.json: the timer's rules
    mask,       \* config.json: device_active_mask, as a set of program ids
    job,        \* an onboarding job is running
    slots,      \* the timer's programs
    active,     \* the programs the timer runs
    lockq,      \* _ble_lock: the holder, then its waiters in order
    task,       \* the request each task is handling
    ended,      \* history: the timer's last session ended well
    fresh,      \* history: with the mask that was saved by its end
    pushed,     \* history: the rules of the last confirmed push
    torn        \* history: a later push has begun and was not confirmed

device == <<slots, active>>
history == <<ended, fresh, pushed, torn>>
vars == <<rules, mask, job, device, lockq, task, history>>

(***************************************************************************)
(* A request.  pc: "wait" for the lock (or its head: about to connect),    *)
(* "arming" before the programs are on again, "ready" armed, "verify"      *)
(* before the flags are read back, "closing" all sent.                     *)
(***************************************************************************)
Idle == [kind |-> "none", pc |-> "idle", mask |-> {}, rules |-> <<>>, sent |-> 0]

Request == [kind  : {"none", "control", "fire", "push", "clear"},
            pc    : {"idle", "wait", "arming", "ready", "verify", "closing"},
            mask  : SUBSET ProgramIds,  \* device_active_mask of its BHyveXD
            rules : Seq(Rules),         \* push: the rules it has read
            sent  : 0..MaxPrograms]     \* push: programs written so far

TypeOK ==
    /\ rules \in Seq(Rules)
    /\ mask \subseteq ProgramIds
    /\ job \in BOOLEAN
    /\ slots \in [ProgramIds -> Runs \cup {NoRun}]
    /\ active \subseteq ProgramIds
    /\ lockq \in Seq(Tasks)
    /\ task \in [Tasks -> Request]
    /\ ended \in BOOLEAN /\ fresh \in BOOLEAN /\ torn \in BOOLEAN
    /\ pushed \in Seq(Rules)

Init ==
    /\ rules = <<>>
    /\ mask = {}
    /\ job = FALSE
    /\ slots = [p \in ProgramIds |-> NoRun]
    /\ active = {}
    /\ lockq = <<>>
    /\ task = [t \in Tasks |-> Idle]
    /\ ended = TRUE
    /\ fresh = TRUE
    /\ pushed = <<>>
    /\ torn = FALSE

-----------------------------------------------------------------------------
EnabledAt(rs) == {i \in DOMAIN rs : rs[i].enabled}

\* "assigned sequentially to the enabled rules": len(programs) + 1
ProgramId(rs, i) == Cardinality({j \in EnabledAt(rs) : j <= i})

RuleOf(rs, p) == CHOOSE i \in EnabledAt(rs) : ProgramId(rs, i) = p

(* Mutant: more programs than the timer has. *)
ProgramOfEvery(rs) ==
    [p \in {ProgramId(rs, i) : i \in EnabledAt(rs)} |-> rs[RuleOf(rs, p)].run]

(* Mutant: a disabled rule takes a slot, and runs. *)
DisabledRulesToo(rs) == [p \in DOMAIN rs \cap ProgramIds |-> rs[p].run]

\* program_from_rules: a program per enabled rule while there are slots; its
\* domain is the mask.
ProgramFromRules(rs) ==
    [p \in {ProgramId(rs, i) : i \in EnabledAt(rs)} \cap ProgramIds
        |-> rs[RuleOf(rs, p)].run]

Free(t) == task[t].pc = "idle"

JoinLock(t, r) ==
    /\ task' = [task EXCEPT ![t] = [r EXCEPT !.pc = "wait"]]
    /\ lockq' = Append(lockq, t)

\* _run, for a start, a stop or a status: refused during onboarding; the
\* BHyveXD is built, with the mask of that moment, before the lock.
Control(t) ==
    /\ Free(t) /\ ~job
    /\ JoinLock(t, [Idle EXCEPT !.kind = "control", !.mask = mask])
    /\ UNCHANGED <<rules, mask, job, device, history>>

\* _fire_start, one at a time: the BHyveXD is built with the lock.
Fire(t) ==
    /\ Free(t)
    /\ \A u \in Tasks : task[u].kind # "fire"
    /\ JoinLock(t, [Idle EXCEPT !.kind = "fire"])
    /\ UNCHANGED <<rules, mask, job, device, history>>

\* POST .../schedules/push reads the rules, then waits.
PushSchedules(t) ==
    /\ Free(t) /\ ~job
    /\ JoinLock(t, [Idle EXCEPT !.kind = "push", !.rules = rules])
    /\ UNCHANGED <<rules, mask, job, device, history>>

\* POST .../schedules/clear
ClearSchedules(t) ==
    /\ Free(t) /\ ~job
    /\ JoinLock(t, [Idle EXCEPT !.kind = "clear"])
    /\ UNCHANGED <<rules, mask, job, device, history>>

-----------------------------------------------------------------------------
(***************************************************************************)
(* The lock holder's session.                                              *)
(***************************************************************************)

At(t, pc) == lockq # <<>> /\ Head(lockq) = t /\ task[t].pc = pc

Answer(t) == task' = [task EXCEPT ![t] = Idle] /\ lockq' = Tail(lockq)

\* The mask of the session's BHyveXD.
BuiltWith(r) == IF r.kind = "control" THEN r.mask ELSE mask

(* Mutant: the programs are not switched on again. *)
ArmedForGood(m) == "ready"

\* arm() ends with the mask, unless it is 0.
AfterSetup(m) == IF m = {} THEN "ready" ELSE "arming"

\* The connection, and arm() up to SETUP_FIELD20: all programs are off.
Arm(t) ==
    /\ At(t, "wait")
    /\ LET m == BuiltWith(task[t])
       IN  task' = [task EXCEPT ![t].mask = m, ![t].pc = AfterSetup(m)]
    /\ active' = {}
    /\ ended' = FALSE
    /\ UNCHANGED <<rules, mask, job, slots, lockq, fresh, pushed, torn>>

\* The end of arm().
Reenable(t) ==
    /\ At(t, "arming")
    /\ active' = task[t].mask
    /\ task' = [task EXCEPT ![t].pc = "ready"]
    /\ UNCHANGED <<rules, mask, job, slots, lockq, history>>

\* The command and its read-back.
EndControl(t) ==
    /\ At(t, "ready") /\ task[t].kind \in {"control", "fire"}
    /\ Answer(t)
    /\ ended' = TRUE
    /\ fresh' = (task[t].mask = mask)
    /\ UNCHANGED <<rules, mask, job, device, pushed, torn>>

ToSend(r) == ProgramFromRules(r.rules)

\* push_program_to_device: one frame per program ...
WriteProgram(t) ==
    LET p == task[t].sent + 1
    IN  /\ At(t, "ready") /\ task[t].kind = "push"
        /\ p \in DOMAIN ToSend(task[t])
        /\ slots' = [slots EXCEPT ![p] = ToSend(task[t])[p]]
        /\ task' = [task EXCEPT ![t].sent = p]
        /\ torn' = TRUE
        /\ UNCHANGED <<rules, mask, job, active, lockq, ended, fresh, pushed>>

\* ... and one for the flags; or clear_device_schedules' only frame.
SetActivePrograms(t) ==
    /\ At(t, "ready")
    /\ \/ /\ task[t].kind = "push"
          /\ DOMAIN ToSend(task[t]) \subseteq 1..task[t].sent
          /\ active' = DOMAIN ToSend(task[t])
          /\ task' = [task EXCEPT ![t].pc = "verify"]
          /\ torn' = TRUE
       \/ /\ task[t].kind = "clear"
          /\ active' = {}
          /\ task' = [task EXCEPT ![t].pc = "closing"]
          /\ UNCHANGED torn
    /\ UNCHANGED <<rules, mask, job, slots, lockq, ended, fresh, pushed>>

\* The flags were read back and are the ones that were sent: the lock is
\* released and the mask saved, without an await in between.
Verified(t) ==
    /\ At(t, "verify") /\ active = DOMAIN ToSend(task[t])
    /\ Answer(t)
    /\ mask' = DOMAIN ToSend(task[t])
    /\ pushed' = task[t].rules
    /\ ended' = TRUE /\ fresh' = TRUE /\ torn' = FALSE
    /\ UNCHANGED <<rules, job, device>>

\* No reply decodes: "not saved - try again".
Unverified(t) ==
    /\ At(t, "verify") /\ "unread" \in Faults
    /\ Answer(t)
    /\ UNCHANGED <<rules, mask, job, device, history>>

Cleared(t) ==
    /\ At(t, "closing")
    /\ Answer(t)
    /\ mask' = {}
    /\ pushed' = <<>>
    /\ ended' = TRUE /\ fresh' = TRUE /\ torn' = FALSE
    /\ UNCHANGED <<rules, job, device>>

\* No connection, or it is lost: the handler answers with an error.
LinkDrops(t) ==
    /\ "drop" \in Faults
    /\ \E pc \in {"wait", "arming", "ready", "verify"} : At(t, pc)
    /\ Answer(t)
    /\ UNCHANGED <<rules, mask, job, device, history>>

Work(t) == \/ Arm(t) \/ Reenable(t) \/ EndControl(t)
           \/ WriteProgram(t) \/ SetActivePrograms(t)
           \/ Verified(t) \/ Unverified(t) \/ Cleared(t)
           \/ LinkDrops(t)

-----------------------------------------------------------------------------
\* PUT .../schedules only stores the rules.
PutSchedules ==
    /\ rules' \in Programs
    /\ UNCHANGED <<mask, job, device, lockq, task, history>>

OnboardJob ==
    /\ job' = ~job
    /\ UNCHANGED <<rules, mask, device, lockq, task, history>>

\* The process dies and is started again; the timer keeps what it has.
Restart ==
    /\ job' = FALSE
    /\ lockq' = <<>>
    /\ task' = [t \in Tasks |-> Idle]
    /\ UNCHANGED <<rules, mask, device, history>>

Next ==
    \/ \E t \in Tasks : \/ Control(t) \/ Fire(t)
                        \/ PushSchedules(t) \/ ClearSchedules(t)
                        \/ Work(t)
    \/ PutSchedules \/ OnboardJob \/ Restart

Spec == Init /\ [][Next]_vars

\* The event loop runs every task that can run, onboarding jobs end, pages go on
\* asking for the status over links that do not fail every time, and the process
\* is not restarted for ever.
Fairness ==
    /\ \A t \in Tasks :
          /\ WF_vars(Work(t))
          /\ SF_vars(Control(t))
          /\ SF_vars(task[t].kind = "control" /\ Arm(t))
          /\ SF_vars(task[t].kind = "control" /\ Reenable(t))
    /\ WF_vars(job /\ OnboardJob)
    /\ <>[][~Restart]_vars

LiveSpec == Spec /\ Fairness

-----------------------------------------------------------------------------
(***************************************************************************)
(* What on-device scheduling promises.                                     *)
(***************************************************************************)

\* After a session that ended well and had the mask that is saved now, the timer
\* runs just the programs of the mask, whatever sessions were cut off before it
\* (arm, bhyve_xd.py:430-441; push and clear, server.py:646 and 667).
ScheduleKept == ended /\ fresh => active = mask

\* The same of every session that ended well: "so control never wipes a schedule"
\* (bhyve_xd.py:439).
ControlNeverWipes == ended => active = mask

\* The programs that run are the enabled rules of the last confirmed push, all
\* of them if they fit, unless a later push was cut off (program_from_rules).
RunsTheRules ==
    ended /\ fresh /\ ~torn =>
       LET wanted == {pushed[i].run : i \in EnabledAt(pushed)}
           running == {slots[p] : p \in active}
       IN  /\ running \subseteq wanted
           /\ Cardinality(EnabledAt(pushed)) <= MaxPrograms => running = wanted

\* A schedule that a session has switched off, or on, against the saved mask is
\* put right by a later one.
ScheduleComesBack == active # mask ~> active = mask
=============================================================================

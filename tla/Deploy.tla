------------------------------- MODULE Deploy -------------------------------
(***************************************************************************)
(* deploy.sh and rollback.sh on the box: releases are directories, the     *)
(* symlink `current' names the one systemd runs, and config.json lives in  *)
(* shared/ with a symlink to it in each release.  A step is one command a  *)
(* script runs there; a script may be stopped between any two of them.     *)
(***************************************************************************)
EXTENDS Naturals, Sequences, SequencesExt, FiniteSets

CONSTANTS
    Scripts,        \* deploy.sh or rollback.sh processes
    MaxReleases,    \* bound: releases are 1..MaxReleases, in order of creation
    Keep,           \* BHYVE_KEEP
    Events,         \* what happens in this instance besides deploys
    MaxChanges      \* bound: changes of config.json

ASSUME DeployAssumption ==
    /\ MaxReleases \in Nat \ {0} /\ Keep \in Nat \ {0} /\ MaxChanges \in Nat
    \* "rollback": rollback.sh is used; "kill": a script is stopped or fails;
    \* "slow": a healthy release misses its health check; "die": the server
    \* process ends; "change": the server saves config.json.
    /\ Events \subseteq {"rollback", "kill", "slow", "die", "change"}

Release == 1..MaxReleases
Nothing == 0        \* no such release; no process; the config is a link

VARIABLES
    dirs,       \* releases/, newest modification first (ls -1dt)
    complete,   \* releases with links, venv and VERSION
    sound,      \* releases whose server starts
    current,    \* what the symlink names
    running,    \* the release of the server process
    script,     \* what each script is about to do
    shared,     \* shared/config.json: the number of the last change in it
    own,        \* each release's config.json, Nothing while it is the link
    saved,      \* history: the last change the server saved
    picked      \* history: the releases rollback.sh switched to

config == <<shared, own, saved>>
vars == <<dirs, complete, sound, current, running, script, config, picked>>

(***************************************************************************)
(* A script.  rel: the release to switch to; prev: the one to go back to;  *)
(* up (history): the box ran that one when the script recorded it.         *)
(***************************************************************************)
Idle == [pc |-> "idle", rel |-> Nothing, prev |-> Nothing, up |-> FALSE]

Script == [pc   : {"idle", "finalize", "record", "flip", "restart", "check",
                   "prune", "back", "restart back", "check back",
                   "roll", "restart roll", "check roll"},
           rel  : Release \cup {Nothing},
           prev : Release \cup {Nothing},
           up   : BOOLEAN]

TypeOK ==
    /\ dirs \in Seq(Release)
    /\ \A i, j \in DOMAIN dirs : dirs[i] = dirs[j] => i = j
    /\ complete \subseteq Release
    /\ sound \subseteq Release
    /\ current \in Release \cup {Nothing}
    /\ running \in Release \cup {Nothing}
    /\ script \in [Scripts -> Script]
    /\ shared \in 0..MaxChanges
    /\ own \in [Release -> 0..MaxChanges]
    /\ saved \in 0..MaxChanges
    /\ picked \subseteq Release

\* The layout of the box, before its first deploy.
Init ==
    /\ dirs = <<>>
    /\ complete = {}
    /\ sound = {}
    /\ current = Nothing
    /\ running = Nothing
    /\ script = [s \in Scripts |-> Idle]
    /\ shared = 0
    /\ own = [r \in Release |-> Nothing]
    /\ saved = 0
    /\ picked = {}

-----------------------------------------------------------------------------
At(s, pc) == script[s].pc = pc

Step(s, pc) == script' = [script EXCEPT ![s].pc = pc]

End(s) == script' = [script EXCEPT ![s] = Idle]

\* A file is put in a release's directory: it is the one last modified.
Modified(r) ==
    \E i \in DOMAIN dirs :
        /\ dirs[i] = r
        /\ dirs' = <<r>> \o SubSeq(dirs, 1, i - 1) \o SubSeq(dirs, i + 1, Len(dirs))

\* What systemd gets up from current.
Boot == IF current \in ToSet(dirs) \cap complete \cap sound THEN current ELSE Nothing

Start == running' = Boot

\* health_ok: /api/version names the release, within 15 tries.
HealthOk(r) == running = r

-----------------------------------------------------------------------------
(***************************************************************************)
(* deploy.sh                                                               *)
(***************************************************************************)

\* rsync -a lands the tree with the time its directory has at home, old or
\* new; whether its server will start is in the code.
Rsync(s) ==
    /\ At(s, "idle")
    /\ \E r \in Release, i \in 0..Len(dirs) :
          /\ r \notin ToSet(dirs) \cup complete
          /\ \A q \in Release : q < r => q \in complete \cup ToSet(dirs)
          /\ dirs' = SubSeq(dirs, 1, i) \o <<r>> \o SubSeq(dirs, i + 1, Len(dirs))
          /\ sound' \in {sound, sound \cup {r}}
          /\ picked' = picked \ {r}
          /\ script' = [script EXCEPT ![s] = [Idle EXCEPT !.pc = "finalize", !.rel = r]]
    /\ UNCHANGED <<complete, current, running, config>>

\* Links, venv, VERSION and the import of the server, or some of them.
Finalize(s) ==
    /\ At(s, "finalize")
    /\ Modified(script[s].rel)
    /\ \/ complete' = complete \cup {script[s].rel} /\ Step(s, "record")
       \/ "kill" \in Events /\ End(s) /\ UNCHANGED complete
    /\ UNCHANGED <<sound, current, running, config, picked>>

(* Mutant: the release to go back to is read after the switch. *)
RecordsNew(s) ==
    /\ At(s, "record")
    /\ script' = [script EXCEPT ![s].pc = "flip", ![s].prev = script[s].rel,
                                ![s].up = running # Nothing /\ running = current]
    /\ UNCHANGED <<dirs, complete, sound, current, running, config, picked>>

\* PREV is the target of current.
Record(s) ==
    /\ At(s, "record")
    /\ script' = [script EXCEPT ![s].pc = "flip", ![s].prev = current,
                                ![s].up = running # Nothing /\ running = current]
    /\ UNCHANGED <<dirs, complete, sound, current, running, config, picked>>

Flip(s) ==
    /\ At(s, "flip")
    /\ current' = script[s].rel
    /\ Step(s, "restart")
    /\ UNCHANGED <<dirs, complete, sound, running, config, picked>>

\* systemctl restart, in either script.
Restart(s) ==
    /\ \/ At(s, "restart") /\ Step(s, "check")
       \/ At(s, "restart back") /\ Step(s, "check back")
       \/ At(s, "restart roll") /\ Step(s, "check roll")
    /\ Start
    /\ UNCHANGED <<dirs, complete, sound, current, config, picked>>

\* The health check of the new release decides.
Check(s) ==
    /\ At(s, "check")
    /\ \/ HealthOk(script[s].rel) /\ Step(s, "prune")
       \/ /\ ~HealthOk(script[s].rel) \/ "slow" \in Events
          /\ IF script[s].prev = Nothing THEN End(s) ELSE Step(s, "back")
    /\ UNCHANGED <<dirs, complete, sound, current, running, config, picked>>

Newest == SubSeq(dirs, 1, IF Len(dirs) < Keep THEN Len(dirs) ELSE Keep)

(* Mutant: only the newest releases are kept. *)
PruneAll(s) ==
    /\ At(s, "prune")
    /\ dirs' = Newest
    /\ End(s)
    /\ UNCHANGED <<complete, sound, current, running, config, picked>>

\* The newest Keep releases and the current one stay.
Prune(s) ==
    /\ At(s, "prune")
    /\ dirs' = IF current \in ToSet(dirs) \ ToSet(Newest) THEN Append(Newest, current)
               ELSE Newest
    /\ End(s)
    /\ UNCHANGED <<complete, sound, current, running, config, picked>>

Back(s) ==
    /\ At(s, "back")
    /\ current' = script[s].prev
    /\ Step(s, "restart back")
    /\ UNCHANGED <<dirs, complete, sound, running, config, picked>>

\* Healthy or not, the script ends here; so does rollback.sh.
CheckBack(s) ==
    /\ At(s, "check back") \/ At(s, "check roll")
    /\ End(s)
    /\ UNCHANGED <<dirs, complete, sound, current, running, config, picked>>

\* The script is interrupted, or ssh or a command fails (set -e).
Killed(s) ==
    /\ "kill" \in Events /\ ~At(s, "idle")
    /\ End(s)
    /\ UNCHANGED <<dirs, complete, sound, current, running, config, picked>>

-----------------------------------------------------------------------------
(***************************************************************************)
(* rollback.sh, and what the server does.                                  *)
(***************************************************************************)

\* The newest release that is not current, whatever it is.
RollbackPick(s) ==
    /\ "rollback" \in Events /\ At(s, "idle")
    /\ \E i \in DOMAIN dirs :
          /\ dirs[i] # current /\ \A j \in 1..(i - 1) : dirs[j] = current
          /\ script' = [script EXCEPT ![s] = [Idle EXCEPT !.pc = "roll", !.rel = dirs[i]]]
    /\ UNCHANGED <<dirs, complete, sound, current, running, config, picked>>

RollbackFlip(s) ==
    /\ At(s, "roll")
    /\ current' = script[s].rel
    /\ picked' = picked \cup {script[s].rel}
    /\ Step(s, "restart roll")
    /\ UNCHANGED <<dirs, complete, sound, running, config>>

\* The process ends, or the box restarts: systemd starts what current names.
ServerDies ==
    /\ "die" \in Events /\ current # Nothing
    /\ Start
    /\ UNCHANGED <<dirs, complete, sound, current, script, config, picked>>

\* _atomic_write_config: os.replace puts a file where the link was.
Change ==
    /\ "change" \in Events /\ running # Nothing /\ saved < MaxChanges
    /\ saved' = saved + 1
    /\ own' = [own EXCEPT ![running] = saved + 1]
    /\ Modified(running)
    /\ UNCHANGED <<complete, sound, current, running, script, shared, picked>>

Next ==
    \/ \E s \in Scripts :
          \/ Rsync(s) \/ Finalize(s) \/ Record(s) \/ Flip(s) \/ Restart(s) \/ Check(s)
          \/ Prune(s) \/ Back(s) \/ CheckBack(s) \/ Killed(s)
          \/ RollbackPick(s) \/ RollbackFlip(s)
    \/ ServerDies \/ Change

Spec == Init /\ [][Next]_vars

-----------------------------------------------------------------------------
(***************************************************************************)
(* What a deploy promises.                                                 *)
(***************************************************************************)

\* The release current names is there, wherever deploys were interrupted, and
\* complete unless it is one that rollback.sh itself chose, which looks only at
\* times: "never the current target" is pruned (deploy.sh:100), and "`current'
\* never points at a broken release" (docs/plans/PLAN_release_update.md:119-120).
CurrentStands ==
    current # Nothing =>
        /\ current \in ToSet(dirs)
        /\ current \in complete \cup picked

\* The server's own directory is never removed under it.
RunningStays == running # Nothing => running \in ToSet(dirs)

\* A deploy decides with the box up if the box was up on the release it found:
\* "previous release restored (no downtime left behind)" (deploy.sh:127).
NoDowntimeLeft ==
    \A s \in Scripts :
        At(s, "prune") \/ (At(s, "check back") /\ script[s].up) => running # Nothing

\* The server reads what it saved last: "config.json / secrets/ live in
\* ~/bhyve/shared and are symlinked into each release - they are never copied
\* or overwritten" (deploy.sh:9-10).
ConfigSurvives ==
    running # Nothing =>
        saved = IF own[running] = Nothing THEN shared ELSE own[running]
=============================================================================

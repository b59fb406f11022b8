--------------------------- MODULE ProvisionProof ---------------------------
(***************************************************************************)
(* provision_proof.py: the experiment that is to prove, on the real timer, *)
(* that provisioning without the app lasts.  The user resets the timer; a  *)
(* negative control finds it without our key; it is provisioned; then it   *)
(* loses power again and again, and each time a fresh process must be able *)
(* to control it.                                                          *)
(*                                                                         *)
(* What a timer does with a key is what Onboarding says of it.  One run of *)
(* catch_device is one step here: it sees the timers `up' that advertise.  *)
(***************************************************************************)
EXTENDS Naturals, Sequences, FiniteSets

CONSTANTS
    Timers, Target,     \* the B-Hyves within reach; the one on trial
    Wanted,             \* the MAC given: {Target}, or {} for none
    Key,                \* the key on trial
    OtherKey, Fresh,    \* some other key; none at all
    Cycles, MinCycles,  \* power cycles asked for; MIN_CYCLES
    Attempts,           \* verify_once(attempts)
    Faults              \* what may go wrong

ASSUME ProofAssumption ==
    /\ Target \in Timers /\ IsFiniteSet(Timers)
    /\ Wanted \in {{Target}, {}}
    /\ Cardinality({Key, OtherKey, Fresh}) = 3
    /\ Cycles \in Nat /\ MinCycles \in Nat \ {0} /\ Attempts \in Nat \ {0}
    \* "reset": the dial was not held long enough; "asleep": a timer does not
    \* advertise; "provision": a BLE failure on the way; "volatile": the timer
    \* does not take the finalize; "actuate": a command fails in a verify;
    \* "unheard": a timer connects, but its status is lost or late; "skipped": the
    \* user presses Enter and leaves the batteries in.
    /\ Faults \subseteq {"reset", "asleep", "provision", "volatile", "actuate",
                        "unheard", "skipped"}

VARIABLES
    pc,         \* "reset", "control", "provision", "cycle", "verify", "done"
    key, kept,  \* each timer's key; the timers whose key outlives its power
    decoded,    \* neg["decoded"]
    provisioned,
    attempt,    \* of verify_once
    results,    \* cycle_results
    verdict,    \* "none", "pass", "fail", "abort"
    keyless,    \* history: the target was without the key at the control
    missed,     \* history: a timer with the key was connected to there, and not heard
    survived,   \* history: the losses of power after which the target had the key
    skipped     \* history: the power cycles the user skipped

history == <<keyless, missed, survived, skipped>>
vars == <<pc, key, kept, decoded, provisioned, attempt, results, verdict, history>>

TypeOK ==
    /\ pc \in {"reset", "control", "provision", "cycle", "verify", "done"}
    /\ key \in [Timers -> {Key, OtherKey, Fresh}]
    /\ kept \subseteq Timers
    /\ decoded \in BOOLEAN
    /\ provisioned \in BOOLEAN
    /\ attempt \in 1..Attempts
    /\ results \in Seq(BOOLEAN)
    /\ verdict \in {"none", "pass", "fail", "abort"}
    /\ keyless \in BOOLEAN
    /\ missed \in BOOLEAN
    /\ survived \in Nat
    /\ skipped \in Nat

\* A timer in use has some key, for good.
Init ==
    /\ pc = "reset"
    /\ key \in [Timers -> {Key, OtherKey, Fresh}]
    /\ kept = {t \in Timers : key[t] # Fresh}
    /\ decoded = FALSE
    /\ provisioned = FALSE
    /\ attempt = 1
    /\ results = <<>>
    /\ verdict = "none"
    /\ keyless = FALSE
    /\ missed = FALSE
    /\ survived = 0
    /\ skipped = 0

\* The sets of timers one catch may see.
Advertising == IF "asleep" \in Faults THEN SUBSET Timers ELSE {Timers}

\* catch_device without a MAC: some timer has the key.
Decodes(up) == \E t \in up : key[t] = Key

\* Whether a status decodes.  A timer is counted when it connects; where its
\* session or its reply then fails, the catch goes on without it.
Heard(up) == {Decodes(up)} \cup (IF "unheard" \in Faults THEN {FALSE} ELSE {})

-----------------------------------------------------------------------------
\* evaluate_trial
Evaluate(cycles) ==
    IF /\ ~decoded /\ provisioned
       /\ Len(cycles) >= MinCycles
       /\ \A i \in DOMAIN cycles : cycles[i]
      THEN "pass" ELSE "fail"

Conclude(v) == pc' = "done" /\ verdict' = v

\* Step 1: the user resets the timer and presses Enter.
Reset ==
    /\ pc = "reset"
    /\ \/ key' = [key EXCEPT ![Target] = Fresh] /\ kept' = kept \ {Target}
       \/ "reset" \in Faults /\ UNCHANGED <<key, kept>>
    /\ pc' = "control"
    /\ UNCHANGED <<decoded, provisioned, attempt, results, verdict, history>>

\* What the control leaves to be known of the target.
Controlled(up, heard) ==
    /\ decoded' = heard
    /\ keyless' = (key[Target] # Key)
    /\ missed' = (Decodes(up) /\ ~heard)
    /\ UNCHANGED <<key, kept, provisioned, attempt, results, survived, skipped>>

(* Mutant: a timer that was not seen counts as keyless. *)
AbsentIsKeyless(up, heard) ==
    /\ pc = "control" /\ up \in Advertising /\ heard \in Heard(up)
    /\ IF heard THEN Conclude("fail") ELSE pc' = "provision" /\ UNCHANGED verdict
    /\ Controlled(up, heard)

\* Step 2, _negative_control: no status may decode, and a timer must be there.
Control(up, heard) ==
    /\ pc = "control" /\ up \in Advertising /\ heard \in Heard(up)
    /\ \/ heard /\ Conclude("fail")
       \/ up = {} /\ Conclude("abort")
       \/ /\ ~heard /\ up # {}
          /\ pc' = "provision" /\ UNCHANGED verdict
    /\ Controlled(up, heard)

\* Step 3, provision_device: the sole B-Hyve takes the key if it is fresh, and
\* is then contacted again by the key, and by the MAC if one was given.
Provision(t) ==
    /\ pc = "provision" /\ {t} \in Advertising
    /\ key[t] # OtherKey /\ Wanted \subseteq {t}
    /\ key' = [key EXCEPT ![t] = Key]
    /\ kept' \in {kept \cup {t}} \cup (IF "volatile" \in Faults THEN {kept} ELSE {})
    /\ provisioned' = TRUE
    /\ pc' = "cycle"
    /\ UNCHANGED <<decoded, attempt, results, verdict, history>>

\* Nothing or too much nearby, a key of its own, a failed write or finalize,
\* with or without the key in place.
ProvisionFails(up) ==
    /\ pc = "provision" /\ up \in Advertising
    /\ \/ "provision" \in Faults
       \/ Cardinality(up) # 1
       \/ \E t \in up : key[t] = OtherKey \/ ~(Wanted \subseteq {t})
    /\ \/ UNCHANGED <<key, kept>>
       \/ \E t \in up :
             /\ up = {t}
             /\ key' = [key EXCEPT ![t] = IF @ = Fresh THEN Key ELSE @]
             /\ kept' \in {kept, IF key'[t] = Key THEN kept \cup {t} ELSE kept}
    /\ Conclude("fail")
    /\ UNCHANGED <<decoded, provisioned, attempt, results, history>>

\* Step 4: the user takes the batteries out, puts them in and presses Enter, or
\* only presses Enter.
PowerCycle ==
    /\ pc = "cycle"
    /\ \/ /\ key' = [key EXCEPT ![Target] = IF Target \in kept THEN @ ELSE Fresh]
          /\ survived' = survived + IF key'[Target] = Key THEN 1 ELSE 0
          /\ UNCHANGED skipped
       \/ /\ "skipped" \in Faults
          /\ skipped' = skipped + 1
          /\ UNCHANGED <<key, survived>>
    /\ attempt' = 1
    /\ pc' = "verify"
    /\ UNCHANGED <<kept, decoded, provisioned, results, verdict, keyless, missed>>

\* A cycle's result; after the last one the verdict.
Record(ok) ==
    /\ results' = Append(results, ok)
    /\ IF Len(results) + 1 < Cycles
         THEN pc' = "cycle" /\ UNCHANGED verdict
         ELSE Conclude(Evaluate(Append(results, ok)))

\* verify_once in a fresh process: caught, started and stopped.
Verify(up) ==
    /\ pc = "verify" /\ up \in Advertising /\ TRUE \in Heard(up)
    /\ \E ok \in {TRUE} \cup (IF "actuate" \in Faults THEN {FALSE} ELSE {}) : Record(ok)
    /\ UNCHANGED <<key, kept, decoded, provisioned, attempt, history>>

(* Mutant: one attempt too many. *)
MissesOnceMore(up) ==
    /\ pc = "verify" /\ up \in Advertising /\ FALSE \in Heard(up)
    /\ IF attempt <= Attempts
         THEN attempt' = attempt + 1 /\ UNCHANGED <<pc, results, verdict>>
         ELSE Record(FALSE) /\ UNCHANGED attempt
    /\ UNCHANGED <<key, kept, decoded, provisioned, history>>

\* No catch succeeded: once more, or a failed cycle.
VerifyMisses(up) ==
    /\ pc = "verify" /\ up \in Advertising /\ FALSE \in Heard(up)
    /\ IF attempt < Attempts
         THEN attempt' = attempt + 1 /\ UNCHANGED <<pc, results, verdict>>
         ELSE Record(FALSE) /\ UNCHANGED attempt
    /\ UNCHANGED <<key, kept, decoded, provisioned, history>>

Next ==
    \/ Reset \/ PowerCycle
    \/ \E t \in Timers : Provision(t)
    \/ \E up \in SUBSET Timers : \/ \E heard \in BOOLEAN : Control(up, heard)
                                \/ ProvisionFails(up) \/ Verify(up) \/ VerifyMisses(up)

Spec == Init /\ [][Next]_vars

-----------------------------------------------------------------------------
\* What a PASS stands for while its timer is the only one within reach, whatever
\* sleeps, fails, is lost or was not done properly: the timer has the key; it had
\* none of ours at the control, or it had and the control connected to it and lost
\* its reply; and at least MIN_CYCLES times it was found with the key after a loss
\* of power, or after one the user skipped ("PASS only if: keyless before ->
\* provisioned by us -> survives >= N power-cycles", provision_proof.py:15).
PassMeansDurable ==
    verdict = "pass" => /\ key[Target] = Key
                        /\ keyless \/ missed
                        /\ survived + skipped >= MinCycles
=============================================================================

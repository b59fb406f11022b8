--------------------------- MODULE ExperimentProof ---------------------------
(***************************************************************************)
(* Proofs about ProvisionProof, for any number of cycles and attempts.     *)
(***************************************************************************)
EXTENDS ProvisionProof, TLAPS

\* No B-Hyve but the one on trial is within reach.
Alone == Timers = {Target}

AllConfirmed == \A i \in DOMAIN results : results[i]

\* Past the control, the timer was there without the key, or was not heard.
ControlledKeyless == pc \in {"provision", "cycle", "verify"} => keyless \/ missed

\* While every verify so far succeeded, the key was there after as many power
\* cycles, skipped ones included, and after one more if it is there now.
SurvivedAsConfirmed ==
    AllConfirmed =>
        /\ survived + skipped >= Len(results)
        /\ pc = "verify" /\ key[Target] = Key => survived + skipped >= Len(results) + 1

\* A verdict ends the experiment.
VerdictEnds == verdict # "none" => pc = "done"

ExperimentInv ==
    TypeOK /\ ControlledKeyless /\ SurvivedAsConfirmed /\ VerdictEnds /\ PassMeansDurable

-----------------------------------------------------------------------------
\* What catches see when there is only the one timer.
LEMMA OnlyTarget ==
    ASSUME Alone, NEW up \in SUBSET Timers, Decodes(up)
    PROVE  key[Target] = Key
BY DEF Alone, Decodes

LEMMA NotTarget ==
    ASSUME Alone, NEW up \in SUBSET Timers, up # {}, ~Decodes(up)
    PROVE  key[Target] # Key
BY DEF Alone, Decodes

\* What is heard comes from a timer with the key.
LEMMA HeardDecodes ==
    ASSUME NEW up \in SUBSET Timers
    PROVE  /\ Heard(up) \subseteq BOOLEAN
           /\ TRUE \in Heard(up) => Decodes(up)
BY DEF Heard, Decodes

\* One more result in the list.
LEMMA OneMore ==
    ASSUME TypeOK, NEW ok \in BOOLEAN
    PROVE  /\ Append(results, ok) \in Seq(BOOLEAN)
           /\ Len(results) \in Nat /\ Len(Append(results, ok)) = Len(results) + 1
           /\ (\A i \in DOMAIN Append(results, ok) : Append(results, ok)[i])
                 => AllConfirmed /\ ok
<1> DEFINE e == Append(results, ok)
<1>1. /\ results \in Seq(BOOLEAN) /\ Len(results) \in Nat /\ e \in Seq(BOOLEAN)
      /\ Len(e) = Len(results) + 1
      /\ DOMAIN e = 1..(Len(results) + 1) /\ DOMAIN results = 1..Len(results)
      /\ \A i \in 1..Len(results) : e[i] = results[i]
      /\ e[Len(results) + 1] = ok
  BY DEF TypeOK
<1> HIDE DEF e
<1>2. ASSUME \A i \in DOMAIN e : e[i] PROVE AllConfirmed /\ ok
  <2>1. Len(results) + 1 \in DOMAIN e
    BY <1>1
  <2>2. ok
    BY <2>1, <1>1, <1>2
  <2>3. \A i \in DOMAIN results : i \in DOMAIN e /\ e[i] = results[i]
    BY <1>1
  <2>4. QED
    BY <2>2, <2>3, <1>2 DEF AllConfirmed
<1>3. QED
  BY <1>1, <1>2 DEF e

LEMMA ExperimentInit == Init => ExperimentInv
<1> SUFFICES ASSUME Init PROVE ExperimentInv
  OBVIOUS
<1>1. results \in Seq(BOOLEAN) /\ Len(results) = 0
  BY DEF Init
<1>2. 1 \in 1..Attempts /\ kept \subseteq Timers
  BY ProofAssumption DEF Init
<1>3. TypeOK
  BY <1>1, <1>2, Zenon DEF Init, TypeOK
<1>4. QED
  BY <1>1, <1>3 DEF Init, ExperimentInv, ControlledKeyless, SurvivedAsConfirmed, VerdictEnds,
                    PassMeansDurable, AllConfirmed

-----------------------------------------------------------------------------
(***************************************************************************)
(* Types.  They hold whatever other timers are within reach.               *)
(***************************************************************************)

\* A result is recorded.
LEMMA RecordTypes ==
    ASSUME TypeOK, NEW ok \in BOOLEAN, Record(ok), attempt' \in 1..Attempts,
           UNCHANGED <<key, kept, decoded, provisioned, history>>
    PROVE  TypeOK'
<1>1. Append(results, ok) \in Seq(BOOLEAN)
  BY OneMore
<1>2. /\ results' = Append(results, ok)
      /\ pc' \in {"cycle", "done"} /\ verdict' \in {verdict, "pass", "fail"}
  BY DEF Record, Conclude, Evaluate
<1>3. QED
  BY <1>1, <1>2 DEF history, TypeOK

\* The user's steps.
LEMMA UserTypes ==
    ASSUME TypeOK, Reset \/ PowerCycle
    PROVE  TypeOK'
<1>1. Target \in Timers /\ key \in [Timers -> {Key, OtherKey, Fresh}]
  BY ProofAssumption DEF TypeOK
<1>2. CASE Reset
  BY <1>1, <1>2 DEF Reset, history, TypeOK
<1>3. CASE PowerCycle
  <2>1. /\ key' \in [Timers -> {Key, OtherKey, Fresh}]
        /\ survived' \in Nat /\ skipped' \in Nat
    BY <1>1, <1>3 DEF PowerCycle, TypeOK
  <2>2. attempt' \in 1..Attempts
    BY <1>3, ProofAssumption DEF PowerCycle
  <2>3. QED
    BY <1>3, <2>1, <2>2 DEF PowerCycle, TypeOK
<1>4. QED
  BY <1>2, <1>3

\* The steps that talk to timers.
LEMMA CatchTypes ==
    ASSUME TypeOK, NEW up \in SUBSET Timers, NEW heard \in BOOLEAN,
           Control(up, heard) \/ ProvisionFails(up) \/ Verify(up) \/ VerifyMisses(up)
    PROVE  TypeOK'
<1>1. CASE Control(up, heard)
  BY <1>1 DEF Control, Controlled, Conclude, Decodes, TypeOK
<1>2. CASE ProvisionFails(up)
  <2>1. key' \in [Timers -> {Key, OtherKey, Fresh}] /\ kept' \in SUBSET Timers
    BY <1>2 DEF ProvisionFails, TypeOK
  <2>2. QED
    BY <1>2, <2>1 DEF ProvisionFails, Conclude, history, TypeOK
<1>3. CASE Verify(up)
  <2>1. PICK ok \in BOOLEAN : Record(ok)
    BY <1>3 DEF Verify
  <2>2. QED
    BY <1>3, <2>1, RecordTypes DEF Verify, TypeOK
<1>4. CASE VerifyMisses(up)
  <2>1. CASE attempt < Attempts
    <3>1. attempt' \in 1..Attempts
      BY <1>4, <2>1, ProofAssumption DEF VerifyMisses, TypeOK
    <3>2. QED
      BY <1>4, <2>1, <3>1 DEF VerifyMisses, history, TypeOK
  <2>2. CASE ~(attempt < Attempts)
    BY <1>4, <2>2, RecordTypes DEF VerifyMisses, TypeOK
  <2>3. QED
    BY <2>1, <2>2
<1>5. QED
  BY <1>1, <1>2, <1>3, <1>4

LEMMA TypeStep == TypeOK /\ [Next]_vars => TypeOK'
<1> SUFFICES ASSUME TypeOK, [Next]_vars PROVE TypeOK'
  OBVIOUS
<1>1. ASSUME NEW t \in Timers, Provision(t) PROVE TypeOK'
  BY <1>1 DEF Provision, history, TypeOK
<1>2. CASE UNCHANGED vars
  BY <1>2 DEF vars, history, TypeOK
<1>3. QED
  BY <1>1, <1>2, UserTypes, CatchTypes DEF Next

\* For any timers within reach, any number of cycles and attempts and whatever
\* fails, the experiment stays within its steps and its four verdicts, and tries
\* no verify more than Attempts times (run_proof, verify_once).
THEOREM ExperimentTypeCorrect == Spec => []TypeOK
<1>1. Init => TypeOK
  BY ExperimentInit DEF ExperimentInv
<1>2. QED
  BY <1>1, TypeStep, PTL DEF Spec

-----------------------------------------------------------------------------
\* What the record of a verify leaves, whether it succeeded or not.
LEMMA Recorded ==
    ASSUME ExperimentInv, pc = "verify", NEW ok \in BOOLEAN, ok => key[Target] = Key,
           Record(ok), attempt' \in 1..Attempts,
           UNCHANGED <<key, kept, decoded, provisioned, history>>
    PROVE  ExperimentInv'
<1> USE DEF history
<1> DEFINE e == Append(results, ok)
<1>1. /\ e \in Seq(BOOLEAN) /\ Len(results) \in Nat /\ Len(e) = Len(results) + 1
      /\ (\A i \in DOMAIN e : e[i]) => AllConfirmed /\ ok
  BY OneMore DEF ExperimentInv
<1>2. /\ results' = e
      /\ \/ pc' = "cycle" /\ verdict' = verdict
         \/ pc' = "done" /\ verdict' = Evaluate(e)
  BY DEF Record, Conclude
<1> HIDE DEF e
<1>3. verdict = "none" /\ (keyless \/ missed)
  BY DEF ExperimentInv, TypeOK, VerdictEnds, ControlledKeyless
<1>4. Evaluate(e) \in {"pass", "fail"}
      /\ (Evaluate(e) = "pass" => Len(e) >= MinCycles /\ \A i \in DOMAIN e : e[i])
  BY DEF Evaluate
<1>5. TypeOK'
  BY <1>1, <1>2, <1>4 DEF ExperimentInv, TypeOK
<1>6. (\A i \in DOMAIN e : e[i]) => survived + skipped >= Len(e) /\ key[Target] = Key
  BY <1>1 DEF ExperimentInv, SurvivedAsConfirmed
<1>7. SurvivedAsConfirmed'
  BY <1>2, <1>6 DEF SurvivedAsConfirmed, AllConfirmed
<1>8. PassMeansDurable'
  <2> SUFFICES ASSUME verdict' = "pass"
               PROVE  (keyless \/ missed) /\ survived + skipped >= MinCycles /\ key[Target] = Key
    BY DEF PassMeansDurable
  <2>1. Len(e) >= MinCycles /\ survived + skipped >= Len(e) /\ key[Target] = Key
    BY <1>2, <1>3, <1>4, <1>6
  <2>2. QED
    BY <1>1, <1>3, <2>1, ProofAssumption DEF ExperimentInv, TypeOK
<1>9. QED
  BY <1>2, <1>3, <1>5, <1>7, <1>8 DEF ExperimentInv, ControlledKeyless, VerdictEnds

LEMMA ExperimentStep ==
    ASSUME Alone, ExperimentInv, [Next]_vars
    PROVE  ExperimentInv'
<1> USE DEF ExperimentInv, history
<1>1. Target \in Timers /\ key \in [Timers -> {Key, OtherKey, Fresh}]
  BY ProofAssumption DEF TypeOK
<1>2. CASE Reset
  BY <1>1, <1>2 DEF Reset, TypeOK, ControlledKeyless, SurvivedAsConfirmed, VerdictEnds,
                    PassMeansDurable, AllConfirmed
<1>3. CASE PowerCycle
  <2> DEFINE n == survived + skipped
             m == survived' + skipped'
  <2>1. /\ key' \in [Timers -> {Key, OtherKey, Fresh}]
        /\ survived' \in Nat /\ skipped' \in Nat
        /\ n \in Nat /\ m \in Nat /\ m >= n /\ (key'[Target] = Key => m = n + 1)
    BY <1>1, <1>3 DEF PowerCycle, TypeOK
  <2>2. verdict = "none" /\ (keyless \/ missed)
    BY <1>3 DEF PowerCycle, TypeOK, VerdictEnds, ControlledKeyless
  <2>3. Len(results) \in Nat /\ results' = results
    BY <1>3 DEF PowerCycle, TypeOK
  <2>4. TypeOK'
    BY <1>3, <2>1, ProofAssumption DEF PowerCycle, TypeOK
  <2>5. SurvivedAsConfirmed'
    <3>1. AllConfirmed' => n >= Len(results)
      BY <2>3 DEF SurvivedAsConfirmed, AllConfirmed
    <3>2. AllConfirmed' => m >= Len(results) /\ (key'[Target] = Key => m >= Len(results) + 1)
      <4> HIDE DEF n, m
      <4>1. QED
        BY <2>1, <2>3, <3>1
    <3>3. QED
      BY <2>3, <3>2 DEF SurvivedAsConfirmed
  <2>6. QED
    BY <1>3, <2>2, <2>4, <2>5 DEF PowerCycle, ControlledKeyless, VerdictEnds, PassMeansDurable
<1>4. ASSUME NEW t \in Timers, Provision(t)
      PROVE  ExperimentInv'
  <2>1. TypeOK'
    BY <1>1, <1>4 DEF Provision, TypeOK
  <2>2. verdict = "none" /\ (keyless \/ missed)
    BY <1>4 DEF Provision, TypeOK, VerdictEnds, ControlledKeyless
  <2>3. QED
    BY <1>4, <2>1, <2>2 DEF Provision, ControlledKeyless, SurvivedAsConfirmed, VerdictEnds,
                            PassMeansDurable, AllConfirmed
<1>5. ASSUME NEW up \in SUBSET Timers, NEW heard \in BOOLEAN, Control(up, heard)
      PROVE  ExperimentInv'
  <2>1. TypeOK'
    BY <1>5 DEF Control, Controlled, Conclude, Decodes, TypeOK
  <2>2. verdict = "none" /\ verdict' # "pass"
    BY <1>5 DEF Control, Conclude, TypeOK, VerdictEnds
  <2>3. pc' = "provision" => keyless' \/ missed'
    BY <1>5, NotTarget DEF Control, Controlled, Conclude
  <2>4. UNCHANGED <<results, survived, skipped>>
    BY <1>5 DEF Control, Controlled
  <2>5. pc' \in {"done", "provision"} /\ (verdict' # "none" => pc' = "done")
    BY <1>5, <2>2 DEF Control, Conclude
  <2>6. QED
    BY <2>1, <2>2, <2>3, <2>4, <2>5 DEF ControlledKeyless, SurvivedAsConfirmed,
                                         VerdictEnds, PassMeansDurable, AllConfirmed
<1>6. ASSUME NEW up \in SUBSET Timers, ProvisionFails(up)
      PROVE  ExperimentInv'
  <2>1. pc' = "done" /\ verdict' = "fail" /\ UNCHANGED <<results, survived, skipped>>
    BY <1>6 DEF ProvisionFails, Conclude
  <2>2. key' \in [Timers -> {Key, OtherKey, Fresh}] /\ kept' \in SUBSET Timers
    BY <1>1, <1>6 DEF ProvisionFails, TypeOK
  <2>3. TypeOK'
    BY <1>6, <2>1, <2>2 DEF ProvisionFails, TypeOK
  <2>4. QED
    BY <2>1, <2>3 DEF ControlledKeyless, SurvivedAsConfirmed, VerdictEnds, PassMeansDurable,
                      AllConfirmed
<1>7. ASSUME NEW up \in SUBSET Timers, Verify(up)
      PROVE  ExperimentInv'
  <2>1. key[Target] = Key /\ attempt' \in 1..Attempts
    BY <1>7, OnlyTarget, HeardDecodes DEF Verify, TypeOK
  <2>2. PICK ok \in BOOLEAN : Record(ok)
    BY <1>7 DEF Verify
  <2>3. QED
    BY <1>7, <2>1, <2>2, Recorded DEF Verify
<1>8. ASSUME NEW up \in SUBSET Timers, VerifyMisses(up)
      PROVE  ExperimentInv'
  <2>1. CASE attempt < Attempts
    <3>1. attempt' \in 1..Attempts
      BY <1>8, <2>1, ProofAssumption DEF VerifyMisses, TypeOK
    <3>2. UNCHANGED <<pc, key, kept, decoded, provisioned, results, verdict, history>>
      BY <1>8, <2>1 DEF VerifyMisses
    <3>3. QED
      BY <3>1, <3>2 DEF TypeOK, ControlledKeyless, SurvivedAsConfirmed, VerdictEnds,
                        PassMeansDurable, AllConfirmed
  <2>2. CASE ~(attempt < Attempts)
    <3>1. Record(FALSE) /\ attempt' \in 1..Attempts
      BY <1>8, <2>2 DEF VerifyMisses, TypeOK
    <3>2. QED
      BY <1>8, <3>1, Recorded DEF VerifyMisses
  <2>3. QED
    BY <2>1, <2>2
<1>9. CASE UNCHANGED vars
  BY <1>9 DEF vars, TypeOK, ControlledKeyless, SurvivedAsConfirmed, VerdictEnds,
              PassMeansDurable, AllConfirmed
<1>10. QED
  BY <1>2, <1>3, <1>4, <1>5, <1>6, <1>7, <1>8, <1>9 DEF Next

\* With no other B-Hyve within reach, and for any number of power cycles and
\* attempts, a PASS stands for this: the timer has the key, it had no key of ours
\* at the control or was connected to there and not heard, and after each of at
\* least MIN_CYCLES power cycles, skipped ones included, it was found with the key
\* (evaluate_trial, provision_proof.py:44-60, with what its inputs stand for).
THEOREM PassIsDurable == ASSUME Alone PROVE Spec => []PassMeansDurable
<1>1. Alone /\ ExperimentInv /\ [Next]_vars => ExperimentInv'
  BY ExperimentStep
<1>2. ExperimentInv => PassMeansDurable
  BY DEF ExperimentInv
<1>3. QED
  BY <1>1, <1>2, ExperimentInit, PTL DEF Spec
=============================================================================

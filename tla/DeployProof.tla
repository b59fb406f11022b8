---------------------------- MODULE DeployProof ----------------------------
(***************************************************************************)
(* Proofs about Deploy, for any number of releases and any Keep.  Nothing  *)
(* in the scripts keeps two of them apart: what they promise they promise  *)
(* for one at a time.                                                      *)
(***************************************************************************)
EXTENDS Deploy, TLAPS

OneAtATime == \A a, b \in Scripts : a = b

\* Where a new release is complete and the one before it recorded.
Switching == {"flip", "restart", "check", "prune", "back", "restart back", "check back"}

Standing == ToSet(dirs) \cap complete

\* The release to switch to is there; a new one is complete when the script says so.
RelReady ==
    \A s \in Scripts :
        /\ script[s].pc \in {"finalize", "record", "roll"} \cup Switching =>
              script[s].rel \in ToSet(dirs)
        /\ script[s].pc \in {"record"} \cup Switching => script[s].rel \in complete

\* The one to go back to stands, or rollback.sh chose it; it starts if it was up.
PrevReady ==
    \A s \in Scripts : script[s].pc \in Switching =>
        /\ script[s].prev # Nothing =>
              script[s].prev \in ToSet(dirs) /\ script[s].prev \in complete \cup picked
        /\ script[s].up => script[s].prev \in Standing \cap sound

\* current is what the script last switched to.
CurrentAsSwitched ==
    \A s \in Scripts :
        /\ script[s].pc \in {"restart", "check", "prune"} => current = script[s].rel
        /\ script[s].pc \in {"restart back", "check back"} => current = script[s].prev

\* A checked release runs, a release gone back to runs if it did before.
RunsAsChecked ==
    \A s \in Scripts :
        /\ script[s].pc = "prune" => running = script[s].rel
        /\ script[s].pc = "check back" /\ script[s].up => running # Nothing

\* What runs is there, complete, and starts.
RunningBoots == running # Nothing => running \in Standing \cap sound

DeployInv ==
    /\ TypeOK /\ CurrentStands /\ RelReady /\ PrevReady /\ CurrentAsSwitched
    /\ RunsAsChecked /\ RunningBoots

-----------------------------------------------------------------------------
\* What putting a release somewhere among the others does.
LEMMA PutAmong ==
    ASSUME NEW S, NEW d \in Seq(S), NEW r \in S, NEW i \in 0..Len(d),
           \A j, k \in DOMAIN d : d[j] = d[k] => j = k, r \notin ToSet(d)
    PROVE  LET e == SubSeq(d, 1, i) \o <<r>> \o SubSeq(d, i + 1, Len(d))
           IN  /\ e \in Seq(S)
               /\ ToSet(e) = {r} \cup ToSet(d)
               /\ \A j, k \in DOMAIN e : e[j] = e[k] => j = k
<1> DEFINE a == SubSeq(d, 1, i)
           b == SubSeq(d, i + 1, Len(d))
           c == a \o <<r>>
           e == c \o b
<1>1. /\ i \in Nat /\ i <= Len(d) /\ Len(d) \in Nat /\ DOMAIN d = 1..Len(d)
      /\ a \in Seq(S) /\ Len(a) = i /\ \A j \in 1..i : a[j] = d[j]
      /\ b \in Seq(S) /\ Len(b) = Len(d) - i /\ \A j \in 1..(Len(d) - i) : b[j] = d[j + i]
  OBVIOUS
<1> HIDE DEF a, b
<1>2. /\ c \in Seq(S) /\ Len(c) = i + 1
      /\ \A j \in 1..i : c[j] = d[j]
      /\ c[i + 1] = r
  BY <1>1
<1> HIDE DEF c
<1>3. /\ e \in Seq(S) /\ Len(e) = Len(c) + Len(b) /\ DOMAIN e = 1..Len(e)
      /\ \A j \in 1..Len(c) : e[j] = c[j]
      /\ \A j \in 1..Len(b) : e[Len(c) + j] = b[j]
  <2>1. c \in Seq(S) /\ b \in Seq(S) /\ e = c \o b
    BY <1>1, <1>2
  <2> HIDE DEF e
  <2>2. QED
    BY ONLY <2>1
<1> HIDE DEF e
<1>4. /\ DOMAIN e = 1..(Len(d) + 1)
      /\ \A j \in 1..i : e[j] = d[j]
      /\ e[i + 1] = r
      /\ \A j \in (i + 2)..(Len(d) + 1) : e[j] = d[j - 1]
  <2>1. Len(c) = i + 1 /\ Len(b) = Len(d) - i /\ Len(e) = Len(d) + 1
    BY <1>1, <1>2, <1>3
  <2>2. ASSUME NEW j \in (i + 2)..(Len(d) + 1) PROVE e[j] = d[j - 1]
    <3> DEFINE h == j - (i + 1)
    <3>1. h \in 1..Len(b) /\ h \in 1..(Len(d) - i) /\ Len(c) + h = j /\ h + i = j - 1
      BY <1>1, <2>1
    <3> HIDE DEF h
    <3>2. e[Len(c) + h] = b[h] /\ b[h] = d[h + i]
      BY <1>1, <1>3, <3>1
    <3>3. QED
      BY <3>1, <3>2
  <2>3. QED
    BY <1>1, <1>2, <1>3, <2>1, <2>2
<1> DEFINE at(n) == IF n <= i THEN n ELSE n - 1
           to(k) == IF k <= i THEN k ELSE k + 1
<1>5. \A n \in 1..(Len(d) + 1) :
         n # i + 1 => at(n) \in DOMAIN d /\ to(at(n)) = n /\ e[n] = d[at(n)]
  <2> SUFFICES ASSUME NEW n \in 1..(Len(d) + 1), n # i + 1
               PROVE  at(n) \in DOMAIN d /\ to(at(n)) = n /\ e[n] = d[at(n)]
    OBVIOUS
  <2>1. n \in 1..i \/ n \in (i + 2)..(Len(d) + 1)
    BY <1>1
  <2>2. QED
    BY <1>1, <1>4, <2>1
<1>6. \A k \in DOMAIN d : to(k) \in 1..(Len(d) + 1) /\ to(k) # i + 1 /\ at(to(k)) = k
  BY <1>1
<1> HIDE DEF at, to
<1>7. i + 1 \in DOMAIN e
  BY <1>1, <1>4
<1>8. ToSet(e) = {r} \cup ToSet(d)
  <2>1. \A k \in DOMAIN d : to(k) \in DOMAIN e /\ e[to(k)] = d[k]
    BY <1>4, <1>5, <1>6
  <2>2. ASSUME NEW n \in DOMAIN e PROVE e[n] = r \/ e[n] \in ToSet(d)
    <3>1. CASE n = i + 1
      BY <3>1, <1>4
    <3>2. CASE n # i + 1
      BY <3>2, <1>4, <1>5 DEF ToSet
    <3>3. QED
      BY <3>1, <3>2
  <2>3. r \in ToSet(e)
    BY <1>4, <1>7 DEF ToSet
  <2>4. QED
    BY <2>1, <2>2, <2>3 DEF ToSet
<1>9. \A n \in DOMAIN e : n # i + 1 => e[n] # r
  <2>1. \A k \in DOMAIN d : d[k] # r
    BY DEF ToSet
  <2>2. ASSUME NEW n \in DOMAIN e, n # i + 1 PROVE e[n] # r
    <3>1. at(n) \in DOMAIN d /\ e[n] = d[at(n)]
      BY <2>2, <1>4, <1>5
    <3>2. QED
      BY <3>1, <2>1
  <2>3. QED
    BY <2>2
<1>10. ASSUME NEW j \in DOMAIN e, NEW k \in DOMAIN e, e[j] = e[k] PROVE j = k
  <2>1. CASE j = i + 1 \/ k = i + 1
    BY <2>1, <1>4, <1>9, <1>10
  <2>2. CASE j # i + 1 /\ k # i + 1
    <3>1. at(j) = at(k)
      BY <2>2, <1>4, <1>5, <1>10
    <3>2. QED
      BY <2>2, <3>1, <1>4, <1>5
  <2>3. QED
    BY <2>1, <2>2
<1>11. QED
  BY <1>3, <1>8, <1>10 DEF e, c, a, b

\* Moving a release to the front keeps what is there, each once.
LEMMA ToTheFront ==
    ASSUME NEW S, NEW d \in Seq(S), NEW i \in DOMAIN d,
           \A j, k \in DOMAIN d : d[j] = d[k] => j = k
    PROVE  LET e == <<d[i]>> \o SubSeq(d, 1, i - 1) \o SubSeq(d, i + 1, Len(d))
           IN  /\ e \in Seq(S)
               /\ ToSet(e) = ToSet(d)
               /\ \A j, k \in DOMAIN e : e[j] = e[k] => j = k
<1> DEFINE a == SubSeq(d, 1, i - 1)
           b == SubSeq(d, i + 1, Len(d))
           e == <<d[i]>> \o a \o b
<1>1. /\ i \in 1..Len(d) /\ Len(d) \in Nat /\ DOMAIN d = 1..Len(d)
      /\ a \in Seq(S) /\ Len(a) = i - 1 /\ \A j \in 1..(i - 1) : a[j] = d[j]
      /\ b \in Seq(S) /\ Len(b) = Len(d) - i /\ \A j \in 1..(Len(d) - i) : b[j] = d[j + i]
  OBVIOUS
<1>2. /\ e \in Seq(S) /\ Len(e) = Len(d) /\ DOMAIN e = 1..Len(d)
      /\ e[1] = d[i]
      /\ \A j \in 2..i : e[j] = d[j - 1]
      /\ \A j \in (i + 1)..Len(d) : e[j] = d[j]
  <2> DEFINE c == <<d[i]>> \o a
  <2>0. e = c \o b
    OBVIOUS
  <2> HIDE DEF a, b, e
  <2>1. /\ c \in Seq(S) /\ Len(c) = i
        /\ c[1] = d[i]
        /\ \A j \in 2..i : c[j] = d[j - 1]
    BY <1>1
  <2> HIDE DEF c
  <2>2. /\ e \in Seq(S) /\ Len(e) = Len(d) /\ DOMAIN e = 1..Len(d)
        /\ \A j \in 1..i : e[j] = c[j]
    <3>1. /\ e \in Seq(S) /\ Len(e) = Len(c) + Len(b)
          /\ \A j \in 1..Len(c) : e[j] = c[j]
      <4>1. c \in Seq(S) /\ b \in Seq(S) /\ e = c \o b
        BY <1>1, <2>0, <2>1
      <4>2. QED
        BY ONLY <4>1
    <3>2. Len(c) + Len(b) = Len(d)
      BY <1>1, <2>1
    <3>3. DOMAIN e = 1..Len(e)
      BY <3>1
    <3>4. QED
      BY <2>1, <3>1, <3>2, <3>3
  <2>3. \A j \in (i + 1)..Len(d) : e[j] = b[j - i]
    BY <1>1, <2>0, <2>1
  <2>4. \A j \in (i + 1)..Len(d) : e[j] = d[j]
    <3> SUFFICES ASSUME NEW j \in (i + 1)..Len(d) PROVE e[j] = d[j]
      OBVIOUS
    <3>1. j - i \in 1..(Len(d) - i) /\ (j - i) + i = j
      BY <1>1
    <3>2. QED
      BY <1>1, <2>3, <3>1
  <2>5. QED
    BY <1>1, <2>1, <2>2, <2>4
<1> HIDE DEF e
<1> DEFINE at(n) == IF n = 1 THEN i ELSE IF n <= i THEN n - 1 ELSE n
           to(k) == IF k < i THEN k + 1 ELSE IF k = i THEN 1 ELSE k
<1>3. \A n \in 1..Len(d) : at(n) \in 1..Len(d) /\ to(at(n)) = n
  BY <1>1
<1>4. \A k \in 1..Len(d) : to(k) \in 1..Len(d) /\ at(to(k)) = k
  BY <1>1
<1>5. \A n \in DOMAIN e : e[n] = d[at(n)]
  <2> SUFFICES ASSUME NEW n \in 1..Len(d) PROVE e[n] = d[at(n)]
    BY <1>2
  <2>1. CASE n = 1
    BY <2>1, <1>2
  <2>2. CASE n \in 2..i
    BY <2>2, <1>1, <1>2
  <2>3. CASE n \in (i + 1)..Len(d)
    BY <2>3, <1>1, <1>2
  <2>4. QED
    BY <2>1, <2>2, <2>3, <1>1
<1> HIDE DEF at, to
<1>6. ToSet(e) = ToSet(d)
  <2>1. \A n \in DOMAIN e : at(n) \in DOMAIN d /\ e[n] = d[at(n)]
    BY <1>1, <1>2, <1>3, <1>5
  <2>2. \A k \in DOMAIN d : to(k) \in DOMAIN e /\ e[to(k)] = d[k]
    BY <1>1, <1>2, <1>4, <1>5
  <2>3. QED
    BY <2>1, <2>2 DEF ToSet
<1>7. \A j, k \in DOMAIN e : e[j] = e[k] => j = k
  BY <1>1, <1>2, <1>3, <1>5
<1>8. QED
  BY <1>2, <1>6, <1>7 DEF e

\* What pruning leaves: releases that were there, each once, and current.
LEMMA PruneKeeps ==
    ASSUME TypeOK, NEW s \in Scripts, Prune(s)
    PROVE  /\ dirs' \in Seq(Release)
           /\ \A i, j \in DOMAIN dirs' : dirs'[i] = dirs'[j] => i = j
           /\ ToSet(dirs') \subseteq ToSet(dirs)
           /\ current \in ToSet(dirs) => current \in ToSet(dirs')
<1> DEFINE n == IF Len(dirs) < Keep THEN Len(dirs) ELSE Keep
<1>1. /\ dirs \in Seq(Release) /\ DOMAIN dirs = 1..Len(dirs) /\ Len(dirs) \in Nat
      /\ \A i, j \in DOMAIN dirs : dirs[i] = dirs[j] => i = j
      /\ n \in Nat /\ n <= Len(dirs)
  BY DeployAssumption DEF TypeOK
<1> HIDE DEF n
<1>2. /\ Newest \in Seq(Release) /\ Len(Newest) = n /\ DOMAIN Newest = 1..n
      /\ \A i \in 1..n : Newest[i] = dirs[i]
  <2>1. Newest = SubSeq(dirs, 1, n)
    BY DEF Newest, n
  <2>2. QED
    BY <1>1, <2>1
<1>3. /\ \A i, j \in DOMAIN Newest : Newest[i] = Newest[j] => i = j
      /\ ToSet(Newest) \subseteq ToSet(dirs)
  <2>1. 1..n \subseteq DOMAIN dirs
    BY <1>1
  <2>2. QED
    BY <2>1, <1>1, <1>2 DEF ToSet
<1>4. CASE current \in ToSet(dirs) \ ToSet(Newest)
  <2>1. dirs' = Append(Newest, current) /\ current \in Release
    BY <1>4, <1>1 DEF Prune, ToSet
  <2>2. /\ dirs' \in Seq(Release) /\ DOMAIN dirs' = 1..(n + 1)
        /\ \A i \in 1..n : dirs'[i] = Newest[i]
        /\ dirs'[n + 1] = current
    BY <2>1, <1>1, <1>2
  <2>3. \A i \in 1..n : dirs'[i] # current
    BY <1>4, <1>2, <2>2 DEF ToSet
  <2>4. \A i, j \in DOMAIN dirs' : dirs'[i] = dirs'[j] => i = j
    BY <2>2, <2>3, <1>1, <1>2, <1>3
  <2>5. ToSet(dirs') = ToSet(Newest) \cup {current}
    BY <2>2, <1>1, <1>2 DEF ToSet
  <2>6. QED
    BY <2>2, <2>4, <2>5, <1>3, <1>4
<1>5. CASE current \notin ToSet(dirs) \ ToSet(Newest)
  <2>1. dirs' = Newest
    BY <1>5 DEF Prune
  <2>2. QED
    BY <2>1, <1>2, <1>3, <1>5
<1>6. QED
  BY <1>4, <1>5

-----------------------------------------------------------------------------
(***************************************************************************)
(* The scripts' steps.                                                     *)
(***************************************************************************)

LEMMA DeployInit == Init => DeployInv
<1> SUFFICES ASSUME Init PROVE DeployInv
  OBVIOUS
<1>1. dirs \in Seq(Release) /\ DOMAIN dirs = {}
  BY DEF Init
<1>2. Idle \in Script
  BY DEF Idle, Script, Nothing
<1>3. /\ script \in [Scripts -> Script] /\ own \in [Release -> 0..MaxChanges]
      /\ 0 \in 0..MaxChanges
  BY <1>2, DeployAssumption DEF Init, Nothing
<1>4. TypeOK
  BY <1>1, <1>3 DEF Init, TypeOK, Nothing
<1>5. QED
  BY <1>4 DEF Init, DeployInv, CurrentStands, RelReady, PrevReady, CurrentAsSwitched,
              RunsAsChecked, RunningBoots, Idle, Nothing, Switching

\* What the steps below rest on: one script, and the places it goes through.
LEMMA Alone ==
    ASSUME OneAtATime, DeployInv, NEW s \in Scripts
    PROVE  /\ \A t \in Scripts : t = s
           /\ script \in [Scripts -> Script] /\ script[s] \in Script
           /\ Nothing \notin Release
BY DEF OneAtATime, DeployInv, TypeOK, Release, Nothing

Places == {"idle", "finalize", "record", "flip", "restart", "check", "prune", "back",
           "restart back", "check back", "roll", "restart roll", "check roll"}

\* A script goes to another place and keeps what it knows, or it ends.
LEMMA Steps ==
    ASSUME script \in [Scripts -> Script], NEW s \in Scripts, NEW p \in Places, Step(s, p)
    PROVE  /\ script' \in [Scripts -> Script]
           /\ script'[s].pc = p /\ script'[s].rel = script[s].rel
           /\ script'[s].prev = script[s].prev /\ script'[s].up = script[s].up
<1>1. script[s] \in Script
  OBVIOUS
<1>2. [script[s] EXCEPT !.pc = p] \in Script
  BY <1>1 DEF Script, Places
<1>3. script' = [script EXCEPT ![s] = [script[s] EXCEPT !.pc = p]]
  BY DEF Step
<1>4. QED
  BY <1>1, <1>2, <1>3 DEF Script

LEMMA Ends ==
    ASSUME script \in [Scripts -> Script], NEW s \in Scripts, End(s)
    PROVE  /\ script' \in [Scripts -> Script]
           /\ script'[s].pc = "idle" /\ script'[s].up = FALSE
<1>1. Idle \in Script
  BY DEF Idle, Script, Nothing
<1>2. QED
  BY <1>1 DEF End, Idle

\* systemd gets up what current names, if that starts, and nothing else.
LEMMA Boots ==
    ASSUME TypeOK
    PROVE  /\ Boot \in Release \cup {Nothing}
           /\ Boot # Nothing => Boot = current /\ Boot \in Standing \cap sound
           /\ current \in Standing \cap sound => Boot = current /\ Boot # Nothing
BY DEF TypeOK, Boot, Standing, Release, Nothing

\* A release's directory is modified: the same releases are there, each once.
LEMMA ModifiedKeeps ==
    ASSUME TypeOK, NEW r, Modified(r)
    PROVE  /\ dirs' \in Seq(Release) /\ ToSet(dirs') = ToSet(dirs)
           /\ \A j, k \in DOMAIN dirs' : dirs'[j] = dirs'[k] => j = k
<1>1. PICK i \in DOMAIN dirs :
         /\ dirs[i] = r
         /\ dirs' = <<r>> \o SubSeq(dirs, 1, i - 1) \o SubSeq(dirs, i + 1, Len(dirs))
  BY DEF Modified
<1>2. /\ dirs \in Seq(Release)
      /\ \A j, k \in DOMAIN dirs : dirs[j] = dirs[k] => j = k
  BY DEF TypeOK
<1>3. LET e == <<dirs[i]>> \o SubSeq(dirs, 1, i - 1) \o SubSeq(dirs, i + 1, Len(dirs))
      IN  /\ e \in Seq(Release)
          /\ ToSet(e) = ToSet(dirs)
          /\ \A j, k \in DOMAIN e : e[j] = e[k] => j = k
  BY <1>2, ToTheFront
<1>4. QED
  BY <1>1, <1>3

\* A release is put among the others once.
LEMMA RsyncDirs ==
    ASSUME TypeOK, NEW r \in Release, NEW i \in 0..Len(dirs), r \notin ToSet(dirs),
           dirs' = SubSeq(dirs, 1, i) \o <<r>> \o SubSeq(dirs, i + 1, Len(dirs))
    PROVE  /\ dirs' \in Seq(Release) /\ ToSet(dirs') = {r} \cup ToSet(dirs)
           /\ \A j, k \in DOMAIN dirs' : dirs'[j] = dirs'[k] => j = k
<1>1. /\ dirs \in Seq(Release)
      /\ \A j, k \in DOMAIN dirs : dirs[j] = dirs[k] => j = k
  BY DEF TypeOK
<1>2. LET e == SubSeq(dirs, 1, i) \o <<r>> \o SubSeq(dirs, i + 1, Len(dirs))
      IN  /\ e \in Seq(Release)
          /\ ToSet(e) = {r} \cup ToSet(dirs)
          /\ \A j, k \in DOMAIN e : e[j] = e[k] => j = k
  BY <1>1, PutAmong
<1>3. QED
  BY <1>2

-----------------------------------------------------------------------------
(***************************************************************************)
(* The steps of one script at a time.                                      *)
(***************************************************************************)

\* The new release is put among the others.
LEMMA RsyncStep ==
    ASSUME OneAtATime, DeployInv, NEW s \in Scripts, Rsync(s)
    PROVE  DeployInv'
<1>1. /\ \A t \in Scripts : t = s
      /\ script \in [Scripts -> Script] /\ script[s] \in Script
      /\ Nothing \notin Release
  BY Alone
<1>2. PICK r \in Release, i \in 0..Len(dirs) :
         /\ r \notin ToSet(dirs)
         /\ dirs' = SubSeq(dirs, 1, i) \o <<r>> \o SubSeq(dirs, i + 1, Len(dirs))
         /\ sound' \in {sound, sound \cup {r}}
         /\ script' = [script EXCEPT ![s] = [Idle EXCEPT !.pc = "finalize", !.rel = r]]
         /\ picked' = picked \ {r}
  BY DEF Rsync
<1>3. /\ dirs' \in Seq(Release) /\ ToSet(dirs') = {r} \cup ToSet(dirs)
      /\ \A j, k \in DOMAIN dirs' : dirs'[j] = dirs'[k] => j = k
  BY <1>2, RsyncDirs DEF DeployInv
<1>4. script'[s] = [Idle EXCEPT !.pc = "finalize", !.rel = r] /\ script'[s] \in Script
  BY <1>1, <1>2 DEF Script, Idle
<1>5. TypeOK'
  BY <1>1, <1>2, <1>3, <1>4 DEF Rsync, DeployInv, TypeOK, config
<1>6. UNCHANGED <<complete, current, running, config>>
  BY DEF Rsync
<1>7. QED
  BY ZenonT(40), <1>1, <1>2, <1>3, <1>4, <1>5, <1>6 DEF Idle, config, DeployInv,
           CurrentStands, RelReady, PrevReady, CurrentAsSwitched,
           RunsAsChecked, RunningBoots, Standing, Switching

\* The new release is complete before anything is switched.
LEMMA FinalizeStep ==
    ASSUME OneAtATime, DeployInv, NEW s \in Scripts, Finalize(s)
    PROVE  DeployInv'
<1>1. /\ \A t \in Scripts : t = s
      /\ script \in [Scripts -> Script] /\ script[s] \in Script
      /\ Nothing \notin Release
  BY Alone
<1>2. /\ dirs' \in Seq(Release) /\ ToSet(dirs') = ToSet(dirs)
      /\ \A j, k \in DOMAIN dirs' : dirs'[j] = dirs'[k] => j = k
  BY ModifiedKeeps DEF Finalize, DeployInv
<1>3. script[s].pc = "finalize" /\ UNCHANGED <<sound, current, running, config, picked>>
  BY DEF Finalize, At
<1>4. CASE complete' = complete \cup {script[s].rel} /\ Step(s, "record")
  <2>1. /\ script' \in [Scripts -> Script]
        /\ script'[s].pc = "record" /\ script'[s].rel = script[s].rel
        /\ script'[s].prev = script[s].prev /\ script'[s].up = script[s].up
    BY <1>1, <1>4, Steps DEF Places
  <2>2. script[s].rel \in Release
    BY <1>3 DEF DeployInv, RelReady, TypeOK, ToSet
  <2>3. TypeOK'
    BY <1>1, <1>2, <1>3, <1>4, <2>1, <2>2 DEF DeployInv, TypeOK, config
  <2>4. QED
    BY <1>1, <1>2, <1>3, <1>4, <2>1, <2>2, <2>3 DEF config, DeployInv,
             CurrentStands, RelReady, PrevReady, CurrentAsSwitched,
             RunsAsChecked, RunningBoots, Standing, Switching
<1>5. CASE End(s) /\ UNCHANGED complete
  <2>1. script' \in [Scripts -> Script] /\ script'[s].pc = "idle" /\ script'[s].up = FALSE
    BY <1>1, <1>5, Ends
  <2>2. TypeOK'
    BY <1>1, <1>2, <1>3, <1>5, <2>1 DEF DeployInv, TypeOK, config
  <2>3. QED
    BY <1>1, <1>2, <1>3, <1>5, <2>1, <2>2 DEF config, DeployInv,
             CurrentStands, RelReady, PrevReady, CurrentAsSwitched,
             RunsAsChecked, RunningBoots, Standing, Switching
<1>6. QED
  BY <1>4, <1>5 DEF Finalize

\* The release to go back to is the one current names, which stands.
LEMMA RecordStep ==
    ASSUME OneAtATime, DeployInv, NEW s \in Scripts, Record(s)
    PROVE  DeployInv'
<1>1. /\ \A t \in Scripts : t = s
      /\ script \in [Scripts -> Script] /\ script[s] \in Script
      /\ Nothing \notin Release
  BY Alone
<1>2. /\ script' \in [Scripts -> Script]
      /\ script[s].pc = "record" /\ script'[s].pc = "flip"
      /\ script'[s].rel = script[s].rel /\ script'[s].prev = current
      /\ script'[s].up => running # Nothing /\ running = current
  <2> DEFINE r == [script[s] EXCEPT !.pc = "flip", !.prev = current,
                                    !.up = running # Nothing /\ running = current]
  <2>1. script' = [script EXCEPT ![s] = r]
    BY DEF Record
  <2>2. (running # Nothing /\ running = current) \in BOOLEAN
    OBVIOUS
  <2>3. r \in Script
    BY <1>1, <2>2 DEF Script, DeployInv, TypeOK
  <2>4. r.pc = "flip" /\ r.rel = script[s].rel /\ r.prev = current
    BY <1>1 DEF Script
  <2>5. r.up = (running # Nothing /\ running = current)
    BY <1>1 DEF Script
  <2> HIDE DEF r
  <2>6. script' \in [Scripts -> Script] /\ script'[s] = r
    BY <1>1, <2>1, <2>3
  <2>7. script'[s].up => running # Nothing /\ running = current
    BY <2>5, <2>6, Zenon
  <2>8. QED
    BY <2>4, <2>6, <2>7 DEF Record, At
<1>3. TypeOK'
  BY <1>1, <1>2 DEF Record, DeployInv, TypeOK, config
<1>4. PrevReady'
  <2>1. current # Nothing => current \in ToSet(dirs) /\ current \in complete \cup picked
    BY DEF DeployInv, CurrentStands
  <2>2. script'[s].up => current \in Standing \cap sound
    BY <1>2 DEF DeployInv, RunningBoots
  <2>3. UNCHANGED <<dirs, complete, Standing, sound, picked>>
    BY DEF Record, Standing
  <2>4. QED
    BY <1>1, <1>2, <2>1, <2>2, <2>3 DEF PrevReady
<1>5. UNCHANGED <<dirs, complete, sound, current, running, picked>>
  BY DEF Record
<1>6. QED
  BY <1>1, <1>2, <1>3, <1>4, <1>5
     DEF DeployInv, CurrentStands, RelReady, CurrentAsSwitched, RunsAsChecked,
         RunningBoots, Standing, Switching

\* current is switched to the complete new release.
LEMMA FlipStep ==
    ASSUME OneAtATime, DeployInv, NEW s \in Scripts, Flip(s)
    PROVE  DeployInv'
<1>1. /\ \A t \in Scripts : t = s
      /\ script \in [Scripts -> Script] /\ script[s] \in Script
      /\ Nothing \notin Release
  BY Alone
<1>2. /\ script' \in [Scripts -> Script]
      /\ script'[s].pc = "restart" /\ script'[s].rel = script[s].rel
      /\ script'[s].prev = script[s].prev /\ script'[s].up = script[s].up
  BY <1>1, Steps DEF Flip, Places
<1>3. /\ script[s].rel \in Release \cup {Nothing}
      /\ script[s].prev \in Release \cup {Nothing}
  BY <1>1 DEF Script
<1>4. TypeOK'
  BY <1>1, <1>2, <1>3 DEF Flip, DeployInv, TypeOK, config
<1>5. QED
  BY <1>1, <1>2, <1>3, <1>4 DEF Flip, At, config, DeployInv,
           CurrentStands, RelReady, PrevReady, CurrentAsSwitched,
           RunsAsChecked, RunningBoots, Standing, Switching

\* A restart runs what current names, in whichever script.
LEMMA RestartStep ==
    ASSUME OneAtATime, DeployInv, NEW s \in Scripts, Restart(s)
    PROVE  DeployInv'
<1>1. /\ \A t \in Scripts : t = s
      /\ script \in [Scripts -> Script] /\ script[s] \in Script
      /\ Nothing \notin Release
  BY Alone
<1>2. /\ running' = Boot /\ Boot \in Release \cup {Nothing}
      /\ Boot # Nothing => Boot = current /\ Boot \in Standing \cap sound
      /\ current \in Standing \cap sound => Boot = current /\ Boot # Nothing
  BY Boots DEF Restart, Start, DeployInv
<1>3. /\ script' \in [Scripts -> Script]
      /\ \/ script[s].pc = "restart" /\ script'[s].pc = "check"
         \/ script[s].pc = "restart back" /\ script'[s].pc = "check back"
         \/ script[s].pc = "restart roll" /\ script'[s].pc = "check roll"
      /\ script'[s].rel = script[s].rel
      /\ script'[s].prev = script[s].prev /\ script'[s].up = script[s].up
  BY <1>1, Steps DEF Restart, Places, At
<1>4. TypeOK'
  BY <1>1, <1>2, <1>3 DEF Restart, DeployInv, TypeOK, config
<1>5. QED
  BY <1>1, <1>2, <1>3, <1>4 DEF Restart, At, config, DeployInv,
           CurrentStands, RelReady, PrevReady, CurrentAsSwitched,
           RunsAsChecked, RunningBoots, Standing, Switching

\* The check leaves everything in place; a release that passes runs.
LEMMA CheckStep ==
    ASSUME OneAtATime, DeployInv, NEW s \in Scripts, Check(s)
    PROVE  DeployInv'
<1>1. /\ \A t \in Scripts : t = s
      /\ script \in [Scripts -> Script] /\ script[s] \in Script
      /\ Nothing \notin Release
  BY Alone
<1>2. /\ script' \in [Scripts -> Script]
      /\ script[s].pc = "check"
      /\ \/ script'[s].pc = "idle"
         \/ /\ script'[s].pc = "back" \/ (script'[s].pc = "prune" /\ running = script[s].rel)
            /\ script'[s].rel = script[s].rel
            /\ script'[s].prev = script[s].prev /\ script'[s].up = script[s].up
  <2>1. CASE HealthOk(script[s].rel) /\ Step(s, "prune")
    BY <1>1, <2>1, Steps DEF Check, Places, At, HealthOk
  <2>2. CASE End(s)
    BY <1>1, <2>2, Ends DEF Check, At
  <2>3. CASE Step(s, "back")
    BY <1>1, <2>3, Steps DEF Check, Places, At
  <2>4. QED
    BY <2>1, <2>2, <2>3 DEF Check
<1>3. TypeOK'
  BY <1>1, <1>2 DEF Check, DeployInv, TypeOK, config
<1>4. QED
  BY <1>1, <1>2, <1>3 DEF Check, At, config, DeployInv,
           CurrentStands, RelReady, PrevReady, CurrentAsSwitched,
           RunsAsChecked, RunningBoots, Standing, Switching

\* Pruning keeps current, which is what runs.
LEMMA PruneStep ==
    ASSUME OneAtATime, DeployInv, NEW s \in Scripts, Prune(s)
    PROVE  DeployInv'
<1>1. /\ \A t \in Scripts : t = s
      /\ script \in [Scripts -> Script] /\ script[s] \in Script
      /\ Nothing \notin Release
  BY Alone
<1>2. /\ dirs' \in Seq(Release)
      /\ \A i, j \in DOMAIN dirs' : dirs'[i] = dirs'[j] => i = j
      /\ ToSet(dirs') \subseteq ToSet(dirs)
      /\ current \in ToSet(dirs) => current \in ToSet(dirs')
  BY PruneKeeps DEF DeployInv
<1>3. script' \in [Scripts -> Script] /\ script'[s].pc = "idle" /\ script'[s].up = FALSE
  BY <1>1, Ends DEF Prune
<1>4. TypeOK'
  BY <1>1, <1>2, <1>3 DEF Prune, DeployInv, TypeOK, config
<1>5. QED
  BY <1>1, <1>2, <1>3, <1>4 DEF Prune, At, config, DeployInv,
           CurrentStands, RelReady, PrevReady, CurrentAsSwitched,
           RunsAsChecked, RunningBoots, Standing, Switching

\* current is switched back to a release that stands.
LEMMA BackStep ==
    ASSUME OneAtATime, DeployInv, NEW s \in Scripts, Back(s)
    PROVE  DeployInv'
<1>1. /\ \A t \in Scripts : t = s
      /\ script \in [Scripts -> Script] /\ script[s] \in Script
      /\ Nothing \notin Release
  BY Alone
<1>2. /\ script' \in [Scripts -> Script]
      /\ script'[s].pc = "restart back" /\ script'[s].rel = script[s].rel
      /\ script'[s].prev = script[s].prev /\ script'[s].up = script[s].up
  BY <1>1, Steps DEF Back, Places
<1>3. /\ script[s].rel \in Release \cup {Nothing}
      /\ script[s].prev \in Release \cup {Nothing}
  BY <1>1 DEF Script
<1>4. TypeOK'
  BY <1>1, <1>2, <1>3 DEF Back, DeployInv, TypeOK, config
<1>5. QED
  BY <1>1, <1>2, <1>3, <1>4 DEF Back, At, config, DeployInv,
           CurrentStands, RelReady, PrevReady, CurrentAsSwitched,
           RunsAsChecked, RunningBoots, Standing, Switching

\* A script ends.
LEMMA CheckBackStep ==
    ASSUME OneAtATime, DeployInv, NEW s \in Scripts, CheckBack(s)
    PROVE  DeployInv'
<1>1. /\ \A t \in Scripts : t = s
      /\ script \in [Scripts -> Script] /\ script[s] \in Script
      /\ Nothing \notin Release
  BY Alone
<1>2. script' \in [Scripts -> Script] /\ script'[s].pc = "idle" /\ script'[s].up = FALSE
  BY <1>1, Ends DEF CheckBack
<1>3. TypeOK'
  BY <1>1, <1>2 DEF CheckBack, DeployInv, TypeOK, config
<1>4. QED
  BY <1>1, <1>2, <1>3 DEF CheckBack, At, config, DeployInv,
           CurrentStands, RelReady, PrevReady, CurrentAsSwitched,
           RunsAsChecked, RunningBoots, Standing, Switching

\* A script ends anywhere.
LEMMA KilledStep ==
    ASSUME OneAtATime, DeployInv, NEW s \in Scripts, Killed(s)
    PROVE  DeployInv'
<1>1. /\ \A t \in Scripts : t = s
      /\ script \in [Scripts -> Script] /\ script[s] \in Script
      /\ Nothing \notin Release
  BY Alone
<1>2. script' \in [Scripts -> Script] /\ script'[s].pc = "idle" /\ script'[s].up = FALSE
  BY <1>1, Ends DEF Killed
<1>3. TypeOK'
  BY <1>1, <1>2 DEF Killed, DeployInv, TypeOK, config
<1>4. QED
  BY <1>1, <1>2, <1>3 DEF Killed, At, config, DeployInv,
           CurrentStands, RelReady, PrevReady, CurrentAsSwitched,
           RunsAsChecked, RunningBoots, Standing, Switching

\* rollback.sh begins, with a release that is there.
LEMMA RollbackPickStep ==
    ASSUME OneAtATime, DeployInv, NEW s \in Scripts, RollbackPick(s)
    PROVE  DeployInv'
<1>1. /\ \A t \in Scripts : t = s
      /\ script \in [Scripts -> Script] /\ script[s] \in Script
      /\ Nothing \notin Release
  BY Alone
<1>2. PICK i \in DOMAIN dirs :
         script' = [script EXCEPT ![s] = [Idle EXCEPT !.pc = "roll", !.rel = dirs[i]]]
  BY DEF RollbackPick
<1>3. dirs[i] \in Release
  BY DEF DeployInv, TypeOK
<1>4. TypeOK'
  BY <1>1, <1>2, <1>3 DEF RollbackPick, Idle, Script, DeployInv, TypeOK, config
<1>5. script'[s].pc = "roll" /\ script'[s].rel \in ToSet(dirs)
  BY <1>1, <1>2 DEF Idle, ToSet
<1>6. UNCHANGED <<dirs, complete, sound, current, running, picked>>
  BY DEF RollbackPick
<1>7. RelReady' /\ PrevReady' /\ CurrentAsSwitched' /\ RunsAsChecked'
  BY <1>1, <1>5, <1>6 DEF RelReady, PrevReady, CurrentAsSwitched, RunsAsChecked, Switching
<1>8. CurrentStands' /\ RunningBoots'
  BY <1>6 DEF DeployInv, CurrentStands, RunningBoots, Standing
<1>9. QED
  BY <1>4, <1>7, <1>8 DEF DeployInv

\* rollback.sh switches current.
LEMMA RollbackFlipStep ==
    ASSUME OneAtATime, DeployInv, NEW s \in Scripts, RollbackFlip(s)
    PROVE  DeployInv'
<1>1. /\ \A t \in Scripts : t = s
      /\ script \in [Scripts -> Script] /\ script[s] \in Script
      /\ Nothing \notin Release
  BY Alone
<1>2. /\ script' \in [Scripts -> Script]
      /\ script'[s].pc = "restart roll" /\ script'[s].rel = script[s].rel
      /\ script'[s].prev = script[s].prev /\ script'[s].up = script[s].up
  BY <1>1, Steps DEF RollbackFlip, Places
<1>3. /\ script[s].pc = "roll" /\ script[s].rel \in ToSet(dirs)
      /\ current' = script[s].rel /\ picked' = picked \cup {script[s].rel}
      /\ UNCHANGED <<dirs, complete, sound, running>>
  <2>1. /\ script[s].pc = "roll"
        /\ current' = script[s].rel /\ picked' = picked \cup {script[s].rel}
        /\ UNCHANGED <<dirs, complete, sound, running>>
    BY DEF RollbackFlip, At
  <2>2. script[s].rel \in ToSet(dirs)
    BY <2>1 DEF DeployInv, RelReady
  <2>3. QED
    BY <2>1, <2>2
<1>4. TypeOK'
  <2>1. dirs \in Seq(Release)
    BY DEF DeployInv, TypeOK
  <2>2. script[s].rel \in Release
    BY <2>1, <1>3 DEF ToSet
  <2>3. QED
    BY <1>1, <1>2, <1>3, <2>2 DEF RollbackFlip, DeployInv, TypeOK, config
<1>5. RelReady' /\ PrevReady' /\ CurrentAsSwitched' /\ RunsAsChecked'
  BY <1>1, <1>2, <1>3 DEF RelReady, PrevReady, CurrentAsSwitched, RunsAsChecked, Switching
<1>6. CurrentStands'
  BY <1>3 DEF CurrentStands
<1>7. RunningBoots'
  BY <1>3 DEF DeployInv, RunningBoots, Standing
<1>8. QED
  BY <1>4, <1>5, <1>6, <1>7 DEF DeployInv

\* The process ends and systemd starts it again.
LEMMA ServerDiesStep ==
    ASSUME OneAtATime, DeployInv, ServerDies
    PROVE  DeployInv'
<1>1. /\ running' = Boot /\ Boot \in Release \cup {Nothing}
      /\ Boot # Nothing => Boot = current /\ Boot \in Standing \cap sound
      /\ current \in Standing \cap sound => Boot = current /\ Boot # Nothing
  BY Boots DEF ServerDies, Start, DeployInv
<1>2. TypeOK'
  BY <1>1 DEF ServerDies, DeployInv, TypeOK, config
<1>3. ToSet(dirs') = ToSet(dirs)
  BY DEF ServerDies
<1>4. RunsAsChecked'
  <2> SUFFICES ASSUME NEW s \in Scripts
               PROVE  /\ script[s].pc = "prune" => running' = script[s].rel
                      /\ script[s].pc = "check back" /\ script[s].up => running' # Nothing
    BY DEF RunsAsChecked, ServerDies
  <2>1. CASE script[s].pc = "prune"
    <3>1. current = script[s].rel /\ running = script[s].rel
      BY <2>1 DEF DeployInv, RunsAsChecked, CurrentAsSwitched
    <3>2. current \in Standing \cap sound
      BY <3>1, <2>1 DEF DeployInv, RunningBoots, ServerDies
    <3>3. QED
      BY <1>1, <2>1, <3>1, <3>2
  <2>2. CASE script[s].pc = "check back"
    BY <1>1, <2>2 DEF DeployInv, CurrentAsSwitched, PrevReady, Switching
  <2>3. QED
    BY <2>1, <2>2
<1>5. QED
  BY <1>1, <1>2, <1>3, <1>4 DEF ServerDies, config, DeployInv, CurrentStands, RelReady,
           PrevReady, CurrentAsSwitched, RunningBoots, Standing

\* Saving the config moves the release that runs to the front.
LEMMA ChangeStep ==
    ASSUME OneAtATime, DeployInv, Change
    PROVE  DeployInv'
<1>1. /\ dirs' \in Seq(Release) /\ ToSet(dirs') = ToSet(dirs)
      /\ \A j, k \in DOMAIN dirs' : dirs'[j] = dirs'[k] => j = k
  BY ModifiedKeeps DEF Change, DeployInv
<1>2. /\ shared' = shared /\ saved' \in 0..MaxChanges
      /\ own' \in [Release -> 0..MaxChanges]
  BY DeployAssumption DEF Change, DeployInv, TypeOK
<1>3. TypeOK'
  BY <1>1, <1>2 DEF Change, DeployInv, TypeOK
<1>4. QED
  BY <1>1, <1>3 DEF Change, DeployInv, CurrentStands, RelReady, PrevReady, CurrentAsSwitched,
           RunsAsChecked, RunningBoots, Standing

LEMMA DeployStutters ==
    ASSUME DeployInv, UNCHANGED vars
    PROVE  DeployInv'
<1>1. TypeOK'
  BY DEF DeployInv, TypeOK, vars, config
<1>2. QED
  BY <1>1 DEF DeployInv, vars, config, CurrentStands, RelReady, PrevReady, CurrentAsSwitched,
           RunsAsChecked, RunningBoots, Standing

LEMMA DeployStep ==
    ASSUME OneAtATime, DeployInv, [Next]_vars
    PROVE  DeployInv'
<1>1. CASE \E s \in Scripts :
              \/ Rsync(s) \/ Finalize(s) \/ Record(s) \/ Flip(s) \/ Restart(s) \/ Check(s)
              \/ Prune(s) \/ Back(s) \/ CheckBack(s) \/ Killed(s)
              \/ RollbackPick(s) \/ RollbackFlip(s)
  BY <1>1, RsyncStep, FinalizeStep, RecordStep, FlipStep, RestartStep, CheckStep, PruneStep,
     BackStep, CheckBackStep, KilledStep, RollbackPickStep, RollbackFlipStep
<1>2. CASE ServerDies
  BY <1>2, ServerDiesStep
<1>3. CASE Change
  BY <1>3, ChangeStep
<1>4. CASE UNCHANGED vars
  BY <1>4, DeployStutters
<1>5. QED
  BY <1>1, <1>2, <1>3, <1>4 DEF Next

LEMMA DeployInvariant == ASSUME OneAtATime PROVE Spec => []DeployInv
<1>1. OneAtATime /\ DeployInv /\ [Next]_vars => DeployInv'
  BY DeployStep
<1>2. QED
  BY <1>1, DeployInit, PTL DEF Spec

-----------------------------------------------------------------------------
\* However deploys are interrupted, at any Keep, before and after rollbacks,
\* current names a release that is there, and that is complete unless it is one
\* rollback.sh itself chose (deploy.sh:86-111, rollback.sh).
THEOREM CurrentAlwaysStands == ASSUME OneAtATime PROVE Spec => []CurrentStands
<1>1. DeployInv => CurrentStands
  BY DEF DeployInv
<1>2. QED
  BY <1>1, DeployInvariant, PTL

\* The directory of the server that runs is never pruned (deploy.sh:100-111).
THEOREM ServerKeepsItsDirectory == ASSUME OneAtATime PROVE Spec => []RunningStays
<1>1. DeployInv => RunningStays
  BY DEF DeployInv, RunningBoots, RunningStays, Standing
<1>2. QED
  BY <1>1, DeployInvariant, PTL

\* A deploy that finds the box up on its current release decides with it up,
\* whatever the new release does (deploy.sh:96-129).
THEOREM DeploysLeaveItUp == ASSUME OneAtATime PROVE Spec => []NoDowntimeLeft
<1>1. DeployInv => NoDowntimeLeft
  <2> SUFFICES ASSUME DeployInv, NEW s \in Scripts, At(s, "prune")
               PROVE  running # Nothing
    BY DEF DeployInv, RunsAsChecked, NoDowntimeLeft, At
  <2>1. running \in ToSet(dirs)
    BY DEF At, DeployInv, RunsAsChecked, RelReady, Switching
  <2>2. ToSet(dirs) \subseteq Release
    BY DEF ToSet, DeployInv, TypeOK
  <2>3. QED
    BY <2>1, <2>2 DEF Release, Nothing
<1>2. QED
  BY <1>1, DeployInvariant, PTL
=============================================================================

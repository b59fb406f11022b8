--------------------------- MODULE OnboardingProof ---------------------------
(***************************************************************************)
(* Proofs about Onboarding, for any timers, keys, flows, faults and        *)
(* outside events.                                                         *)
(***************************************************************************)
EXTENDS Onboarding, TLAPS

\* Keys that are kept somewhere: in the account, in the stash or by the user.
KnownKeys == {AccountKey} \cup stash \cup warned

Keyed == {"ready", "lock", "probe", "write", "catch", "read", "setup", "answered"}
AtTimer == {"write", "read", "setup", "answered"}

\* A flow has a kept key from the time it may use it; a timer that it is setting
\* up, while connected, or that answered, has that key.
FlowSound(f) ==
    /\ flow[f].key \in {Fresh} \cup KnownKeys
    /\ flow[f].pc \in Keyed => flow[f].key \in KnownKeys
    /\ flow[f].pc \in AtTimer => flow[f].got \in Timers
    /\ flow[f].pc = "setup" /\ link[flow[f].got] = f => key[flow[f].got] = flow[f].key
    /\ flow[f].pc = "answered" /\ Provisioning(flow[f]) /\ flow[f].got \notin touched =>
          key[flow[f].got] = flow[f].key /\ flow[f].got \in final

FlowsSound == \A f \in Flows : FlowSound(f)

\* A saved key is kept, and what was provisioned has it for good.
SavedSound ==
    \A i \in DOMAIN config :
        /\ config[i][2] \in KnownKeys
        /\ config[i][3] = "provisioned" /\ config[i][1] \notin touched =>
              key[config[i][1]] = config[i][2] /\ config[i][1] \in final

OnboardingInv ==
    /\ TypeOK /\ FlowsSound /\ SavedSound
    /\ KeyNeverLost /\ SavedOnce /\ LinksReleased

-----------------------------------------------------------------------------
(***************************************************************************)
(* What every step leaves alone.                                           *)
(***************************************************************************)

Pcs == {"none", "done"} \cup Human \cup Working

Entries == Timers \X Keys \X {"adopted", "provisioned"}

\* TypeOK, but for flow and config.
BaseOK ==
    /\ job \in Jobs \cup {NoJob}
    /\ link \in [Timers -> Flows \cup {NoOne}]
    /\ key \in [Timers -> Keys \cup {Fresh}]
    /\ final \subseteq Timers
    /\ account \in BOOLEAN
    /\ listed \subseteq Timers
    /\ stash \subseteq Keys
    /\ warned \subseteq Keys
    /\ cut \subseteq Flows
    /\ pressed \subseteq Jobs
    /\ touched \subseteq Timers
    /\ outside \in 0..MaxOutside

\* No step forgets a kept key, a reset or a flow cut off, nor takes its key from a timer that
\* stays connected, or keeps its key for good and is not reset.
Gentle ==
    /\ stash \subseteq stash' /\ warned \subseteq warned'
    /\ touched \subseteq touched' /\ cut \subseteq cut'
    /\ \A t \in Timers : key[t] # Fresh =>
          /\ t \in final \ touched' => t \in final' /\ key'[t] = key[t]
          /\ link'[t] \in Flows /\ link'[t] = link[t] => key'[t] = key[t]

LEMMA Parameters ==
    /\ NoMac \notin Timers /\ AccountKey \in Keys /\ Fresh \notin Keys
    /\ NoOne \notin Flows /\ Jobs \subseteq Flows
    /\ Rest \in Flows /\ Cli \in Flows /\ NoJob \notin Flows
BY OnboardingAssumption DEF Flows

LEMMA Types ==
    ASSUME OnboardingInv
    PROVE  /\ BaseOK /\ flow \in [Flows -> Flow] /\ config \in Seq(Entries)
           /\ KnownKeys \subseteq Keys
BY Parameters DEF OnboardingInv, TypeOK, BaseOK, Entries, KnownKeys

\* A flow that does not move stays sound.
LEMMA UnmovedSound ==
    ASSUME OnboardingInv, Gentle, NEW g \in Flows, flow'[g] = flow[g],
           \A t \in Timers : link'[t] = g => link[t] = g
    PROVE  FlowSound(g)'
<1>1. /\ KnownKeys \subseteq KnownKeys' /\ Fresh \notin KnownKeys
      /\ FlowSound(g) /\ flow[g] \in Flow
  BY Types, Parameters DEF Gentle, KnownKeys, OnboardingInv, FlowsSound
<1>2. ASSUME flow[g].pc = "setup", link'[flow[g].got] = g
      PROVE  key'[flow[g].got] = flow[g].key
  <2>1. flow[g].got \in Timers /\ flow[g].key \in KnownKeys
    BY <1>1, <1>2 DEF FlowSound, AtTimer, Keyed
  <2>2. link[flow[g].got] = g /\ key[flow[g].got] = flow[g].key
    BY <1>1, <1>2, <2>1 DEF FlowSound
  <2>3. QED
    BY <1>1, <1>2, <2>1, <2>2 DEF Gentle
<1>3. ASSUME flow[g].pc = "answered", Provisioning(flow[g]), flow[g].got \notin touched'
      PROVE  key'[flow[g].got] = flow[g].key /\ flow[g].got \in final'
  <2>1. flow[g].got \in Timers /\ flow[g].key \in KnownKeys
    BY <1>1, <1>3 DEF FlowSound, AtTimer, Keyed
  <2>2. key[flow[g].got] = flow[g].key /\ flow[g].got \in final
    BY <1>1, <1>3 DEF FlowSound, Gentle
  <2>3. QED
    BY <1>1, <1>3, <2>1, <2>2 DEF Gentle
<1>4. QED
  BY <1>1, <1>2, <1>3 DEF FlowSound, Provisioning

\* So does what is saved.
LEMMA ConfigStays ==
    ASSUME OnboardingInv, Gentle, config' = config
    PROVE  config' \in Seq(Entries) /\ SavedSound' /\ SavedOnce'
<1>1. /\ config \in Seq(Entries) /\ SavedSound /\ SavedOnce
      /\ KnownKeys \subseteq KnownKeys' /\ Fresh \notin KnownKeys
  BY Types, Parameters DEF Gentle, KnownKeys, OnboardingInv
<1>2. \A i \in DOMAIN config : config[i][1] \in Timers
  BY <1>1 DEF Entries
<1>3. SavedSound'
  BY <1>1, <1>2 DEF SavedSound, Gentle
<1>4. QED
  BY <1>1, <1>3 DEF SavedOnce

\* The invariant after a step in which only the flows of fs move.
LEMMA StepSound ==
    ASSUME OnboardingInv, NEW fs \in SUBSET Flows,
           BaseOK', Gentle, KeyNeverLost',
           flow' \in [Flows -> Flow],
           \A g \in Flows \ fs : flow'[g] = flow[g],
           \A f \in fs : FlowSound(f)',
           \A t \in Timers : link'[t] \in Flows \ fs => link'[t] = link[t],
           \A t \in Timers : link'[t] \in fs => \/ flow'[link'[t]].pc \in Linked
                                             \/ link'[t] \in cut',
           config' \in Seq(Entries), SavedSound', SavedOnce'
    PROVE  OnboardingInv'
<1>1. TypeOK'
  BY DEF TypeOK, BaseOK, Entries
<1>2. ASSUME NEW g \in Flows PROVE FlowSound(g)'
  <2>1. CASE g \in fs
    BY <2>1
  <2>2. CASE g \notin fs
    BY <2>2, UnmovedSound
  <2>3. QED
    BY <2>1, <2>2
<1>3. ASSUME NEW t \in Timers, link'[t] \in Flows
      PROVE  flow'[link'[t]].pc \in Linked \/ link'[t] \in cut'
  <2>1. CASE link'[t] \in fs
    BY <2>1
  <2>2. CASE link'[t] \notin fs
    <3>1. link'[t] = link[t] /\ flow'[link[t]] = flow[link[t]]
      BY <1>3, <2>2
    <3>2. flow[link[t]].pc \in Linked \/ link[t] \in cut
      BY <1>3, <3>1 DEF OnboardingInv, LinksReleased
    <3>3. QED
      BY <3>1, <3>2 DEF Gentle
  <2>3. QED
    BY <2>1, <2>2
<1>4. QED
  BY <1>1, <1>2, <1>3 DEF OnboardingInv, FlowsSound, LinksReleased

LEMMA UnbornType ==
    /\ Unborn \in Flow /\ Over \in Flow
    /\ Unborn.pc = "none" /\ Over.pc = "done" /\ Unborn.key = Fresh /\ Over.key = Fresh
<1>1. 1 \in 1..ReconnectAttempts
  BY OnboardingAssumption
<1>2. Unborn \in Flow
  BY <1>1 DEF Unborn, Flow, JobModes
<1>3. Over \in Flow /\ Over.pc = "done" /\ Over.key = Fresh
  BY <1>2 DEF Over, Flow, Unborn
<1>4. QED
  BY <1>2, <1>3 DEF Unborn

\* Where a flow goes, it knows what r says.
LEMMA Goes ==
    ASSUME flow \in [Flows -> Flow], NEW f \in Flows, NEW r \in Flow, NEW pc \in Pcs, Go(f, r, pc)
    PROVE  /\ flow' \in [Flows -> Flow]
           /\ \A g \in Flows \ {f} : flow'[g] = flow[g]
           /\ flow'[f].pc = pc
           /\ pc = "done" => flow'[f].key = Fresh
           /\ pc # "done" => /\ flow'[f].mode = r.mode /\ flow'[f].key = r.key
                             /\ flow'[f].want = r.want /\ flow'[f].got = r.got
<1>1. CASE pc = "done"
  <2>1. flow' = [flow EXCEPT ![f] = Over]
    BY <1>1 DEF Go
  <2>2. Over \in Flow /\ Over.pc = "done" /\ Over.key = Fresh
    BY UnbornType
  <2>3. QED
    BY <1>1, <2>1, <2>2
<1>2. CASE pc # "done"
  <2> DEFINE q == [r EXCEPT !.pc = pc]
  <2>1. flow' = [flow EXCEPT ![f] = q]
    BY <1>2 DEF Go
  <2>2. /\ q \in Flow /\ q.pc = pc /\ q.mode = r.mode /\ q.key = r.key
        /\ q.want = r.want /\ q.got = r.got
    BY DEF Flow, Pcs
  <2> HIDE DEF q
  <2>3. QED
    BY <1>2, <2>1, <2>2
<1>3. QED
  BY <1>1, <1>2

\* The invariant after a step of one flow that saves nothing.
LEMMA FlowStep ==
    ASSUME OnboardingInv, NEW f \in Flows, NEW r \in Flow, NEW pc \in Pcs, Go(f, r, pc),
           BaseOK', Gentle, KeyNeverLost', config' = config,
           \A t \in Timers : link'[t] \in Flows \ {f} => link'[t] = link[t],
           \A t \in Timers : link'[t] = f => pc \in Linked \/ f \in cut',
           r.key \in {Fresh} \cup KnownKeys',
           pc \in Keyed => r.key \in KnownKeys',
           pc \in AtTimer => r.got \in Timers,
           pc = "setup" => (link'[r.got] = f => key'[r.got] = r.key),
           pc = "answered" => (Provisioning(r) /\ r.got \notin touched' =>
                                  key'[r.got] = r.key /\ r.got \in final')
    PROVE  OnboardingInv'
<1>1. /\ flow' \in [Flows -> Flow]
      /\ \A g \in Flows \ {f} : flow'[g] = flow[g]
      /\ flow'[f].pc = pc
      /\ pc = "done" => flow'[f].key = Fresh
      /\ pc # "done" => /\ flow'[f].mode = r.mode /\ flow'[f].key = r.key
                        /\ flow'[f].want = r.want /\ flow'[f].got = r.got
  BY Types, Goes
<1>2. FlowSound(f)'
  <2>1. CASE pc = "done"
    BY <1>1, <2>1 DEF FlowSound, Keyed, AtTimer
  <2>2. CASE pc # "done"
    BY <1>1, <2>2 DEF FlowSound, Provisioning
  <2>3. QED
    BY <2>1, <2>2
<1>3. config' \in Seq(Entries) /\ SavedSound' /\ SavedOnce'
  BY ConfigStays
<1>4. {f} \in SUBSET Flows
  OBVIOUS
<1>5. QED
  BY <1>1, <1>2, <1>3, <1>4, StepSound

\* The same where it only thinks: nothing on the radio changes.
LEMMA QuietStep ==
    ASSUME OnboardingInv, NEW f \in Flows, NEW r \in Flow, NEW pc \in Pcs, Go(f, r, pc),
           UNCHANGED <<link, key, final, touched, cut, job, account, listed, outside, config>>,
           pressed' \subseteq Jobs, stash \subseteq stash', stash' \subseteq Keys,
           warned \subseteq warned', warned' \subseteq Keys,
           flow[f].pc \in Linked => pc \in Linked,
           r.key \in {Fresh} \cup KnownKeys',
           pc \in Keyed => r.key \in KnownKeys',
           pc \in AtTimer => r.got \in Timers,
           pc = "setup" => (link[r.got] = f => key[r.got] = r.key),
           pc = "answered" => ~Provisioning(r)
    PROVE  OnboardingInv'
<1>1. BaseOK'
  BY Types DEF BaseOK
<1>2. Gentle
  BY DEF Gentle
<1>3. KeyNeverLost'
  BY DEF OnboardingInv, KeyNeverLost
<1>4. \A t \in Timers : link'[t] = f => pc \in Linked \/ f \in cut'
  BY DEF OnboardingInv, LinksReleased
<1>5. QED
  BY <1>1, <1>2, <1>3, <1>4, FlowStep
-----------------------------------------------------------------------------
(***************************************************************************)
(* The steps of a flow.                                                    *)
(***************************************************************************)

LEMMA OnboardingInit == Init => OnboardingInv
<1> SUFFICES ASSUME Init PROVE OnboardingInv
  OBVIOUS
<1>1. /\ flow \in [Flows -> Flow] /\ \A f \in Flows : flow[f] = Unborn
      /\ link \in [Timers -> Flows \cup {NoOne}]
      /\ key \in [Timers -> Keys \cup {Fresh}]
      /\ \A t \in Timers : key[t] \in {Fresh, AccountKey} /\ link[t] = NoOne
  BY UnbornType, Parameters DEF Init
<1>2. config \in Seq(Timers \X Keys \X {"adopted", "provisioned"}) /\ DOMAIN config = {}
  BY DEF Init
<1>3. TypeOK
  <2>1. 0 \in 0..MaxOutside /\ Listed \subseteq Timers
    BY OnboardingAssumption
  <2>2. /\ job \in Jobs \cup {NoJob} /\ final \subseteq Timers /\ account \in BOOLEAN
        /\ listed \subseteq Timers /\ stash \subseteq Keys /\ warned \subseteq Keys
        /\ cut \subseteq Flows /\ pressed \subseteq Jobs
        /\ touched \subseteq Timers /\ outside \in 0..MaxOutside
    BY <2>1 DEF Init
  <2>3. QED
    BY <1>1, <1>2, <2>2, Zenon DEF TypeOK
<1>4. FlowsSound
  BY <1>1, UnbornType DEF FlowsSound, FlowSound, Keyed, AtTimer
<1>5. LinksReleased
  BY <1>1, Parameters DEF LinksReleased
<1>6. QED
  BY <1>1, <1>2, <1>3, <1>4, <1>5 DEF OnboardingInv, SavedSound, KeyNeverLost, SavedOnce

LEMMA OtherStartStep ==
    ASSUME OnboardingInv, NEW f \in {Rest, Cli}, NEW mode \in CliModes,
           NEW want \in Timers \cup {NoMac}, OtherStart(f, mode, want)
    PROVE  OnboardingInv'
<1> DEFINE r == [Unborn EXCEPT !.mode = mode, !.want = want]
<1>1. f \in Flows /\ flow[f].pc = "none"
  BY Parameters DEF OtherStart, MayBegin
<1>2. r \in Flow /\ r.key = Fresh
  BY UnbornType DEF Flow
<1>3. /\ Go(f, r, "begin") /\ pressed' \subseteq Jobs
      /\ stash' \subseteq Keys /\ warned' \subseteq Keys
  BY Types DEF OtherStart, store, secrets, BaseOK
<1> HIDE DEF r
<1>4. QED
  BY <1>1, <1>2, <1>3, QuietStep
     DEF OtherStart, radio, store, secrets, Pcs, Working, Linked, Keyed, AtTimer

\* What is the case while a flow is on its way.
LEMMA FlowFacts ==
    ASSUME OnboardingInv, NEW f \in Flows
    PROVE  /\ flow[f] \in Flow /\ FlowSound(f)
           /\ flow[f].key \in Keys \cup {Fresh} /\ flow[f].seen \in SUBSET Timers
           /\ flow[f].want \in Timers \cup {NoMac} /\ flow[f].got \in Timers \cup {NoMac}
           /\ Fresh \notin KnownKeys /\ KnownKeys \subseteq Keys /\ AccountKey \in KnownKeys
<1>1. flow[f] \in Flow /\ FlowSound(f)
  BY Types DEF OnboardingInv, FlowsSound
<1>2. QED
  BY <1>1, Types, Parameters DEF Flow, KnownKeys

\* SelfKey: the new key is stashed as it is made, or the user is told of it, or
\* the flow is over.
LEMMA SelfKeyStep ==
    ASSUME OnboardingInv, NEW f \in Flows, NEW r \in Flow, SelfKey(f, r),
           r.key \in {Fresh} \cup KnownKeys, flow[f].pc \notin Linked,
           UNCHANGED <<link, key, final, touched, cut, job, account, listed, outside, config>>,
           pressed' \subseteq Jobs
    PROVE  OnboardingInv'
<1>1. stash \subseteq Keys /\ warned \subseteq Keys
  BY Types DEF BaseOK
<1>2. ASSUME NEW k \in Unused, Go(f, [r EXCEPT !.key = k], "ready"),
             stash' \cup warned' = stash \cup warned \cup {k},
             stash \subseteq stash', warned \subseteq warned'
      PROVE  OnboardingInv'
  <2> DEFINE q == [r EXCEPT !.key = k]
  <2>1. k \in Keys
    BY DEF Unused
  <2>2. q \in Flow /\ q.key = k
    BY <2>1 DEF Flow
  <2>3. k \in KnownKeys' /\ stash' \subseteq Keys /\ warned' \subseteq Keys
    BY <1>1, <1>2, <2>1 DEF KnownKeys
  <2>4. Go(f, q, "ready")
    BY <1>2
  <2> HIDE DEF q
  <2>5. QED
    BY <1>2, <2>2, <2>3, <2>4, QuietStep DEF Pcs, Human, AtTimer
<1>3. CASE Go(f, r, "done") /\ UNCHANGED secrets
  <2>1. KnownKeys' = KnownKeys /\ stash' = stash /\ warned' = warned
    BY <1>3 DEF KnownKeys, secrets
  <2>2. QED
    BY <1>1, <1>3, <2>1, QuietStep DEF Pcs, Keyed, AtTimer
<1>4. QED
  BY <1>2, <1>3 DEF SelfKey

\* The key a flow starts with is the account's, a saved one, or just stashed.
LEMMA BeginStep ==
    ASSUME OnboardingInv, NEW f \in Flows, Begin(f)
    PROVE  OnboardingInv'
<1>0. /\ flow[f] \in Flow /\ FlowSound(f)
      /\ flow[f].key \in Keys \cup {Fresh} /\ flow[f].seen \in SUBSET Timers
      /\ flow[f].want \in Timers \cup {NoMac} /\ flow[f].got \in Timers \cup {NoMac}
      /\ Fresh \notin KnownKeys /\ KnownKeys \subseteq Keys /\ AccountKey \in KnownKeys
  BY FlowFacts
<1>1. /\ UNCHANGED <<link, key, final, touched, cut, job, account, listed, outside, config>>
      /\ pressed' \subseteq Jobs
  BY Types DEF Begin, radio, BaseOK
<1>2. flow[f].pc = "begin"
  BY DEF Begin
<1>3. CASE SelfKey(f, flow[f])
  BY <1>0, <1>1, <1>2, <1>3, SelfKeyStep DEF Linked, FlowSound
<1>4. ASSUME NEW pc \in {"done", "cloud"}, Go(f, flow[f], pc), UNCHANGED secrets
      PROVE  OnboardingInv'
  <2>1. pc \in Pcs /\ pc \notin Keyed /\ pc \notin AtTimer
    BY DEF Pcs, Working, Keyed, AtTimer
  <2>2. /\ stash' = stash /\ stash' \subseteq Keys /\ warned' = warned /\ warned' \subseteq Keys
        /\ KnownKeys' = KnownKeys
    BY <1>4, Types DEF BaseOK, KnownKeys, secrets
  <2>3. flow[f].key \in {Fresh} \cup KnownKeys /\ flow[f].pc \notin Linked
    BY <1>0, <1>2 DEF FlowSound, Linked
  <2>4. QED
    BY <1>0, <1>1, <1>4, <2>1, <2>2, <2>3, QuietStep DEF AtTimer
<1>5. ASSUME NEW k \in KnownKeys, NEW pc \in {"ready", "lock"}, UNCHANGED secrets,
             Go(f, [flow[f] EXCEPT !.key = k], pc)
      PROVE  OnboardingInv'
  <2> DEFINE r == [flow[f] EXCEPT !.key = k]
  <2>1. pc \in Pcs /\ pc \notin AtTimer /\ flow[f].pc \notin Linked
    BY <1>2 DEF Pcs, Human, Working, Linked, AtTimer
  <2>2. r \in Flow /\ r.key = k
    BY <1>0 DEF Flow
  <2>3. /\ stash' = stash /\ stash' \subseteq Keys /\ warned' = warned /\ warned' \subseteq Keys
        /\ KnownKeys' = KnownKeys
    BY <1>5, Types DEF BaseOK, KnownKeys, secrets
  <2> HIDE DEF r
  <2>4. Go(f, r, pc)
    BY <1>5 DEF r
  <2>5. QED
    BY <1>1, <1>5, <2>1, <2>2, <2>3, <2>4, QuietStep DEF AtTimer
<1>6. CASE /\ Go(f, flow[f], IF flow[f].key = Fresh THEN "done" ELSE "ready")
           /\ UNCHANGED secrets
  <2>1. CASE flow[f].key = Fresh
    BY <1>4, <1>6, <2>1
  <2>2. CASE flow[f].key # Fresh
    <3>1. flow[f].key \in KnownKeys
      BY <1>0, <2>2 DEF FlowSound
    <3>2. flow[f] = [flow[f] EXCEPT !.key = flow[f].key]
      BY <1>0 DEF Flow
    <3>3. Go(f, [flow[f] EXCEPT !.key = flow[f].key], "ready")
      BY <1>6, <2>2, <3>2
    <3>4. QED
      BY <1>5, <1>6, <3>1, <3>3
  <2>3. QED
    BY <2>1, <2>2
<1>7. CASE /\ config # <<>> /\ UNCHANGED secrets
           /\ Go(f, [flow[f] EXCEPT !.key = SavedKey], Prepared(f))
  <2>1. 1 \in DOMAIN config
    BY <1>7, Types
  <2>2. SavedKey \in KnownKeys
    BY <2>1 DEF OnboardingInv, SavedSound, SavedKey
  <2>3. Prepared(f) \in {"ready", "lock"}
    BY DEF Prepared
  <2>4. QED
    BY <1>5, <1>7, <2>2, <2>3
<1>8. QED
  BY <1>3, <1>4, <1>6, <1>7 DEF Begin

\* A login brings the account's key, or a choice.
LEMMA LoginStep ==
    ASSUME OnboardingInv, NEW f \in Flows, Login(f)
    PROVE  OnboardingInv'
<1>0. /\ flow[f] \in Flow /\ FlowSound(f)
      /\ flow[f].key \in Keys \cup {Fresh} /\ flow[f].seen \in SUBSET Timers
      /\ flow[f].want \in Timers \cup {NoMac} /\ flow[f].got \in Timers \cup {NoMac}
      /\ Fresh \notin KnownKeys /\ KnownKeys \subseteq Keys /\ AccountKey \in KnownKeys
  BY FlowFacts
<1>1. /\ UNCHANGED <<link, key, final, touched, cut, job, account, listed, outside, config, stash, warned>>
      /\ pressed' \subseteq Jobs /\ stash' \subseteq Keys /\ warned' \subseteq Keys /\ KnownKeys' = KnownKeys
      /\ flow[f].pc = "cloud"
  BY Types DEF Login, radio, store, secrets, BaseOK, KnownKeys
<1>2. ASSUME NEW t \in Timers, NEW pc \in {"ready", "lock"},
             Go(f, [flow[f] EXCEPT !.key = AccountKey, !.want = t], pc)
      PROVE  OnboardingInv'
  <2> DEFINE r == [flow[f] EXCEPT !.key = AccountKey, !.want = t]
  <2>1. r \in Flow /\ r.key = AccountKey
    BY <1>0 DEF Flow
  <2>2. pc \in Pcs /\ pc \notin AtTimer /\ flow[f].pc \notin Linked
    BY <1>1 DEF Pcs, Human, Working, Linked, AtTimer
  <2> HIDE DEF r
  <2>3. Go(f, r, pc)
    BY <1>2 DEF r
  <2>4. QED
    BY <1>0, <1>1, <1>2, <2>1, <2>2, <2>3, QuietStep DEF AtTimer
<1>3. ASSUME NEW seen \in SUBSET Timers, NEW pc \in {"done", "pick", "choose"},
             Go(f, [flow[f] EXCEPT !.seen = seen], pc)
      PROVE  OnboardingInv'
  <2> DEFINE r == [flow[f] EXCEPT !.seen = seen]
  <2>1. r \in Flow /\ r.key = flow[f].key /\ r.got = flow[f].got
    BY <1>0 DEF Flow
  <2>2. pc \in Pcs /\ pc \notin AtTimer /\ pc \notin Keyed /\ flow[f].pc \notin Linked
    BY <1>1 DEF Pcs, Human, Working, Linked, AtTimer, Keyed
  <2> HIDE DEF r
  <2>3. Go(f, r, pc)
    BY <1>3 DEF r
  <2>4. r.key \in {Fresh} \cup KnownKeys
    BY <1>0, <2>1 DEF FlowSound
  <2>5. QED
    BY <1>1, <1>3, <2>1, <2>2, <2>3, <2>4, QuietStep DEF AtTimer
<1>4. flow[f] = [flow[f] EXCEPT !.seen = flow[f].seen]
  BY <1>0 DEF Flow
<1>5. listed \in SUBSET Timers /\ listed \cap {flow[f].want} \in SUBSET Timers
  BY Types DEF BaseOK
<1> DEFINE found == Obtainable(flow[f])
<1>6. found \in SUBSET Timers
  BY <1>5 DEF Obtainable
<1>7. \/ \E t \in found : Go(f, [flow[f] EXCEPT !.key = AccountKey, !.want = t], Prepared(f))
      \/ Go(f, flow[f], "done")
      \/ Go(f, [flow[f] EXCEPT !.seen = found], "pick")
      \/ Go(f, flow[f], IF f \in Jobs THEN "choose" ELSE "done")
  BY DEF Login
<1> HIDE DEF found
<1>8. Prepared(f) \in {"ready", "lock"}
  BY DEF Prepared
<1>9. QED
  BY <1>0, <1>2, <1>3, <1>4, <1>6, <1>7, <1>8


-----------------------------------------------------------------------------
(***************************************************************************)
(* The steps a human lets pass.                                            *)
(***************************************************************************)

LEMMA PassedFacts ==
    ASSUME OnboardingInv, NEW f \in Flows
    PROVE  /\ Passed(f) \in Flow
           /\ Passed(f).key = flow[f].key /\ Passed(f).got = flow[f].got
           /\ Passed(f).mode = flow[f].mode /\ Passed(f).want = flow[f].want
BY FlowFacts DEF Passed, Flow

\* After a prompt a flow goes where r says, with a kept key if it needs one.
LEMMA PassStep ==
    ASSUME OnboardingInv, NEW f \in Flows, NEW at \in Human, Pass(f, at), UNCHANGED secrets,
           NEW r \in Flow, NEW pc \in {"done", "cloud", "app", "ready", "probe", "catch"},
           Go(f, r, pc),
           r.key \in {Fresh} \cup KnownKeys,
           pc \in Keyed => r.key \in KnownKeys
    PROVE  OnboardingInv'
<1>1. /\ UNCHANGED <<link, key, final, touched, cut, job, account, listed, outside, config>>
      /\ pressed' \subseteq Jobs /\ stash' \subseteq Keys /\ warned' \subseteq Keys /\ KnownKeys' = KnownKeys
      /\ stash' = stash /\ warned' = warned
  BY Types DEF Pass, radio, secrets, BaseOK, KnownKeys
<1>2. flow[f].pc \notin Linked /\ pc \in Pcs /\ pc \notin AtTimer
  BY DEF Pass, Human, Linked, Pcs, Working, AtTimer
<1>3. QED
  BY <1>1, <1>2, QuietStep DEF AtTimer

LEMMA PickStep ==
    ASSUME OnboardingInv, NEW f \in Flows, Pick(f)
    PROVE  OnboardingInv'
<1>0. /\ flow[f] \in Flow /\ FlowSound(f)
      /\ flow[f].key \in Keys \cup {Fresh} /\ flow[f].seen \in SUBSET Timers
      /\ flow[f].want \in Timers \cup {NoMac} /\ flow[f].got \in Timers \cup {NoMac}
      /\ Fresh \notin KnownKeys /\ KnownKeys \subseteq Keys /\ AccountKey \in KnownKeys
  BY FlowFacts
<1>1. Pass(f, "pick") /\ UNCHANGED secrets /\ "pick" \in Human
  BY DEF Pick, Human
<1>2. PICK c \in Choices :
         LET r == [Passed(f) EXCEPT !.seen = {}]
         IN  \/ /\ c \in flow[f].seen
                /\ Go(f, [r EXCEPT !.key = AccountKey, !.want = c], "ready")
             \/ /\ c \notin flow[f].seen
                /\ Go(f, r, IF f = Cli THEN "done" ELSE "cloud")
  BY DEF Pick
<1> DEFINE r == [Passed(f) EXCEPT !.seen = {}]
           q == [r EXCEPT !.key = AccountKey, !.want = c]
<1>3. r \in Flow /\ r.key \in {Fresh} \cup KnownKeys
  BY <1>0, PassedFacts DEF Flow, FlowSound
<1>4. CASE c \in flow[f].seen /\ Go(f, q, "ready")
  <2>1. q \in Flow /\ q.key = AccountKey
    BY <1>0, <1>3, <1>4 DEF Flow
  <2> HIDE DEF q
  <2>2. QED
    BY <1>0, <1>1, <1>4, <2>1, PassStep
<1>5. CASE Go(f, r, IF f = Cli THEN "done" ELSE "cloud")
  <2> HIDE DEF r
  <2>1. (IF f = Cli THEN "done" ELSE "cloud") \in {"done", "cloud"}
    OBVIOUS
  <2>2. QED
    BY <1>1, <1>3, <1>5, <2>1, PassStep DEF Keyed
<1>6. QED
  BY <1>2, <1>4, <1>5

LEMMA ChooseStep ==
    ASSUME OnboardingInv, NEW f \in Flows, Choose(f)
    PROVE  OnboardingInv'
<1>0. /\ flow[f] \in Flow /\ FlowSound(f)
      /\ flow[f].key \in Keys \cup {Fresh} /\ flow[f].seen \in SUBSET Timers
      /\ flow[f].want \in Timers \cup {NoMac} /\ flow[f].got \in Timers \cup {NoMac}
      /\ Fresh \notin KnownKeys /\ KnownKeys \subseteq Keys /\ AccountKey \in KnownKeys
  BY FlowFacts
<1>1. Pass(f, "choose") /\ "choose" \in Human
  BY DEF Choose, Human
<1>2. Passed(f) \in Flow /\ Passed(f).key \in {Fresh} \cup KnownKeys
  BY <1>0, PassedFacts DEF FlowSound
<1>3. CASE Go(f, Passed(f), "app") /\ UNCHANGED secrets
  BY <1>1, <1>2, <1>3, PassStep DEF Keyed
<1>4. CASE SelfKey(f, Passed(f))
  <2>1. /\ UNCHANGED <<link, key, final, touched, cut, job, account, listed, outside, config>>
        /\ pressed' \subseteq Jobs /\ flow[f].pc \notin Linked
    BY <1>1, Types DEF Pass, radio, BaseOK, Linked
  <2>2. QED
    BY <1>2, <1>4, <2>1, SelfKeyStep
<1>5. QED
  BY <1>3, <1>4 DEF Choose

LEMMA AppDoneStep ==
    ASSUME OnboardingInv, NEW f \in Flows, AppDone(f)
    PROVE  OnboardingInv'
<1>0. /\ flow[f] \in Flow /\ FlowSound(f)
      /\ flow[f].key \in Keys \cup {Fresh} /\ flow[f].seen \in SUBSET Timers
      /\ flow[f].want \in Timers \cup {NoMac} /\ flow[f].got \in Timers \cup {NoMac}
      /\ Fresh \notin KnownKeys /\ KnownKeys \subseteq Keys /\ AccountKey \in KnownKeys
  BY FlowFacts
<1>1. Pass(f, "app") /\ "app" \in Human /\ Go(f, Passed(f), "cloud") /\ UNCHANGED secrets
  BY DEF AppDone, Human
<1>2. Passed(f) \in Flow /\ Passed(f).key \in {Fresh} \cup KnownKeys
  BY <1>0, PassedFacts DEF FlowSound
<1>3. QED
  BY <1>1, <1>2, PassStep DEF Keyed

LEMMA ReadyStep ==
    ASSUME OnboardingInv, NEW f \in Flows, Ready(f)
    PROVE  OnboardingInv'
<1>0. /\ flow[f] \in Flow /\ FlowSound(f)
      /\ flow[f].key \in Keys \cup {Fresh} /\ flow[f].seen \in SUBSET Timers
      /\ flow[f].want \in Timers \cup {NoMac} /\ flow[f].got \in Timers \cup {NoMac}
      /\ Fresh \notin KnownKeys /\ KnownKeys \subseteq Keys /\ AccountKey \in KnownKeys
  BY FlowFacts
<1>1. Pass(f, "ready") /\ "ready" \in Human /\ UNCHANGED secrets
  BY DEF Ready, Human
<1>2. Passed(f) \in Flow /\ Passed(f).key \in KnownKeys
  BY <1>0, <1>1, PassedFacts DEF FlowSound, Pass, Keyed
<1>3. PICK pc \in {"probe", "catch"} : Go(f, Passed(f), pc)
  BY DEF Ready
<1>4. QED
  BY <1>1, <1>2, <1>3, PassStep


\* POST continue: only the gate changes.
LEMMA ContinueStep ==
    ASSUME OnboardingInv, OnboardContinue
    PROVE  OnboardingInv'
<1>1. job \in Flows /\ job \in Jobs
  BY Types, Parameters DEF OnboardContinue, BaseOK
<1> DEFINE r == [flow[job] EXCEPT !.set = TRUE]
<1>2. flow' = [flow EXCEPT ![job] = r]
  BY DEF OnboardContinue
<1>3. /\ r \in Flow /\ r.pc = flow[job].pc /\ r.key = flow[job].key /\ r.got = flow[job].got
      /\ r.mode = flow[job].mode /\ r.want = flow[job].want
  BY <1>1, FlowFacts DEF Flow
<1> HIDE DEF r
<1>4. /\ flow' \in [Flows -> Flow] /\ flow'[job] = r
      /\ \A g \in Flows \ {job} : flow'[g] = flow[g]
  BY <1>1, <1>2, <1>3, Types
<1>5. /\ UNCHANGED <<job, link, key, final, touched, cut, config, account, listed, stash, warned, outside>>
      /\ pressed' \subseteq Jobs
  BY <1>1, Types DEF OnboardContinue, radio, store, secrets, BaseOK
<1>6. BaseOK' /\ Gentle /\ KeyNeverLost'
  BY <1>5, Types DEF BaseOK, Gentle, OnboardingInv, KeyNeverLost
<1>7. FlowSound(job)'
  BY <1>1, <1>3, <1>4, <1>5, FlowFacts DEF FlowSound, Provisioning, KnownKeys
<1>8. config' \in Seq(Entries) /\ SavedSound' /\ SavedOnce'
  BY <1>5, <1>6, ConfigStays
<1>9. \A t \in Timers : link'[t] \in {job} => \/ flow'[link'[t]].pc \in Linked
                                              \/ link'[t] \in cut'
  <2> SUFFICES ASSUME NEW t \in Timers, link'[t] = job
               PROVE  flow'[job].pc \in Linked \/ job \in cut
    BY <1>5
  <2>1. link[t] = job
    BY <1>5
  <2>2. flow[job].pc \in Linked \/ job \in cut
    BY <1>1, <2>1 DEF OnboardingInv, LinksReleased
  <2>3. QED
    BY <1>3, <1>4, <2>2
<1>10. {job} \in SUBSET Flows /\ \A f \in {job} : FlowSound(f)'
  BY <1>1, <1>5, <1>7
<1>11. QED
  BY <1>4, <1>5, <1>6, <1>8, <1>9, <1>10, StepSound

-----------------------------------------------------------------------------
(***************************************************************************)
(* Probing, keying, catching, finalizing.                                  *)
(***************************************************************************)

\* A step of a flow on the radio's side that changes nothing there.
LEMMA LookStep ==
    ASSUME OnboardingInv, NEW f \in Flows, Quiet, link' = link, NEW r \in Flow,
           r.mode = flow[f].mode, r.key = flow[f].key, NEW pc \in Working \cup {"done"}, Go(f, r, pc),
           flow[f].pc \in Keyed,
           flow[f].pc \in Linked => pc \in Linked,
           pc \in AtTimer => r.got \in Timers,
           pc = "setup" => (link[r.got] = f => key[r.got] = r.key),
           pc = "answered" => ~Provisioning(r)
    PROVE  OnboardingInv'
<1>1. /\ UNCHANGED <<link, key, final, touched, cut, job, account, listed, outside, config>>
      /\ pressed' \subseteq Jobs /\ stash' \subseteq Keys /\ warned' \subseteq Keys
      /\ KnownKeys' = KnownKeys /\ stash' = stash /\ warned' = warned
  BY Types DEF Quiet, store, secrets, BaseOK, KnownKeys
<1>2. r.key \in KnownKeys
  BY FlowFacts DEF FlowSound
<1>3. pc \in Pcs
  BY DEF Pcs
<1>4. QED
  BY <1>1, <1>2, <1>3, QuietStep

LEMMA ProbeMissesStep ==
    ASSUME OnboardingInv, NEW f \in Flows, NEW t \in Timers, ProbeMisses(f, t)
    PROVE  OnboardingInv'
<1>0. /\ flow[f] \in Flow /\ FlowSound(f)
      /\ flow[f].key \in Keys \cup {Fresh} /\ flow[f].seen \in SUBSET Timers
      /\ flow[f].want \in Timers \cup {NoMac} /\ flow[f].got \in Timers \cup {NoMac}
      /\ Fresh \notin KnownKeys /\ KnownKeys \subseteq Keys /\ AccountKey \in KnownKeys
  BY FlowFacts
<1> DEFINE r == [flow[f] EXCEPT !.seen = @ \cup {t}]
<1>1. /\ r \in Flow /\ r.mode = flow[f].mode /\ r.key = flow[f].key
      /\ r.got = flow[f].got
  BY <1>0 DEF Flow
<1>2. Quiet /\ link' = link /\ flow[f].pc = "probe" /\ Go(f, r, "probe")
  BY DEF ProbeMisses
<1> HIDE DEF r
<1>3. QED
  BY <1>0, <1>1, <1>2, LookStep DEF Working, Linked, Keyed, AtTimer

LEMMA CatchMissStep ==
    ASSUME OnboardingInv, NEW f \in Flows, NEW t \in Timers, CatchMiss(f, t)
    PROVE  OnboardingInv'
<1>0. /\ flow[f] \in Flow /\ FlowSound(f)
      /\ flow[f].key \in Keys \cup {Fresh} /\ flow[f].seen \in SUBSET Timers
      /\ flow[f].want \in Timers \cup {NoMac} /\ flow[f].got \in Timers \cup {NoMac}
      /\ Fresh \notin KnownKeys /\ KnownKeys \subseteq Keys /\ AccountKey \in KnownKeys
  BY FlowFacts
<1> DEFINE r == [flow[f] EXCEPT !.seen = @ \cup {t}]
<1>1. /\ r \in Flow /\ r.mode = flow[f].mode /\ r.key = flow[f].key
      /\ r.got = flow[f].got
  BY <1>0 DEF Flow
<1>2. Quiet /\ link' = link /\ flow[f].pc = "catch" /\ Go(f, r, "catch")
  BY DEF CatchMiss
<1> HIDE DEF r
<1>3. QED
  BY <1>0, <1>1, <1>2, LookStep DEF Working, Linked, Keyed, AtTimer

LEMMA LockedStep ==
    ASSUME OnboardingInv, NEW f \in Flows, Locked(f)
    PROVE  OnboardingInv'
<1>0. /\ flow[f] \in Flow /\ FlowSound(f)
      /\ flow[f].key \in Keys \cup {Fresh} /\ flow[f].seen \in SUBSET Timers
      /\ flow[f].want \in Timers \cup {NoMac} /\ flow[f].got \in Timers \cup {NoMac}
      /\ Fresh \notin KnownKeys /\ KnownKeys \subseteq Keys /\ AccountKey \in KnownKeys
  BY FlowFacts
<1>1. Quiet /\ link' = link /\ flow[f].pc = "lock" /\ Go(f, flow[f], "catch")
  BY DEF Locked
<1>2. QED
  BY <1>0, <1>1, LookStep DEF Working, Linked, Keyed, AtTimer

\* The attempts stay within reconnect_attempts.
LEMMA CatchTimeoutStep ==
    ASSUME OnboardingInv, NEW f \in Flows, CatchTimeout(f)
    PROVE  OnboardingInv'
<1>0. /\ flow[f] \in Flow /\ FlowSound(f)
      /\ flow[f].key \in Keys \cup {Fresh} /\ flow[f].seen \in SUBSET Timers
      /\ flow[f].want \in Timers \cup {NoMac} /\ flow[f].got \in Timers \cup {NoMac}
      /\ Fresh \notin KnownKeys /\ KnownKeys \subseteq Keys /\ AccountKey \in KnownKeys
  BY FlowFacts
<1>1. Quiet /\ link' = link /\ flow[f].pc = "catch" /\ NextTry(f, flow[f])
  BY DEF CatchTimeout
<1>2. CASE flow[f].tries < ReconnectAttempts /\ Go(f, [flow[f] EXCEPT !.seen = {}, !.tries = @ + 1], "catch")
  <2> DEFINE r == [flow[f] EXCEPT !.seen = {}, !.tries = @ + 1]
  <2>1. flow[f].tries + 1 \in 1..ReconnectAttempts
    BY <1>0, <1>2, OnboardingAssumption DEF Flow
  <2>2. r \in Flow /\ r.mode = flow[f].mode /\ r.key = flow[f].key
    BY <1>0, <2>1 DEF Flow
  <2> HIDE DEF r
  <2>3. Go(f, r, "catch")
    BY <1>2 DEF r
  <2>4. QED
    BY <1>1, <2>2, <2>3, LookStep DEF Working, Linked, Keyed, AtTimer
<1>3. CASE Go(f, flow[f], "done")
  BY <1>0, <1>1, <1>3, LookStep DEF Working, Linked, Keyed, AtTimer
<1>4. QED
  BY <1>1, <1>2, <1>3 DEF NextTry

\* A timer that answers has the flow's key.
LEMMA ReadOkStep ==
    ASSUME OnboardingInv, NEW f \in Flows, ReadOk(f)
    PROVE  OnboardingInv'
<1>0. /\ flow[f] \in Flow /\ FlowSound(f)
      /\ flow[f].key \in Keys \cup {Fresh} /\ flow[f].seen \in SUBSET Timers
      /\ flow[f].want \in Timers \cup {NoMac} /\ flow[f].got \in Timers \cup {NoMac}
      /\ Fresh \notin KnownKeys /\ KnownKeys \subseteq Keys /\ AccountKey \in KnownKeys
  BY FlowFacts
<1>1. /\ Quiet /\ link' = link /\ flow[f].pc = "read" /\ Answers(f)
      /\ Go(f, flow[f], AfterRead(flow[f]))
  BY DEF ReadOk
<1>2. flow[f].got \in Timers /\ key[flow[f].got] = flow[f].key
  BY <1>0, <1>1 DEF Answers, FlowSound, AtTimer
<1>3. CASE Provisioning(flow[f]) /\ Go(f, flow[f], "setup")
  BY <1>0, <1>1, <1>2, <1>3, LookStep DEF Working, Linked, Keyed, AtTimer
<1>4. CASE ~Provisioning(flow[f]) /\ Go(f, flow[f], "answered")
  BY <1>0, <1>1, <1>2, <1>4, LookStep DEF Working, Linked, Keyed, AtTimer
<1>5. QED
  BY <1>1, <1>3, <1>4 DEF AfterRead

\* Letting go of links.
LEMMA Disconnects ==
    ASSUME OnboardingInv, NEW f \in Flows, Disconnect(f)
    PROVE  /\ link' \in [Timers -> Flows \cup {NoOne}]
           /\ \A t \in Timers : link'[t] # f
           /\ \A t \in Timers : link'[t] \in Flows => link'[t] = link[t]
BY Types, Parameters DEF Disconnect, BaseOK

\* A flow ends or starts anew without a link; keys and finalizations only grow.
LEMMA LetsGoStep ==
    ASSUME OnboardingInv, NEW f \in Flows, Disconnect(f),
           UNCHANGED <<job, touched, cut, account, listed, stash, warned, pressed, outside>>,
           key' \in [Timers -> Keys \cup {Fresh}],
           \A t \in Timers : key[t] # Fresh => key'[t] = key[t],
           \A t \in Timers : key'[t] \in {Fresh} \cup KnownKeys,
           final \subseteq final', final' \subseteq Timers,
           config' = config,
           NEW r \in Flow, NEW pc \in {"done", "catch"}, Go(f, r, pc),
           r.key \in {Fresh} \cup KnownKeys, pc = "catch" => r.key \in KnownKeys
    PROVE  OnboardingInv'
<1>1. /\ link' \in [Timers -> Flows \cup {NoOne}]
      /\ \A t \in Timers : link'[t] # f
      /\ \A t \in Timers : link'[t] \in Flows => link'[t] = link[t]
  BY Disconnects
<1>2. BaseOK'
  BY <1>1, Types DEF BaseOK
<1>3. Gentle /\ KnownKeys' = KnownKeys
  BY DEF Gentle, KnownKeys
<1>4. KeyNeverLost'
  BY DEF KeyNeverLost, KnownKeys
<1>5. pc \in Pcs /\ pc \notin AtTimer
  BY DEF Pcs, Working, AtTimer
<1>6. QED
  BY <1>1, <1>2, <1>3, <1>4, <1>5, FlowStep DEF AtTimer, Keyed

\* The same where the timers keep what they have.
LEMMA FailStep ==
    ASSUME OnboardingInv, NEW f \in Flows, Fail(f),
           UNCHANGED <<job, touched, cut, account, listed, stash, warned, pressed, outside, key, config>>,
           final \subseteq final', final' \subseteq Timers
    PROVE  OnboardingInv'
<1>1. Go(f, Over, "done") /\ Disconnect(f) /\ Over \in Flow /\ Over.key = Fresh
  BY UnbornType DEF Fail
<1>2. /\ key' \in [Timers -> Keys \cup {Fresh}]
      /\ \A t \in Timers : key'[t] \in {Fresh} \cup KnownKeys
  BY Types DEF BaseOK, OnboardingInv, KeyNeverLost, KnownKeys
<1>3. QED
  BY <1>1, <1>2, LetsGoStep

\* A connection is made by the flow that looks for timers.
LEMMA ConnectStep ==
    ASSUME OnboardingInv, NEW f \in Flows, NEW t \in Timers, Quiet,
           link[t] = NoOne, link' = [link EXCEPT ![t] = f],
           flow[f].pc \in {"probe", "catch"},
           NEW pc \in {"probe", "read"},
           Go(f, [flow[f] EXCEPT !.seen = @ \cup {t}, !.got = t], pc)
    PROVE  OnboardingInv'
<1> DEFINE r == [flow[f] EXCEPT !.seen = @ \cup {t}, !.got = t]
<1>0. /\ flow[f] \in Flow /\ FlowSound(f) /\ flow[f].seen \in SUBSET Timers
  BY FlowFacts
<1>1. r \in Flow /\ r.key = flow[f].key /\ r.got = t
  BY <1>0 DEF Flow
<1>2. r.key \in KnownKeys /\ KnownKeys' = KnownKeys
  BY <1>0, <1>1 DEF FlowSound, Keyed, Quiet, store, secrets, KnownKeys
<1> HIDE DEF r
<1>3. Go(f, r, pc)
  BY DEF r
<1>4. /\ link' \in [Timers -> Flows \cup {NoOne}]
      /\ \A u \in Timers : link'[u] \in Flows \ {f} => link'[u] = link[u]
      /\ UNCHANGED <<key, final, touched, cut, stash, warned, job, account, listed, pressed, outside, config>>
  BY Types DEF BaseOK, Quiet, store, secrets
<1>5. BaseOK' /\ Gentle /\ KeyNeverLost'
  BY <1>4, Types DEF BaseOK, Gentle, OnboardingInv, KeyNeverLost
<1>6. pc \in Pcs /\ pc \in Linked
  BY DEF Pcs, Working, Linked
<1>7. QED
  BY <1>1, <1>2, <1>3, <1>4, <1>5, <1>6, FlowStep

LEMMA ProbeFindsStep ==
    ASSUME OnboardingInv, NEW f \in Flows, NEW t \in Timers, ProbeFinds(f, t)
    PROVE  OnboardingInv'
<1>1. /\ UNCHANGED <<job, touched, cut, account, listed, stash, warned, pressed, outside, key, config, final>>
      /\ final' \subseteq Timers
  BY Types DEF ProbeFinds, Quiet, store, secrets, BaseOK
<1>2. CASE Fail(f)
  BY <1>1, <1>2, FailStep
<1>3. CASE flow[f].got = NoMac
  BY <1>3, ConnectStep DEF ProbeFinds
<1>4. QED
  BY <1>2, <1>3 DEF ProbeFinds

LEMMA ProbeEndsStep ==
    ASSUME OnboardingInv, NEW f \in Flows, ProbeEnds(f)
    PROVE  OnboardingInv'
<1>0. /\ flow[f] \in Flow /\ FlowSound(f)
      /\ flow[f].key \in Keys \cup {Fresh} /\ flow[f].seen \in SUBSET Timers
      /\ flow[f].want \in Timers \cup {NoMac} /\ flow[f].got \in Timers \cup {NoMac}
      /\ Fresh \notin KnownKeys /\ KnownKeys \subseteq Keys /\ AccountKey \in KnownKeys
  BY FlowFacts
<1>1. /\ UNCHANGED <<job, touched, cut, account, listed, stash, warned, pressed, outside, key, config, final>>
      /\ final' \subseteq Timers
  BY Types DEF ProbeEnds, Quiet, store, secrets, BaseOK
<1>2. CASE Fail(f)
  BY <1>1, <1>2, FailStep
<1>3. CASE flow[f].got # NoMac
  BY <1>0, <1>3, LookStep DEF ProbeEnds, Working, Linked, Keyed, AtTimer
<1>4. QED
  BY <1>2, <1>3 DEF ProbeEnds

LEMMA CatchConnectStep ==
    ASSUME OnboardingInv, NEW f \in Flows, NEW t \in Timers, CatchConnect(f, t)
    PROVE  OnboardingInv'
<1>1. QED
  BY ConnectStep DEF CatchConnect

\* The key that is written is a kept one, and goes to a fresh timer only.
LEMMA TakesFacts ==
    ASSUME OnboardingInv, NEW f \in Flows, flow[f].pc = "write", TakesKey(f) \/ key' = key
    PROVE  /\ key' \in [Timers -> Keys \cup {Fresh}]
           /\ \A t \in Timers : key[t] # Fresh => key'[t] = key[t]
           /\ \A t \in Timers : key'[t] \in {Fresh} \cup KnownKeys
<1>1. /\ key \in [Timers -> Keys \cup {Fresh}]
      /\ \A t \in Timers : key[t] \in {Fresh} \cup KnownKeys
  BY Types DEF BaseOK, OnboardingInv, KeyNeverLost, KnownKeys
<1>2. flow[f].key \in KnownKeys /\ flow[f].key \in Keys
  BY FlowFacts DEF FlowSound, Keyed
<1>3. QED
  BY <1>1, <1>2 DEF TakesKey

LEMMA WriteKeyStep ==
    ASSUME OnboardingInv, NEW f \in Flows, WriteKey(f)
    PROVE  OnboardingInv'
<1>0. /\ flow[f] \in Flow /\ FlowSound(f)
      /\ flow[f].key \in Keys \cup {Fresh} /\ flow[f].seen \in SUBSET Timers
      /\ flow[f].want \in Timers \cup {NoMac} /\ flow[f].got \in Timers \cup {NoMac}
      /\ Fresh \notin KnownKeys /\ KnownKeys \subseteq Keys /\ AccountKey \in KnownKeys
  BY FlowFacts
<1> DEFINE r == [flow[f] EXCEPT !.seen = {}, !.got = NoMac]
<1>1. /\ UNCHANGED <<job, touched, cut, account, listed, stash, warned, pressed, outside, config, final>>
      /\ final' \subseteq Timers /\ flow[f].pc = "write" /\ TakesKey(f) /\ Disconnect(f)
  BY Types DEF WriteKey, store, secrets, BaseOK
<1>2. r \in Flow /\ r.key = flow[f].key /\ Go(f, r, "catch")
  BY <1>0 DEF Flow, WriteKey
<1>3. r.key \in KnownKeys
  BY <1>0, <1>1, <1>2 DEF FlowSound, Keyed
<1> HIDE DEF r
<1>4. QED
  BY <1>1, <1>2, <1>3, TakesFacts, LetsGoStep

LEMMA WriteFailsStep ==
    ASSUME OnboardingInv, NEW f \in Flows, WriteFails(f)
    PROVE  OnboardingInv'
<1>1. /\ UNCHANGED <<job, touched, cut, account, listed, stash, warned, pressed, outside, config, final>>
      /\ final' \subseteq Timers /\ flow[f].pc = "write" /\ (TakesKey(f) \/ key' = key)
  BY Types DEF WriteFails, store, secrets, BaseOK
<1>2. Go(f, Over, "done") /\ Disconnect(f) /\ Over \in Flow /\ Over.key = Fresh
  BY UnbornType DEF WriteFails, Fail
<1>3. QED
  BY <1>1, <1>2, TakesFacts, LetsGoStep

LEMMA ReadRejectedStep ==
    ASSUME OnboardingInv, NEW f \in Flows, ReadRejected(f)
    PROVE  OnboardingInv'
<1>0. /\ flow[f] \in Flow /\ FlowSound(f)
      /\ flow[f].key \in Keys \cup {Fresh} /\ flow[f].seen \in SUBSET Timers
      /\ flow[f].want \in Timers \cup {NoMac} /\ flow[f].got \in Timers \cup {NoMac}
      /\ Fresh \notin KnownKeys /\ KnownKeys \subseteq Keys /\ AccountKey \in KnownKeys
  BY FlowFacts
<1>1. /\ UNCHANGED <<job, touched, cut, account, listed, stash, warned, pressed, outside, key, config, final>>
      /\ final' \subseteq Timers
  BY Types DEF ReadRejected, Quiet, store, secrets, BaseOK
<1> DEFINE r == [flow[f] EXCEPT !.got = NoMac]
<1>2. /\ r \in Flow /\ r.key = flow[f].key /\ Go(f, r, "catch") /\ Disconnect(f)
      /\ flow[f].pc = "read"
  BY <1>0 DEF Flow, ReadRejected
<1>3. r.key \in KnownKeys
  BY <1>0, <1>2 DEF FlowSound, Keyed
<1>4. /\ key' \in [Timers -> Keys \cup {Fresh}]
      /\ \A t \in Timers : key'[t] \in {Fresh} \cup KnownKeys
  BY <1>1, Types DEF BaseOK, OnboardingInv, KeyNeverLost, KnownKeys
<1> HIDE DEF r
<1>5. QED
  BY <1>1, <1>2, <1>3, <1>4, LetsGoStep

\* The timer that is finalized is connected, so it has the flow's key.
LEMMA SetupStep ==
    ASSUME OnboardingInv, NEW f \in Flows, Setup(f)
    PROVE  OnboardingInv'
<1>0. /\ flow[f] \in Flow /\ FlowSound(f)
      /\ flow[f].key \in Keys \cup {Fresh} /\ flow[f].seen \in SUBSET Timers
      /\ flow[f].want \in Timers \cup {NoMac} /\ flow[f].got \in Timers \cup {NoMac}
      /\ Fresh \notin KnownKeys /\ KnownKeys \subseteq Keys /\ AccountKey \in KnownKeys
  BY FlowFacts
<1>1. /\ UNCHANGED <<job, link, key, touched, cut, account, listed, stash, warned, pressed, outside, config>>
      /\ final' = final \cup {flow[f].got} /\ flow[f].pc = "setup" /\ Connected(f)
      /\ Go(f, flow[f], "answered")
  BY DEF Setup, store, secrets
<1>2. /\ flow[f].got \in Timers /\ link[flow[f].got] = f /\ flow[f].key \in KnownKeys
      /\ key[flow[f].got] = flow[f].key
  BY <1>0, <1>1 DEF FlowSound, Connected, Held, AtTimer, Keyed
<1>3. /\ BaseOK' /\ Gentle /\ KeyNeverLost' /\ KnownKeys' = KnownKeys
  BY <1>1, <1>2, Types DEF BaseOK, Gentle, OnboardingInv, KeyNeverLost, KnownKeys
<1>4. "answered" \in Pcs /\ "answered" \in Linked
  BY DEF Pcs, Working, Linked
<1>5. QED
  BY <1>0, <1>1, <1>2, <1>3, <1>4, FlowStep

LEMMA SetupFailsStep ==
    ASSUME OnboardingInv, NEW f \in Flows, SetupFails(f)
    PROVE  OnboardingInv'
<1>0. /\ flow[f] \in Flow /\ FlowSound(f)
      /\ flow[f].key \in Keys \cup {Fresh} /\ flow[f].seen \in SUBSET Timers
      /\ flow[f].want \in Timers \cup {NoMac} /\ flow[f].got \in Timers \cup {NoMac}
      /\ Fresh \notin KnownKeys /\ KnownKeys \subseteq Keys /\ AccountKey \in KnownKeys
  BY FlowFacts
<1>1. /\ UNCHANGED <<job, key, touched, cut, account, listed, stash, warned, pressed, outside, config>>
      /\ final' = final \cup {flow[f].got} \/ final' = final
      /\ flow[f].pc = "setup" /\ Fail(f)
  BY DEF SetupFails, store, secrets
<1>2. final \subseteq final' /\ final' \subseteq Timers
  BY <1>0, <1>1, Types DEF FlowSound, AtTimer, BaseOK
<1>3. QED
  BY <1>1, <1>2, FailStep

-----------------------------------------------------------------------------
(***************************************************************************)
(* Saving.                                                                 *)
(***************************************************************************)

\* write_config keeps entries of before, but for the timer's own, and has its new
\* entry in one place.
LEMMA Written ==
    ASSUME config \in Seq(Entries), SavedOnce, NEW e \in Entries, WriteConfig(e)
    PROVE  /\ config' \in Seq(Entries)
           /\ \A i \in DOMAIN config' :
                 config'[i] = e \/ (i \in DOMAIN config /\ config'[i] = config[i])
           /\ SavedOnce'
<1>1. CASE \E i \in DOMAIN config : config[i][1] = e[1]
  <2>1. config' = [i \in DOMAIN config |-> IF config[i][1] = e[1] THEN e ELSE config[i]]
    BY <1>1 DEF WriteConfig
  <2>2. DOMAIN config = 1..Len(config) /\ Len(config) \in Nat
    OBVIOUS
  <2>3. \A i \in DOMAIN config : config[i] \in Entries
    OBVIOUS
  <2>4. config' \in Seq(Entries)
    BY <2>1, <2>2, <2>3
  <2>5. DOMAIN config' = DOMAIN config /\ \A i \in DOMAIN config : config'[i][1] = config[i][1]
    BY <2>1
  <2>6. SavedOnce'
    BY <2>5 DEF SavedOnce
  <2>7. QED
    BY <2>1, <2>4, <2>6
<1>2. CASE \A i \in DOMAIN config : config[i][1] # e[1]
  <2>1. config' = Append(config, e)
    BY <1>2 DEF WriteConfig
  <2>2. /\ config' \in Seq(Entries) /\ Len(config) \in Nat
        /\ DOMAIN config' = 1..(Len(config) + 1) /\ DOMAIN config = 1..Len(config)
        /\ config'[Len(config) + 1] = e
        /\ \A i \in 1..Len(config) : config'[i] = config[i]
    BY <2>1
  <2>3. \A i \in DOMAIN config' :
           (i = Len(config) + 1 /\ config'[i] = e) \/ (i \in DOMAIN config /\ config'[i] = config[i])
    BY <2>2
  <2>4. SavedOnce'
    BY <1>2, <2>3 DEF SavedOnce
  <2>5. QED
    BY <2>2, <2>3, <2>4
<1>3. QED
  BY <1>1, <1>2

\* What is saved is what answered: a key that is kept, finalized if it was written.
LEMMA FinishStep ==
    ASSUME OnboardingInv, NEW f \in Flows, Finish(f)
    PROVE  OnboardingInv'
<1>0. /\ flow[f] \in Flow /\ FlowSound(f)
      /\ flow[f].key \in Keys \cup {Fresh} /\ flow[f].seen \in SUBSET Timers
      /\ flow[f].want \in Timers \cup {NoMac} /\ flow[f].got \in Timers \cup {NoMac}
      /\ Fresh \notin KnownKeys /\ KnownKeys \subseteq Keys /\ AccountKey \in KnownKeys
  BY FlowFacts
<1> DEFINE e == <<flow[f].got, flow[f].key, IF Provisioning(flow[f]) THEN "provisioned" ELSE "adopted">>
<1>1. /\ UNCHANGED <<job, key, final, touched, cut, account, listed, stash, warned, pressed, outside>>
      /\ flow[f].pc = "answered" /\ WriteConfig(e)
      /\ Go(f, Over, "done") /\ Disconnect(f) /\ Over \in Flow
  BY UnbornType DEF Finish, Fail, secrets
<1>2. /\ flow[f].got \in Timers /\ flow[f].key \in KnownKeys
      /\ Provisioning(flow[f]) /\ flow[f].got \notin touched =>
            key[flow[f].got] = flow[f].key /\ flow[f].got \in final
  BY <1>0, <1>1 DEF FlowSound, AtTimer, Keyed
<1>3. /\ e \in Entries /\ e[1] = flow[f].got /\ e[2] = flow[f].key
      /\ e[3] = "provisioned" => Provisioning(flow[f])
  BY <1>0, <1>2 DEF Entries
<1> HIDE DEF e
<1>4. /\ config' \in Seq(Entries) /\ SavedOnce'
      /\ \A i \in DOMAIN config' :
            config'[i] = e \/ (i \in DOMAIN config /\ config'[i] = config[i])
  BY <1>1, <1>3, Written, Types DEF OnboardingInv
<1>5. SavedSound'
  <2>1. KnownKeys' = KnownKeys /\ SavedSound
    BY <1>1 DEF KnownKeys, OnboardingInv
  <2> SUFFICES ASSUME NEW i \in DOMAIN config'
               PROVE  /\ config'[i][2] \in KnownKeys
                      /\ config'[i][3] = "provisioned" /\ config'[i][1] \notin touched =>
                            key[config'[i][1]] = config'[i][2] /\ config'[i][1] \in final
    BY <1>1, <2>1 DEF SavedSound
  <2>2. CASE config'[i] = e
    BY <1>2, <1>3, <2>2
  <2>3. CASE i \in DOMAIN config /\ config'[i] = config[i]
    BY <2>1, <2>3 DEF SavedSound
  <2>4. QED
    BY <1>4, <2>2, <2>3
<1>6. /\ link' \in [Timers -> Flows \cup {NoOne}]
      /\ \A t \in Timers : link'[t] # f
      /\ \A t \in Timers : link'[t] \in Flows => link'[t] = link[t]
  BY <1>1, Disconnects
<1>7. BaseOK' /\ Gentle /\ KeyNeverLost'
  BY <1>1, <1>6, Types DEF BaseOK, Gentle, OnboardingInv, KeyNeverLost
<1>8. /\ flow' \in [Flows -> Flow] /\ flow'[f].pc = "done" /\ flow'[f].key = Fresh
      /\ \A g \in Flows \ {f} : flow'[g] = flow[g]
  BY <1>1, Goes, Types DEF Pcs
<1>9. FlowSound(f)'
  BY <1>8 DEF FlowSound, Keyed, AtTimer
<1>10. {f} \in SUBSET Flows
  OBVIOUS
<1>11. QED
  BY <1>4, <1>5, <1>6, <1>7, <1>8, <1>9, <1>10, StepSound

-----------------------------------------------------------------------------
(***************************************************************************)
(* Jobs that are given up, and what happens around the flows.              *)
(***************************************************************************)

\* A link of a flow that is given up is closed, or the flow is cut off.
LEMMA Abandons ==
    ASSUME OnboardingInv, NEW f \in Flows, Abandon(f)
    PROVE  /\ link' \in [Timers -> Flows \cup {NoOne}]
           /\ \A t \in Timers : link'[t] \in Flows => link'[t] = link[t]
           /\ \A t \in Timers : link'[t] = f => f \in cut'
           /\ cut \subseteq cut' /\ cut' \subseteq Flows
BY Types, Parameters DEF Abandon, Disconnect, BaseOK

\* The invariant after the flows of fs are begun or over, and hold only links of
\* flows that are cut off.
LEMMA GiveUpStep ==
    ASSUME OnboardingInv, NEW fs \in SUBSET Flows,
           job' \in Jobs \cup {NoJob}, outside' \in 0..MaxOutside,
           UNCHANGED <<key, final, touched, config, account, listed, stash, warned, pressed>>,
           flow' \in [Flows -> Flow],
           \A g \in Flows \ fs : flow'[g] = flow[g],
           \A f \in fs : /\ flow'[f].pc \in {"begin", "done"}
                         /\ flow'[f].key \in {Fresh, AccountKey},
           link' \in [Timers -> Flows \cup {NoOne}],
           \A t \in Timers : link'[t] \in Flows => link'[t] = link[t],
           \A t \in Timers : link'[t] \in fs => link'[t] \in cut',
           cut \subseteq cut', cut' \subseteq Flows
    PROVE  OnboardingInv'
<1>1. BaseOK' /\ Gentle /\ KeyNeverLost'
  BY Types DEF BaseOK, Gentle, OnboardingInv, KeyNeverLost
<1>2. \A f \in fs : FlowSound(f)'
  BY DEF FlowSound, KnownKeys, Keyed, AtTimer
<1>3. config' \in Seq(Entries) /\ SavedSound' /\ SavedOnce'
  BY <1>1, ConfigStays
<1>4. /\ \A t \in Timers : link'[t] \in Flows \ fs => link'[t] = link[t]
      /\ \A t \in Timers : link'[t] \in fs => \/ flow'[link'[t]].pc \in Linked
                                              \/ link'[t] \in cut'
  OBVIOUS
<1>5. QED
  BY <1>1, <1>2, <1>3, <1>4, StepSound

LEMMA OnboardStartStep ==
    ASSUME OnboardingInv, NEW j \in Jobs, NEW mode \in JobModes,
           NEW want \in Timers \cup {NoMac}, OnboardStart(j, mode, want)
    PROVE  OnboardingInv'
<1> DEFINE r == [Unborn EXCEPT !.mode = mode, !.want = want, !.pc = "begin",
                               !.key = IF mode = "account" /\ account THEN AccountKey ELSE Fresh]
           fs == {j} \cup (IF Superseding THEN {job} ELSE {})
<1>1. r \in Flow /\ r.pc = "begin" /\ r.key \in {Fresh, AccountKey}
  BY ZenonT(40), UnbornType, Parameters DEF Flow, Working
<1>2. flow' = [f \in Flows |-> IF f = j THEN r
                               ELSE IF f = job /\ Running(f) THEN Over ELSE flow[f]]
  BY DEF OnboardStart
<1>3. /\ j \in Flows /\ job' = j /\ flow[j].pc = "none"
      /\ UNCHANGED <<key, final, touched, config, account, listed, stash, warned, pressed>>
  BY Parameters DEF OnboardStart, MayBegin, store, secrets
<1> HIDE DEF r
<1>4. fs \in SUBSET Flows /\ job \in Jobs \cup {NoJob}
  BY <1>3, Types, Parameters DEF Superseding, BaseOK
<1>5. /\ flow' \in [Flows -> Flow]
      /\ \A g \in Flows \ fs : flow'[g] = flow[g]
      /\ \A f \in fs : flow'[f].pc \in {"begin", "done"} /\ flow'[f].key \in {Fresh, AccountKey}
  <2>1. flow \in [Flows -> Flow] /\ Over \in Flow /\ Over.pc = "done" /\ Over.key = Fresh
    BY Types, UnbornType
  <2>2. ASSUME NEW f \in Flows
        PROVE  flow'[f] = IF f = j THEN r ELSE IF f = job /\ Running(f) THEN Over ELSE flow[f]
    BY <1>2
  <2>3. flow' \in [Flows -> Flow]
    BY <1>1, <1>2, <2>1
  <2>4. \A g \in Flows : g = job /\ Running(g) => Superseding
    BY Parameters, <1>4 DEF Superseding
  <2>5. Superseding => Running(job)
    BY DEF Superseding
  <2>6. QED
    BY <1>1, <1>4, <2>1, <2>2, <2>3, <2>4, <2>5
<1>6. \A t \in Timers : link[t] = j => j \in cut
  BY <1>3 DEF OnboardingInv, LinksReleased, Linked
<1>7. /\ link' \in [Timers -> Flows \cup {NoOne}]
      /\ \A t \in Timers : link'[t] \in Flows => link'[t] = link[t]
      /\ \A t \in Timers : link'[t] \in fs => link'[t] \in cut'
      /\ cut \subseteq cut' /\ cut' \subseteq Flows
      /\ outside' \in 0..MaxOutside
  <2>1. CASE Superseding
    <3>1. job \in Flows /\ Abandon(job) /\ Happens("cancel")
      BY <2>1, <1>4, Parameters DEF OnboardStart, Superseding
    <3>2. outside' \in 0..MaxOutside
      BY <3>1, Types, OnboardingAssumption DEF Happens, BaseOK
    <3>3. QED
      BY <2>1, <3>1, <3>2, <1>3, <1>6, Abandons
  <2>2. CASE ~Superseding
    BY <2>2, <1>3, <1>6, Types DEF OnboardStart, BaseOK
  <2>3. QED
    BY <2>1, <2>2
<1> HIDE DEF fs
<1>8. QED
  BY <1>3, <1>4, <1>5, <1>7, GiveUpStep

LEMMA OnboardCancelStep ==
    ASSUME OnboardingInv, OnboardCancel
    PROVE  OnboardingInv'
<1>1. /\ job \in Jobs /\ job \in Flows /\ job' = NoJob
      /\ Abandon(job) /\ Go(job, Over, "done") /\ Happens("cancel")
      /\ UNCHANGED <<key, final, touched, config, account, listed, stash, warned, pressed>>
  BY Types, Parameters DEF OnboardCancel, Superseding, BaseOK, store, secrets
<1>2. /\ flow' \in [Flows -> Flow] /\ flow'[job].pc = "done" /\ flow'[job].key = Fresh
      /\ \A g \in Flows \ {job} : flow'[g] = flow[g]
  BY <1>1, Goes, Types, UnbornType DEF Pcs
<1>3. outside' \in 0..MaxOutside
  BY <1>1, Types, OnboardingAssumption DEF Happens, BaseOK
<1>4. /\ link' \in [Timers -> Flows \cup {NoOne}]
      /\ \A t \in Timers : link'[t] \in Flows => link'[t] = link[t]
      /\ \A t \in Timers : link'[t] \in {job} => link'[t] \in cut'
      /\ cut \subseteq cut' /\ cut' \subseteq Flows
  BY <1>1, Abandons
<1>5. {job} \in SUBSET Flows
  BY <1>1
<1>6. QED
  BY <1>1, <1>2, <1>3, <1>4, <1>5, GiveUpStep

LEMMA CrashStep ==
    ASSUME OnboardingInv, NEW fs \in {Jobs \cup {Rest}, {Cli}}, Crash(fs)
    PROVE  OnboardingInv'
<1> DEFINE gs == {f \in fs : Running(f)}
<1>1. fs \in SUBSET Flows /\ gs \in SUBSET Flows /\ gs \subseteq fs
  BY Parameters
<1>2. /\ flow' = [f \in Flows |-> IF f \in fs /\ Running(f) THEN Over ELSE flow[f]]
      /\ link' = link /\ cut' = cut \cup gs
      /\ Happens("crash")
      /\ UNCHANGED <<key, final, touched, config, account, listed, stash, warned, pressed>>
  BY DEF Crash, store, secrets
<1>3. job' \in Jobs \cup {NoJob}
  BY Types DEF Crash, BaseOK
<1>4. outside' \in 0..MaxOutside
  BY <1>2, Types, OnboardingAssumption DEF Happens, BaseOK
<1>5. Over \in Flow /\ Over.pc = "done" /\ Over.key = Fresh /\ flow \in [Flows -> Flow]
  BY UnbornType, Types
<1>6. /\ flow' \in [Flows -> Flow]
      /\ \A g \in Flows \ gs : flow'[g] = flow[g]
      /\ \A f \in gs : flow'[f].pc = "done" /\ flow'[f].key = Fresh
  BY <1>1, <1>2, <1>5
<1>7. /\ link' \in [Timers -> Flows \cup {NoOne}]
      /\ \A t \in Timers : link'[t] \in gs => link'[t] \in cut'
      /\ cut \subseteq cut' /\ cut' \subseteq Flows
  BY <1>1, <1>2, Types, Parameters DEF BaseOK
<1> HIDE DEF gs
<1>8. QED
  BY <1>1, <1>2, <1>3, <1>4, <1>6, <1>7, GiveUpStep

\* The invariant after a step in which no flow moves.
LEMMA EnvironmentStep ==
    ASSUME OnboardingInv, BaseOK', Gentle, KeyNeverLost', UNCHANGED <<flow, config>>,
           \A t \in Timers : link'[t] \in Flows => link'[t] = link[t]
    PROVE  OnboardingInv'
<1>1. config' \in Seq(Entries) /\ SavedSound' /\ SavedOnce'
  BY ConfigStays
<1>2. flow' \in [Flows -> Flow]
  BY Types
<1>3. {} \in SUBSET Flows
  OBVIOUS
<1>4. QED
  BY <1>1, <1>2, <1>3, StepSound

LEMMA AccountStep ==
    ASSUME OnboardingInv, AccountLogin \/ AccountForget
    PROVE  OnboardingInv'
<1>1. /\ UNCHANGED <<job, flow, link, key, final, touched, cut, config, listed, stash, warned, pressed, outside>>
      /\ account' \in BOOLEAN
  BY DEF AccountLogin, AccountForget, radio, secrets
<1>2. BaseOK' /\ Gentle /\ KeyNeverLost'
  BY <1>1, Types DEF BaseOK, Gentle, OnboardingInv, KeyNeverLost
<1>3. QED
  BY <1>1, <1>2, EnvironmentStep

\* Users and timers: a key is taken over only by a fresh timer, and lost only by
\* one that is reset, or that loses power before it is finalized.
LEMMA OutsideStep ==
    ASSUME OnboardingInv, NEW t \in Timers,
           AddedInApp(t) \/ ResetTimer(t) \/ PowerCycle(t) \/ LinkDrops(t)
    PROVE  OnboardingInv'
<1>1. /\ UNCHANGED <<job, flow, cut, config, account, stash, warned, pressed>>
      /\ outside' \in 0..MaxOutside
  <2>1. \A e : Happens(e) => outside' \in 0..MaxOutside
    BY Types, OnboardingAssumption DEF Happens, BaseOK
  <2>2. CASE AddedInApp(t)
    BY <2>1, <2>2 DEF AddedInApp, secrets
  <2>3. CASE ResetTimer(t)
    BY <2>1, <2>3 DEF ResetTimer, store, secrets
  <2>4. CASE PowerCycle(t)
    BY <2>1, <2>4 DEF PowerCycle, store, secrets
  <2>5. CASE LinkDrops(t)
    BY <2>1, <2>5, Types DEF LinkDrops, store, secrets, BaseOK
  <2>6. QED
    BY <2>2, <2>3, <2>4, <2>5
<1>2. /\ BaseOK /\ KeyNeverLost /\ NoOne \notin Flows /\ AccountKey \in Keys /\ Fresh \notin Keys
  BY Types, Parameters DEF OnboardingInv
<1>3. /\ link' \in [Timers -> Flows \cup {NoOne}]
      /\ \A u \in Timers : link'[u] \in Flows => link'[u] = link[u]
  BY <1>2 DEF AddedInApp, ResetTimer, PowerCycle, LinkDrops, BaseOK
<1>4. /\ key' \in [Timers -> Keys \cup {Fresh}]
      /\ \A u \in Timers : key'[u] \in {key[u], Fresh, AccountKey}
      /\ final' \subseteq Timers /\ listed' \subseteq Timers
      /\ touched \subseteq touched' /\ touched' \subseteq Timers
  BY <1>2 DEF AddedInApp, ResetTimer, PowerCycle, LinkDrops, BaseOK, store
<1>5. BaseOK'
  BY <1>1, <1>2, <1>3, <1>4 DEF BaseOK
<1>6. KeyNeverLost'
  BY <1>1, <1>2, <1>4 DEF KeyNeverLost
<1>7. Gentle
  <2>1. CASE AddedInApp(t)
    BY <1>1, <1>2, <2>1 DEF Gentle, AddedInApp, BaseOK
  <2>2. CASE ResetTimer(t)
    BY <1>1, <1>2, <2>2 DEF Gentle, ResetTimer, BaseOK
  <2>3. CASE PowerCycle(t)
    BY <1>1, <1>2, <2>3 DEF Gentle, PowerCycle, BaseOK
  <2>4. CASE LinkDrops(t)
    BY <1>1, <1>2, <2>4 DEF Gentle, LinkDrops, BaseOK
  <2>5. QED
    BY <2>1, <2>2, <2>3, <2>4
<1>8. QED
  BY <1>1, <1>3, <1>5, <1>6, <1>7, EnvironmentStep

LEMMA OnboardingStutters ==
    ASSUME OnboardingInv, UNCHANGED vars
    PROVE  OnboardingInv'
<1>1. UNCHANGED <<job, flow, link, key, final, touched, cut, config, account, listed, stash, warned,
                pressed, outside>>
  BY DEF vars, radio, store, secrets
<1>2. BaseOK' /\ Gentle /\ KeyNeverLost'
  BY <1>1, Types DEF BaseOK, Gentle, OnboardingInv, KeyNeverLost
<1>3. QED
  BY <1>1, <1>2, EnvironmentStep

LEMMA RunStep ==
    ASSUME OnboardingInv, NEW f \in Flows, Run(f) \/ HumanStep(f)
    PROVE  OnboardingInv'
<1>1. CASE \E t \in Timers : ProbeFinds(f, t) \/ ProbeMisses(f, t)
                             \/ CatchConnect(f, t) \/ CatchMiss(f, t)
  BY <1>1, ProbeFindsStep, ProbeMissesStep, CatchConnectStep, CatchMissStep
<1>2. CASE HumanStep(f)
  BY <1>2, PickStep, ChooseStep, AppDoneStep, ReadyStep DEF HumanStep
<1>3. CASE Begin(f) \/ Login(f) \/ Locked(f) \/ ProbeEnds(f) \/ WriteKey(f) \/ WriteFails(f)
  BY <1>3, BeginStep, LoginStep, LockedStep, ProbeEndsStep, WriteKeyStep, WriteFailsStep
<1>4. CASE CatchTimeout(f) \/ ReadOk(f) \/ ReadRejected(f) \/ Setup(f) \/ SetupFails(f) \/ Finish(f)
  BY <1>4, CatchTimeoutStep, ReadOkStep, ReadRejectedStep, SetupStep, SetupFailsStep, FinishStep
<1>5. QED
  BY <1>1, <1>2, <1>3, <1>4 DEF Run

LEMMA OnboardingStep ==
    ASSUME OnboardingInv, [Next]_vars
    PROVE  OnboardingInv'
<1>1. CASE \E j \in Jobs, mode \in JobModes, want \in Timers \cup {NoMac} : OnboardStart(j, mode, want)
  BY <1>1, OnboardStartStep
<1>2. CASE \E f \in {Rest, Cli}, mode \in CliModes, want \in Timers \cup {NoMac} :
              OtherStart(f, mode, want)
  BY <1>2, OtherStartStep
<1>3. CASE OnboardCancel
  BY <1>3, OnboardCancelStep
<1>4. CASE OnboardContinue
  BY <1>4, ContinueStep
<1>5. CASE \E f \in Flows : Run(f) \/ HumanStep(f)
  BY <1>5, RunStep
<1>6. CASE AccountLogin \/ AccountForget
  BY <1>6, AccountStep
<1>7. CASE \E t \in Timers : AddedInApp(t) \/ ResetTimer(t) \/ PowerCycle(t) \/ LinkDrops(t)
  BY <1>7, OutsideStep
<1>8. CASE \E fs \in {Jobs \cup {Rest}, {Cli}} : Crash(fs)
  BY <1>8, CrashStep
<1>9. CASE UNCHANGED vars
  BY <1>9, OnboardingStutters
<1>10. QED
  BY <1>1, <1>2, <1>3, <1>4, <1>5, <1>6, <1>7, <1>8, <1>9 DEF Next

LEMMA OnboardingInvariant == Spec => []OnboardingInv
BY OnboardingInit, OnboardingStep, PTL DEF Spec

-----------------------------------------------------------------------------
\* Every reachable state is well-typed; phase B's attempts stay within
\* reconnect_attempts (provision_device, onboarding.py:849).
THEOREM OnboardingTypeCorrect == Spec => []TypeOK
<1>1. OnboardingInv => TypeOK
  BY DEF OnboardingInv
<1>2. QED
  BY <1>1, OnboardingInvariant, PTL

\* Whatever fails, is cancelled, superseded or dies, a timer never holds a key
\* that is neither the account's nor stashed, but for a key whose stashing failed
\* and that the command line told its user to save (_stash_key,
\* onboarding.py:529-537; cli.py:188-195).
THEOREM NoKeyIsLost == Spec => []KeyNeverLost
<1>1. OnboardingInv => KeyNeverLost
  BY DEF OnboardingInv
<1>2. QED
  BY <1>1, OnboardingInvariant, PTL

\* A timer that was keyed and saved answers to the saved key for good, unless
\* it is reset (provision_device and _provision_and_save).
THEOREM ProvisioningIsDurable == Spec => []ProvisionedStaysKeyed
<1>1. OnboardingInv => ProvisionedStaysKeyed
  BY DEF OnboardingInv, SavedSound, ProvisionedStaysKeyed
<1>2. QED
  BY <1>1, OnboardingInvariant, PTL

\* However many flows add a timer, it is saved once (write_config,
\* onboarding.py:351-380).
THEOREM TimersSavedOnce == Spec => []SavedOnce
<1>1. OnboardingInv => SavedOnce
  BY DEF OnboardingInv
<1>2. QED
  BY <1>1, OnboardingInvariant, PTL

\* No flow holds a link but while it uses it (catch_device_session and
\* provision_device), save one that died, or was cancelled in its probe, its key
\* write or a read, where the code closes nothing.
THEOREM NoLinkIsKept == Spec => []LinksReleased
<1>1. OnboardingInv => LinksReleased
  BY DEF OnboardingInv
<1>2. QED
  BY <1>1, OnboardingInvariant, PTL

-----------------------------------------------------------------------------
(***************************************************************************)
(* One press, one step.  A gate's event is set only while a Continue is    *)
(* unspent: it is set with the press and cleared by the step that passes.  *)
(***************************************************************************)

PressedInv == \A j \in Jobs : flow[j].set => j \in pressed

\* f goes on by itself: no event is set.
GoesOn(f) == \E n : flow' = [flow EXCEPT ![f] = n] /\ (n.set => flow[f].set)

LEMMA GoGoesOn ==
    ASSUME NEW f \in Flows, NEW r, "set" \in DOMAIN r, NEW pc, Go(f, r, pc),
           r.set => flow[f].set
    PROVE  GoesOn(f)
<1>1. CASE pc = "done"
  <2>1. flow' = [flow EXCEPT ![f] = Over] /\ ~Over.set
    BY <1>1 DEF Go, Over, Unborn
  <2>2. QED
    BY <2>1 DEF GoesOn
<1>2. CASE pc # "done"
  <2> DEFINE n == [r EXCEPT !.pc = pc]
  <2>1. flow' = [flow EXCEPT ![f] = n] /\ n.set = r.set
    BY <1>2 DEF Go
  <2> HIDE DEF n
  <2>2. QED
    BY <2>1 DEF GoesOn
<1>3. QED
  BY <1>1, <1>2

\* What a flow does by itself, it does while it works, and sets no event.
LEMMA RunGoesOn ==
    ASSUME TypeOK, NEW f \in Flows, Run(f)
    PROVE  flow[f].pc \in Working /\ GoesOn(f) /\ pressed' = pressed
<1>1. flow[f] \in Flow
  BY DEF TypeOK
<1>2. flow[f].pc \in Working /\ pressed' = pressed
  BY DEF Run, Begin, Login, Locked, ProbeFinds, ProbeMisses, CatchConnect, CatchMiss,
         ProbeEnds, WriteKey, WriteFails, CatchTimeout, ReadOk, ReadRejected, Setup,
         SetupFails, Finish, Quiet, Working, Linked
<1>3. \E r, pc : Go(f, r, pc) /\ "set" \in DOMAIN r /\ (r.set => flow[f].set)
  <2>1. CASE Begin(f)
    <3>1. ASSUME NEW k
          PROVE  LET r == [flow[f] EXCEPT !.key = k] IN "set" \in DOMAIN r /\ r.set = flow[f].set
      BY <1>1 DEF Flow
    <3>2. "set" \in DOMAIN flow[f]
      BY <1>1 DEF Flow
    <3>3. QED
      BY <2>1, <3>1, <3>2 DEF Begin, SelfKey
  <2>0. "set" \in DOMAIN flow[f] /\ "set" \in DOMAIN Over /\ ~Over.set
    BY <1>1 DEF Flow, Over, Unborn
  <2>2. CASE Login(f)
    <3>1. CASE \E pc : Go(f, flow[f], pc)
      BY <2>0, <3>1
    <3>2. ASSUME NEW t, Go(f, [flow[f] EXCEPT !.key = AccountKey, !.want = t], Prepared(f))
          PROVE  \E r, pc : Go(f, r, pc) /\ "set" \in DOMAIN r /\ (r.set => flow[f].set)
      <4> DEFINE r == [flow[f] EXCEPT !.key = AccountKey, !.want = t]
      <4>1. "set" \in DOMAIN r /\ r.set = flow[f].set
        BY <1>1 DEF Flow
      <4> HIDE DEF r
      <4>2. QED
        BY <3>2, <4>1 DEF r
    <3>3. CASE Go(f, [flow[f] EXCEPT !.seen = Obtainable(flow[f])], "pick")
      <4> DEFINE r == [flow[f] EXCEPT !.seen = Obtainable(flow[f])]
      <4>1. "set" \in DOMAIN r /\ r.set = flow[f].set
        BY <1>1 DEF Flow
      <4>2. QED
        BY <3>3, <4>1
    <3>4. QED
      BY <2>2, <3>1, <3>2, <3>3 DEF Login
  <2>3. CASE Locked(f) \/ ReadOk(f) \/ Setup(f)
    BY <2>0, <2>3 DEF Locked, ReadOk, Setup
  <2>4. ASSUME NEW t, ProbeFinds(f, t) \/ CatchConnect(f, t)
        PROVE  \E r, pc : Go(f, r, pc) /\ "set" \in DOMAIN r /\ (r.set => flow[f].set)
    <3> DEFINE r == [flow[f] EXCEPT !.seen = @ \cup {t}, !.got = t]
    <3>1. "set" \in DOMAIN r /\ r.set = flow[f].set
      BY <1>1 DEF Flow
    <3>2. \/ \E pc : Go(f, r, pc)
          \/ Go(f, Over, "done")
      BY <2>4 DEF ProbeFinds, CatchConnect, Fail
    <3> HIDE DEF r
    <3>3. QED
      BY <2>0, <3>1, <3>2
  <2>5. ASSUME NEW t, ProbeMisses(f, t) \/ CatchMiss(f, t)
        PROVE  \E r, pc : Go(f, r, pc) /\ "set" \in DOMAIN r /\ (r.set => flow[f].set)
    <3> DEFINE r == [flow[f] EXCEPT !.seen = @ \cup {t}]
    <3>1. "set" \in DOMAIN r /\ r.set = flow[f].set
      BY <1>1 DEF Flow
    <3>2. \E pc : Go(f, r, pc)
      BY <2>5 DEF ProbeMisses, CatchMiss
    <3> HIDE DEF r
    <3>3. QED
      BY <3>1, <3>2
  <2>6. CASE ProbeEnds(f) \/ WriteFails(f) \/ SetupFails(f) \/ Finish(f)
    BY <2>0, <2>6 DEF ProbeEnds, WriteFails, SetupFails, Finish, Fail
  <2>7. CASE WriteKey(f)
    <3> DEFINE r == [flow[f] EXCEPT !.seen = {}, !.got = NoMac]
    <3>1. "set" \in DOMAIN r /\ r.set = flow[f].set
      BY <1>1 DEF Flow
    <3>2. Go(f, r, "catch")
      BY <2>7 DEF WriteKey
    <3> HIDE DEF r
    <3>3. QED
      BY <3>1, <3>2
  <2>8. CASE CatchTimeout(f)
    <3> DEFINE r == [flow[f] EXCEPT !.seen = {}, !.tries = @ + 1]
    <3>1. "set" \in DOMAIN r /\ r.set = flow[f].set
      BY <1>1 DEF Flow
    <3>2. Go(f, r, "catch") \/ Go(f, flow[f], "done")
      BY <2>8 DEF CatchTimeout, NextTry
    <3> HIDE DEF r
    <3>3. QED
      BY <2>0, <3>1, <3>2
  <2>9. CASE ReadRejected(f)
    <3> DEFINE r == [flow[f] EXCEPT !.got = NoMac]
    <3>1. "set" \in DOMAIN r /\ r.set = flow[f].set
      BY <1>1 DEF Flow
    <3>2. Go(f, r, "catch")
      BY <2>9 DEF ReadRejected
    <3> HIDE DEF r
    <3>3. QED
      BY <3>1, <3>2
  <2>10. QED
    BY <2>1, <2>2, <2>3, <2>4, <2>5, <2>6, <2>7, <2>8, <2>9 DEF Run
<1>4. QED
  BY <1>2, <1>3, GoGoesOn

\* A step that a human lets pass takes the press with it.
LEMMA HumanPasses ==
    ASSUME TypeOK, NEW f \in Flows, HumanStep(f)
    PROVE  /\ f \in Jobs => flow[f].set
           /\ pressed' = pressed \ {f}
           /\ \E n : flow' = [flow EXCEPT ![f] = n] /\ ~n.set
<1>1. flow[f] \in Flow
  BY DEF TypeOK
<1>2. "set" \in DOMAIN Passed(f) /\ ~Passed(f).set
  BY <1>1 DEF Passed, Flow
<1>3. (f \in Jobs => flow[f].set) /\ pressed' = pressed \ {f}
  BY DEF HumanStep, Pick, Choose, AppDone, Ready, Pass
<1>4. ASSUME NEW r, NEW pc, Go(f, r, pc), "set" \in DOMAIN r, ~r.set
      PROVE  \E n : flow' = [flow EXCEPT ![f] = n] /\ ~n.set
  <2>1. CASE pc = "done"
    <3>1. flow' = [flow EXCEPT ![f] = Over] /\ ~Over.set
      BY <1>4, <2>1 DEF Go, Over, Unborn
    <3>2. QED
      BY <3>1
  <2>2. CASE pc # "done"
    <3> DEFINE n == [r EXCEPT !.pc = pc]
    <3>1. flow' = [flow EXCEPT ![f] = n] /\ ~n.set
      BY <1>4, <2>2 DEF Go
    <3> HIDE DEF n
    <3>2. QED
      BY <3>1
  <2>3. QED
    BY <2>1, <2>2
<1>5. \E r, pc : Go(f, r, pc) /\ "set" \in DOMAIN r /\ ~r.set
  <2>1. CASE Pick(f)
    <3> DEFINE r == [Passed(f) EXCEPT !.seen = {}]
    <3>1. "set" \in DOMAIN r /\ ~r.set
      BY <1>2
    <3>2. ASSUME NEW c
          PROVE  LET q == [r EXCEPT !.key = AccountKey, !.want = c]
                 IN  "set" \in DOMAIN q /\ ~q.set
      BY <3>1
    <3> HIDE DEF r
    <3>3. \E c : \/ Go(f, [r EXCEPT !.key = AccountKey, !.want = c], "ready")
                 \/ Go(f, r, IF f = Cli THEN "done" ELSE "cloud")
      BY <2>1 DEF Pick, r
    <3>4. QED
      BY <3>1, <3>2, <3>3
  <2>2. CASE Choose(f)
    <3>1. ASSUME NEW k
          PROVE  LET q == [Passed(f) EXCEPT !.key = k] IN "set" \in DOMAIN q /\ ~q.set
      BY <1>2
    <3>2. QED
      BY <1>2, <2>2, <3>1 DEF Choose, SelfKey
  <2>3. CASE AppDone(f) \/ Ready(f)
    BY <1>2, <2>3 DEF AppDone, Ready
  <2>4. QED
    BY <2>1, <2>2, <2>3 DEF HumanStep
<1>6. QED
  BY <1>3, <1>4, <1>5

\* j is left alone, begins or is given up, without an event.
NoNews(j) ==
    \/ flow'[j] = flow[j]
    \/ flow'[j].pc = "done" /\ ~flow'[j].set
    \/ flow[j].pc = "none" /\ ~flow'[j].set

\* What else sets an event is the press itself.
LEMMA PressedStep ==
    ASSUME TypeOK, PressedInv, [Next]_vars
    PROVE  /\ PressedInv'
           /\ \A j \in Jobs : flow[j].pc \in Human /\ flow'[j].pc \notin {flow[j].pc, "done"}
                                => j \in pressed
<1> USE DEF radio, store
<1>0. flow \in [Flows -> Flow] /\ Jobs \subseteq Flows
  BY DEF TypeOK, Flows
<1>1. ASSUME NEW f \in Flows, Run(f)
      PROVE  /\ PressedInv'
             /\ \A j \in Jobs : flow[j].pc \in Human => flow'[j].pc = flow[j].pc
  <2>1. PICK n : flow' = [flow EXCEPT ![f] = n] /\ (n.set => flow[f].set)
    BY <1>1, RunGoesOn DEF GoesOn
  <2>2. flow[f].pc \in Working /\ pressed' = pressed
    BY <1>1, RunGoesOn
  <2>3. flow[f].pc \notin Human
    BY <2>2 DEF Working, Linked, Human
  <2>4. QED
    BY <1>0, <2>1, <2>2, <2>3 DEF PressedInv
<1>2. ASSUME NEW f \in Flows, HumanStep(f)
      PROVE  /\ PressedInv'
             /\ \A j \in Jobs : flow'[j] = flow[j] \/ j \in pressed
  <2>1. PICK n : flow' = [flow EXCEPT ![f] = n] /\ ~n.set
    BY <1>2, HumanPasses
  <2>2. (f \in Jobs => flow[f].set) /\ pressed' = pressed \ {f}
    BY <1>2, HumanPasses
  <2>3. QED
    BY <1>0, <2>1, <2>2 DEF PressedInv
<1>3. ASSUME OnboardContinue
      PROVE  PressedInv' /\ \A j \in Jobs : flow'[j].pc = flow[j].pc
  <2> DEFINE n == [flow[job] EXCEPT !.set = TRUE]
  <2>1. job \in Flows
    BY <1>0, <1>3 DEF OnboardContinue, TypeOK
  <2>2. flow' = [flow EXCEPT ![job] = n] /\ pressed' = pressed \cup {job}
    BY <1>3 DEF OnboardContinue
  <2>3. n.pc = flow[job].pc
    BY <1>0, <2>1 DEF Flow
  <2> HIDE DEF n
  <2>4. QED
    BY <1>0, <2>1, <2>2, <2>3 DEF PressedInv
<1>4. ASSUME pressed' = pressed,
             \A j \in Jobs : NoNews(j)
      PROVE  /\ PressedInv'
             /\ \A j \in Jobs : flow[j].pc \in Human /\ flow'[j].pc \notin {flow[j].pc, "done"}
                                  => j \in pressed
  BY <1>4 DEF NoNews, PressedInv, Human
<1>5. Over.pc = "done" /\ ~Over.set
  BY DEF Over, Unborn
<1>6. ASSUME NEW j \in Jobs, NEW mode, NEW want, OnboardStart(j, mode, want)
      PROVE  pressed' = pressed /\ \A i \in Jobs : NoNews(i)
  <2> DEFINE r == [Unborn EXCEPT !.mode = mode, !.want = want, !.pc = "begin",
                                 !.key = IF mode = "account" /\ account THEN AccountKey
                                         ELSE Fresh]
  <2>1. ~r.set
    BY DEF Unborn
  <2>2. flow' = [f \in Flows |-> IF f = j THEN r
                                 ELSE IF f = job /\ Running(f) THEN Over
                                 ELSE flow[f]]
    BY <1>6 DEF OnboardStart
  <2>3. flow[j].pc = "none" /\ pressed' = pressed
    BY <1>6 DEF OnboardStart, MayBegin
  <2> HIDE DEF r
  <2>4. ASSUME NEW i \in Jobs PROVE NoNews(i)
    <3>1. flow'[i] = IF i = j THEN r ELSE IF i = job /\ Running(i) THEN Over ELSE flow[i]
      BY <1>0, <2>2
    <3>2. QED
      BY <1>5, <2>1, <2>3, <3>1 DEF NoNews
  <2>5. QED
    BY <2>3, <2>4
<1>7. ASSUME NEW f \in {Rest, Cli}, NEW mode, NEW want, OtherStart(f, mode, want)
      PROVE  pressed' = pressed /\ \A i \in Jobs : NoNews(i)
  <2>1. \E n : flow' = [flow EXCEPT ![f] = n]
    BY <1>7 DEF OtherStart, Go
  <2>2. f \notin Jobs /\ pressed' = pressed
    BY <1>7, OnboardingAssumption DEF OtherStart
  <2>3. ASSUME NEW i \in Jobs PROVE flow'[i] = flow[i]
    BY <1>0, <2>1, <2>2
  <2>4. QED
    BY <2>2, <2>3 DEF NoNews
<1>8. ASSUME OnboardCancel
      PROVE  pressed' = pressed /\ \A i \in Jobs : NoNews(i)
  <2>1. flow' = [flow EXCEPT ![job] = Over] /\ pressed' = pressed
    BY <1>8 DEF OnboardCancel, Go
  <2>2. ASSUME NEW i \in Jobs PROVE flow'[i] = flow[i] \/ flow'[i] = Over
    BY <1>0, <2>1
  <2>3. QED
    BY <1>5, <2>1, <2>2 DEF NoNews
<1>9. ASSUME NEW fs, Crash(fs)
      PROVE  pressed' = pressed /\ \A i \in Jobs : NoNews(i)
  <2>1. /\ flow' = [f \in Flows |-> IF f \in fs /\ Running(f) THEN Over ELSE flow[f]]
        /\ pressed' = pressed
    BY <1>9 DEF Crash
  <2>2. ASSUME NEW i \in Jobs PROVE flow'[i] = flow[i] \/ flow'[i] = Over
    BY <1>0, <2>1
  <2>3. QED
    BY <1>5, <2>1, <2>2 DEF NoNews
<1>10. ASSUME \/ AccountLogin \/ AccountForget \/ UNCHANGED vars
              \/ \E t \in Timers : AddedInApp(t) \/ ResetTimer(t) \/ PowerCycle(t) \/ LinkDrops(t)
       PROVE  pressed' = pressed /\ \A i \in Jobs : NoNews(i)
  BY <1>10 DEF NoNews, AccountLogin, AccountForget, AddedInApp, ResetTimer, PowerCycle, LinkDrops, vars
<1>11. CASE \E f \in Flows : Run(f) \/ HumanStep(f)
  BY <1>1, <1>2, <1>11
<1>12. CASE OnboardContinue
  BY <1>3, <1>12
<1>13. CASE \/ \E j \in Jobs, mode \in JobModes, want \in Timers \cup {NoMac} :
                  OnboardStart(j, mode, want)
            \/ \E f \in {Rest, Cli}, mode \in CliModes, want \in Timers \cup {NoMac} :
                  OtherStart(f, mode, want)
            \/ OnboardCancel
            \/ AccountLogin \/ AccountForget \/ UNCHANGED vars
            \/ \E t \in Timers : AddedInApp(t) \/ ResetTimer(t) \/ PowerCycle(t) \/ LinkDrops(t)
            \/ \E fs \in {Jobs \cup {Rest}, {Cli}} : Crash(fs)
  BY <1>4, <1>6, <1>7, <1>8, <1>9, <1>10, <1>13
<1>14. QED
  BY <1>11, <1>12, <1>13 DEF Next

\* Each step the wizard leaves to a human takes a press of its own
\* (OnboardGate.wait, onboarding.py), however presses, cancellations and new jobs
\* come in between: a press too many lets one later step pass, never two.
THEOREM OnePressEach == Spec => OnePressOneStep
<1> DEFINE A == \A j \in Jobs :
                   flow[j].pc \in Human /\ flow'[j].pc \notin {flow[j].pc, "done"}
                      => j \in pressed
<1>1. Init => PressedInv
  BY DEF Init, PressedInv, Unborn, Flows
<1>2. TypeOK /\ PressedInv /\ [Next]_vars => PressedInv' /\ A
  BY PressedStep
<1>3. TypeOK /\ PressedInv /\ [Next]_vars => PressedInv' /\ [A]_vars
  BY <1>2
<1> HIDE DEF A
<1>4. Spec => [][A]_vars
  BY <1>1, <1>3, OnboardingTypeCorrect, PTL DEF Spec
<1>5. QED
  BY <1>4 DEF OnePressOneStep, A
=============================================================================

------------------------------- MODULE Session -------------------------------
(***************************************************************************)
(* One BLE session (bhyve_xd.py: _Session) as far as reading goes.  The    *)
(* timer encrypts its replies with a counter of blocks that the handshake  *)
(* sets; the host hears only replies whose counter lies in a window around *)
(* its own, and moves its own only with the replies it reads.  Everything  *)
(* the timer says between two reads is thrown away unread.                 *)
(*                                                                         *)
(* Replies come in order, but some may come after the 1.5 s for which      *)
(* read_status waits, or not at all.                                       *)
(***************************************************************************)
EXTENDS Integers, Sequences, SequencesExt

CONSTANTS
    Width,          \* counters are numbers below Width, 2^32 in the code
    Behind, Ahead,  \* the window: range(-Behind, Ahead + 1)
    StatusSize,     \* blocks of a status reply
    OtherSize,      \* blocks of any other reply
    Plans,          \* the sessions of this instance
    Firsts,         \* counters a handshake may begin with
    MaxLost         \* bound: replies lost in a session

ASSUME SessionAssumption ==
    /\ Behind \in Nat /\ Ahead \in Nat /\ Width \in Nat /\ Width > Behind + Ahead
    /\ StatusSize \in Nat \ {0} /\ OtherSize \in Nat \ {0} /\ MaxLost \in Nat
    /\ Firsts \subseteq 0..(Width - 1)

(***************************************************************************)
(* What a session does: "status" asks for the status, "query" for          *)
(* something else, "set" tells the timer something; "clear" and "read" are *)
(* the two ends of read_status, "check" goes on only with a timer that     *)
(* gave its MAC.                                                           *)
(***************************************************************************)
Steps == {"status", "query", "set", "clear", "read", "check"}

ReadStatus == <<"clear", "status", "read">>

\* arm; a last message switches the programs on again that arm switched off.
Arm(programs) ==
    <<"set", "set", "status", "query", "set", "set", "set", "set", "set">>
        \o IF programs THEN <<"set">> ELSE <<>>

\* BHyveXD.start and stop, and status.
OneShot(programs) == Arm(programs) \o <<"set">> \o ReadStatus
Status(programs) == Arm(programs) \o ReadStatus

\* catch_device_session arms, reads, and keeps the timer it wants.
Catch == Arm(FALSE) \o ReadStatus \o <<"check">>

\* provision_setup and the read-back, in the session that caught the timer.
ProvisionSetup == <<"set", "set", "set", "query", "query", "set", "set", "set">>
Provision == Catch \o ProvisionSetup \o ReadStatus

\* verify_once: a start and a stop, each read back.
Verify == Catch \o <<"set">> \o ReadStatus \o <<"set">> \o ReadStatus

\* The command line's selftest sets the clock, starts and stops.
Selftest(programs) ==
    Arm(programs) \o <<"set", "set">> \o ReadStatus
        \o <<"set">> \o ReadStatus \o <<"set">> \o ReadStatus

AllPlans == UNION {{OneShot(p), Status(p), Selftest(p)} : p \in BOOLEAN} \cup {Provision, Verify}

\* A plan reads replies in read_status only.
ReadsByReadStatus(p) ==
    \A i \in DOMAIN p : p[i] = "read" => i > 2 /\ p[i - 2] = "clear" /\ p[i - 1] = "status"

ASSUME PlansAssumption == \A p \in Plans : p \in Seq(Steps) /\ ReadsByReadStatus(p)

VARIABLES
    plan,       \* what the session has still to do
    talks,      \* the messages, besides "status", this timer replies to
    first,      \* the reply counter of the handshake
    rx,         \* _rx
    wire,       \* replies under way
    notifs,     \* _notifs
    result,     \* what the last read_status read
    sent,       \* blocks the timer has sent
    asked,      \* history: where the reply to the last status query begins
    heard,      \* history: where the last reply that was read ends
    lost        \* replies lost so far

timer == <<talks, first>>
past == <<asked, heard, lost>>
vars == <<plan, timer, rx, wire, notifs, result, sent, past>>

\* A reply is known by where it begins among all blocks of the session.
Reply == [kind : {"status", "other"}, at : Nat]
NoReply == [kind |-> "none", at |-> 0]

TypeOK ==
    /\ plan \in Seq(Steps)
    /\ talks \subseteq {"query", "set"}
    /\ first \in 0..(Width - 1) /\ rx \in 0..(Width - 1)
    /\ wire \in Seq(Reply) /\ notifs \in Seq(Reply)
    /\ result \in Reply \cup {NoReply}
    /\ sent \in Nat /\ asked \in Nat /\ heard \in Nat
    /\ lost \in 0..MaxLost

\* After the handshake, which sets both counters.  Nothing of an earlier session
\* decodes, since the IV is new.
Init ==
    /\ plan \in Plans
    /\ talks \in SUBSET {"query", "set"}
    /\ first \in Firsts /\ rx = first
    /\ wire = <<>> /\ notifs = <<>>
    /\ result = NoReply
    /\ sent = 0 /\ asked = 0 /\ heard = 0
    /\ lost = 0

-----------------------------------------------------------------------------
\* The session's next step is this one.
Does(step) == plan # <<>> /\ Head(plan) = step /\ plan' = Tail(plan)

Size(kind) == IF kind = "status" THEN StatusSize ELSE OtherSize

\* _send; the timer answers in the order it is asked.
Send(message) ==
    LET kind == IF message = "status" THEN "status" ELSE "other"
    IN  /\ Does(message)
        /\ IF message \in {"status"} \cup talks
             THEN /\ wire' = Append(wire, [kind |-> kind, at |-> sent])
                  /\ sent' = sent + Size(kind)
             ELSE UNCHANGED <<wire, sent>>
        /\ asked' = IF message = "status" THEN sent ELSE asked
        /\ UNCHANGED <<timer, rx, notifs, result, heard, lost>>

\* A notification reaches the host, or never does.
Deliver ==
    /\ plan # <<>> /\ wire # <<>>
    /\ wire' = Tail(wire)
    /\ \/ notifs' = Append(notifs, Head(wire)) /\ UNCHANGED lost
       \/ lost < MaxLost /\ lost' = lost + 1 /\ UNCHANGED notifs
    /\ UNCHANGED <<plan, timer, rx, result, sent, asked, heard>>

(* Mutant: what came before stays. *)
ClearsNothing ==
    /\ Does("clear")
    /\ UNCHANGED <<timer, rx, wire, notifs, result, sent, past>>

\* read_status forgets what came before it asks.
Clear ==
    /\ Does("clear")
    /\ notifs' = <<>>
    /\ UNCHANGED <<timer, rx, wire, result, sent, past>>

Counter(reply) == (first + reply.at) % Width

\* Some counter of the window decrypts the reply.
InWindow(c, reply) == \E off \in (-Behind)..Ahead : (c + off) % Width = Counter(reply)

(* Mutant: the first reply that decodes is the one. *)
FirstWins(acc, reply) ==
    IF acc.best = NoReply /\ InWindow(acc.rx, reply)
      THEN [rx |-> (Counter(reply) + Size(reply.kind)) % Width, best |-> reply]
      ELSE acc

(* Mutant: the counter after the reply is not wrapped. *)
NotWrapped(acc, reply) ==
    IF InWindow(acc.rx, reply)
      THEN [rx |-> Counter(reply) + Size(reply.kind), best |-> reply] ELSE acc

\* One turn of the loop over _notifs: a reply that decodes moves the counter
\* past it and is the best so far.
Decode(acc, reply) ==
    IF InWindow(acc.rx, reply)
      THEN [rx |-> (Counter(reply) + Size(reply.kind)) % Width, best |-> reply]
      ELSE acc

\* read_status after its wait.
Read ==
    LET read == FoldLeft(Decode, [rx |-> rx, best |-> NoReply], notifs)
    IN  /\ Does("read")
        /\ rx' = read.rx
        /\ result' = read.best
        /\ heard' = IF read.best = NoReply THEN heard
                    ELSE read.best.at + Size(read.best.kind)
        /\ UNCHANGED <<timer, wire, notifs, sent, asked, lost>>

\* st.device_mac: only a status carries it.
Check ==
    /\ plan # <<>> /\ Head(plan) = "check"
    /\ plan' = IF result.kind = "status" THEN Tail(plan) ELSE <<>>
    /\ UNCHANGED <<timer, rx, wire, notifs, result, sent, past>>

Next ==
    \/ \E message \in {"status", "query", "set"} : Send(message)
    \/ Deliver \/ Clear \/ Read \/ Check

Spec == Init /\ [][Next]_vars

-----------------------------------------------------------------------------
(***************************************************************************)
(* What reading promises.                                                  *)
(***************************************************************************)

Reading == plan # <<>> /\ Head(plan) = "read" /\ plan' = Tail(plan)

\* A read whose own reply came in time reads it, and neither an earlier one that
\* was late nor nothing at all, unless the timer has said more than the window
\* since the last reply that was read: "decode the newest valid reply"
\* (read_status, bhyve_xd.py:475), with lost replies and counters that wrap.
OwnReplyRead ==
    [][Reading /\ asked - heard <= Ahead /\ (\E i \in DOMAIN notifs : notifs[i].at = asked)
         => result'.at = asked /\ result' # NoReply]_vars

\* No reply is read twice or after a newer one: what confirms a start cannot
\* confirm, or deny, the stop after it.
EachReadIsNew == [][Reading => result' = NoReply \/ result'.at >= heard]_vars
=============================================================================

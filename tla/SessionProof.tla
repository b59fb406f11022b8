---------------------------- MODULE SessionProof ----------------------------
(***************************************************************************)
(* Proofs about Session, for counters of any width, any window, replies of *)
(* any size and any sessions that read only by read_status.                *)
(***************************************************************************)
EXTENDS Session, WellFoundedInduction, TLAPS

-----------------------------------------------------------------------------
(***************************************************************************)
(* The loop of read_status, turn by turn.                                  *)
(***************************************************************************)

\* A set of natural numbers has a least one.
LEMMA LeastNumber ==
    ASSUME NEW S, S \subseteq Nat, S # {}
    PROVE  \E o \in S : \A p \in S : o <= p
<1>1. PICK o \in S : \A p \in S : ~(<<p, o>> \in OpToRel(<, Nat))
  BY NatLessThanWellFounded, WFMin
<1>2. ASSUME NEW p \in S, p < o PROVE FALSE
  <2> DEFINE pair == <<p, o>>
  <2>1. pair \in Nat \X Nat /\ pair[1] = p /\ pair[2] = o
    OBVIOUS
  <2> HIDE DEF pair
  <2>2. pair[1] < pair[2]
    BY <1>2, <2>1
  <2>3. pair \in OpToRel(<, Nat)
    BY <2>1, <2>2, Zenon DEF OpToRel
  <2>4. QED
    BY <1>1, <2>3 DEF pair
<1>3. QED
  BY <1>2

\* The function by which a fold over the first n replies of s is defined.
IsFold(g, acc, s, n) ==
    g = [t \in SUBSET (1..n) |->
            IF t = {} THEN acc ELSE Decode(g[t \ {Max(t)}], s[Max(t)])]

LEMMA FoldBegins ==
    ASSUME NEW acc, NEW s
    PROVE  \E g : IsFold(g, acc, s, 0)
<1> DEFINE g == [t \in SUBSET (1..0) |-> acc]
<1>1. SUBSET (1..0) = {{}}
  OBVIOUS
<1>2. IsFold(g, acc, s, 0)
  BY <1>1 DEF IsFold
<1>3. QED
  BY <1>2

LEMMA FoldGoesOn ==
    ASSUME NEW acc, NEW s, NEW n \in Nat, \E h : IsFold(h, acc, s, n)
    PROVE  \E g : IsFold(g, acc, s, n + 1)
<1>1. PICK h : IsFold(h, acc, s, n)
  OBVIOUS
<1> DEFINE turn(g, t) == IF t = {} THEN acc ELSE Decode(g[t \ {Max(t)}], s[Max(t)])
           g == [t \in SUBSET (1..(n + 1)) |->
                    IF n + 1 \in t THEN Decode(h[t \ {n + 1}], s[n + 1]) ELSE h[t]]
<1>2. ASSUME NEW t \in SUBSET (1..(n + 1)) PROVE g[t] = turn(g, t)
  <2>1. CASE n + 1 \in t
    <3>1. Max(t) = n + 1
      <4>1. \A y \in t : n + 1 >= y
        OBVIOUS
      <4>2. \A x \in t : (\A y \in t : x >= y) => x = n + 1
        BY <2>1
      <4>3. QED
        BY <2>1, <4>1, <4>2 DEF Max
    <3>2. t \ {n + 1} \in SUBSET (1..n) /\ t \ {n + 1} \in SUBSET (1..(n + 1))
      OBVIOUS
    <3>3. g[t \ {n + 1}] = h[t \ {n + 1}]
      BY <3>2
    <3>4. g[t] = Decode(h[t \ {n + 1}], s[n + 1])
      BY <2>1
    <3>5. QED
      BY <2>1, <3>1, <3>3, <3>4
  <2>2. CASE n + 1 \notin t
    <3>1. t \in SUBSET (1..n)
      BY <2>2
    <3>2. h[t] = turn(h, t) /\ g[t] = h[t]
      BY <1>1, <2>2, <3>1 DEF IsFold
    <3>3. t \ {Max(t)} \in SUBSET (1..n) /\ t \ {Max(t)} \in SUBSET (1..(n + 1))
      BY <3>1
    <3>4. g[t \ {Max(t)}] = h[t \ {Max(t)}]
      BY <2>2, <3>3
    <3>5. QED
      BY <3>2, <3>4
  <2>3. QED
    BY <2>1, <2>2
<1>3. g = [t \in SUBSET (1..(n + 1)) |-> turn(g, t)]
  <2>1. g = [t \in SUBSET (1..(n + 1)) |-> g[t]]
    OBVIOUS
  <2> HIDE DEF g, turn
  <2>2. QED
    BY <1>2, <2>1
<1> HIDE DEF g
<1>4. IsFold(g, acc, s, n + 1)
  BY <1>3 DEF IsFold
<1>5. QED
  BY <1>4

LEMMA FoldExists ==
    ASSUME NEW acc, NEW s, NEW n \in Nat
    PROVE  \E g : IsFold(g, acc, s, n)
<1> DEFINE Bad == {m \in Nat : ~(\E g : IsFold(g, acc, s, m))}
<1>1. SUFFICES ASSUME Bad # {} PROVE FALSE
  OBVIOUS
<1>2. PICK m \in Bad : \A p \in Bad : m <= p
  BY <1>1, LeastNumber
<1>3. m # 0
  BY <1>2, FoldBegins
<1>4. m - 1 \in Nat /\ m - 1 \notin Bad /\ (m - 1) + 1 = m
  BY <1>2, <1>3
<1>5. \E g : IsFold(g, acc, s, m - 1)
  BY <1>4
<1>6. \E g : IsFold(g, acc, s, (m - 1) + 1)
  BY <1>4, <1>5, FoldGoesOn
<1>7. QED
  BY <1>2, <1>4, <1>6

\* What the loop has after each turn: Decode of what it had before.
Turns(a, acc, s) ==
    /\ a[0] = acc
    /\ \A k \in 1..Len(s) : a[k] = Decode(a[k - 1], s[k])

LEMMA LoopTurns ==
    ASSUME NEW acc, NEW s \in Seq(Reply)
    PROVE  \E a : Turns(a, acc, s) /\ FoldLeft(Decode, acc, s) = a[Len(s)]
<1> DEFINE n == Len(s)
           iter == CHOOSE g : IsFold(g, acc, s, n)
           a == [k \in 0..n |-> iter[1..k]]
<1>1. n \in Nat /\ DOMAIN s = 1..n
  OBVIOUS
<1>2. IsFold(iter, acc, s, n)
  BY <1>1, FoldExists
<1>3. FoldLeft(Decode, acc, s) = iter[DOMAIN s]
  BY <1>1 DEF FoldLeft, MapThenFoldSet, IsFold
<1> HIDE DEF iter, n
<1>4. ASSUME NEW k \in 1..n PROVE iter[1..k] = Decode(iter[1..(k - 1)], s[k])
  <2>1. Max(1..k) = k
    <3>1. k \in 1..k /\ \A y \in 1..k : k >= y
      BY <1>1
    <3>2. \A x \in 1..k : (\A y \in 1..k : x >= y) => x = k
      BY <1>1
    <3>3. QED
      BY <3>1, <3>2 DEF Max
  <2>2. 1..k \in SUBSET (1..n) /\ 1..k # {} /\ (1..k) \ {k} = 1..(k - 1)
    BY <1>1
  <2>3. QED
    BY <1>2, <2>1, <2>2 DEF IsFold
<1>5. iter[1..0] = acc
  <2>1. 1..0 = {} /\ 1..0 \in SUBSET (1..n)
    BY <1>1
  <2>2. QED
    BY <1>2, <2>1 DEF IsFold
<1>6. /\ a[0] = acc /\ a[n] = iter[1..n]
      /\ \A k \in 1..n : a[k] = Decode(a[k - 1], s[k])
  BY <1>1, <1>4, <1>5
<1>7. QED
  BY <1>1, <1>3, <1>6 DEF Turns, n

-----------------------------------------------------------------------------
(***************************************************************************)
(* Counters.                                                               *)
(***************************************************************************)

\* Division.
LEMMA DivMod ==
    ASSUME NEW a \in Nat, NEW w \in Nat \ {0}
    PROVE  a % w \in 0..(w - 1) /\ a \div w \in Nat /\ a = w * (a \div w) + (a % w)
OBVIOUS
\* A number has one remainder.
LEMMA ModUnique ==
    ASSUME NEW w \in Nat \ {0}, NEW q \in Int, NEW p \in Int, NEW r \in 0..(w - 1), NEW s \in 0..(w-1),
           w * q + r = w * p + s
    PROVE  r = s
<1>1. w * (q - p) = s - r
  OBVIOUS
<1> DEFINE d == q - p
<1>2. d \in Int /\ w * d = s - r
  BY <1>1
<1> HIDE DEF d
<1>3. CASE d >= 1
  <2>1. w * d >= w
     BY <1>2, <1>3
  <2>2. QED BY <2>1, <1>2
<1>4. CASE d <= -1
  <2>1. w * d <= -w
     BY <1>2, <1>4
  <2>2. QED BY <2>1, <1>2
<1>5. CASE d = 0
  BY <1>2, <1>5
<1>6. QED BY <1>2, <1>3, <1>4, <1>5
\* Adding after the wrap is adding before it.
LEMMA ModAdd ==
    ASSUME NEW w \in Nat \ {0}, NEW a \in Nat, NEW b \in Nat
    PROVE  ((a % w) + b) % w = (a + b) % w
<1> DEFINE r == a % w   q == a \div w
           s == (a + b) % w  p == (a + b) \div w
           u == (r + b) % w  v == (r + b) \div w
<1>1. r \in 0..(w - 1) /\ q \in Nat /\ a = w * q + r
  BY DivMod
<1>2. s \in 0..(w - 1) /\ p \in Nat /\ a + b = w * p + s
  <2>1. a + b \in Nat OBVIOUS
  <2>2. QED BY ONLY w \in Nat \ {0}, <2>1, DivMod
<1>3. u \in 0..(w - 1) /\ v \in Nat /\ r + b = w * v + u
  <2>1. r + b \in Nat BY <1>1
  <2> HIDE DEF r
  <2>2. QED BY ONLY w \in Nat \ {0}, <2>1, DivMod
<1> HIDE DEF r, q, s, p, u, v
<1>4. w * p + s = w * (q + v) + u
  <2>1. w * (q + v) = w * q + w * v
    BY <1>1, <1>3
  <2>2. QED BY <2>1, <1>1, <1>2, <1>3
<1>5. s = u
  <2>1. q + v \in Int /\ p \in Int
    BY <1>1, <1>2, <1>3
  <2>2. QED
    BY <2>1, <1>2, <1>3, <1>4, ModUnique
<1>6. QED BY <1>5 DEF s, u, r

\* Where a reply ends.
EndOf(r) == r.at + Size(r.kind)

LEMMA ReplyTypes ==
    ASSUME NEW r \in Reply
    PROVE  /\ r.kind \in {"status", "other"} /\ r.at \in Nat /\ Size(r.kind) \in Nat \ {0}
           /\ EndOf(r) \in Nat /\ EndOf(r) > r.at
           /\ r # NoReply
<1>1. r.kind \in {"status", "other"} /\ r.at \in Nat
  BY DEF Reply
<1>2. Size(r.kind) \in Nat \ {0}
  BY <1>1, SessionAssumption DEF Size
<1>3. r # NoReply
  BY <1>1 DEF NoReply
<1>4. QED
  BY <1>1, <1>2, <1>3 DEF EndOf

\* A reply that decodes moves the host's counter to where it ends.
LEMMA DecodeMoves ==
    ASSUME first \in Nat, NEW h \in Nat, NEW acc, NEW r \in Reply,
           acc.rx = (first + h) % Width
    PROVE  \/ Decode(acc, r) = acc
           \/ /\ Decode(acc, r).best = r
              /\ Decode(acc, r).rx = (first + EndOf(r)) % Width
<1>1. /\ r.at \in Nat /\ Size(r.kind) \in Nat /\ Width \in Nat \ {0}
      /\ EndOf(r) = r.at + Size(r.kind)
  BY ReplyTypes, SessionAssumption DEF EndOf
<1>2. (((first + r.at) % Width) + Size(r.kind)) % Width = ((first + r.at) + Size(r.kind)) % Width
  <2>1. first + r.at \in Nat
    BY <1>1
  <2>2. QED
    BY <1>1, <2>1, ModAdd
<1>3. (first + r.at) + Size(r.kind) = first + EndOf(r)
  BY <1>1
<1>4. QED
  BY <1>2, <1>3 DEF Decode, Counter

\* A reply at most Ahead blocks past the host's counter decodes.
LEMMA AheadDecodes ==
    ASSUME first \in Nat, NEW h \in Nat, NEW acc, NEW r \in Reply,
           acc.rx = (first + h) % Width, h <= r.at, r.at - h <= Ahead
    PROVE  Decode(acc, r).best = r
<1> DEFINE off == r.at - h
<1>1. /\ r.at \in Nat /\ Width \in Nat \ {0} /\ Behind \in Nat /\ Ahead \in Nat
  BY ReplyTypes, SessionAssumption
<1>2. off \in Nat /\ off \in (-Behind)..Ahead /\ (first + h) + off = first + r.at
      /\ first + h \in Nat
  BY <1>1
<1> HIDE DEF off
<1>3. (((first + h) % Width) + off) % Width = ((first + h) + off) % Width
  BY <1>1, <1>2, ModAdd
<1>4. InWindow(acc.rx, r)
  BY <1>2, <1>3 DEF InWindow, Counter
<1>5. QED
  BY <1>4 DEF Decode

-----------------------------------------------------------------------------
(***************************************************************************)
(* What every state of a session keeps.                                    *)
(***************************************************************************)

\* Replies come in the order in which they were sent, one after another.
InOrder(q) == \A i, j \in DOMAIN q : i < j => EndOf(q[i]) <= q[j].at

RepliesInOrder ==
    /\ InOrder(notifs) /\ InOrder(wire)
    /\ \A i \in DOMAIN notifs, j \in DOMAIN wire : EndOf(notifs[i]) <= wire[j].at

AllWereSent ==
    /\ \A i \in DOMAIN notifs : EndOf(notifs[i]) <= sent
    /\ \A j \in DOMAIN wire : EndOf(wire[j]) <= sent
    /\ heard <= sent

\* The host's counter is where the last reply it read ends; what is under way
\* comes after that.
CounterIsHeard == rx = (first + heard) % Width

WireIsNew == \A j \in DOMAIN wire : heard <= wire[j].at

\* What is left of the plan reads in read_status only.
ReadsStatus ==
    \A i \in DOMAIN plan : plan[i] = "read" =>
        /\ i > 1 => plan[i - 1] = "status"
        /\ i > 2 => plan[i - 2] = "clear"

AboutToRead == \E i \in DOMAIN plan : i \in {1, 2} /\ plan[i] = "read"

\* Between the clear and the read, nothing is there that was read before.
NotifsAreNew == AboutToRead => \A i \in DOMAIN notifs : heard <= notifs[i].at

\* After the query for the status, nothing is asked before the read.
LastAsked ==
    1 \in DOMAIN plan /\ plan[1] = "read" =>
        /\ \A i \in DOMAIN notifs : notifs[i].at <= asked
        /\ \A j \in DOMAIN wire : wire[j].at <= asked

SessionInv ==
    /\ TypeOK
    /\ RepliesInOrder /\ AllWereSent /\ CounterIsHeard /\ WireIsNew
    /\ ReadsStatus /\ NotifsAreNew /\ LastAsked

LEMMA SessionInit == Init => SessionInv
<1> SUFFICES ASSUME Init PROVE SessionInv
  OBVIOUS
<1>1. plan \in Seq(Steps) /\ ReadsByReadStatus(plan)
  BY PlansAssumption DEF Init
<1>2. /\ first \in 0..(Width - 1) /\ Width \in Nat \ {0} /\ MaxLost \in Nat
      /\ heard = 0 /\ first + heard = first /\ first % Width = first
  BY SessionAssumption DEF Init
<1>3. wire \in Seq(Reply) /\ notifs \in Seq(Reply) /\ DOMAIN wire = {} /\ DOMAIN notifs = {}
  BY DEF Init
<1>4. TypeOK
  BY <1>1, <1>2, <1>3 DEF Init, TypeOK
<1>5. ReadsStatus
  BY <1>1 DEF ReadsByReadStatus, ReadsStatus
<1>6. CounterIsHeard
  BY <1>2 DEF Init, CounterIsHeard
<1>7. QED
  BY <1>3, <1>4, <1>5, <1>6
     DEF Init, SessionInv, RepliesInOrder, InOrder, AllWereSent, WireIsNew, NotifsAreNew, LastAsked

\* What the tail of a sequence is.
LEMMA Tails ==
    ASSUME NEW S, NEW q \in Seq(S), q # <<>>
    PROVE  /\ Tail(q) \in Seq(S) /\ Len(q) \in Nat \ {0}
           /\ DOMAIN q = 1..Len(q) /\ DOMAIN Tail(q) = 1..(Len(q) - 1)
           /\ \A i \in 1..(Len(q) - 1) : Tail(q)[i] = q[i + 1]
           /\ Head(q) = q[1] /\ q[1] \in S
OBVIOUS

\* The plan goes on: what is left still reads in read_status only.
LEMMA PlanGoesOn ==
    ASSUME TypeOK, ReadsStatus, NEW step, Does(step)
    PROVE  /\ plan' \in Seq(Steps) /\ ReadsStatus'
           /\ plan[1] = step /\ 1 \in DOMAIN plan
           /\ AboutToRead' /\ step # "clear" => AboutToRead
           /\ 1 \in DOMAIN plan' /\ plan'[1] = "read" => step = "status"
<1>1. plan \in Seq(Steps) /\ plan # <<>> /\ Head(plan) = step /\ plan' = Tail(plan)
  BY DEF TypeOK, Does
<1> DEFINE n == Len(plan)
<1>2. /\ plan' \in Seq(Steps) /\ n \in Nat \ {0}
      /\ DOMAIN plan = 1..n /\ DOMAIN plan' = 1..(n - 1)
      /\ \A i \in 1..(n - 1) : plan'[i] = plan[i + 1]
      /\ plan[1] = step
  BY <1>1, Tails
<1> HIDE DEF n
<1>3. ASSUME NEW i \in 1..(n - 1), plan'[i] = "read"
      PROVE  /\ i + 1 \in 1..n /\ plan[i + 1] = "read"
             /\ i > 1 => plan'[i - 1] = plan[i]
             /\ i > 2 => plan'[i - 2] = plan[i - 1]
             /\ plan[i] = "status"
             /\ i > 1 => plan[i - 1] = "clear"
  <2>1. i \in Nat /\ i + 1 \in 1..n /\ plan[i + 1] = "read"
    BY <1>2, <1>3
  <2>2. (i + 1) - 1 = i /\ (i + 1) - 2 = i - 1
    BY <2>1
  <2>3. i + 1 > 1 /\ (i > 1 => i + 1 > 2)
    BY <2>1
  <2>4. plan[i] = "status" /\ (i > 1 => plan[i - 1] = "clear")
    BY <1>2, <2>1, <2>2, <2>3 DEF ReadsStatus
  <2>5. i > 1 => i - 1 \in 1..(n - 1) /\ (i - 1) + 1 = i
    BY <1>2
  <2>6. i > 2 => i - 2 \in 1..(n - 1) /\ (i - 2) + 1 = i - 1
    BY <1>2
  <2>7. QED
    BY <1>2, <2>1, <2>4, <2>5, <2>6
<1>4. ReadsStatus'
  BY <1>2, <1>3 DEF ReadsStatus
<1>5. 1 \in DOMAIN plan' /\ plan'[1] = "read" => step = "status"
  BY <1>2, <1>3
<1>6. ASSUME AboutToRead', step # "clear" PROVE AboutToRead
  <2>1. PICK i \in 1..(n - 1) : i \in {1, 2} /\ plan'[i] = "read"
    BY <1>2, <1>6 DEF AboutToRead
  <2>2. CASE i = 2
    <3>1. i > 1 /\ i - 1 = 1
      BY <2>2
    <3>2. plan[1] = "clear"
      BY <1>3, <2>1, <3>1
    <3>3. QED
      BY <1>2, <1>6, <3>2
  <2>3. CASE i = 1
    <3>1. 2 \in 1..n /\ plan[2] = "read"
      BY <1>2, <2>1, <2>3
    <3>2. QED
      BY <1>2, <3>1 DEF AboutToRead
  <2>4. QED
    BY <2>1, <2>2, <2>3
<1>7. QED
  BY <1>2, <1>4, <1>5, <1>6

-----------------------------------------------------------------------------
(***************************************************************************)
(* The steps.                                                              *)
(***************************************************************************)

\* What the sequences of replies hold.
LEMMA Replies ==
    ASSUME TypeOK
    PROVE  /\ wire \in Seq(Reply) /\ DOMAIN wire = 1..Len(wire) /\ Len(wire) \in Nat
           /\ notifs \in Seq(Reply) /\ DOMAIN notifs = 1..Len(notifs) /\ Len(notifs) \in Nat
           /\ \A j \in DOMAIN wire : wire[j] \in Reply
           /\ \A i \in DOMAIN notifs : notifs[i] \in Reply
BY DEF TypeOK

\* A message is sent; its reply, if any, is the last under way.
LEMMA SendStep ==
    ASSUME SessionInv, NEW message \in {"status", "query", "set"}, Send(message)
    PROVE  SessionInv'
<1>1. TypeOK /\ Does(message)
  BY DEF SessionInv, Send
<1>2. /\ plan' \in Seq(Steps) /\ ReadsStatus'
      /\ AboutToRead' => AboutToRead
      /\ 1 \in DOMAIN plan' /\ plan'[1] = "read" => message = "status"
  BY <1>1, PlanGoesOn DEF SessionInv
<1>3. UNCHANGED <<talks, first, rx, notifs, result, heard, lost>>
  BY DEF Send, timer
<1>4. /\ wire \in Seq(Reply) /\ DOMAIN wire = 1..Len(wire) /\ Len(wire) \in Nat
      /\ notifs \in Seq(Reply)
      /\ \A j \in DOMAIN wire : wire[j] \in Reply
      /\ \A i \in DOMAIN notifs : notifs[i] \in Reply
  BY <1>1, Replies
<1>5. sent \in Nat /\ asked \in Nat /\ heard \in Nat /\ heard <= sent
  BY <1>1 DEF TypeOK, SessionInv, AllWereSent
<1>6. /\ asked' \in Nat
      /\ message = "status" => asked' = sent
  BY <1>5 DEF Send
\* The replies that were under way are still there.
<1> DEFINE n == Len(wire)
<1>7. \/ wire' = wire /\ sent' = sent
      \/ \E r \in Reply : /\ r.at = sent /\ EndOf(r) = sent'
                          /\ wire' = Append(wire, r)
  <2> DEFINE kind == IF message = "status" THEN "status" ELSE "other"
             r == [kind |-> kind, at |-> sent]
  <2>1. kind \in {"status", "other"}
    OBVIOUS
  <2>2. r \in Reply /\ r.at = sent /\ EndOf(r) = sent + Size(kind)
    BY <2>1, <1>5 DEF Reply, EndOf
  <2>3. \/ wire' = wire /\ sent' = sent
        \/ wire' = Append(wire, r) /\ sent' = sent + Size(kind)
    BY DEF Send
  <2>4. QED
    BY <2>2, <2>3
<1>8. CASE wire' = wire /\ sent' = sent
  <2>1. TypeOK'
    BY <1>1, <1>2, <1>3, <1>6, <1>8 DEF TypeOK
  <2>2. LastAsked'
    <3> SUFFICES ASSUME message = "status"
                 PROVE  /\ \A i \in DOMAIN notifs : notifs[i].at <= sent
                        /\ \A j \in DOMAIN wire : wire[j].at <= sent
      BY <1>2, <1>3, <1>6, <1>8 DEF LastAsked
    <3>1. \A i \in DOMAIN notifs : EndOf(notifs[i]) <= sent
      BY DEF SessionInv, AllWereSent
    <3>2. \A j \in DOMAIN wire : EndOf(wire[j]) <= sent
      BY DEF SessionInv, AllWereSent
    <3>3. QED
      BY SMTT(20), <1>4, <1>5, <3>1, <3>2, ReplyTypes
  <2>3. QED
    BY <1>2, <1>3, <1>8, <2>1, <2>2
       DEF SessionInv, RepliesInOrder, InOrder, AllWereSent, CounterIsHeard, WireIsNew, NotifsAreNew
<1>9. ASSUME NEW r \in Reply, r.at = sent, EndOf(r) = sent', wire' = Append(wire, r)
      PROVE  SessionInv'
  <2>1. /\ wire' \in Seq(Reply) /\ DOMAIN wire' = 1..(n + 1)
        /\ \A j \in 1..n : wire'[j] = wire[j]
        /\ wire'[n + 1] = r
    BY <1>4, <1>9
  <2>2. sent' \in Nat /\ sent' > sent
    BY <1>9, ReplyTypes
  <2>3. TypeOK'
    BY <1>1, <1>2, <1>3, <1>6, <2>1, <2>2 DEF TypeOK
  <2> HIDE DEF n
  <2>4. n \in Nat /\ DOMAIN wire = 1..n
    BY <1>4 DEF n
  <2>5. /\ \A i \in DOMAIN notifs : EndOf(notifs[i]) <= sent /\ notifs[i].at <= sent
        /\ \A j \in 1..n : EndOf(wire[j]) <= sent /\ wire[j].at <= sent
    <3>1. /\ \A i \in DOMAIN notifs : EndOf(notifs[i]) <= sent
          /\ \A j \in DOMAIN wire : EndOf(wire[j]) <= sent
      BY DEF SessionInv, AllWereSent
    <3>2. \A i \in DOMAIN notifs : notifs[i].at <= sent
      BY <1>4, <1>5, <3>1, ReplyTypes
    <3>3. ASSUME NEW j \in 1..n PROVE wire[j].at <= sent
      <4>1. wire[j] \in Reply /\ EndOf(wire[j]) <= sent
        BY <1>4, <2>4, <3>1
      <4>2. QED
        BY <1>5, <4>1, ReplyTypes
    <3>4. QED
      BY <2>4, <3>1, <3>2, <3>3
  <2>6. RepliesInOrder'
    <3>1. InOrder(wire')
      <4> SUFFICES ASSUME NEW i \in 1..(n + 1), NEW j \in 1..(n + 1), i < j
                   PROVE  EndOf(wire'[i]) <= wire'[j].at
        BY <2>1 DEF InOrder
      <4>1. i \in 1..n
        BY <2>4
      <4>2. CASE j \in 1..n
        BY <2>1, <2>4, <4>1, <4>2 DEF SessionInv, RepliesInOrder, InOrder
      <4>3. CASE j = n + 1
        BY <1>9, <2>1, <2>5, <4>1, <4>3
      <4>4. QED
        BY <2>4, <4>2, <4>3
    <3>2. \A i \in DOMAIN notifs, j \in 1..(n + 1) : EndOf(notifs[i]) <= wire'[j].at
      <4> SUFFICES ASSUME NEW i \in DOMAIN notifs, NEW j \in 1..(n + 1)
                   PROVE  EndOf(notifs[i]) <= wire'[j].at
        OBVIOUS
      <4>1. CASE j \in 1..n
        BY <2>1, <2>4, <4>1 DEF SessionInv, RepliesInOrder
      <4>2. CASE j = n + 1
        BY <1>9, <2>1, <2>5, <4>2
      <4>3. QED
        BY <2>4, <4>1, <4>2
    <3>3. QED
      BY <1>3, <2>1, <3>1, <3>2 DEF RepliesInOrder, SessionInv, InOrder
  <2>7. AllWereSent'
    <3>1. \A i \in DOMAIN notifs : EndOf(notifs[i]) <= sent'
      BY <1>4, <1>5, <2>2, <2>5, ReplyTypes
    <3>2. \A j \in 1..(n + 1) : EndOf(wire'[j]) <= sent'
      <4> SUFFICES ASSUME NEW j \in 1..(n + 1) PROVE EndOf(wire'[j]) <= sent'
        OBVIOUS
      <4>1. CASE j \in 1..n
        BY <1>4, <1>5, <2>1, <2>2, <2>4, <2>5, <4>1, ReplyTypes
      <4>2. CASE j = n + 1
        BY <1>9, <2>1, <2>2, <4>2
      <4>3. QED
        BY <2>4, <4>1, <4>2
    <3>3. QED
      BY <1>3, <1>5, <2>1, <2>2, <3>1, <3>2 DEF AllWereSent
  <2>8. WireIsNew'
    <3> SUFFICES ASSUME NEW j \in 1..(n + 1) PROVE heard <= wire'[j].at
      BY <1>3, <2>1 DEF WireIsNew
    <3>1. CASE j \in 1..n
      BY <2>1, <2>4, <3>1 DEF SessionInv, WireIsNew
    <3>2. CASE j = n + 1
      BY <1>5, <1>9, <2>1, <3>2
    <3>3. QED
      BY <2>4, <3>1, <3>2
  <2>9. LastAsked'
    <3> SUFFICES ASSUME message = "status"
                 PROVE  /\ \A i \in DOMAIN notifs : notifs[i].at <= sent
                        /\ \A j \in 1..(n + 1) : wire'[j].at <= sent
      BY <1>2, <1>3, <1>6, <2>1 DEF LastAsked
    <3>1. ASSUME NEW j \in 1..(n + 1) PROVE wire'[j].at <= sent
      <4>1. CASE j \in 1..n
        BY <2>1, <2>5, <4>1
      <4>2. CASE j = n + 1
        BY <1>5, <1>9, <2>1, <4>2
      <4>3. QED
        BY <2>4, <4>1, <4>2
    <3>2. QED
      BY <2>5, <3>1
  <2>10. QED
    BY <1>2, <1>3, <2>3, <2>6, <2>7, <2>8, <2>9 DEF SessionInv, CounterIsHeard, NotifsAreNew
<1>10. QED
  BY <1>7, <1>8, <1>9

\* A reply comes, or is lost; the others keep their order.
LEMMA DeliverStep ==
    ASSUME SessionInv, Deliver
    PROVE  SessionInv'
<1>1. TypeOK
  BY DEF SessionInv
<1>2. /\ wire \in Seq(Reply) /\ wire # <<>>
      /\ notifs \in Seq(Reply) /\ DOMAIN notifs = 1..Len(notifs) /\ Len(notifs) \in Nat
      /\ \A j \in DOMAIN wire : wire[j] \in Reply
      /\ \A i \in DOMAIN notifs : notifs[i] \in Reply
  BY <1>1, Replies DEF Deliver
<1> DEFINE n == Len(wire)
           m == Len(notifs)
<1>3. /\ wire' \in Seq(Reply) /\ n \in Nat \ {0}
      /\ DOMAIN wire = 1..n /\ DOMAIN wire' = 1..(n - 1)
      /\ \A j \in 1..(n - 1) : wire'[j] = wire[j + 1] /\ j + 1 \in DOMAIN wire
      /\ Head(wire) = wire[1] /\ 1 \in DOMAIN wire
  <2>1. wire' = Tail(wire)
    BY DEF Deliver
  <2>2. QED
    BY <1>2, <2>1, Tails
<1>4. UNCHANGED <<plan, talks, first, rx, result, sent, asked, heard>>
  BY DEF Deliver, timer
<1>5. \A i \in DOMAIN notifs, j \in DOMAIN wire : EndOf(notifs[i]) <= wire[j].at
  BY DEF SessionInv, RepliesInOrder
<1>6. \A i \in DOMAIN wire, j \in DOMAIN wire : i < j => EndOf(wire[i]) <= wire[j].at
  BY DEF SessionInv, RepliesInOrder, InOrder
<1> HIDE DEF n, m
<1>7. /\ InOrder(wire')
      /\ \A j \in DOMAIN wire' : /\ EndOf(wire[1]) <= wire'[j].at
                                 /\ EndOf(wire'[j]) <= sent /\ heard <= wire'[j].at
  <2>1. ASSUME NEW i \in 1..(n - 1), NEW j \in 1..(n - 1), i < j
        PROVE  EndOf(wire'[i]) <= wire'[j].at
    <3>1. i + 1 \in DOMAIN wire /\ j + 1 \in DOMAIN wire /\ i + 1 < j + 1
      BY <1>3, <2>1
    <3>2. QED
      BY <1>3, <1>6, <3>1
  <2>2. ASSUME NEW j \in 1..(n - 1)
        PROVE  EndOf(wire[1]) <= wire'[j].at /\ EndOf(wire'[j]) <= sent /\ heard <= wire'[j].at
    <3>1. j + 1 \in DOMAIN wire /\ 1 < j + 1 /\ wire'[j] = wire[j + 1]
      BY <1>3
    <3>2. QED
      BY <1>3, <1>6, <3>1 DEF SessionInv, AllWereSent, WireIsNew
  <2>3. QED
    BY <1>3, <2>1, <2>2 DEF InOrder
<1>8. CASE notifs' = notifs /\ lost' \in 0..MaxLost
  <2>1. TypeOK'
    BY <1>1, <1>3, <1>4, <1>8 DEF TypeOK
  <2>2. RepliesInOrder'
    <3>1. \A i \in DOMAIN notifs, j \in 1..(n - 1) : EndOf(notifs[i]) <= wire'[j].at
      BY <1>3, <1>5
    <3>2. InOrder(notifs)
      BY DEF SessionInv, RepliesInOrder
    <3>3. QED
      BY <1>3, <1>7, <1>8, <3>1, <3>2 DEF RepliesInOrder
  <2>3. AllWereSent' /\ WireIsNew'
    BY <1>4, <1>7, <1>8 DEF SessionInv, AllWereSent, WireIsNew
  <2>4. LastAsked'
    BY <1>3, <1>4, <1>8 DEF SessionInv, LastAsked
  <2>5. QED
    BY <1>4, <1>8, <2>1, <2>2, <2>3, <2>4
       DEF SessionInv, CounterIsHeard, ReadsStatus, NotifsAreNew, AboutToRead
<1>9. CASE notifs' = Append(notifs, Head(wire)) /\ lost' = lost
  <2>1. /\ notifs' \in Seq(Reply) /\ DOMAIN notifs' = 1..(m + 1) /\ m \in Nat
        /\ DOMAIN notifs = 1..m
        /\ \A i \in 1..m : notifs'[i] = notifs[i]
        /\ notifs'[m + 1] = wire[1]
    BY <1>2, <1>3, <1>9 DEF m
  <2>2. TypeOK'
    BY <1>1, <1>3, <1>4, <1>9, <2>1 DEF TypeOK
  <2>3. \A i \in 1..(m + 1) : i \in 1..m \/ i = m + 1
    BY <2>1
  <2>4. RepliesInOrder'
    <3>1. InOrder(notifs')
      <4> SUFFICES ASSUME NEW i \in 1..(m + 1), NEW j \in 1..(m + 1), i < j
                   PROVE  EndOf(notifs'[i]) <= notifs'[j].at
        BY <2>1 DEF InOrder
      <4>1. i \in 1..m
        BY <2>1
      <4>2. CASE j \in 1..m
        BY <2>1, <4>1, <4>2 DEF SessionInv, RepliesInOrder, InOrder
      <4>3. CASE j = m + 1
        BY <1>3, <1>5, <2>1, <4>1, <4>3
      <4>4. QED
        BY <2>3, <4>2, <4>3
    <3>2. \A i \in 1..(m + 1), j \in DOMAIN wire' : EndOf(notifs'[i]) <= wire'[j].at
      <4> SUFFICES ASSUME NEW i \in 1..(m + 1), NEW j \in 1..(n - 1)
                   PROVE  EndOf(notifs'[i]) <= wire'[j].at
        BY <1>3
      <4>1. CASE i \in 1..m
        BY <1>3, <1>5, <2>1, <4>1
      <4>2. CASE i = m + 1
        BY <1>3, <1>7, <2>1, <4>2
      <4>3. QED
        BY <2>3, <4>1, <4>2
    <3>3. QED
      BY <1>7, <2>1, <3>1, <3>2 DEF RepliesInOrder
  <2>5. AllWereSent'
    <3>1. \A i \in 1..(m + 1) : EndOf(notifs'[i]) <= sent
      BY <1>3, <2>1, <2>3 DEF SessionInv, AllWereSent
    <3>2. QED
      BY <1>4, <1>7, <2>1, <3>1 DEF SessionInv, AllWereSent
  <2>6. NotifsAreNew'
    <3>1. heard <= wire[1].at
      BY <1>3 DEF SessionInv, WireIsNew
    <3>2. AboutToRead' = AboutToRead
      BY <1>4 DEF AboutToRead
    <3>3. QED
      BY <1>4, <2>1, <2>3, <3>1, <3>2 DEF SessionInv, NotifsAreNew
  <2>7. LastAsked'
    <3> SUFFICES ASSUME 1 \in DOMAIN plan, plan[1] = "read"
                 PROVE  /\ \A i \in 1..(m + 1) : notifs'[i].at <= asked
                        /\ \A j \in 1..(n - 1) : wire'[j].at <= asked
      BY <1>3, <1>4, <2>1 DEF LastAsked
    <3>1. /\ \A i \in DOMAIN notifs : notifs[i].at <= asked
          /\ \A j \in DOMAIN wire : wire[j].at <= asked
      BY DEF SessionInv, LastAsked
    <3>2. QED
      BY <1>3, <2>1, <2>3, <3>1
  <2>8. QED
    BY <1>4, <1>7, <2>2, <2>4, <2>5, <2>6, <2>7
       DEF SessionInv, CounterIsHeard, WireIsNew, ReadsStatus
<1>10. QED
  <2>1. \/ notifs' = Append(notifs, Head(wire)) /\ lost' = lost
        \/ lost < MaxLost /\ lost' = lost + 1 /\ notifs' = notifs
    BY DEF Deliver
  <2>2. lost < MaxLost /\ lost' = lost + 1 => lost' \in 0..MaxLost
    BY <1>1, SessionAssumption DEF TypeOK
  <2>3. QED
    BY <1>8, <1>9, <2>1, <2>2

\* What came before is forgotten.
LEMMA ClearStep ==
    ASSUME SessionInv, Clear
    PROVE  SessionInv'
<1>1. TypeOK /\ Does("clear")
  BY DEF SessionInv, Clear
<1>2. /\ plan' \in Seq(Steps) /\ ReadsStatus'
      /\ ~(1 \in DOMAIN plan' /\ plan'[1] = "read")
  BY <1>1, PlanGoesOn DEF SessionInv
<1>3. /\ notifs' = <<>> /\ DOMAIN notifs' = {}
      /\ UNCHANGED <<talks, first, rx, wire, result, sent, asked, heard, lost>>
  BY DEF Clear, timer, past
<1>4. TypeOK'
  BY <1>1, <1>2, <1>3 DEF TypeOK
<1>5. RepliesInOrder' /\ AllWereSent' /\ WireIsNew' /\ CounterIsHeard'
  BY <1>3 DEF SessionInv, RepliesInOrder, InOrder, AllWereSent, WireIsNew, CounterIsHeard
<1>6. QED
  BY <1>2, <1>3, <1>4, <1>5 DEF SessionInv, NotifsAreNew, LastAsked

\* A session goes on with the timer it read, or ends.
LEMMA CheckStep ==
    ASSUME SessionInv, Check
    PROVE  SessionInv'
<1>1. TypeOK
  BY DEF SessionInv
<1>2. UNCHANGED <<talks, first, rx, wire, notifs, result, sent, asked, heard, lost>>
  BY DEF Check, timer, past
<1>3. /\ plan' \in Seq(Steps) /\ ReadsStatus'
      /\ AboutToRead' => AboutToRead
      /\ ~(1 \in DOMAIN plan' /\ plan'[1] = "read")
  <2>1. CASE plan' = Tail(plan)
    <3>1. Does("check")
      BY <2>1 DEF Check, Does
    <3>2. QED
      BY <1>1, <3>1, PlanGoesOn DEF SessionInv
  <2>2. CASE plan' = <<>>
    <3>1. plan' \in Seq(Steps) /\ DOMAIN plan' = {}
      BY <2>2
    <3>2. QED
      BY <3>1 DEF ReadsStatus, AboutToRead
  <2>3. QED
    BY <2>1, <2>2 DEF Check
<1>4. TypeOK'
  BY <1>1, <1>2, <1>3 DEF TypeOK
<1>5. QED
  BY <1>2, <1>3, <1>4
     DEF SessionInv, RepliesInOrder, InOrder, AllWereSent, WireIsNew, CounterIsHeard,
         NotifsAreNew, LastAsked

-----------------------------------------------------------------------------
(***************************************************************************)
(* Reading.                                                                *)
(***************************************************************************)

\* After a turn of the loop, the counter is where the reply read last ends: one
\* of the first k, or the one read last before.
LoopAt(a, k) ==
    \E h \in Nat :
        /\ a[k].rx = (first + h) % Width
        /\ \/ a[k].best = NoReply /\ h = heard
           \/ \E j \in 1..k : a[k].best = notifs[j] /\ h = EndOf(notifs[j])

\* So it is after every turn.
LEMMA LoopInv ==
    ASSUME SessionInv, NEW a, Turns(a, [rx |-> rx, best |-> NoReply], notifs)
    PROVE  \A k \in 0..Len(notifs) : LoopAt(a, k)
<1> DEFINE n == Len(notifs)
           Bad == {k \in 0..n : ~LoopAt(a, k)}
<1>1. /\ first \in Nat /\ heard \in Nat /\ n \in Nat /\ DOMAIN notifs = 1..n
      /\ \A i \in 1..n : notifs[i] \in Reply
  BY Replies DEF SessionInv, TypeOK
<1>2. /\ a[0].rx = rx /\ a[0].best = NoReply
      /\ \A k \in 1..n : a[k] = Decode(a[k - 1], notifs[k])
  BY DEF Turns
<1> HIDE DEF n
<1>3. LoopAt(a, 0)
  BY <1>1, <1>2 DEF LoopAt, SessionInv, CounterIsHeard
<1>4. ASSUME NEW k \in 1..n, LoopAt(a, k - 1) PROVE LoopAt(a, k)
  <2>1. PICK h \in Nat :
           /\ a[k - 1].rx = (first + h) % Width
           /\ \/ a[k - 1].best = NoReply /\ h = heard
              \/ \E j \in 1..(k - 1) : a[k - 1].best = notifs[j] /\ h = EndOf(notifs[j])
    BY <1>4 DEF LoopAt
  <2>2. k \in Nat /\ k \in 1..k /\ 1..(k - 1) \subseteq 1..k /\ notifs[k] \in Reply
    BY <1>1
  <2>3. \/ a[k] = a[k - 1]
        \/ a[k].best = notifs[k] /\ a[k].rx = (first + EndOf(notifs[k])) % Width
    <3>1. a[k] = Decode(a[k - 1], notifs[k])
      BY <1>2
    <3>2. first \in Nat
      BY <1>1
    <3>3. \/ Decode(a[k - 1], notifs[k]) = a[k - 1]
          \/ /\ Decode(a[k - 1], notifs[k]).best = notifs[k]
             /\ Decode(a[k - 1], notifs[k]).rx = (first + EndOf(notifs[k])) % Width
      BY <2>1, <2>2, <3>2, DecodeMoves
    <3>4. QED
      BY <3>1, <3>3
  <2>4. CASE a[k] = a[k - 1]
    BY <2>1, <2>2, <2>4 DEF LoopAt
  <2>5. CASE a[k].best = notifs[k] /\ a[k].rx = (first + EndOf(notifs[k])) % Width
    <3>1. EndOf(notifs[k]) \in Nat
      BY <2>2, ReplyTypes
    <3>2. QED
      BY <2>2, <2>5, <3>1 DEF LoopAt
  <2>6. QED
    BY <2>3, <2>4, <2>5
<1>5. SUFFICES ASSUME Bad # {} PROVE FALSE
  BY DEF n
<1>6. Bad \subseteq Nat
  BY <1>1
<1>7. PICK k \in Bad : \A p \in Bad : k <= p
  BY <1>5, <1>6, LeastNumber
<1>8. k \in 1..n /\ k - 1 \in 0..n /\ k - 1 \notin Bad
  BY <1>1, <1>3, <1>7
<1>9. QED
  BY <1>4, <1>7, <1>8

\* What a read returns and where it leaves the counter.
LEMMA ReadReturns ==
    ASSUME SessionInv, Read
    PROVE  /\ heard' \in Nat /\ rx' = (first + heard') % Width
           /\ \/ result' = NoReply /\ heard' = heard
              \/ \E j \in DOMAIN notifs : result' = notifs[j] /\ heard' = EndOf(notifs[j])
<1> DEFINE acc == [rx |-> rx, best |-> NoReply]
           n == Len(notifs)
           read == FoldLeft(Decode, acc, notifs)
<1>1. /\ notifs \in Seq(Reply) /\ n \in Nat /\ DOMAIN notifs = 1..n
      /\ \A i \in 1..n : notifs[i] \in Reply
  BY Replies DEF SessionInv
<1>2. PICK a : Turns(a, acc, notifs) /\ read = a[n]
  BY <1>1, LoopTurns
<1>3. LoopAt(a, n)
  BY <1>1, <1>2, LoopInv
<1>4. /\ rx' = read.rx /\ result' = read.best
      /\ heard' = IF read.best = NoReply THEN heard ELSE EndOf(read.best)
  BY DEF Read, EndOf
<1> HIDE DEF read, n
<1>5. PICK h \in Nat :
         /\ read.rx = (first + h) % Width
         /\ \/ read.best = NoReply /\ h = heard
            \/ \E j \in 1..n : read.best = notifs[j] /\ h = EndOf(notifs[j])
  BY <1>2, <1>3 DEF LoopAt
<1>6. \A j \in 1..n : notifs[j] # NoReply
  BY <1>1, ReplyTypes
<1>7. heard' = h
  BY <1>4, <1>5, <1>6
<1>8. QED
  BY <1>1, <1>4, <1>5, <1>7

\* A read leaves the counter where what it read ends.
LEMMA ReadStep ==
    ASSUME SessionInv, Read
    PROVE  SessionInv'
<1>1. TypeOK /\ Does("read")
  BY DEF SessionInv, Read
<1>2. /\ plan' \in Seq(Steps) /\ ReadsStatus'
      /\ plan[1] = "read" /\ 1 \in DOMAIN plan
      /\ ~(1 \in DOMAIN plan' /\ plan'[1] = "read")
  BY <1>1, PlanGoesOn DEF SessionInv
<1>3. ~AboutToRead'
  <2>1. ASSUME AboutToRead' PROVE FALSE
    <3>1. plan \in Seq(Steps) /\ plan # <<>> /\ plan' = Tail(plan)
      BY <1>1 DEF TypeOK, Does
    <3>2. /\ DOMAIN plan = 1..Len(plan) /\ DOMAIN plan' = 1..(Len(plan) - 1)
          /\ Len(plan) \in Nat \ {0}
          /\ \A i \in 1..(Len(plan) - 1) : plan'[i] = plan[i + 1]
      BY <3>1, Tails
    <3>3. 2 \in DOMAIN plan' /\ plan'[2] = "read"
      BY <1>2, <2>1 DEF AboutToRead
    <3>4. 3 \in DOMAIN plan /\ plan[3] = "read"
      BY <3>2, <3>3
    <3>5. plan[1] = "clear"
      BY <3>4 DEF SessionInv, ReadsStatus
    <3>6. QED
      BY <1>2, <3>5
  <2>2. QED
    BY <2>1
<1>4. UNCHANGED <<talks, first, wire, notifs, sent, asked, lost>>
  BY DEF Read, timer
<1>5. /\ heard' \in Nat /\ rx' = (first + heard') % Width
      /\ \/ result' = NoReply /\ heard' = heard
         \/ \E j \in DOMAIN notifs : result' = notifs[j] /\ heard' = EndOf(notifs[j])
  BY ReadReturns
<1>6. \A i \in DOMAIN notifs : notifs[i] \in Reply
  BY <1>1, Replies
<1>7. result' \in Reply \cup {NoReply} /\ rx' \in 0..(Width - 1)
  <2>1. Width \in Nat \ {0} /\ first \in Nat
    BY <1>1, SessionAssumption DEF TypeOK
  <2>2. (first + heard') % Width \in 0..(Width - 1)
    <3>1. ASSUME NEW h \in Nat PROVE (first + h) % Width \in 0..(Width - 1)
      <4>1. first + h \in Nat
        BY <2>1
      <4>2. QED
        BY <2>1, <4>1, DivMod
    <3>2. heard' \in Nat
      BY <1>5
    <3>3. QED
      BY <3>1, <3>2
  <2>3. QED
    BY <1>1, <1>5, <1>6, <2>2 DEF TypeOK
<1>8. TypeOK'
  BY <1>1, <1>2, <1>4, <1>5, <1>7 DEF TypeOK
<1>9. AllWereSent' /\ WireIsNew' /\ RepliesInOrder'
  BY <1>4, <1>5 DEF SessionInv, AllWereSent, WireIsNew, RepliesInOrder, InOrder
<1>10. QED
  BY <1>2, <1>3, <1>4, <1>5, <1>8, <1>9
     DEF SessionInv, CounterIsHeard, NotifsAreNew, LastAsked

LEMMA SessionStutters ==
    ASSUME SessionInv, UNCHANGED vars
    PROVE  SessionInv'
<1>1. UNCHANGED <<plan, talks, first, rx, wire, notifs, result, sent, asked, heard, lost>>
  BY DEF vars, timer, past
<1>2. TypeOK'
  BY <1>1 DEF SessionInv, TypeOK
<1>3. QED
  BY <1>1, <1>2
     DEF SessionInv, RepliesInOrder, InOrder, AllWereSent, WireIsNew, CounterIsHeard,
         ReadsStatus, NotifsAreNew, AboutToRead, LastAsked

LEMMA SessionInvariant == Spec => []SessionInv
<1>1. SessionInv /\ [Next]_vars => SessionInv'
  BY SendStep, DeliverStep, ClearStep, ReadStep, CheckStep, SessionStutters DEF Next
<1>2. QED
  BY <1>1, SessionInit, PTL DEF Spec

-----------------------------------------------------------------------------
\* Only a read takes a read off the plan.
LEMMA ReadingReads ==
    ASSUME SessionInv, [Next]_vars, ~(UNCHANGED vars), Reading
    PROVE  Read
<1>1. plan \in Seq(Steps) /\ plan # <<>> /\ Head(plan) = "read" /\ plan' = Tail(plan)
  BY DEF SessionInv, TypeOK, Reading
<1>2. plan' # plan
  <2>1. Len(Tail(plan)) # Len(plan)
    BY <1>1
  <2>2. QED
    BY <1>1, <2>1, Zenon
<1>3. ASSUME NEW message \in {"status", "query", "set"}, Send(message) PROVE FALSE
  BY <1>1, <1>3 DEF Send, Does
<1>4. ~Deliver
  BY <1>2 DEF Deliver
<1>5. ~Clear /\ ~Check
  BY <1>1 DEF Clear, Check, Does
<1>6. QED
  BY <1>3, <1>4, <1>5 DEF Next

\* Well-typed sessions, for counters of any width and replies of any size: the
\* host's counter never leaves its width, whatever is lost (bhyve_xd.py:474-499).
THEOREM SessionTypeCorrect == Spec => []TypeOK
<1>1. SessionInv => TypeOK
  BY DEF SessionInv
<1>2. QED
  BY <1>1, SessionInvariant, PTL

\* For any plans that read by read_status, any window and any number of lost and
\* late replies, no read returns what an earlier read has returned, or anything
\* sent before it: the clear at its beginning is enough (bhyve_xd.py:477).
THEOREM ReadsAreNew == Spec => EachReadIsNew
<1>1. ASSUME SessionInv, [Next]_vars
      PROVE  [Reading => result' = NoReply \/ result'.at >= heard]_vars
  <2> SUFFICES ASSUME ~(UNCHANGED vars), Reading
               PROVE  result' = NoReply \/ result'.at >= heard
    OBVIOUS
  <2>1. Read
    BY <1>1, ReadingReads
  <2>2. \A i \in DOMAIN notifs : heard <= notifs[i].at /\ notifs[i].at \in Nat
    <3>1. plan \in Seq(Steps) /\ plan # <<>> /\ Head(plan) = "read"
      BY <1>1 DEF Reading, SessionInv, TypeOK
    <3>2. 1 \in DOMAIN plan /\ plan[1] = "read"
      BY <3>1, Tails
    <3>3. AboutToRead
      BY <3>2 DEF AboutToRead
    <3>4. \A i \in DOMAIN notifs : notifs[i] \in Reply
      BY <1>1, Replies DEF SessionInv
    <3>5. QED
      BY <1>1, <3>3, <3>4, ReplyTypes DEF SessionInv, NotifsAreNew
  <2>3. heard \in Nat
    BY <1>1 DEF SessionInv, TypeOK
  <2>4. QED
    BY <1>1, <2>1, <2>2, <2>3, ReadReturns
<1>2. QED
  BY <1>1, SessionInvariant, PTL DEF Spec, EachReadIsNew

\* For any plans that read by read_status and counters that wrap anywhere, a
\* read whose own reply came in time returns it, provided that the timer has not
\* said more than the window since the last reply that was read; what is late,
\* lost or cleared before does not matter (bhyve_xd.py:474-499).
THEOREM ReadsItsOwn == Spec => OwnReplyRead
<1>1. ASSUME SessionInv, [Next]_vars
      PROVE  [Reading /\ asked - heard <= Ahead /\ (\E i \in DOMAIN notifs : notifs[i].at = asked)
                => result'.at = asked /\ result' # NoReply]_vars
  <2> SUFFICES ASSUME ~(UNCHANGED vars), Reading, asked - heard <= Ahead,
                      NEW i \in DOMAIN notifs, notifs[i].at = asked
               PROVE  result'.at = asked /\ result' # NoReply
    OBVIOUS
  <2> DEFINE acc == [rx |-> rx, best |-> NoReply]
             n == Len(notifs)
             read == FoldLeft(Decode, acc, notifs)
  <2>1. Read
    BY <1>1, ReadingReads
  <2>2. /\ notifs \in Seq(Reply) /\ n \in Nat /\ DOMAIN notifs = 1..n
        /\ \A j \in 1..n : notifs[j] \in Reply /\ notifs[j].at \in Nat
        /\ \A j \in 1..n : EndOf(notifs[j]) \in Nat /\ EndOf(notifs[j]) > notifs[j].at
        /\ first \in Nat /\ heard \in Nat /\ asked \in Nat
    <3>1. /\ notifs \in Seq(Reply) /\ n \in Nat /\ DOMAIN notifs = 1..n
          /\ \A j \in 1..n : notifs[j] \in Reply
      BY <1>1, Replies DEF SessionInv
    <3>2. first \in Nat /\ heard \in Nat /\ asked \in Nat
      BY <1>1, SessionAssumption DEF SessionInv, TypeOK
    <3>3. QED
      BY <3>1, <3>2, ReplyTypes
  <2>3. 1 \in DOMAIN plan /\ plan[1] = "read"
    <3>1. plan \in Seq(Steps) /\ plan # <<>> /\ Head(plan) = "read"
      BY <1>1 DEF Reading, SessionInv, TypeOK
    <3>2. QED
      BY <3>1, Tails
  <2>4. \A j \in DOMAIN notifs : heard <= notifs[j].at /\ notifs[j].at <= asked
    BY <1>1, <2>3 DEF SessionInv, NotifsAreNew, AboutToRead, LastAsked
  <2>5. \A j \in DOMAIN notifs, k \in DOMAIN notifs : j < k => EndOf(notifs[j]) <= notifs[k].at
    BY <1>1 DEF SessionInv, RepliesInOrder, InOrder
  <2> HIDE DEF n
\* It is the last that came.
  <2>6. i = n
    <3> SUFFICES ASSUME i < n PROVE FALSE
      BY <2>2
    <3>1. i \in 1..n /\ n \in 1..n /\ n \in DOMAIN notifs
      BY <2>2
    <3>2. EndOf(notifs[i]) <= notifs[n].at /\ notifs[n].at <= asked
      BY <2>4, <2>5, <3>1
    <3>3. QED
      BY <2>2, <3>1, <3>2
  <2>7. PICK a : Turns(a, acc, notifs) /\ read = a[n]
    BY <2>2, LoopTurns DEF n
  <2>8. n \in 1..n /\ n - 1 \in 0..n /\ a[n] = Decode(a[n - 1], notifs[n])
    BY <2>2, <2>6, <2>7 DEF Turns, n
  <2>9. LoopAt(a, n - 1)
    BY <1>1, <2>7, <2>8, LoopInv DEF n
  <2>10. PICK h \in Nat :
            /\ a[n - 1].rx = (first + h) % Width
            /\ \/ h = heard
               \/ \E j \in 1..(n - 1) : h = EndOf(notifs[j])
    BY <2>9 DEF LoopAt
  <2>11. heard <= h /\ h <= asked
    <3>1. CASE h = heard
      BY <2>2, <2>4, <3>1
    <3>2. ASSUME NEW j \in 1..(n - 1), h = EndOf(notifs[j])
          PROVE  heard <= h /\ h <= asked
      <4>1. j \in DOMAIN notifs /\ n \in DOMAIN notifs /\ j < n
        BY <2>2, <2>8
      <4>2. /\ h <= notifs[n].at /\ notifs[n].at = asked
            /\ heard <= notifs[j].at /\ notifs[j].at < h
        BY <2>2, <2>4, <2>5, <2>6, <3>2, <4>1
      <4>3. QED
        BY SMTT(20), <2>2, <4>1, <4>2
    <3>3. QED
      BY <2>10, <3>1, <3>2
  <2>12. a[n].best = notifs[n]
    <3>1. notifs[n] \in Reply /\ h <= notifs[n].at /\ notifs[n].at - h <= Ahead
      BY <2>2, <2>6, <2>8, <2>11, SessionAssumption
    <3>2. Decode(a[n - 1], notifs[n]).best = notifs[n]
      BY <2>2, <2>10, <3>1, AheadDecodes
    <3>3. QED
      BY <2>8, <3>2
  <2>13. result' = read.best
    BY <2>1 DEF Read
  <2> HIDE DEF read
  <2>14. result' = notifs[n]
    BY <2>7, <2>12, <2>13
  <2>15. QED
    BY <2>2, <2>6, <2>8, <2>14, ReplyTypes
<1>2. QED
  BY <1>1, SessionInvariant, PTL DEF Spec, OwnReplyRead
=============================================================================

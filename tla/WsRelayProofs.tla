--------------------------- MODULE WsRelayProofs ---------------------------
(***************************************************************************)
(* Theorems about WsRelay, for every window and every number of messages.  *)
(* They rest on two invariants.  CloseInv is about the states of the close *)
(* handshakes: whichever connection closes first, the other one is made to *)
(* close by the relay itself, and a connection that the relay closes can   *)
(* only end after it has yielded a Close that nobody takes.  OrderInv adds *)
(* the queues: a Close is the last message of each, and while the relay    *)
(* runs all data is read, on its way or in hand.                           *)
(***************************************************************************)
EXTENDS WsRelay, SequenceTheorems, TLAPS

LEMMA OtherSide ==
  \A s \in Sides : /\ Other(s) \in Sides /\ Other(s) # s
                   /\ Other(Other(s)) = s
                   /\ \A r \in Sides : r = s \/ r = Other(s)
BY DEF Sides, Other

\* A connection the relay did not close: its peer's Close has come.
ClosedByItsPeer(s) == state[s] \in {"ClosedByPeer", "Terminated"}

\* Between two messages either both connections are active, or one was closed by its
\* peer and the other by the relay, which passed the Close on.
Paired ==
  \/ \A s \in Sides : state[s] = "Active"
  \/ \E s \in Sides : ClosedByItsPeer(s) /\ state[Other(s)] = "ClosedByUs"

\* With a Close in hand: the first one, or the one that answers it.
CloseInHand(s) ==
  \/ state[s] = "ClosedByPeer" /\ state[Other(s)] = "Active"
  \/ state[s] = "CloseAcknowledged" /\ ClosedByItsPeer(Other(s))

CloseInv ==
  relay = "running" =>
    /\ \A s \in Sides : /\ ended[s] => state[s] = "Terminated"
                        /\ reply[s] => ClosedByItsPeer(s)
    /\ IF hand # <<>> /\ hand[1].msg = Close THEN CloseInHand(hand[1].from) ELSE Paired

Inv == TypeOK /\ CloseInv

-----------------------------------------------------------------------------

LEMMA Initially == Init => Inv
<1> SUFFICES ASSUME Init PROVE Inv
  OBVIOUS
<1>1. TypeOK
  BY WsAssumption DEF Init, TypeOK
<1>2. CloseInv
  BY DEF Init, CloseInv, Paired
<1> QED
  BY <1>1, <1>2 DEF Inv

States == {"Active", "ClosedByUs", "ClosedByPeer", "CloseAcknowledged", "Terminated"}

\* TypeOK, one variable at a time.
LEMMA TypeFacts ==
  ASSUME TypeOK
  PROVE  /\ inbox \in [Sides -> Seq(0..MaxSent)]
         /\ outbox \in [Sides -> Seq(0..MaxSent)]
         /\ got \in [Sides -> Seq(0..MaxSent)]
         /\ reply \in [Sides -> BOOLEAN] /\ ended \in [Sides -> BOOLEAN]
         /\ state \in [Sides -> States]
         /\ hand # <<>> => hand[1].from \in Sides /\ hand[1].msg \in 0..MaxSent
<1>1. inbox \in [Sides -> Seq(0..MaxSent)] /\ outbox \in [Sides -> Seq(0..MaxSent)]
  BY DEF TypeOK
<1>2. got \in [Sides -> Seq(0..MaxSent)]
  BY DEF TypeOK
<1>3. reply \in [Sides -> BOOLEAN] /\ ended \in [Sides -> BOOLEAN]
  BY DEF TypeOK
<1>4. state \in [Sides -> States]
  BY DEF TypeOK, States
<1> DEFINE R == [from : Sides, msg : 0..MaxSent]
<1>5. hand \in Seq(R)
  BY DEF TypeOK
<1> HIDE DEF R
<1>6. hand # <<>> => hand[1] \in R
  BY <1>5
<1>7. hand # <<>> => hand[1].from \in Sides /\ hand[1].msg \in 0..MaxSent
  BY <1>6 DEF R
<1> QED
  BY <1>1, <1>2, <1>3, <1>4, <1>7

\* What leaves a queue at its head, or enters it at its end, keeps its type.
LEMMA QueueTypes ==
  ASSUME NEW S, NEW q \in [Sides -> Seq(S)], NEW s \in Sides
  PROVE  /\ \A m \in S : /\ [q EXCEPT ![s] = Append(@, m)] \in [Sides -> Seq(S)]
                         /\ Len(Append(q[s], m)) = Len(q[s]) + 1
         /\ q[s] # <<>> => /\ Head(q[s]) \in S
                           /\ [q EXCEPT ![s] = Tail(@)] \in [Sides -> Seq(S)]
                           /\ Len(Tail(q[s])) = Len(q[s]) - 1
OBVIOUS

\* The drop of both connections leaves a prefix of each outbox.
LEMMA DropTypes ==
  ASSUME TypeOK, DropConnections PROVE TypeOK'
<1>1. PICK kept \in [Sides -> 0..Window] :
        /\ \A s \in Sides : kept[s] <= Len(outbox[s])
        /\ outbox' = [s \in Sides |-> SubSeq(outbox[s], 1, kept[s])]
  <2>1. PICK kept \in [Sides -> 0..Window] :
          /\ \A s \in Sides : IF inbox[Other(s)] = <<>>
                              THEN kept[s] = Len(outbox[s])
                              ELSE kept[s] <= Len(outbox[s])
          /\ outbox' = [s \in Sides |-> SubSeq(outbox[s], 1, kept[s])]
    BY DEF DropConnections
  <2>2. \A s \in Sides : kept[s] \in Nat /\ kept[s] <= kept[s]
    BY WsAssumption
  <2> QED
    BY <2>1, <2>2
<1>2. ASSUME NEW s \in Sides
      PROVE  outbox'[s] \in Seq(0..MaxSent) /\ Len(outbox'[s]) <= Window
  <2>1. outbox[s] \in Seq(0..MaxSent) /\ kept[s] \in 0..Len(outbox[s])
    BY <1>1, <1>2, WsAssumption DEF TypeOK
  <2> QED
    BY <1>1, <1>2, <2>1, WsAssumption DEF TypeOK
<1>3. outbox' \in [Sides -> Seq(0..MaxSent)]
  BY <1>1, <1>2
<1>4. hand' \in Seq([from : Sides, msg : 0..MaxSent]) /\ Len(hand') <= 1
  BY DEF DropConnections
<1> QED
  BY <1>2, <1>3, <1>4 DEF TypeOK, DropConnections, peerVars

LEMMA TypePreserved == TypeOK /\ [Next]_vars => TypeOK'
<1> SUFFICES ASSUME TypeOK, [Next]_vars PROVE TypeOK'
  OBVIOUS
<1> USE WsAssumption
<1>1. CASE UNCHANGED vars
  BY <1>1 DEF vars, TypeOK
<1>2. ASSUME NEW s \in Sides, NEW m \in 0..MaxSent, PeerSends(s, m)
      PROVE  inbox' \in [Sides -> Seq(0..MaxSent)] /\ \A r \in Sides : Len(inbox'[r]) <= Window
  BY <1>2, QueueTypes DEF PeerSends, TypeOK
<1>3. ASSUME NEW s \in Sides, SendData(s) PROVE TypeOK'
  <2>1. sent[s] + 1 \in 0..MaxSent
    BY <1>3 DEF SendData, TypeOK
  <2> QED
    BY <1>2, <1>3, <2>1 DEF SendData, PeerSends, TypeOK
<1>4. ASSUME NEW s \in Sides, SendClose(s) PROVE TypeOK'
  BY <1>2, <1>4 DEF SendClose, PeerSends, TypeOK, Close
<1>5. ASSUME NEW s \in Sides, NEW how \in {"gone", "broken"}, Leave(s, how) PROVE TypeOK'
  BY <1>5 DEF Leave, TypeOK
<1>6. ASSUME NEW s \in Sides, Receive(s) PROVE TypeOK'
  <2>1. /\ got' \in [Sides -> Seq(0..MaxSent)]
        /\ outbox' \in [Sides -> Seq(0..MaxSent)]
        /\ Len(outbox'[s]) = Len(outbox[s]) - 1
        /\ \A r \in Sides : r # s => outbox'[r] = outbox[r]
    BY <1>6, QueueTypes, TypeFacts DEF Receive
  <2>2. \A r \in Sides : Len(outbox'[r]) <= Window
    <3>1. Len(outbox[s]) \in Nat /\ \A r \in Sides : Len(outbox[r]) <= Window
      BY TypeFacts DEF TypeOK
    <3>2. \A r \in Sides : r # s => Len(outbox'[r]) <= Window
      BY <2>1, <3>1
    <3>3. Len(outbox'[s]) <= Window
      BY <1>6, <2>1, <3>1
    <3> QED
      BY <3>2, <3>3
  <2> QED
    BY <1>6, <2>1, <2>2 DEF Receive, TypeOK, peerVars
<1>7. ASSUME NEW s \in Sides, Take(s) PROVE TypeOK'
  <2>1. /\ inbox' \in [Sides -> Seq(0..MaxSent)]
        /\ \A r \in Sides : Len(inbox'[r]) <= Window
        /\ Head(inbox[s]) \in 0..MaxSent
    BY <1>7, QueueTypes DEF Take, HasItem, TypeOK
  <2>2. hand' \in Seq([from : Sides, msg : 0..MaxSent]) /\ Len(hand') <= 1
    BY <1>7, <2>1 DEF Take, HasItem
  <2>3. state' \in [Sides -> {"Active", "ClosedByUs", "ClosedByPeer",
                              "CloseAcknowledged", "Terminated"}]
        /\ reply' \in [Sides -> BOOLEAN]
    BY <1>7 DEF Take, HasItem, TypeOK
  <2> QED
    BY <1>7, <2>1, <2>2, <2>3 DEF Take, HasItem, TypeOK, peerVars
<1>8. ASSUME NEW s \in Sides, FlushReply(s) PROVE TypeOK'
  <2>1. /\ outbox' \in [Sides -> Seq(0..MaxSent)]
        /\ \A r \in Sides : Len(outbox'[r]) <= Window
    BY <1>8, QueueTypes, OtherSide DEF FlushReply, Room, TypeOK, Close
  <2> QED
    BY <1>8, <2>1 DEF FlushReply, TypeOK, peerVars
<1>9. ASSUME NEW s \in Sides, SeeEnd(s) PROVE TypeOK'
  BY <1>9 DEF SeeEnd, TypeOK, peerVars
<1>10. ASSUME NEW u \in Sides, SendHand(u) PROVE TypeOK'
  <2> DEFINE s == hand[1].from
             m == hand[1].msg
  <2>1. s \in Sides /\ m \in 0..MaxSent
    BY <1>10, TypeFacts DEF SendHand, SendsTo, Passes
  <2>2. /\ outbox' = [outbox EXCEPT ![s] = Append(@, m)]
        /\ Len(outbox[s]) < Window
        /\ state' = [state EXCEPT ![Other(s)] = IF m = Close THEN "ClosedByUs" ELSE @]
    BY <1>10 DEF SendHand, SendsTo, Passes, Room
  <2> HIDE DEF s, m
  <2>3. /\ outbox' \in [Sides -> Seq(0..MaxSent)]
        /\ \A r \in Sides : Len(outbox'[r]) <= Window
    BY <2>1, <2>2, QueueTypes DEF TypeOK
  <2>4. state' \in [Sides -> States]
    BY <2>2, TypeFacts DEF States
  <2>5. hand' \in Seq([from : Sides, msg : 0..MaxSent]) /\ Len(hand') <= 1
    BY <1>10 DEF SendHand, SendsTo, Passes
  <2>6. UNCHANGED <<sent, peer, inbox, reply, ended, got, relay>>
    BY <1>10 DEF SendHand, SendsTo, Passes, peerVars
  <2> QED
    BY <2>3, <2>4, <2>5, <2>6 DEF TypeOK, States
<1>11. CASE SendFails \/ \E s \in Sides : ReadFails(s)
  BY <1>11, DropTypes DEF SendFails, ReadFails
<1> QED
  BY <1>1, <1>3, <1>4, <1>5, <1>6, <1>7, <1>8, <1>9, <1>10, <1>11, OtherSide
     DEF Next, Forward, Poll, Peer

-----------------------------------------------------------------------------

\* A Close that is taken is the first one or answers it.
LEMMA TakeCloses ==
  ASSUME Inv, NEW s \in Sides, Take(s) PROVE CloseInv'
<1>1. /\ Paired /\ hand = <<>> /\ relay = "running"
      /\ state[s] \in {"Active", "ClosedByUs"}
      /\ \A r \in Sides : /\ ended[r] => state[r] = "Terminated"
                          /\ reply[r] => ClosedByItsPeer(r)
  BY DEF Inv, CloseInv, Take, HasItem, Polled, CanRead
<1>2. /\ hand' # <<>> /\ hand'[1].from = s /\ hand'[1].msg = Head(inbox[s])
      /\ ended' = ended
  BY DEF Take, HasItem
<1>3. CASE Head(inbox[s]) # Close
  BY <1>1, <1>2, <1>3 DEF Take, HasItem, CloseInv, Paired, ClosedByItsPeer
<1>4. CASE Head(inbox[s]) = Close
  <2>1. /\ state' = [state EXCEPT ![s] = IF @ = "Active" THEN "ClosedByPeer"
                                                         ELSE "CloseAcknowledged"]
        /\ reply' = [reply EXCEPT ![s] = state[s] = "Active"]
    BY <1>4 DEF Take, HasItem
  <2>2. state \in [Sides -> States] /\ reply \in [Sides -> BOOLEAN]
    BY TypeFacts DEF Inv
  <2>3. CloseInHand(s)'
    BY <1>1, <2>1, <2>2, OtherSide DEF Paired, CloseInHand, ClosedByItsPeer
  <2>4. \A r \in Sides : /\ ended'[r] => state'[r] = "Terminated"
                         /\ reply'[r] => ClosedByItsPeer(r)'
    BY <1>1, <1>2, <2>1, <2>2 DEF ClosedByItsPeer
  <2> QED
    BY <1>2, <1>4, <2>3, <2>4 DEF CloseInv
<1> QED
  BY <1>3, <1>4

\* Only a connection that its peer closed ends.
LEMMA EndCloses ==
  ASSUME Inv, NEW s \in Sides, FlushReply(s) \/ SeeEnd(s) PROVE CloseInv'
<1>1. /\ Paired /\ hand = <<>> /\ relay = "running" /\ hand' = hand
      /\ \A r \in Sides : /\ ended[r] => state[r] = "Terminated"
                          /\ reply[r] => ClosedByItsPeer(r)
  BY DEF Inv, CloseInv, FlushReply, SeeEnd, Polled
<1>2. state \in [Sides -> States] /\ ended \in [Sides -> BOOLEAN] /\ reply \in [Sides -> BOOLEAN]
  BY TypeFacts DEF Inv
<1>3. ClosedByItsPeer(s) /\ state[Other(s)] = "ClosedByUs"
  BY <1>1, OtherSide DEF FlushReply, SeeEnd, HandshakeOver, CanRead, Paired, ClosedByItsPeer
<1>4. /\ state'[s] \in {state[s], "Terminated"}
      /\ state'[Other(s)] = state[Other(s)]
      /\ \A r \in Sides : r # s => ended'[r] = ended[r] /\ reply'[r] = reply[r]
      /\ ended'[s] => state'[s] = "Terminated"
      /\ reply'[s] => ClosedByItsPeer(s)'
  <2>1. CASE FlushReply(s)
    BY <1>1, <1>2, <2>1, OtherSide DEF FlushReply, ClosedByItsPeer
  <2>2. CASE SeeEnd(s)
    BY <1>1, <1>2, <2>2, OtherSide DEF SeeEnd, ClosedByItsPeer
  <2> QED
    BY <2>1, <2>2
<1> QED
  BY <1>1, <1>3, <1>4, OtherSide DEF CloseInv, Paired, ClosedByItsPeer

\* A Close is only sent to a connection that is active, which it closes.
LEMMA SendCloses ==
  ASSUME Inv, NEW u \in Sides, SendHand(u) PROVE CloseInv'
<1> DEFINE s == hand[1].from
           m == hand[1].msg
<1>1. s \in Sides /\ state \in [Sides -> States]
  BY TypeFacts DEF SendHand, SendsTo, Passes, Inv
<1>2. /\ hand # <<>> /\ hand' = <<>> /\ relay = "running"
      /\ state[Other(s)] = "Active"
      /\ state' = [state EXCEPT ![Other(s)] = IF m = Close THEN "ClosedByUs" ELSE @]
      /\ UNCHANGED <<reply, ended>>
  BY DEF SendHand, SendsTo, Passes
<1>3. /\ \A r \in Sides : /\ ended[r] => state[r] = "Terminated"
                          /\ reply[r] => ClosedByItsPeer(r)
      /\ IF m = Close THEN CloseInHand(s) ELSE Paired
  BY <1>2 DEF Inv, CloseInv
<1> HIDE DEF s, m
<1>4. Paired'
  BY <1>1, <1>2, <1>3, OtherSide DEF Paired, CloseInHand, ClosedByItsPeer
<1>5. \A r \in Sides : /\ ended'[r] => state'[r] = "Terminated"
                       /\ reply'[r] => ClosedByItsPeer(r)'
  BY <1>1, <1>2, <1>3, OtherSide DEF ClosedByItsPeer
<1> QED
  BY <1>2, <1>4, <1>5 DEF CloseInv

LEMMA ClosePreserved == Inv /\ [Next]_vars => CloseInv'
<1> SUFFICES ASSUME Inv, [Next]_vars PROVE CloseInv'
  OBVIOUS
<1>1. CASE UNCHANGED <<state, reply, ended, hand, relay>>
  BY <1>1 DEF Inv, CloseInv, Paired, CloseInHand, ClosedByItsPeer
<1>2. CASE relay' = "failed"
  BY <1>2 DEF CloseInv
<1>3. ASSUME NEW s \in Sides, Poll(s) PROVE CloseInv'
  BY <1>2, <1>3, TakeCloses, EndCloses DEF Poll, ReadFails, DropConnections
<1>4. CASE Forward
  BY <1>2, <1>4, SendCloses DEF Forward, SendFails, DropConnections
<1>5. ASSUME NEW s \in Sides, Peer(s) PROVE UNCHANGED <<state, reply, ended, hand, relay>>
  BY <1>5 DEF Peer, SendData, SendClose, PeerSends, Receive, Leave
<1> QED
  BY <1>1, <1>3, <1>4, <1>5 DEF Next, vars

LEMMA Invariance == Spec => []Inv
<1>1. Inv /\ [Next]_vars => Inv'
  BY TypePreserved, ClosePreserved DEF Inv
<1> QED
  BY Initially, <1>1, PTL DEF Spec

-----------------------------------------------------------------------------

\* Every variable keeps its type: no more is written than the windows take, and at most
\* one message is in hand.
THEOREM TypeCorrect == Spec => []TypeOK
<1>1. Inv => TypeOK
  BY DEF Inv
<1> QED
  BY <1>1, Invariance, PTL

\* select! is never polled with both of its streams at their end, so it never panics.
THEOREM NoPanic == Spec => []NeverPanics
<1>1. Inv => NeverPanics
  BY OtherSide DEF Inv, CloseInv, Paired, ClosedByItsPeer, NeverPanics, Sides
<1> QED
  BY <1>1, Invariance, PTL

-----------------------------------------------------------------------------
(* Concatenation, under a name that the provers do not look behind.        *)

Cat(p, q) == p \o q

LEMMA CatType ==
  \A S : \A p, q \in Seq(S) : Cat(p, q) \in Seq(S) /\ Len(Cat(p, q)) = Len(p) + Len(q)
BY ConcatProperties DEF Cat

LEMMA CatAssoc ==
  \A S : \A p, q, r \in Seq(S) : Cat(Cat(p, q), r) = Cat(p, Cat(q, r))
BY ConcatAssociative DEF Cat

LEMMA CatAppend ==
  \A S : \A p, q \in Seq(S), m \in S : Cat(p, Append(q, m)) = Append(Cat(p, q), m)
<1> SUFFICES ASSUME NEW S, NEW p \in Seq(S), NEW q \in Seq(S), NEW m \in S
             PROVE  Cat(p, Append(q, m)) = Append(Cat(p, q), m)
  OBVIOUS
<1> DEFINE e == <<m>>
<1>1. Append(q, m) = Cat(q, e)
  BY AppendIsConcat DEF Cat
<1>2. Append(Cat(p, q), m) = Cat(Cat(p, q), e)
  <2>1. \A r \in Seq(S) : Append(r, m) = Cat(r, e)
    BY AppendIsConcat DEF Cat
  <2> QED
    BY <2>1, CatType
<1>3. e \in Seq(S)
  OBVIOUS
<1> HIDE DEF e
<1>4. Cat(Cat(p, q), e) = Cat(p, Cat(q, e))
  BY <1>3, CatAssoc
<1> QED
  BY <1>1, <1>2, <1>4

LEMMA CatHeadTail ==
  ASSUME NEW S, NEW p \in Seq(S), NEW q \in Seq(S), p # <<>>
  PROVE  /\ Cat(p, q) # <<>> /\ Head(Cat(p, q)) = Head(p)
         /\ Tail(Cat(p, q)) = Cat(Tail(p), q)
<1>1. /\ Cat(p, q) \in Seq(S) /\ Len(Cat(p, q)) = Len(p) + Len(q)
      /\ Len(p) \in Nat \ {0} /\ Len(q) \in Nat
      /\ Tail(p) \in Seq(S) /\ Len(Tail(p)) = Len(p) - 1
  BY CatType, EmptySeq, LenProperties, HeadTailProperties
<1>2. Cat(p, q) # <<>>
  BY <1>1, EmptySeq
<1>3. /\ Tail(Cat(p, q)) \in Seq(S) /\ Len(Tail(Cat(p, q))) = Len(p) + Len(q) - 1
      /\ Cat(Tail(p), q) \in Seq(S) /\ Len(Cat(Tail(p), q)) = Len(p) + Len(q) - 1
  <2>1. /\ Tail(Cat(p, q)) \in Seq(S)
        /\ Len(Tail(Cat(p, q))) = Len(Cat(p, q)) - 1
    BY <1>1, <1>2, HeadTailProperties
  <2>2. Cat(Tail(p), q) \in Seq(S) /\ Len(Cat(Tail(p), q)) = Len(Tail(p)) + Len(q)
    BY <1>1, CatType
  <2> QED
    BY <1>1, <2>1, <2>2
<1>4. \A i \in 1..(Len(p) + Len(q)) :
        Cat(p, q)[i] = IF i <= Len(p) THEN p[i] ELSE q[i - Len(p)]
  BY ConcatProperties DEF Cat
<1>5. ASSUME NEW i \in 1..(Len(p) + Len(q) - 1)
      PROVE  Tail(Cat(p, q))[i] = Cat(Tail(p), q)[i]
  <2>1. Tail(Cat(p, q))[i] = Cat(p, q)[i + 1]
    BY <1>1, <1>2, <1>3, HeadTailProperties
  <2>2. Cat(Tail(p), q)[i] = IF i <= Len(p) - 1 THEN Tail(p)[i] ELSE q[i - (Len(p) - 1)]
    BY <1>1, ConcatProperties DEF Cat
  <2>3. i <= Len(p) - 1 => Tail(p)[i] = p[i + 1]
    BY <1>1, HeadTailProperties
  <2>4. i + 1 \in 1..(Len(p) + Len(q)) /\ i + 1 - Len(p) = i - (Len(p) - 1)
    BY <1>1
  <2>5. Cat(p, q)[i + 1] = IF i + 1 <= Len(p) THEN p[i + 1] ELSE q[i - (Len(p) - 1)]
    BY <1>4, <2>4
  <2> QED
    BY <1>1, <2>1, <2>2, <2>3, <2>5
<1>6. Tail(Cat(p, q)) = Cat(Tail(p), q)
  BY <1>3, <1>5, SeqEqual
<1>7. Head(Cat(p, q)) = Head(p)
  BY <1>1, <1>4
<1> QED
  BY <1>2, <1>6, <1>7

LEMMA CatPrefix ==
  ASSUME NEW S, NEW p \in Seq(S), NEW q \in Seq(S), NEW n \in 0..Len(p)
  PROVE  SubSeq(Cat(p, q), 1, n) = SubSeq(p, 1, n)
<1>1. Len(p) \in Nat
  BY LenProperties
<1>2. CASE n = 0
  BY <1>2, SubSeqEmpty
<1>3. CASE n # 0
  BY <1>1, <1>3, SubSeqOfConcat1 DEF Cat
<1> QED
  BY <1>2, <1>3

-----------------------------------------------------------------------------
(* Queues that a Close can only end, and the data in them.                 *)

Msgs == 0..MaxSent

NoClose(q) == \A i \in 1..Len(q) : q[i] # Close
ClosesLast(q) == \A i \in 1..(Len(q) - 1) : q[i] # Close

LEMMA DataEmpty == Data(<<>>) = <<>> /\ NoClose(<<>>) /\ ClosesLast(<<>>)
BY DEF Data, NoClose, ClosesLast

LEMMA DataSame ==
  ASSUME NEW q \in Seq(Msgs), NoClose(q)
  PROVE  Data(q) = q /\ ClosesLast(q)
BY DEF Data, NoClose, ClosesLast, Last

LEMMA DataAppend ==
  ASSUME NEW q \in Seq(Msgs), NEW m \in Msgs, NoClose(q)
  PROVE  /\ ClosesLast(Append(q, m))
         /\ Data(Append(q, m)) = IF m = Close THEN q ELSE Append(q, m)
         /\ NoClose(Append(q, m)) <=> m # Close
<1> DEFINE a == Append(q, m)
<1>1. /\ a \in Seq(Msgs) /\ Len(a) = Len(q) + 1 /\ a # <<>> /\ Len(q) \in Nat
      /\ a[Len(a)] = m /\ \A i \in 1..Len(q) : a[i] = q[i]
  OBVIOUS
<1>2. SubSeq(a, 1, Len(a) - 1) = q
  OBVIOUS
<1> HIDE DEF a
<1>3. ClosesLast(a) /\ (NoClose(a) <=> m # Close)
  BY <1>1 DEF NoClose, ClosesLast
<1>4. Data(a) = IF m = Close THEN q ELSE a
  BY <1>1, <1>2 DEF Data, Last, Front
<1> QED
  BY <1>3, <1>4 DEF a

LEMMA DataType ==
  ASSUME NEW q \in Seq(Msgs)
  PROVE  Data(q) \in Seq(Msgs) /\ Len(Data(q)) <= Len(q)
<1>1. CASE q # <<>> /\ q[Len(q)] = Close
  <2>1. Len(q) \in Nat \ {0}
    BY <1>1
  <2>2. Data(q) = SubSeq(q, 1, Len(q) - 1)
    BY <1>1 DEF Data, Last, Front
  <2> QED
    BY <2>1, <2>2, SubSeqProperties
<1>2. CASE ~(q # <<>> /\ q[Len(q)] = Close)
  BY <1>2 DEF Data, Last
<1> QED
  BY <1>1, <1>2

LEMMA DataTail ==
  ASSUME NEW q \in Seq(Msgs), q # <<>>, ClosesLast(q)
  PROVE  /\ Head(q) \in Msgs /\ Tail(q) \in Seq(Msgs) /\ ClosesLast(Tail(q))
         /\ NoClose(q) <=> Head(q) # Close /\ NoClose(Tail(q))
         /\ Head(q) = Close => Tail(q) = <<>> /\ Data(q) = <<>>
         /\ Head(q) # Close => /\ Data(q) # <<>> /\ Head(Data(q)) = Head(q)
                               /\ Tail(Data(q)) = Data(Tail(q))
<1>1. /\ Len(q) \in Nat \ {0} /\ Head(q) = q[1] /\ Head(q) \in Msgs /\ Tail(q) \in Seq(Msgs)
      /\ Len(Tail(q)) = Len(q) - 1
      /\ \A i \in 1..(Len(q) - 1) : Tail(q)[i] = q[i + 1]
  OBVIOUS
<1>2. ClosesLast(Tail(q)) /\ (NoClose(q) <=> Head(q) # Close /\ NoClose(Tail(q)))
  <2>1. ClosesLast(Tail(q)) /\ (NoClose(q) => Head(q) # Close /\ NoClose(Tail(q)))
    BY <1>1 DEF ClosesLast, NoClose
  <2>2. ASSUME Head(q) # Close, NoClose(Tail(q)), NEW i \in 1..Len(q) PROVE q[i] # Close
    <3>1. CASE i = 1
      BY <1>1, <2>2, <3>1
    <3>2. CASE i # 1
      <4>1. PICK j : j = i - 1
        OBVIOUS
      <4>2. j \in 1..(Len(q) - 1) /\ i = j + 1
        BY <1>1, <3>2, <4>1
      <4> QED
        BY <1>1, <2>2, <4>2 DEF NoClose
    <3> QED
      BY <3>1, <3>2
  <2> QED
    BY <2>1, <2>2 DEF NoClose
<1>3. CASE Head(q) = Close
  <2>1. Len(q) = 1
    BY <1>1, <1>3 DEF ClosesLast
  <2>2. Tail(q) = <<>>
    <3>1. PICK t : t = Tail(q)
      OBVIOUS
    <3>2. t \in Seq(Msgs) /\ Len(t) = 0
      BY <1>1, <2>1, <3>1
    <3> QED
      BY <3>1, <3>2, EmptySeq
  <2>3. Data(q) = <<>>
    BY <1>1, <1>3, <2>1 DEF Data, Last, Front
  <2> QED
    BY <1>1, <1>2, <1>3, <2>2, <2>3
<1>4. CASE Head(q) # Close /\ q[Len(q)] # Close
  <2>1. NoClose(q)
    BY <1>1, <1>4 DEF ClosesLast, NoClose
  <2> QED
    BY <1>1, <1>2, <1>4, <2>1, DataSame
<1>5. CASE Head(q) # Close /\ q[Len(q)] = Close
  <2> DEFINE n == Len(q)
  <2>1. n \in Nat \ {0, 1}
    BY <1>1, <1>5
  <2>2. Data(q) = SubSeq(q, 1, n - 1)
    BY <1>5 DEF Data, Last, Front
  <2>3. /\ SubSeq(q, 1, n - 1) \in Seq(Msgs) /\ Len(SubSeq(q, 1, n - 1)) = n - 1
        /\ \A i \in 1..(n - 1) : SubSeq(q, 1, n - 1)[i] = q[i]
    <3>1. /\ 1 \in 1..(n - 1) + 1 /\ n - 1 \in 0..Len(q) /\ (n - 1) - 1 + 1 = n - 1
          /\ \A i \in 1..(n - 1) : 1 + i - 1 = i
      BY <2>1
    <3> HIDE DEF n
    <3> QED
      BY <3>1, <2>1, SubSeqProperties
  <2>4. /\ Data(q) \in Seq(Msgs) /\ Len(Data(q)) = n - 1
        /\ \A i \in 1..(n - 1) : Data(q)[i] = q[i]
    BY <2>2, <2>3
  <2>5. Data(q) # <<>> /\ Head(Data(q)) = Head(q)
    BY <1>1, <2>1, <2>4
  <2>6. /\ Tail(Data(q)) \in Seq(Msgs) /\ Len(Tail(Data(q))) = n - 2
        /\ \A i \in 1..(n - 2) : Tail(Data(q))[i] = Data(q)[i + 1]
    <3>1. PICK d : d = Data(q)
      OBVIOUS
    <3>2. d \in Seq(Msgs) /\ Len(d) = n - 1 /\ d # <<>> /\ n \in Nat
      BY <2>1, <2>4, <2>5, <3>1
    <3>3. Tail(d) \in Seq(Msgs) /\ Len(Tail(d)) = n - 2
      BY <3>2
    <3>4. \A i \in 1..(n - 2) : Tail(d)[i] = d[i + 1]
      BY <3>2, <3>3, HeadTailProperties
    <3> QED
      BY <3>1, <3>3, <3>4
  <2>7. Tail(q) # <<>> /\ Tail(q)[Len(Tail(q))] = Close
    <3>1. Len(Tail(q)) = n - 1 /\ n - 1 \in 1..(n - 1) /\ (n - 1) + 1 = n
      BY <1>1, <2>1
    <3>2. Tail(q)[n - 1] = q[n]
      BY <1>1, <3>1
    <3> QED
      BY <1>5, <2>1, <3>1, <3>2
  <2>8. Data(Tail(q)) = SubSeq(Tail(q), 1, n - 2)
    BY <1>1, <2>7 DEF Data, Last, Front
  <2>9. /\ SubSeq(Tail(q), 1, n - 2) \in Seq(Msgs) /\ Len(SubSeq(Tail(q), 1, n - 2)) = n - 2
        /\ \A i \in 1..(n - 2) : SubSeq(Tail(q), 1, n - 2)[i] = Tail(q)[i]
    BY <1>1, <2>1, SubSeqProperties
  <2>10. \A i \in 1..(n - 2) : Tail(Data(q))[i] = Data(Tail(q))[i]
    BY <1>1, <2>1, <2>4, <2>6, <2>8, <2>9
  <2>11. Tail(Data(q)) = Data(Tail(q))
    BY <2>6, <2>8, <2>9, <2>10, SeqEqual
  <2> QED
    BY <1>1, <1>2, <1>5, <2>5, <2>11
<1> QED
  BY <1>3, <1>4, <1>5

\* What is cut off a queue: some of its data, and its Close with the first of it.
LEMMA DataPrefix ==
  ASSUME NEW q \in Seq(Msgs), NEW n \in 0..Len(q), ClosesLast(q)
  PROVE  /\ SubSeq(q, 1, n) \in Seq(Msgs) /\ ClosesLast(SubSeq(q, 1, n))
         /\ ~NoClose(SubSeq(q, 1, n)) => SubSeq(q, 1, n) = q /\ n = Len(q)
         /\ \E k \in 0..Len(Data(q)) : Data(SubSeq(q, 1, n)) = SubSeq(Data(q), 1, k)
<1> DEFINE p == SubSeq(q, 1, n)
<1>1. Len(q) \in Nat /\ n \in Nat /\ n <= Len(q)
  OBVIOUS
<1>2. p \in Seq(Msgs) /\ Len(p) = n /\ \A i \in 1..n : p[i] = q[i]
  BY <1>1, SubSeqProperties
<1>3. n = Len(q) => p = q
  BY SubSeqFull
<1>4. \A d : d \in Seq(Msgs) => SubSeq(d, 1, Len(d)) = d
  BY SubSeqFull
<1>5. Data(q) \in Seq(Msgs)
  BY DataType
<1> HIDE DEF p
<1>6. ClosesLast(p) /\ (n < Len(q) => NoClose(p))
  BY <1>1, <1>2 DEF ClosesLast, NoClose
<1>7. \E k \in 0..Len(Data(q)) : Data(p) = SubSeq(Data(q), 1, k)
  <2>1. CASE n = Len(q)
    <3>1. Data(p) = SubSeq(Data(q), 1, Len(Data(q))) /\ Len(Data(q)) \in Nat
      BY <1>3, <1>4, <1>5, <2>1
    <3> QED
      BY <3>1
  <2>2. CASE n < Len(q)
    <3>1. Data(p) = p
      BY <1>2, <1>6, <2>2, DataSame
    <3>2. CASE q # <<>> /\ q[Len(q)] = Close
      <4>1. Data(q) = SubSeq(q, 1, Len(q) - 1)
        BY <3>2 DEF Data, Last, Front
      <4>2. Len(SubSeq(q, 1, Len(q) - 1)) = Len(q) - 1
        <5>1. PICK m \in Nat : m = Len(q) - 1 /\ m <= Len(q)
          <6>1. Len(q) - 1 \in Nat /\ Len(q) - 1 <= Len(q)
            BY <1>1, <2>2
          <6> QED
            BY <6>1
        <5>2. \A i \in 1..m : q[i] \in Msgs
          BY <5>1
        <5>3. Len(SubSeq(q, 1, m)) = m
          BY <5>1, <5>2, SubSeqProperties
        <5> QED
          BY <5>1, <5>3
      <4>3. SubSeq(SubSeq(q, 1, Len(q) - 1), 1, n) = SubSeq(q, 1, n)
        BY <1>1, <2>2
      <4> QED
        BY <1>1, <2>2, <3>1, <4>1, <4>2, <4>3 DEF p
    <3>3. CASE ~(q # <<>> /\ q[Len(q)] = Close)
      <4>1. Data(q) = q
        BY <3>3 DEF Data, Last
      <4> QED
        BY <1>1, <3>1, <4>1 DEF p
    <3> QED
      BY <3>2, <3>3
  <2> QED
    BY <1>1, <2>1, <2>2
<1>8. ~NoClose(p) => p = q /\ n = Len(q)
  BY <1>1, <1>3, <1>6
<1> QED
  BY <1>2, <1>6, <1>7, <1>8 DEF p

-----------------------------------------------------------------------------
(* What a side sends, and what the other one reads, end with the Close.    *)

\* What the other side has read or will read if the relay does not end.
Read(s) == Cat(got[s], outbox[s])

\* A side sends nothing after its Close, and its connection is read until that has come.
PeerInv(s) ==
  /\ ClosesLast(inbox[s])
  /\ peer[s] = "open" => NoClose(inbox[s]) /\ CanRead(s)
  /\ peer[s] = "closed" => ~NoClose(inbox[s]) \/ ~CanRead(s)
  /\ ~CanRead(s) => inbox[s] = <<>>

\* The data a side sent is with the other side, in hand or still to be read.
Complete(s) ==
  Len(Data(Read(s))) + Len(Data(InHand(s))) + Len(Data(inbox[s])) = sent[s]

\* The relay writes nothing after a Close, which it writes once: as a reply, or because
\* the sender's has come, and that has nothing under way then.
ReadInv(s) ==
  /\ ClosesLast(Read(s))
  /\ relay = "running" /\ (reply[Other(s)] \/ state[Other(s)] = "Active") => NoClose(Read(s))
  /\ relay = "running" => Complete(s)
  /\ ~NoClose(Read(s)) /\ peer[Other(s)] = "open"
       => peer[s] # "open" /\ Len(Data(Read(s))) = sent[s]

OrderInv == Inv /\ \A s \in Sides : PeerInv(s) /\ ReadInv(s)

LEMMA Queues ==
  ASSUME TypeOK, NEW s \in Sides
  PROVE  /\ inbox[s] \in Seq(Msgs) /\ outbox[s] \in Seq(Msgs) /\ got[s] \in Seq(Msgs)
         /\ Read(s) \in Seq(Msgs) /\ Len(Read(s)) = Len(got[s]) + Len(outbox[s])
         /\ InHand(s) \in Seq(Msgs) /\ sent[s] \in Nat
<1>1. inbox[s] \in Seq(Msgs) /\ outbox[s] \in Seq(Msgs) /\ got[s] \in Seq(Msgs)
  BY TypeFacts DEF Msgs
<1>2. Read(s) \in Seq(Msgs) /\ Len(Read(s)) = Len(got[s]) + Len(outbox[s])
  BY <1>1, CatType DEF Read
<1>3. InHand(s) \in Seq(Msgs)
  <2>1. hand # <<>> => hand[1].msg \in Msgs
    BY TypeFacts DEF Msgs
  <2>2. \A m \in Msgs : <<m>> \in Seq(Msgs)
    OBVIOUS
  <2>3. <<>> \in Seq(Msgs)
    OBVIOUS
  <2> HIDE DEF Msgs
  <2> QED
    BY <2>1, <2>2, <2>3 DEF InHand
<1> QED
  BY <1>1, <1>2, <1>3, WsAssumption DEF TypeOK

\* The numbers that Complete adds.
LEMMA Numbers ==
  ASSUME TypeOK, NEW s \in Sides
  PROVE  /\ Len(Data(Read(s))) \in Nat /\ Len(Data(InHand(s))) \in Nat
         /\ Len(Data(inbox[s])) \in Nat /\ sent[s] \in Nat
<1>1. \A q \in Seq(Msgs) : Len(Data(q)) \in Nat
  BY DataType
<1> QED
  BY <1>1, Queues

LEMMA OrderInitially == Init => OrderInv
<1> SUFFICES ASSUME Init PROVE OrderInv
  OBVIOUS
<1>1. Inv
  BY Initially
<1>2. Cat(<<>>, <<>>) = <<>>
  BY ConcatEmptySeq, EmptySeq DEF Cat
<1>3. ASSUME NEW s \in Sides PROVE PeerInv(s) /\ ReadInv(s)
  <2>1. /\ inbox[s] = <<>> /\ Read(s) = <<>> /\ InHand(s) = <<>> /\ sent[s] = 0
        /\ state[s] = "Active" /\ peer[s] = "open"
    BY <1>2 DEF Init, Read, InHand
  <2>2. Len(Data(<<>>)) = 0
    BY DataEmpty
  <2>3. Complete(s)
    BY <2>1, <2>2 DEF Complete
  <2> QED
    BY <2>1, <2>3, DataEmpty DEF PeerInv, ReadInv, CanRead
<1> QED
  BY <1>1, <1>3 DEF OrderInv

-----------------------------------------------------------------------------
(* What the actions do to the queues.                                      *)

\* A queue that gets a message, and one that gives one away.
LEMMA Appended ==
  ASSUME NEW q \in [Sides -> Seq(Msgs)], NEW p, NEW s \in Sides, NEW m,
         p = [q EXCEPT ![s] = Append(@, m)]
  PROVE  p[s] = Append(q[s], m) /\ \A r \in Sides \ {s} : p[r] = q[r]
OBVIOUS

LEMMA SendRead ==
  ASSUME TypeOK, NEW s \in Sides, NEW m \in Msgs,
         outbox' = [outbox EXCEPT ![s] = Append(@, m)], got' = got
  PROVE  Read(s)' = Append(Read(s), m) /\ \A r \in Sides \ {s} : Read(r)' = Read(r)
<1>1. outbox \in [Sides -> Seq(Msgs)]
  BY TypeFacts DEF Msgs
<1>2. outbox'[s] = Append(outbox[s], m) /\ \A r \in Sides \ {s} : outbox'[r] = outbox[r]
  BY <1>1, Appended
<1>3. Cat(got[s], Append(outbox[s], m)) = Append(Cat(got[s], outbox[s]), m)
  <2>1. PICK g \in Seq(Msgs), o \in Seq(Msgs) : g = got[s] /\ o = outbox[s]
    BY Queues
  <2>2. Cat(g, Append(o, m)) = Append(Cat(g, o), m)
    BY CatAppend
  <2> QED
    BY <2>1, <2>2
<1> QED
  BY <1>2, <1>3 DEF Read

\* What is read goes from the head of one queue to the end of the other.
LEMMA CatMove ==
  ASSUME NEW S, NEW p \in Seq(S), NEW q \in Seq(S), q # <<>>
  PROVE  Cat(Append(p, Head(q)), Tail(q)) = Cat(p, q)
<1> DEFINE h == <<Head(q)>>
           t == Tail(q)
<1>1. Head(q) \in S /\ t \in Seq(S) /\ h \in Seq(S)
  BY HeadTailProperties
<1>2. Append(p, Head(q)) = Cat(p, h)
  BY <1>1, AppendIsConcat DEF Cat
<1>3. Cat(h, t) = q
  BY <1>1, HeadTailProperties, ConcatProperties DEF Cat
<1> HIDE DEF h, t
<1>4. Cat(Cat(p, h), t) = Cat(p, Cat(h, t))
  BY <1>1, CatAssoc
<1> QED
  BY <1>2, <1>3, <1>4 DEF t

LEMMA ReceiveRead ==
  ASSUME TypeOK, NEW s \in Sides, Receive(s)
  PROVE  \A r \in Sides : Read(r)' = Read(r)
<1>1. outbox \in [Sides -> Seq(Msgs)] /\ got \in [Sides -> Seq(Msgs)] /\ outbox[s] # <<>>
  BY TypeFacts DEF Msgs, Receive
<1>2. /\ outbox'[s] = Tail(outbox[s]) /\ got'[s] = Append(got[s], Head(outbox[s]))
      /\ \A r \in Sides \ {s} : outbox'[r] = outbox[r] /\ got'[r] = got[r]
  BY <1>1 DEF Receive
<1>3. Cat(Append(got[s], Head(outbox[s])), Tail(outbox[s])) = Cat(got[s], outbox[s])
  BY <1>1, Queues, CatMove
<1> QED
  BY <1>2, <1>3 DEF Read

\* What is lost of a queue is lost of what the other side will read.
LEMMA CatCut ==
  ASSUME NEW S, NEW p \in Seq(S), NEW q \in Seq(S), NEW k \in 0..Len(q)
  PROVE  \E n \in 0..Len(Cat(p, q)) : Cat(p, SubSeq(q, 1, k)) = SubSeq(Cat(p, q), 1, n)
<1> DEFINE c == SubSeq(q, 1, k)
           all == Cat(p, q)
           cut == Cat(p, c)
           n == Len(p) + k
<1>1. Len(p) \in Nat /\ Len(q) \in Nat /\ k \in Nat /\ k <= Len(q)
  OBVIOUS
<1>2. c \in Seq(S) /\ Len(c) = k /\ \A i \in 1..k : c[i] = q[i]
  <2>1. \A i \in 1..k : q[i] \in S
    BY <1>1
  <2> QED
    BY <1>1, <2>1, SubSeqProperties
<1> HIDE DEF c
<1>3. /\ all \in Seq(S) /\ Len(all) = Len(p) + Len(q)
      /\ \A i \in 1..(Len(p) + Len(q)) : all[i] = IF i <= Len(p) THEN p[i] ELSE q[i - Len(p)]
  BY ConcatProperties DEF Cat
<1>4. /\ cut \in Seq(S) /\ Len(cut) = n
      /\ \A i \in 1..n : cut[i] = IF i <= Len(p) THEN p[i] ELSE c[i - Len(p)]
  BY <1>2, ConcatProperties DEF Cat
<1> HIDE DEF all, cut
<1>5. n \in 0..Len(all) /\ n \in Nat
  BY <1>1, <1>3
<1>6. /\ SubSeq(all, 1, n) \in Seq(S) /\ Len(SubSeq(all, 1, n)) = n
      /\ \A i \in 1..n : SubSeq(all, 1, n)[i] = all[i]
  <2>1. \A i \in 1..n : all[i] \in S
    BY <1>3, <1>5
  <2> HIDE DEF n
  <2> QED
    BY <1>5, <2>1, SubSeqProperties
<1>7. ASSUME NEW i \in 1..n PROVE cut[i] = SubSeq(all, 1, n)[i]
  <2>1. i \in Nat /\ i \in 1..(Len(p) + Len(q)) /\ (i > Len(p) => i - Len(p) \in 1..k)
    BY <1>1
  <2>2. SubSeq(all, 1, n)[i] = all[i]
    BY <1>6
  <2>3. all[i] = IF i <= Len(p) THEN p[i] ELSE q[i - Len(p)]
    BY <1>3, <2>1
  <2>4. cut[i] = IF i <= Len(p) THEN p[i] ELSE c[i - Len(p)]
    BY <1>4
  <2>5. i > Len(p) => c[i - Len(p)] = q[i - Len(p)]
    BY <1>2, <2>1
  <2> QED
    BY <1>1, <2>1, <2>2, <2>3, <2>4, <2>5
<1>8. cut = SubSeq(all, 1, n)
  BY <1>4, <1>6, <1>7, SeqEqual
<1> QED
  BY <1>5, <1>8 DEF all, cut, c

LEMMA DropRead ==
  ASSUME TypeOK, DropConnections, NEW s \in Sides
  PROVE  /\ \E k \in 0..Len(outbox[s]) : outbox'[s] = SubSeq(outbox[s], 1, k)
         /\ \E n \in 0..Len(Read(s)) : Read(s)' = SubSeq(Read(s), 1, n)
<1>1. PICK kept \in [Sides -> 0..Window] :
        /\ \A r \in Sides : IF inbox[Other(r)] = <<>>
                            THEN kept[r] = Len(outbox[r])
                            ELSE kept[r] <= Len(outbox[r])
        /\ outbox' = [r \in Sides |-> SubSeq(outbox[r], 1, kept[r])]
  BY DEF DropConnections
<1>2. kept[s] \in 0..Len(outbox[s]) /\ outbox'[s] = SubSeq(outbox[s], 1, kept[s])
  <2>1. kept[s] \in Nat /\ Len(outbox[s]) \in Nat /\ kept[s] <= Len(outbox[s])
    BY <1>1, Queues, WsAssumption
  <2> QED
    BY <1>1, <2>1
<1>3. PICK g \in Seq(Msgs), o \in Seq(Msgs) : g = got[s] /\ o = outbox[s]
  BY Queues
<1>4. Read(s) = Cat(g, o) /\ Read(s)' = Cat(g, SubSeq(o, 1, kept[s]))
  BY <1>2, <1>3 DEF Read, DropConnections
<1>5. PICK k \in 0..Len(o) : k = kept[s]
  BY <1>2, <1>3
<1>6. \E n \in 0..Len(Cat(g, o)) : Cat(g, SubSeq(o, 1, k)) = SubSeq(Cat(g, o), 1, n)
  BY CatCut
<1> QED
  BY <1>2, <1>4, <1>5, <1>6

-----------------------------------------------------------------------------

LEMMA PeerNext ==
  ASSUME OrderInv, [Next]_vars, NEW r \in Sides
  PROVE  PeerInv(r)'
<1>1. /\ TypeOK /\ PeerInv(r) /\ inbox[r] \in Seq(Msgs)
      /\ inbox \in [Sides -> Seq(Msgs)] /\ state \in [Sides -> States]
      /\ peer \in [Sides -> {"open", "closed", "gone", "broken"}]
  BY Queues, TypeFacts DEF OrderInv, Inv, Msgs, TypeOK
<1>2. CASE UNCHANGED <<inbox, peer, state>>
  BY <1>1, <1>2 DEF PeerInv, CanRead
<1>3. ASSUME NEW s \in Sides, NEW m \in Msgs, PeerSends(s, m),
             m = Close \/ peer' = peer,
             m = Close => peer' = [peer EXCEPT ![s] = "closed"]
      PROVE  PeerInv(r)'
  <2>1. inbox'[s] = Append(inbox[s], m) /\ \A t \in Sides \ {s} : inbox'[t] = inbox[t]
    BY <1>1, <1>3, Appended DEF PeerSends
  <2>2. /\ state' = state /\ peer[s] = "open"
        /\ \A t \in Sides \ {s} : peer'[t] = peer[t]
        /\ peer'[s] = IF m = Close THEN "closed" ELSE "open"
    BY <1>1, <1>3 DEF PeerSends
  <2>3. CASE r = s
    <3>1. NoClose(inbox[r]) /\ CanRead(r)
      BY <1>1, <2>2, <2>3 DEF PeerInv
    <3>2. ClosesLast(inbox[r])' /\ (NoClose(inbox[r])' <=> m # Close)
      <4>1. PICK q \in Seq(Msgs) : q = inbox[r]
        BY <1>1
      <4>2. ClosesLast(Append(q, m)) /\ (NoClose(Append(q, m)) <=> m # Close)
        BY <3>1, <4>1, DataAppend
      <4> QED
        BY <2>1, <2>3, <4>1, <4>2 DEF NoClose, ClosesLast
    <3> QED
      BY <2>2, <2>3, <3>1, <3>2 DEF PeerInv, CanRead
  <2>4. CASE r # s
    BY <1>1, <2>1, <2>2, <2>4 DEF PeerInv, NoClose, ClosesLast, CanRead
  <2> QED
    BY <2>3, <2>4
<1>4. ASSUME NEW s \in Sides, Peer(s) PROVE PeerInv(r)'
  <2>1. CASE SendData(s)
    <3>1. sent[s] + 1 \in Msgs /\ sent[s] + 1 # Close
      BY <1>1, <2>1, WsAssumption DEF SendData, TypeOK, Msgs, Close
    <3> QED
      BY <1>3, <2>1, <3>1 DEF SendData
  <2>2. CASE SendClose(s)
    <3>1. Close \in Msgs
      BY WsAssumption DEF Msgs, Close
    <3> QED
      BY <1>3, <2>2, <3>1 DEF SendClose
  <2>3. ASSUME NEW how \in {"gone", "broken"}, Leave(s, how) PROVE PeerInv(r)'
    BY <1>1, <2>3 DEF Leave, PeerInv, CanRead
  <2>4. CASE Receive(Other(s))
    BY <1>2, <2>4 DEF Receive, peerVars
  <2> QED
    BY <1>4, <2>1, <2>2, <2>3, <2>4 DEF Peer
<1>5. ASSUME NEW s \in Sides, Take(s) PROVE PeerInv(r)'
  <2>1. /\ inbox' = [inbox EXCEPT ![s] = Tail(@)] /\ inbox[s] # <<>> /\ peer' = peer
        /\ \A t \in Sides \ {s} : state'[t] = state[t]
        /\ IF Head(inbox[s]) = Close THEN ~CanRead(s)' ELSE state'[s] = state[s]
    BY <1>1, <1>5 DEF Take, HasItem, CanRead, peerVars
  <2>2. CASE r = s
    <3>1. /\ ClosesLast(Tail(inbox[r]))
          /\ NoClose(inbox[r]) <=> Head(inbox[r]) # Close /\ NoClose(Tail(inbox[r]))
          /\ Head(inbox[r]) = Close => Tail(inbox[r]) = <<>>
      <4>1. PICK q \in Seq(Msgs) : q = inbox[r]
        BY <1>1
      <4> QED
        BY <1>1, <2>1, <2>2, <4>1, DataTail DEF PeerInv
    <3>2. inbox'[r] = Tail(inbox[r])
      BY <1>1, <2>1, <2>2
    <3>3. CASE Head(inbox[r]) # Close
      BY <1>1, <1>5, <2>1, <2>2, <3>1, <3>2, <3>3 DEF PeerInv, NoClose, ClosesLast, CanRead, Take, HasItem
    <3>4. CASE Head(inbox[r]) = Close
      BY <1>1, <2>1, <2>2, <3>1, <3>2, <3>4, DataEmpty DEF PeerInv
    <3> QED
      BY <3>3, <3>4
  <2>3. CASE r # s
    BY <1>1, <2>1, <2>3 DEF PeerInv, NoClose, ClosesLast, CanRead
  <2> QED
    BY <2>2, <2>3
<1>6. ASSUME NEW s \in Sides, FlushReply(s) \/ SeeEnd(s) PROVE PeerInv(r)'
  <2>1. /\ inbox' = inbox /\ peer' = peer
        /\ state' \in {state, [state EXCEPT ![s] = "Terminated"]}
    <3>1. state = [state EXCEPT ![s] = state[s]]
      BY <1>1
    <3> QED
      BY <1>6, <3>1 DEF FlushReply, SeeEnd, peerVars
  <2>2. ~CanRead(s)
    BY <1>6 DEF FlushReply, SeeEnd, HandshakeOver, OrderInv, Inv, CloseInv, Polled,
         CanRead, ClosedByItsPeer
  <2>3. CanRead(r)' <=> CanRead(r)
    BY <1>1, <2>1, <2>2 DEF CanRead
  <2> QED
    BY <1>1, <2>1, <2>3 DEF PeerInv, NoClose, ClosesLast
<1>7. ASSUME NEW u \in Sides, SendHand(u) PROVE PeerInv(r)'
  <2> DEFINE o == Other(hand[1].from)
             new == IF hand[1].msg = Close THEN "ClosedByUs" ELSE state[o]
  <2>1. o \in Sides /\ inbox' = inbox /\ peer' = peer /\ state[o] = "Active"
        /\ state' = [state EXCEPT ![o] = new]
    BY <1>1, <1>7, TypeFacts, OtherSide DEF SendHand, SendsTo, Passes, peerVars
  <2>2. new \in {"ClosedByUs", "Active"}
    BY <2>1
  <2> HIDE DEF o, new
  <2>3. CanRead(r)' <=> CanRead(r)
    BY <1>1, <2>1, <2>2 DEF CanRead
  <2> QED
    BY <1>1, <2>1, <2>3 DEF PeerInv, NoClose, ClosesLast
<1>8. CASE DropConnections
  BY <1>2, <1>8 DEF DropConnections, peerVars
<1> QED
  BY <1>2, <1>4, <1>5, <1>6, <1>7, <1>8 DEF Next, Forward, Poll, SendFails, ReadFails, vars

-----------------------------------------------------------------------------

\* A step that writes nothing.
LEMMA ReadStays ==
  ASSUME NEW r \in Sides, ReadInv(r), Read(r)' = Read(r), relay' = relay,
         relay = "running" /\ Complete(r) => Complete(r)',
         reply'[Other(r)] \/ state'[Other(r)] = "Active"
           => reply[Other(r)] \/ state[Other(r)] = "Active",
         peer'[Other(r)] = "open" => peer[Other(r)] = "open",
         peer[r] # "open" => peer'[r] # "open" /\ sent'[r] = sent[r]
  PROVE  ReadInv(r)'
<1>1. /\ ClosesLast(Read(r))' <=> ClosesLast(Read(r))
      /\ NoClose(Read(r))' <=> NoClose(Read(r))
      /\ Data(Read(r))' = Data(Read(r))
  BY DEF ClosesLast, NoClose, Data
<1> QED
  BY <1>1 DEF ReadInv

LEMMA CompleteStays ==
  ASSUME NEW r, UNCHANGED <<Read(r), InHand(r), inbox[r], sent[r]>>, Complete(r)
  PROVE  Complete(r)'
BY DEF Complete

\* The peers.
LEMMA ReadPeer ==
  ASSUME OrderInv, NEW s \in Sides, Peer(s), NEW r \in Sides
  PROVE  ReadInv(r)'
<1>1. /\ TypeOK /\ PeerInv(r) /\ ReadInv(r) /\ inbox[r] \in Seq(Msgs) /\ sent[r] \in Nat
      /\ inbox \in [Sides -> Seq(Msgs)] /\ sent \in [Sides -> 0..MaxSent]
      /\ peer \in [Sides -> {"open", "closed", "gone", "broken"}]
      /\ Other(r) \in Sides
  BY Queues, TypeFacts, OtherSide DEF OrderInv, Inv, Msgs, TypeOK
<1>2. /\ UNCHANGED <<state, reply, hand, relay>>
      /\ InHand(r)' = InHand(r)
  BY DEF Peer, SendData, SendClose, PeerSends, Leave, Receive, InHand
<1>3. ASSUME UNCHANGED <<Read(r), peer, sent, inbox>> PROVE ReadInv(r)'
  BY <1>1, <1>2, <1>3, ReadStays, CompleteStays
<1>4. CASE Receive(Other(s))
  BY <1>1, <1>3, <1>4, OtherSide, ReceiveRead DEF Receive, peerVars
<1>5. ASSUME NEW how \in {"gone", "broken"}, Leave(s, how) PROVE ReadInv(r)'
  <2>1. UNCHANGED <<Read(r), inbox, sent>> /\ peer' = [peer EXCEPT ![s] = how]
    BY <1>5 DEF Leave, Read
  <2>2. \A t \in Sides : peer'[t] = "open" => peer[t] = "open"
    BY <1>1, <2>1
  <2> QED
    BY <1>1, <1>2, <2>1, <2>2, ReadStays, CompleteStays
<1>6. CASE SendClose(s) \/ SendData(s)
  <2>1. /\ relay = "running" /\ peer[s] = "open" /\ Read(r)' = Read(r)
        /\ \A t \in Sides \ {s} : inbox'[t] = inbox[t] /\ sent'[t] = sent[t]
        /\ \A t \in Sides : peer'[t] = "open" => peer[t] = "open"
    BY <1>1, <1>6 DEF SendClose, SendData, PeerSends, Read
  <2>2. CASE r # s
    BY <1>1, <1>2, <2>1, <2>2, ReadStays, CompleteStays
  <2>3. CASE r = s
    <3>1. Complete(r) => Complete(r)'
      <4>1. PICK q, a, b : /\ q \in Seq(Msgs) /\ q = inbox[r]
                           /\ a = Len(Data(Read(r))) /\ b = Len(Data(InHand(r)))
        BY <1>1
      <4>2. NoClose(q) /\ Data(q) = q
        BY <1>1, <2>1, <2>3, <4>1, DataSame DEF PeerInv
      <4>3. CASE SendClose(s)
        <5>1. inbox'[r] = Append(q, Close) /\ sent' = sent /\ Close \in Msgs
          BY <1>1, <2>3, <4>1, <4>3, WsAssumption DEF SendClose, PeerSends, Close, Msgs
        <5>2. Data(inbox'[r]) = q
          BY <4>1, <4>2, <5>1, DataAppend
        <5> QED
          BY <1>2, <2>1, <4>1, <4>2, <5>1, <5>2 DEF Complete
      <4>4. CASE SendData(s)
        <5>1. /\ inbox'[r] = Append(q, sent[r] + 1) /\ sent'[r] = sent[r] + 1
              /\ sent[r] + 1 \in Msgs /\ sent[r] + 1 # Close
          BY <1>1, <2>3, <4>1, <4>4, WsAssumption DEF SendData, PeerSends, Close, Msgs
        <5>2. Data(inbox'[r]) = Append(q, sent[r] + 1)
          BY <4>1, <4>2, <5>1, DataAppend
        <5>3. Len(Append(q, sent[r] + 1)) = Len(q) + 1 /\ Len(q) \in Nat
          BY <5>1
        <5>4. a + b + Len(q) = sent[r] => a + b + (Len(q) + 1) = sent[r] + 1
          <6>1. a \in Nat /\ b \in Nat
            BY <1>1, <4>1, Numbers
          <6> QED
            BY <1>1, <5>3, <6>1
        <5> QED
          BY <1>2, <2>1, <4>1, <4>2, <5>1, <5>2, <5>3, <5>4 DEF Complete
      <4> QED
        BY <1>6, <4>3, <4>4
    <3> QED
      BY <1>1, <1>2, <2>1, <2>3, <3>1, ReadStays
  <2> QED
    BY <2>2, <2>3
<1> QED
  BY <1>4, <1>5, <1>6 DEF Peer

LEMMA InHandFacts ==
  /\ hand = <<>> => \A r \in Sides : InHand(r) = <<>>
  /\ hand # <<>> => /\ InHand(hand[1].from) = <<hand[1].msg>>
                    /\ \A r \in Sides \ {hand[1].from} : InHand(r) = <<>>
BY DEF InHand

\* A message in a queue of its own.
LEMMA DataOfOne ==
  ASSUME NEW m \in Msgs
  PROVE  Data(<<m>>) = IF m = Close THEN <<>> ELSE <<m>>
<1>1. <<m>> = Append(<<>>, m) /\ <<>> \in Seq(Msgs)
  OBVIOUS
<1> QED
  BY <1>1, DataEmpty, DataAppend

\* A message that is taken is in hand instead of in the inbox.
LEMMA ReadTake ==
  ASSUME OrderInv, NEW s \in Sides, Take(s), NEW r \in Sides
  PROVE  ReadInv(r)'
<1>1. /\ TypeOK /\ PeerInv(s) /\ ReadInv(r) /\ inbox[s] \in Seq(Msgs)
      /\ inbox \in [Sides -> Seq(Msgs)] /\ state \in [Sides -> States]
      /\ reply \in [Sides -> BOOLEAN] /\ Other(r) \in Sides
  BY Queues, TypeFacts, OtherSide DEF OrderInv, Inv, Msgs
<1>2. /\ relay = "running" /\ hand = <<>> /\ inbox[s] # <<>> /\ Read(r)' = Read(r)
      /\ inbox' = [inbox EXCEPT ![s] = Tail(@)]
      /\ hand' = <<[from |-> s, msg |-> Head(inbox[s])]>>
      /\ UNCHANGED <<sent, peer, relay>>
  BY DEF Take, HasItem, Polled, peerVars, Read
<1>3. /\ InHand(s) = <<>> /\ InHand(s)' = <<Head(inbox[s])>>
      /\ \A t \in Sides \ {s} : InHand(t) = <<>> /\ InHand(t)' = <<>>
  <2>1. hand' # <<>> /\ hand'[1].from = s /\ hand'[1].msg = Head(inbox[s])
    BY <1>2
  <2> QED
    BY <1>2, <2>1 DEF InHand
<1>4. \A t \in Sides : reply'[t] \/ state'[t] = "Active" => reply[t] \/ state[t] = "Active"
  BY <1>1 DEF Take, HasItem
<1>5. Complete(r) => Complete(r)'
  <2>1. CASE r = s
    <3>1. PICK q \in Seq(Msgs) : q = inbox[s]
      BY <1>1
    <3>2. /\ Head(q) \in Msgs /\ Tail(q) \in Seq(Msgs)
          /\ Head(q) = Close => Tail(q) = <<>> /\ Data(q) = <<>>
          /\ Head(q) # Close => Data(q) # <<>> /\ Tail(Data(q)) = Data(Tail(q))
      BY <1>1, <1>2, <3>1, DataTail DEF PeerInv
    <3>3. Len(Data(<<Head(q)>>)) + Len(Data(Tail(q))) = Len(Data(<<>>)) + Len(Data(q))
      <4>1. CASE Head(q) = Close
        <5>1. Data(<<Head(q)>>) = <<>>
          BY <3>2, <4>1, DataOfOne
        <5> QED
          BY <3>2, <4>1, <5>1, DataEmpty
      <4>2. CASE Head(q) # Close
        <5>1. Data(<<Head(q)>>) = <<Head(q)>> /\ Len(<<Head(q)>>) = 1
          BY <3>2, <4>2, DataOfOne
        <5>2. Len(Data(Tail(q))) = Len(Data(q)) - 1 /\ Len(Data(q)) \in Nat
          <6>1. PICK d \in Seq(Msgs) : d = Data(q)
            BY DataType
          <6>2. Len(Tail(d)) = Len(d) - 1 /\ Len(d) \in Nat
            BY <3>2, <4>2, <6>1, HeadTailProperties, LenProperties
          <6> QED
            BY <3>2, <4>2, <6>1, <6>2
        <5>3. Data(<<>>) = <<>> /\ Len(<<>>) = 0
          BY DataEmpty
        <5>4. Len(Data(<<Head(q)>>)) = 1 /\ Len(Data(<<>>)) = 0
          BY <5>1, <5>3
        <5>5. PICK n, n1, h, h1 :
                /\ n = Len(Data(q)) /\ n1 = Len(Data(Tail(q)))
                /\ h = Len(Data(<<>>)) /\ h1 = Len(Data(<<Head(q)>>))
          OBVIOUS
        <5>6. n \in Nat /\ n1 = n - 1 /\ h = 0 /\ h1 = 1
          BY <5>2, <5>4, <5>5
        <5>7. h1 + n1 = h + n
          BY <5>6
        <5> QED
          BY <5>5, <5>7
      <4> QED
        BY <4>1, <4>2
    <3>4. PICK a, h, i, h1, i1 :
            /\ a = Len(Data(Read(s))) /\ h = Len(Data(<<>>)) /\ i = Len(Data(q))
            /\ h1 = Len(Data(<<Head(q)>>)) /\ i1 = Len(Data(Tail(q)))
      OBVIOUS
    <3>5. a \in Nat /\ h \in Nat /\ i \in Nat /\ h1 \in Nat /\ i1 \in Nat
      <4>1. <<Head(q)>> \in Seq(Msgs) /\ <<>> \in Seq(Msgs)
        BY <3>2
      <4>2. \A p \in Seq(Msgs) : Len(Data(p)) \in Nat
        BY DataType
      <4> QED
        BY <1>1, <3>2, <3>4, <4>1, <4>2, Queues
    <3>6. h1 + i1 = h + i
      BY <3>3, <3>4
    <3>7. a + h + i = sent[s] => a + h1 + i1 = sent[s]
      BY <3>5, <3>6
    <3>8. inbox'[s] = Tail(q)
      BY <1>1, <1>2, <3>1
    <3> QED
      BY <1>2, <1>3, <2>1, <3>1, <3>4, <3>7, <3>8 DEF Complete
  <2>2. CASE r # s
    <3>1. UNCHANGED <<Read(r), InHand(r), inbox[r], sent[r]>>
      BY <1>1, <1>2, <1>3, <2>2
    <3> QED
      BY <3>1, CompleteStays
  <2> QED
    BY <2>1, <2>2
<1> QED
  BY <1>1, <1>2, <1>4, <1>5, ReadStays

\* The end of a connection, and the reply to a Close, which is the last that the relay
\* writes to it.
LEMMA ReadEnd ==
  ASSUME OrderInv, NEW s \in Sides, SeeEnd(s), NEW r \in Sides
  PROVE  ReadInv(r)'
<1>1. /\ TypeOK /\ ReadInv(r) /\ state \in [Sides -> States] /\ Other(r) \in Sides
  BY TypeFacts, OtherSide DEF OrderInv, Inv
<1>2. /\ UNCHANGED <<sent, peer, inbox, reply, hand, outbox, got, relay>>
      /\ state' = [state EXCEPT ![s] = "Terminated"]
  BY DEF SeeEnd, peerVars
<1>3. UNCHANGED <<Read(r), InHand(r), inbox[r], sent[r]>>
  BY <1>2 DEF Read, InHand
<1>4. state'[Other(r)] = "Active" => state[Other(r)] = "Active"
  BY <1>1, <1>2
<1> QED
  BY <1>1, <1>2, <1>3, <1>4, ReadStays, CompleteStays

LEMMA ReadReply ==
  ASSUME OrderInv, NEW s \in Sides, FlushReply(s), NEW r \in Sides
  PROVE  ReadInv(r)'
<1> DEFINE o == Other(s)
<1>1. /\ TypeOK /\ ReadInv(r) /\ PeerInv(s) /\ state \in [Sides -> States]
      /\ reply \in [Sides -> BOOLEAN] /\ Other(r) \in Sides /\ o \in Sides
      /\ Other(o) = s /\ o # s /\ Close \in Msgs
  BY TypeFacts, OtherSide, WsAssumption DEF OrderInv, Inv, Msgs, Close
<1>2. /\ UNCHANGED <<sent, peer, inbox, hand, got, relay>>
      /\ outbox' = [outbox EXCEPT ![o] = Append(@, Close)]
      /\ reply' = [reply EXCEPT ![s] = FALSE]
      /\ state' = [state EXCEPT ![s] = IF s = "client" THEN "Terminated" ELSE @]
      /\ reply[s] /\ relay = "running"
  BY DEF FlushReply, peerVars, Polled
<1>3. /\ Read(o)' = Append(Read(o), Close)
      /\ \A t \in Sides \ {o} : Read(t)' = Read(t)
  BY <1>1, <1>2, SendRead
<1>4. UNCHANGED <<InHand(r), inbox[r], sent[r]>>
  BY <1>2 DEF InHand
<1>5. ~CanRead(s) /\ state'[s] # "Active"
  <2>1. state[s] \in {"ClosedByPeer", "Terminated"}
    BY <1>2 DEF OrderInv, Inv, CloseInv, ClosedByItsPeer
  <2> QED
    BY <1>1, <1>2, <2>1 DEF CanRead
<1>6. CASE r = o
  <2>1. NoClose(Read(r)) /\ Complete(r)
    BY <1>1, <1>2, <1>6 DEF ReadInv
  <2>2. PICK q \in Seq(Msgs) : q = Read(r)
    BY <1>1, Queues
  <2>3. /\ ClosesLast(Append(q, Close)) /\ Data(Append(q, Close)) = q /\ Data(q) = q
    BY <1>1, <2>1, <2>2, DataAppend, DataSame
  <2>4. ClosesLast(Read(r))' /\ Data(Read(r))' = Data(Read(r))
    BY <1>3, <1>6, <2>2, <2>3 DEF ClosesLast, Data
  <2>5. Complete(r)'
    BY <1>4, <2>1, <2>4 DEF Complete
  <2>6. peer'[Other(r)] # "open" /\ ~reply'[Other(r)] /\ state'[Other(r)] # "Active"
    BY <1>1, <1>2, <1>5, <1>6 DEF PeerInv
  <2> QED
    BY <2>4, <2>5, <2>6 DEF ReadInv
<1>7. CASE r # o
  <2>1. Read(r)' = Read(r) /\ Other(r) # s
    BY <1>3, <1>7, OtherSide
  <2>2. reply'[Other(r)] = reply[Other(r)] /\ state'[Other(r)] = state[Other(r)]
    BY <1>1, <1>2, <2>1
  <2> QED
    BY <1>1, <1>2, <1>4, <2>1, <2>2, ReadStays, CompleteStays
<1> QED
  BY <1>6, <1>7

\* A send only goes to a connection that has had no Close.  If it is of a Close, its
\* sender has nothing left to send.
LEMMA ReadSend ==
  ASSUME OrderInv, NEW u \in Sides, SendHand(u), NEW r \in Sides
  PROVE  ReadInv(r)'
<1>0. PICK s, m, o : s = hand[1].from /\ m = hand[1].msg /\ o = Other(s)
  OBVIOUS
<1>1. /\ TypeOK /\ ReadInv(r) /\ PeerInv(r) /\ state \in [Sides -> States]
      /\ s \in Sides /\ m \in Msgs /\ o \in Sides /\ Other(r) \in Sides
      /\ relay = "running" /\ hand # <<>>
  BY <1>0, TypeFacts, OtherSide DEF OrderInv, Inv, Msgs, SendHand, SendsTo, Passes
<1>2. /\ UNCHANGED <<sent, peer, inbox, reply, got, relay>> /\ hand' = <<>>
      /\ outbox' = [outbox EXCEPT ![s] = Append(@, m)]
      /\ state[o] = "Active"
      /\ state' = [state EXCEPT ![o] = IF m = Close THEN "ClosedByUs" ELSE @]
  BY <1>0 DEF SendHand, SendsTo, Passes, peerVars
<1>3. /\ InHand(s) = <<m>> /\ InHand(s)' = <<>>
      /\ \A t \in Sides \ {s} : InHand(t) = <<>> /\ InHand(t)' = <<>>
  BY <1>0, <1>1, <1>2, InHandFacts DEF InHand
<1>4. ~reply[o] /\ (m = Close => ~CanRead(s))
  <2>1. CloseInv
    BY DEF OrderInv, Inv
  <2>2. reply[o] => ClosedByItsPeer(o)
    BY <1>0, <1>1, <2>1 DEF CloseInv
  <2>3. m = Close => CloseInHand(s)
    BY <1>0, <1>1, <2>1 DEF CloseInv
  <2> QED
    BY <1>0, <1>2, <2>2, <2>3 DEF ClosedByItsPeer, CloseInHand, CanRead
<1>5. /\ Read(s)' = Append(Read(s), m)
      /\ \A t \in Sides \ {s} : Read(t)' = Read(t)
  BY <1>1, <1>2, SendRead
<1>6. CASE r = s
  <2>1. NoClose(Read(r)) /\ Complete(r)
    BY <1>0, <1>1, <1>2, <1>6 DEF ReadInv
  <2>2. PICK q, q1 : q \in Seq(Msgs) /\ q = Read(r) /\ q1 = Append(q, m)
    BY <1>1, Queues
  <2>3. /\ q1 \in Seq(Msgs) /\ ClosesLast(q1) /\ (NoClose(q1) <=> m # Close)
        /\ Data(q1) = IF m = Close THEN q ELSE q1
        /\ Data(q) = q
    BY <1>1, <2>1, <2>2, DataAppend, DataSame
  <2>4. Read(r)' = q1
    BY <1>5, <1>6, <2>2
  <2>5. ClosesLast(Read(r))' /\ (NoClose(Read(r))' <=> m # Close)
    BY <2>3, <2>4 DEF ClosesLast, NoClose
  <2>6. PICK a, b, e, f, i : /\ a = Len(q) /\ b = Len(Data(q1)) /\ i = Len(Data(inbox[r]))
                             /\ e = Len(Data(<<m>>)) /\ f = Len(Data(<<>>))
    OBVIOUS
  <2>7. a \in Nat /\ i \in Nat /\ sent[r] \in Nat
    BY <1>1, <2>2, <2>6, Numbers, LenProperties
  <2>8. b = IF m = Close THEN a ELSE a + 1
    <3>1. Len(Append(q, m)) = Len(q) + 1
      BY <1>1, <2>2
    <3> QED
      BY <2>2, <2>3, <2>6, <3>1
  <2>9. e = (IF m = Close THEN 0 ELSE 1) /\ f = 0
    <3>1. Len(<<m>>) = 1 /\ Len(<<>>) = 0
      OBVIOUS
    <3>2. Data(<<m>>) = (IF m = Close THEN <<>> ELSE <<m>>) /\ Data(<<>>) = <<>>
      BY <1>1, DataOfOne, DataEmpty
    <3> QED
      BY <2>6, <3>1, <3>2
  <2>10. a + e + i = sent[r]
    BY <1>3, <1>6, <2>1, <2>2, <2>3, <2>6 DEF Complete
  <2>11. b + f + i = sent[r]
    BY <2>7, <2>8, <2>9, <2>10
  <2>12. Len(Data(Read(r)))' = b /\ Len(Data(InHand(r)))' = f /\ Len(Data(inbox[r]))' = i
    BY <1>2, <1>3, <1>6, <2>4, <2>6
  <2>13. Complete(r)'
    BY <1>2, <2>11, <2>12 DEF Complete
  <2>14. CASE m = Close
    <3>1. inbox[r] = <<>> /\ peer[r] # "open"
      BY <1>1, <1>4, <1>6, <2>14 DEF PeerInv
    <3>2. i = 0
      BY <2>6, <2>9, <3>1
    <3>3. Len(Data(Read(r)))' = sent[r]
      BY <2>7, <2>8, <2>9, <2>11, <2>12, <3>2
    <3>4. state'[Other(r)] = "ClosedByUs" /\ ~reply'[Other(r)]
      BY <1>0, <1>1, <1>2, <1>4, <1>6, <2>14
    <3> QED
      BY <1>2, <2>5, <2>13, <3>1, <3>3, <3>4 DEF ReadInv
  <2>15. CASE m # Close
    BY <2>5, <2>13, <2>15 DEF ReadInv
  <2> QED
    BY <2>14, <2>15
<1>7. CASE r # s
  <2>1. Read(r)' = Read(r) /\ Other(r) = s /\ s # o
    BY <1>0, <1>1, <1>5, <1>7, OtherSide
  <2>2. state'[Other(r)] = state[Other(r)]
    BY <1>1, <1>2, <2>1
  <2>3. UNCHANGED <<InHand(r), inbox[r], sent[r]>>
    BY <1>2, <1>3, <1>7
  <2> QED
    BY <1>1, <1>2, <2>1, <2>2, <2>3, ReadStays, CompleteStays
<1> QED
  BY <1>6, <1>7

\* What an error drops is the end of what was written: the Close with the first of it.
LEMMA ReadDrop ==
  ASSUME OrderInv, DropConnections, NEW r \in Sides
  PROVE  ReadInv(r)'
<1>1. TypeOK /\ ReadInv(r) /\ relay' # "running" /\ UNCHANGED <<sent, peer>>
  BY DEF OrderInv, Inv, DropConnections, peerVars
<1>2. PICK q, n : /\ q \in Seq(Msgs) /\ q = Read(r)
                 /\ n \in 0..Len(q) /\ Read(r)' = SubSeq(q, 1, n)
  <2>1. PICK q \in Seq(Msgs) : q = Read(r)
    BY <1>1, Queues
  <2> QED
    BY <1>1, <2>1, DropRead
<1>3. ClosesLast(q)
  BY <1>1, <1>2 DEF ReadInv
<1>4. PICK p : p = SubSeq(q, 1, n)
  OBVIOUS
<1>5. ClosesLast(p) /\ (~NoClose(p) => p = q)
  BY <1>2, <1>3, <1>4, DataPrefix
<1>6. Read(r)' = p
  BY <1>2, <1>4
<1>7. ClosesLast(Read(r))' /\ (~NoClose(Read(r))' => Read(r)' = Read(r))
  BY <1>2, <1>5, <1>6 DEF ClosesLast, NoClose
<1>8. Read(r)' = Read(r) => /\ NoClose(Read(r))' <=> NoClose(Read(r))
                            /\ Data(Read(r))' = Data(Read(r))
  BY DEF NoClose, Data
<1> QED
  BY <1>1, <1>7, <1>8 DEF ReadInv

LEMMA OrderNext == OrderInv /\ [Next]_vars => OrderInv'
<1> SUFFICES ASSUME OrderInv, [Next]_vars PROVE OrderInv'
  OBVIOUS
<1>1. Inv'
  BY TypePreserved, ClosePreserved DEF OrderInv, Inv
<1>2. ASSUME NEW r \in Sides PROVE ReadInv(r)'
  <2>1. ReadInv(r)
    BY DEF OrderInv
  <2>2. CASE UNCHANGED vars
    <3>1. UNCHANGED <<Read(r), InHand(r), inbox[r], sent, peer, relay, reply, state>>
      BY <2>2 DEF vars, Read, InHand
    <3> QED
      BY <2>1, <3>1, ReadStays, CompleteStays
  <2>3. ASSUME NEW s \in Sides, Poll(s) PROVE ReadInv(r)'
    BY <2>3, ReadTake, ReadReply, ReadEnd, ReadDrop DEF Poll, ReadFails
  <2>4. CASE Forward
    BY <2>4, ReadSend, ReadDrop DEF Forward, SendFails
  <2> QED
    BY <2>2, <2>3, <2>4, ReadPeer DEF Next
<1> QED
  BY <1>1, <1>2, PeerNext DEF OrderInv

LEMMA OrderInvariance == Spec => []OrderInv
BY OrderInitially, OrderNext, PTL DEF Spec

-----------------------------------------------------------------------------

\* When both sides have closed or gone, one of the two connections can still be read,
\* and that one either has an item, the Close of its side among others, or an error.
THEOREM WaitsOnlyForRoom == Spec => []NeverWaitsInVain
<1>1. ASSUME OrderInv PROVE NeverWaitsInVain
  <2> SUFFICES ASSUME relay = "running",
                      \A s \in Sides : /\ peer[s] # "open"
                                       /\ Room(s) \/ peer[Other(s)] \in {"gone", "broken"}
               PROVE  \/ SendError
                      \/ \E s \in Sides : HasItem(s) \/ ReadError(s) \/ (SendsTo(s) /\ Room(s))
    BY DEF NeverWaitsInVain
  <2>1. CloseInv /\ peer \in [Sides -> {"open", "closed", "gone", "broken"}]
    BY <1>1 DEF OrderInv, Inv, TypeOK
  <2>2. CASE hand # <<>>
    <3>1. PICK s \in Sides : s = hand[1].from
      BY <1>1, <2>2, TypeFacts DEF OrderInv, Inv
    <3>2. CASE state[Other(s)] # "Active" \/ peer[Other(s)] \in {"gone", "broken"}
      BY <2>2, <3>1, <3>2 DEF SendError
    <3>3. CASE state[Other(s)] = "Active" /\ peer[Other(s)] \notin {"gone", "broken"}
      BY <2>2, <3>1, <3>3 DEF SendsTo
    <3> QED
      BY <3>2, <3>3
  <2>3. CASE hand = <<>>
    <3>1. PICK s \in Sides : state[s] \in {"Active", "ClosedByUs"} /\ ~ended[s]
      BY <2>1, <2>3, OtherSide DEF CloseInv, Paired, Sides
    <3>2. Polled(s) /\ CanRead(s)
      BY <2>3, <3>1 DEF Polled, CanRead
    <3>3. peer[s] \in {"closed", "gone", "broken"}
      BY <2>1
    <3>4. peer[s] = "closed" => inbox[s] # <<>>
      BY <1>1, <3>2, DataEmpty DEF OrderInv, PeerInv
    <3> QED
      BY <3>2, <3>3, <3>4 DEF HasItem, ReadError, ServerDone
  <2> QED
    BY <2>2, <2>3
<1> QED
  BY <1>1, OrderInvariance, PTL

\* Neither side reads anything after a Close, and a side that did not close reads one
\* only behind all the data of a side that did.
THEOREM ClosesKeepOrder == Spec => []ClosesInOrder
<1>1. ASSUME OrderInv PROVE ClosesInOrder
  <2> SUFFICES ASSUME NEW s \in Sides
               PROVE  /\ \A i \in 1..(Len(Read(s)) - 1) : Read(s)[i] # Close
                      /\ Contains(Read(s), Close) /\ peer[Other(s)] = "open"
                           => peer[s] # "open" /\ Len(Data(Read(s))) = sent[s]
    BY DEF ClosesInOrder, Read, Cat
  <2>1. ReadInv(s)
    BY <1>1 DEF OrderInv
  <2>2. Contains(Read(s), Close) => ~NoClose(Read(s))
    BY DEF Contains, NoClose
  <2> QED
    BY <2>1, <2>2 DEF ReadInv, ClosesLast
<1> QED
  BY <1>1, OrderInvariance, PTL

-----------------------------------------------------------------------------
(* The relay implements the abstract stream.                               *)

\* UnderWay, with its concatenation under the opaque name.
Way(s) ==
  IF relay = "running" THEN Cat(Cat(Data(outbox[s]), Data(InHand(s))), Data(inbox[s]))
                       ELSE Data(outbox[s])

LEMMA WayIsUnderWay == \A s \in Sides : UnderWay(s) = Way(s) /\ UnderWay(s)' = Way(s)'
BY DEF UnderWay, Way, Cat

LEMMA StreamInitially == Init => Stream!Init
<1> SUFFICES ASSUME Init PROVE Stream!Init
  OBVIOUS
<1>1. Cat(<<>>, <<>>) = <<>>
  BY ConcatEmptySeq, EmptySeq DEF Cat
<1>2. ASSUME NEW s \in Sides PROVE UnderWay(s) = <<>> /\ Data(got[s]) = <<>>
  <2>1. outbox[s] = <<>> /\ InHand(s) = <<>> /\ inbox[s] = <<>> /\ got[s] = <<>>
    BY DEF Init, InHand
  <2> QED
    BY <1>1, <2>1, DataEmpty, WayIsUnderWay DEF Way
<1> QED
  BY <1>2 DEF Init, Stream!Init

LEMMA CatEmpty ==
  \A S : \A q \in Seq(S) : Cat(q, <<>>) = q
BY ConcatEmptySeq DEF Cat

\* A Close that ends the whole ends the second part, if there is one.
LEMMA CatCloses ==
  ASSUME NEW p \in Seq(Msgs), NEW q \in Seq(Msgs)
  PROVE  /\ ClosesLast(Cat(p, q)) => ClosesLast(q) /\ (q # <<>> => NoClose(p))
         /\ NoClose(Cat(p, q)) => NoClose(q)
<1>1. PICK c : c = Cat(p, q)
  OBVIOUS
<1>2. PICK a, b : a = Len(p) /\ b = Len(q)
  OBVIOUS
<1>3. a \in Nat /\ b \in Nat /\ (q # <<>> => b # 0)
  BY <1>2, LenProperties, EmptySeq
<1>4. Len(c) = a + b /\ \A i \in 1..(a + b) : c[i] = IF i <= a THEN p[i] ELSE q[i - a]
  BY <1>1, <1>2, ConcatProperties DEF Cat
<1>5. \A i \in 1..a : i \in 1..(a + b) /\ c[i] = p[i] /\ (b # 0 => i \in 1..(a + b - 1))
  BY <1>3, <1>4
<1>6. ASSUME NEW i \in 1..b PROVE /\ a + i \in 1..(a + b) /\ c[a + i] = q[i]
                                  /\ i \in 1..(b - 1) => a + i \in 1..(a + b - 1)
  <2>1. a + i \in 1..(a + b) /\ ~(a + i <= a) /\ (a + i) - a = i
    BY <1>3
  <2> QED
    BY <1>3, <1>4, <2>1
<1>7. ASSUME ClosesLast(c) PROVE ClosesLast(q) /\ (q # <<>> => NoClose(p))
  <2>1. \A i \in 1..(a + b - 1) : c[i] # Close
    <3>1. PICK n : n = Len(c) /\ n = a + b
      BY <1>4
    <3>2. \A i \in 1..(n - 1) : c[i] # Close
      BY <1>7, <3>1 DEF ClosesLast
    <3> QED
      BY <1>3, <3>1, <3>2
  <2>2. \A i \in 1..(b - 1) : i \in 1..b
    BY <1>3
  <2>3. \A i \in 1..(b - 1) : q[i] # Close
    BY <1>6, <2>1, <2>2
  <2>4. b # 0 => \A i \in 1..a : p[i] # Close
    BY <1>5, <2>1
  <2> QED
    BY <1>2, <1>3, <2>3, <2>4 DEF ClosesLast, NoClose
<1>8. ASSUME NoClose(c) PROVE NoClose(q)
  BY <1>2, <1>4, <1>6, <1>8 DEF NoClose
<1> QED
  BY <1>1, <1>7, <1>8

\* What the order of what is read says of what is written and not yet read.
LEMMA OutboxOrder ==
  ASSUME OrderInv, NEW s \in Sides
  PROVE  /\ outbox[s] \in Seq(Msgs) /\ got[s] \in Seq(Msgs) /\ ClosesLast(outbox[s])
         /\ outbox[s] # <<>> => NoClose(got[s])
         /\ relay = "running" /\ (reply[Other(s)] \/ state[Other(s)] = "Active")
              => NoClose(outbox[s])
<1>1. TypeOK /\ ReadInv(s)
  BY DEF OrderInv, Inv
<1>2. outbox[s] \in Seq(Msgs) /\ got[s] \in Seq(Msgs)
  BY <1>1, Queues
<1> QED
  BY <1>1, <1>2, CatCloses DEF ReadInv, Read

\* The parts of UnderWay, which are all sequences of messages.
LEMMA Parts ==
  ASSUME TypeOK, NEW s \in Sides
  PROVE  /\ Data(outbox[s]) \in Seq(Msgs) /\ Data(InHand(s)) \in Seq(Msgs)
         /\ Data(inbox[s]) \in Seq(Msgs)
BY Queues, DataType

\* A direction whose queues a step leaves alone, or takes nothing but a Close through.
LEMMA WayStays ==
  ASSUME NEW r \in Sides, relay' = relay, Data(outbox[r])' = Data(outbox[r]),
         Data(InHand(r))' = Data(InHand(r)), Data(inbox[r])' = Data(inbox[r])
  PROVE  UnderWay(r)' = UnderWay(r)
BY WayIsUnderWay DEF Way

LEMMA Stutters ==
  ASSUME UNCHANGED <<sent, got, relay>>, \A r \in Sides : UnderWay(r)' = UnderWay(r)
  PROVE  UNCHANGED Stream!streamVars
BY DEF Stream!streamVars

-----------------------------------------------------------------------------

LEMMA SendDataSends == ASSUME OrderInv, NEW s \in Sides, SendData(s) PROVE Stream!Send(s)
<1>1. /\ TypeOK /\ PeerInv(s) /\ sent[s] \in Nat /\ inbox[s] \in Seq(Msgs)
      /\ inbox \in [Sides -> Seq(Msgs)] /\ sent \in [Sides -> 0..MaxSent]
  BY Queues, TypeFacts DEF OrderInv, Inv, TypeOK, Msgs
<1>2. /\ relay = "running" /\ peer[s] = "open" /\ sent[s] < MaxSent
      /\ UNCHANGED <<hand, outbox, got, relay>> /\ sent' = [sent EXCEPT ![s] = @ + 1]
      /\ inbox' = [inbox EXCEPT ![s] = Append(@, sent[s] + 1)]
  BY DEF SendData, PeerSends
<1>3. PICK m : m = sent[s] + 1
  OBVIOUS
<1>4. m \in Msgs /\ m # Close
  BY <1>1, <1>2, <1>3, WsAssumption DEF Msgs, Close
<1>5. UnderWay(s)' = Append(UnderWay(s), m)
  <2>1. PICK q \in Seq(Msgs) : q = inbox[s] /\ NoClose(q)
    BY <1>1, <1>2 DEF PeerInv
  <2>2. Data(q) = q /\ Data(Append(q, m)) = Append(q, m)
    BY <1>4, <2>1, DataAppend, DataSame
  <2>3. inbox'[s] = Append(q, m)
    BY <1>1, <1>2, <1>3, <2>1
  <2>4. PICK c : c = Cat(Data(outbox[s]), Data(InHand(s)))
    OBVIOUS
  <2>5. c \in Seq(Msgs)
    BY <1>1, <2>4, Parts, CatType
  <2>6. Cat(c, Append(q, m)) = Append(Cat(c, q), m)
    BY <1>4, <2>5, CatAppend
  <2>7. InHand(s)' = InHand(s)
    BY <1>2 DEF InHand
  <2>8. UnderWay(s) = Cat(c, q) /\ UnderWay(s)' = Cat(c, Append(q, m))
    BY <1>2, <2>1, <2>2, <2>3, <2>4, <2>7, WayIsUnderWay DEF Way
  <2> QED
    BY <2>6, <2>8
<1>6. \A r \in Sides \ {s} : UnderWay(r)' = UnderWay(r)
  <2>1. ASSUME NEW r \in Sides \ {s} PROVE inbox'[r] = inbox[r] /\ InHand(r)' = InHand(r)
    BY <1>1, <1>2 DEF InHand
  <2> QED
    BY <1>2, <2>1, WayStays
<1> QED
  BY <1>2, <1>3, <1>5, <1>6 DEF Stream!Send

\* A Close is no item of the stream.
LEMMA SendCloseStutters ==
  ASSUME OrderInv, NEW s \in Sides, SendClose(s)
  PROVE  UNCHANGED Stream!streamVars
<1>1. /\ TypeOK /\ PeerInv(s) /\ inbox[s] \in Seq(Msgs) /\ inbox \in [Sides -> Seq(Msgs)]
      /\ Close \in Msgs
  BY Queues, TypeFacts, WsAssumption DEF OrderInv, Inv, Msgs, Close
<1>2. /\ peer[s] = "open" /\ UNCHANGED <<sent, hand, outbox, got, relay>>
      /\ inbox' = [inbox EXCEPT ![s] = Append(@, Close)]
  BY DEF SendClose, PeerSends
<1>3. ASSUME NEW r \in Sides PROVE UnderWay(r)' = UnderWay(r)
  <2>1. InHand(r)' = InHand(r)
    BY <1>2 DEF InHand
  <2>2. Data(inbox[r])' = Data(inbox[r])
    <3>1. CASE r = s
      <4>1. PICK q \in Seq(Msgs) : q = inbox[s] /\ NoClose(q)
        BY <1>1, <1>2 DEF PeerInv
      <4>2. Data(q) = q /\ Data(Append(q, Close)) = q
        BY <1>1, <4>1, DataAppend, DataSame
      <4>3. inbox'[s] = Append(q, Close)
        BY <1>1, <1>2, <4>1
      <4> QED
        BY <3>1, <4>1, <4>2, <4>3
    <3>2. CASE r # s
      BY <1>1, <1>2, <3>2
    <3> QED
      BY <3>1, <3>2
  <2> QED
    BY <1>2, <2>1, <2>2, WayStays
<1> QED
  BY <1>2, <1>3, Stutters

LEMMA ReceiveDelivers ==
  ASSUME OrderInv, NEW s \in Sides, Receive(s)
  PROVE  Stream!Deliver(s) \/ UNCHANGED Stream!streamVars
<1>1. /\ TypeOK /\ outbox[s] # <<>> /\ outbox \in [Sides -> Seq(Msgs)]
      /\ got \in [Sides -> Seq(Msgs)]
      /\ UNCHANGED <<sent, inbox, hand, relay>>
      /\ got' = [got EXCEPT ![s] = Append(@, Head(outbox[s]))]
      /\ outbox' = [outbox EXCEPT ![s] = Tail(@)]
  BY TypeFacts DEF OrderInv, Inv, Msgs, Receive, peerVars
<1>2. PICK q \in Seq(Msgs), g \in Seq(Msgs) :
        q = outbox[s] /\ g = got[s] /\ q # <<>> /\ ClosesLast(q) /\ NoClose(g)
  BY <1>1, OutboxOrder
<1>3. PICK h, t : h = Head(q) /\ t = Tail(q)
  OBVIOUS
<1>4. /\ h \in Msgs /\ t \in Seq(Msgs)
      /\ h = Close => t = <<>> /\ Data(q) = <<>>
      /\ h # Close => Data(q) # <<>> /\ Head(Data(q)) = h /\ Tail(Data(q)) = Data(t)
  BY <1>2, <1>3, DataTail
<1>5. Data(g) = g /\ Data(Append(g, h)) = IF h = Close THEN g ELSE Append(g, h)
  BY <1>2, <1>4, DataAppend, DataSame
<1>6. outbox'[s] = t /\ got'[s] = Append(g, h) /\ \A r \in Sides : InHand(r)' = InHand(r)
  BY <1>1, <1>2, <1>3 DEF InHand
<1>7. ASSUME NEW r \in Sides \ {s}
      PROVE  UnderWay(r)' = UnderWay(r) /\ Data(got[r])' = Data(got[r])
  <2>1. outbox'[r] = outbox[r] /\ got'[r] = got[r]
    BY <1>1
  <2> QED
    BY <1>1, <1>6, <2>1, WayStays
<1>8. CASE h = Close
  <2>1. Data(outbox[s])' = Data(outbox[s])
    BY <1>2, <1>4, <1>6, <1>8, DataEmpty
  <2>2. UnderWay(s)' = UnderWay(s) /\ Data(got[s])' = Data(got[s])
    BY <1>1, <1>2, <1>5, <1>6, <1>8, <2>1, WayStays
  <2> QED
    BY <1>1, <1>7, <2>2 DEF Stream!streamVars
<1>9. CASE h # Close
  <2>1. PICK d, a, b : d = Data(q) /\ a = Data(InHand(s)) /\ b = Data(inbox[s])
    OBVIOUS
  <2>2. /\ d \in Seq(Msgs) /\ a \in Seq(Msgs) /\ b \in Seq(Msgs)
        /\ d # <<>> /\ Head(d) = h /\ Tail(d) = Data(t)
    BY <1>1, <1>2, <1>4, <1>9, <2>1, Parts
  <2>3. /\ UnderWay(s) # <<>> /\ Head(UnderWay(s)) = h /\ UnderWay(s)' = Tail(UnderWay(s))
    <3>1. CASE relay = "running"
      <4>1. UnderWay(s) = Cat(Cat(d, a), b) /\ UnderWay(s)' = Cat(Cat(Tail(d), a), b)
        BY <1>1, <1>2, <1>6, <2>1, <2>2, <3>1, WayIsUnderWay DEF Way
      <4>2. /\ Cat(d, a) # <<>> /\ Head(Cat(d, a)) = h /\ Tail(Cat(d, a)) = Cat(Tail(d), a)
            /\ Cat(d, a) \in Seq(Msgs)
        BY <2>2, CatHeadTail, CatType
      <4>3. /\ Cat(Cat(d, a), b) # <<>> /\ Head(Cat(Cat(d, a), b)) = Head(Cat(d, a))
            /\ Tail(Cat(Cat(d, a), b)) = Cat(Tail(Cat(d, a)), b)
        BY <2>2, <4>2, CatHeadTail
      <4> QED
        BY <4>1, <4>2, <4>3
    <3>2. CASE relay # "running"
      BY <1>1, <1>2, <1>6, <2>1, <2>2, <3>2, WayIsUnderWay DEF Way
    <3> QED
      BY <3>1, <3>2
  <2>4. Data(got[s])' = Append(Data(got[s]), h)
    BY <1>2, <1>5, <1>6, <1>9
  <2> QED
    BY <1>1, <1>7, <2>3, <2>4 DEF Stream!Deliver
<1> QED
  BY <1>8, <1>9

LEMMA TakeStutters ==
  ASSUME OrderInv, NEW s \in Sides, Take(s)
  PROVE  UNCHANGED Stream!streamVars
<1>1. /\ TypeOK /\ PeerInv(s) /\ inbox \in [Sides -> Seq(Msgs)] /\ relay = "running"
      /\ hand = <<>> /\ inbox[s] # <<>> /\ inbox' = [inbox EXCEPT ![s] = Tail(@)]
      /\ hand' = <<[from |-> s, msg |-> Head(inbox[s])]>>
      /\ UNCHANGED <<sent, outbox, got, relay>>
  BY TypeFacts DEF OrderInv, Inv, Msgs, Take, HasItem, Polled, peerVars
<1>2. PICK q, h, t : /\ q \in Seq(Msgs) /\ q = inbox[s] /\ q # <<>> /\ ClosesLast(q)
                    /\ h = Head(q) /\ t = Tail(q)
  BY <1>1, Queues DEF PeerInv
<1>3. /\ h \in Msgs /\ t \in Seq(Msgs)
      /\ h = Close => t = <<>> /\ Data(q) = <<>>
      /\ h # Close => Data(q) # <<>> /\ Head(Data(q)) = h /\ Tail(Data(q)) = Data(t)
  BY <1>2, DataTail
<1>4. InHand(s) = <<>> /\ InHand(s)' = <<h>> /\ inbox'[s] = t
  <2>1. hand' # <<>> /\ hand'[1].from = s /\ hand'[1].msg = h
    BY <1>1, <1>2
  <2> QED
    BY <1>1, <1>2, <2>1 DEF InHand
<1>5. \A r \in Sides \ {s} : UnderWay(r)' = UnderWay(r)
  <2>1. hand'[1].from = s
    BY <1>1
  <2>2. ASSUME NEW r \in Sides \ {s} PROVE inbox'[r] = inbox[r] /\ InHand(r)' = InHand(r)
    BY <1>1, <2>1 DEF InHand
  <2> QED
    BY <1>1, <2>2, WayStays
<1>6. UnderWay(s)' = UnderWay(s)
  <2>1. PICK o, d, e, u : o = Data(outbox[s]) /\ d = Data(q) /\ e = Data(<<h>>) /\ u = Data(t)
    OBVIOUS
  <2>2. o \in Seq(Msgs) /\ d \in Seq(Msgs) /\ e = IF h = Close THEN <<>> ELSE <<h>>
    BY <1>1, <1>2, <1>3, <2>1, Parts, DataType, DataOfOne
  <2>3. Cat(o, Data(<<>>)) = o
    BY <2>2, CatEmpty, DataEmpty
  <2>4. Cat(Cat(o, e), u) = Cat(o, d)
    <3>1. CASE h = Close
      <4>1. e = <<>> /\ u = <<>> /\ d = <<>>
        BY <1>3, <2>1, <2>2, <3>1, DataEmpty
      <4> QED
        BY <2>2, <4>1, CatEmpty
    <3>2. CASE h # Close
      <4>1. e = <<h>> /\ d # <<>> /\ Head(d) = h /\ Tail(d) = u
        BY <1>3, <2>1, <2>2, <3>2
      <4>2. Cat(o, <<h>>) = Append(o, h)
        BY <1>3, <2>2, AppendIsConcat DEF Cat
      <4> QED
        BY <2>2, <4>1, <4>2, CatMove
    <3> QED
      BY <3>1, <3>2
  <2>5. UnderWay(s) = Cat(Cat(o, Data(<<>>)), d) /\ UnderWay(s)' = Cat(Cat(o, e), u)
    BY <1>1, <1>2, <1>4, <2>1, WayIsUnderWay DEF Way
  <2> QED
    BY <2>3, <2>4, <2>5
<1> QED
  BY <1>1, <1>5, <1>6, Stutters

LEMMA ReplyStutters ==
  ASSUME OrderInv, NEW s \in Sides, FlushReply(s)
  PROVE  UNCHANGED Stream!streamVars
<1>1. PICK o \in Sides : o = Other(s) /\ Other(o) = s
  BY OtherSide
<1>2. /\ outbox \in [Sides -> Seq(Msgs)] /\ Close \in Msgs /\ relay = "running" /\ reply[s]
      /\ UNCHANGED <<sent, inbox, hand, got, relay>>
      /\ outbox' = [outbox EXCEPT ![o] = Append(@, Close)]
  BY <1>1, TypeFacts, WsAssumption
     DEF OrderInv, Inv, Msgs, Close, FlushReply, Polled, peerVars
<1>3. ASSUME NEW r \in Sides PROVE UnderWay(r)' = UnderWay(r)
  <2>1. InHand(r)' = InHand(r)
    BY <1>2 DEF InHand
  <2>2. Data(outbox[r])' = Data(outbox[r])
    <3>1. CASE r = o
      <4>1. PICK q \in Seq(Msgs) : q = outbox[o] /\ NoClose(q)
        BY <1>1, <1>2, OutboxOrder
      <4>2. Data(q) = q /\ Data(Append(q, Close)) = q
        BY <1>2, <4>1, DataAppend, DataSame
      <4>3. outbox'[o] = Append(q, Close)
        BY <1>2, <4>1
      <4> QED
        BY <3>1, <4>1, <4>2, <4>3
    <3>2. CASE r # o
      BY <1>2, <3>2
    <3> QED
      BY <3>1, <3>2
  <2> QED
    BY <1>2, <2>1, <2>2, WayStays
<1> QED
  BY <1>2, <1>3, Stutters

LEMMA SendStutters ==
  ASSUME OrderInv, NEW u \in Sides, SendHand(u)
  PROVE  UNCHANGED Stream!streamVars
<1>1. PICK s, m, o : s = hand[1].from /\ m = hand[1].msg /\ o = Other(s)
  OBVIOUS
<1>2. /\ TypeOK /\ outbox \in [Sides -> Seq(Msgs)] /\ s \in Sides /\ m \in Msgs
      /\ relay = "running" /\ hand # <<>> /\ state[o] = "Active"
      /\ UNCHANGED <<sent, inbox, got, relay>> /\ hand' = <<>>
      /\ outbox' = [outbox EXCEPT ![s] = Append(@, m)]
  BY <1>1, TypeFacts DEF OrderInv, Inv, Msgs, SendHand, SendsTo, Passes, peerVars
<1>3. /\ InHand(s) = <<m>> /\ InHand(s)' = <<>>
      /\ \A r \in Sides \ {s} : InHand(r)' = InHand(r)
  BY <1>1, <1>2, InHandFacts DEF InHand
<1>4. \A r \in Sides \ {s} : UnderWay(r)' = UnderWay(r)
  <2>1. \A r \in Sides \ {s} : outbox'[r] = outbox[r]
    BY <1>2
  <2> QED
    BY <1>2, <1>3, <2>1, WayStays
<1>5. UnderWay(s)' = UnderWay(s)
  <2>1. PICK q \in Seq(Msgs) : q = outbox[s] /\ NoClose(q)
    BY <1>1, <1>2, OutboxOrder
  <2>2. PICK e, f, i : e = Data(<<m>>) /\ f = Data(Append(q, m)) /\ i = Data(inbox[s])
    OBVIOUS
  <2>3. /\ Data(q) = q /\ f = (IF m = Close THEN q ELSE Append(q, m))
        /\ e = IF m = Close THEN <<>> ELSE <<m>>
    BY <1>2, <2>1, <2>2, DataAppend, DataSame, DataOfOne
  <2>4. Cat(q, e) = f
    <3>1. Cat(q, <<m>>) = Append(q, m)
      BY <1>2, AppendIsConcat DEF Cat
    <3> QED
      BY <2>3, <3>1, CatEmpty
  <2>5. Cat(f, Data(<<>>)) = f
    <3>1. f \in Seq(Msgs)
      BY <1>2, <2>3
    <3> QED
      BY <3>1, CatEmpty, DataEmpty
  <2>6. outbox'[s] = Append(q, m)
    BY <1>2, <2>1
  <2>7. UnderWay(s) = Cat(Cat(q, e), i) /\ UnderWay(s)' = Cat(Cat(f, Data(<<>>)), i)
    BY <1>2, <1>3, <2>1, <2>2, <2>3, <2>6, WayIsUnderWay DEF Way
  <2> QED
    BY <2>4, <2>5, <2>7
<1> QED
  BY <1>2, <1>4, <1>5, Stutters

LEMMA DropCuts ==
  ASSUME OrderInv, DropConnections, relay = "running"
  PROVE  Stream!Cut
<1>1. TypeOK /\ relay' # "running" /\ UNCHANGED <<sent, got>>
  BY DEF OrderInv, Inv, DropConnections, peerVars
<1>2. ASSUME NEW r \in Sides
      PROVE  /\ UnderWay(r)' \in Seq(Nat)
             /\ \E n \in 0..Len(UnderWay(r)) : UnderWay(r)' = SubSeq(UnderWay(r), 1, n)
  <2>1. PICK q \in Seq(Msgs) : q = outbox[r] /\ ClosesLast(q)
    BY OutboxOrder
  <2>2. PICK k \in 0..Len(q) : outbox'[r] = SubSeq(q, 1, k)
    BY <1>1, <2>1, DropRead
  <2>3. PICK d, a, b : d = Data(q) /\ a = Data(InHand(r)) /\ b = Data(inbox[r])
    OBVIOUS
  <2>4. d \in Seq(Msgs) /\ a \in Seq(Msgs) /\ b \in Seq(Msgs)
    BY <1>1, <2>1, <2>3, Parts
  <2>5. PICK n \in 0..Len(d) : Data(SubSeq(q, 1, k)) = SubSeq(d, 1, n)
    BY <2>1, <2>3, DataPrefix
  <2>6. PICK c, w : c = Cat(d, a) /\ w = Cat(c, b)
    OBVIOUS
  <2>7. /\ c \in Seq(Msgs) /\ Len(c) = Len(d) + Len(a) /\ w \in Seq(Msgs)
        /\ Len(w) = Len(c) + Len(b)
    BY <2>4, <2>6, CatType
  <2>8. n \in 0..Len(c) /\ n \in 0..Len(w)
    BY <2>4, <2>7, LenProperties
  <2>9. SubSeq(w, 1, n) = SubSeq(d, 1, n)
    BY <2>4, <2>6, <2>7, <2>8, CatPrefix
  <2>10. UnderWay(r) = w /\ UnderWay(r)' = SubSeq(d, 1, n)
    BY <1>1, <2>1, <2>2, <2>3, <2>5, <2>6, WayIsUnderWay DEF Way
  <2>11. SubSeq(d, 1, n) \in Seq(Nat)
    <3>1. SubSeq(q, 1, k) \in Seq(Msgs)
      BY <2>1, DataPrefix
    <3>2. Data(SubSeq(q, 1, k)) \in Seq(Msgs)
      BY <3>1, DataType
    <3>3. Msgs \subseteq Nat
      BY WsAssumption DEF Msgs
    <3> QED
      BY <2>5, <3>2, <3>3, SeqMonotonic
  <2> QED
    BY <2>8, <2>9, <2>10, <2>11
<1> QED
  BY <1>1, <1>2 DEF Stream!Cut

LEMMA StreamStep == OrderInv /\ [Next]_vars => [Stream!Next]_(Stream!streamVars)
<1> SUFFICES ASSUME OrderInv, [Next]_vars PROVE [Stream!Next]_(Stream!streamVars)
  OBVIOUS
<1>1. ASSUME UNCHANGED <<sent, got, relay, hand, outbox, inbox>>
      PROVE  UNCHANGED Stream!streamVars
  <2>1. \A r \in Sides : UnderWay(r)' = UnderWay(r)
    BY <1>1 DEF UnderWay, InHand
  <2> QED
    BY <1>1, <2>1, Stutters
<1>2. CASE UNCHANGED vars
  BY <1>1, <1>2 DEF vars
<1>3. ASSUME NEW s \in Sides, Peer(s) PROVE Stream!Next \/ UNCHANGED Stream!streamVars
  <2>1. CASE SendData(s)
    BY <2>1, SendDataSends DEF Stream!Next
  <2>2. CASE SendClose(s)
    BY <2>2, SendCloseStutters
  <2>3. CASE Receive(Other(s))
    BY <2>3, ReceiveDelivers, OtherSide DEF Stream!Next
  <2>4. ASSUME NEW how \in {"gone", "broken"}, Leave(s, how) PROVE UNCHANGED Stream!streamVars
    BY <1>1, <2>4 DEF Leave
  <2> QED
    BY <1>3, <2>1, <2>2, <2>3, <2>4 DEF Peer
<1>4. ASSUME NEW s \in Sides, Poll(s) PROVE Stream!Next \/ UNCHANGED Stream!streamVars
  <2>1. CASE Take(s)
    BY <2>1, TakeStutters
  <2>2. CASE FlushReply(s)
    BY <2>2, ReplyStutters
  <2>3. CASE SeeEnd(s)
    BY <1>1, <2>3 DEF SeeEnd, peerVars
  <2>4. CASE ReadFails(s)
    BY <2>4, DropCuts DEF ReadFails, ReadError, Polled, Stream!Next
  <2> QED
    BY <1>4, <2>1, <2>2, <2>3, <2>4 DEF Poll
<1>5. CASE Forward
  BY <1>5, SendStutters, DropCuts DEF Forward, SendFails, SendError, Stream!Next
<1> QED
  BY <1>2, <1>3, <1>4, <1>5 DEF Next

\* Through sends that wait, close handshakes and errors, both directions of proxy_ws are
\* streams of data in order that lose nothing but a tail, and that only by an error.
THEOREM ImplementsDuplexStream == Spec => ImplementsStream
<1>1. OrderInv /\ [Next]_vars => OrderInv' /\ [Stream!Next]_(Stream!streamVars)
  BY OrderNext, StreamStep
<1> QED
  BY <1>1, OrderInitially, StreamInitially, PTL DEF Spec, ImplementsStream, Stream!Spec
=============================================================================

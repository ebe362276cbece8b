--------------------------- MODULE TcpRelayProofs ---------------------------
(***************************************************************************)
(* Theorems about TcpRelay, for queues and buffers of every size: the      *)
(* queues stay within their size, both directions are the streams of       *)
(* DuplexStream, and a relay that ends well has delivered one of them.     *)
(***************************************************************************)
EXTENDS TcpRelay, SequenceTheorems, TLAPS

Items == 1..MaxSent

LEMMA OtherSide ==
  \A s \in Sides : /\ Other(s) \in Sides /\ Other(s) # s
                   /\ \A r \in Sides : r = s \/ r = Other(s)
BY DEF Sides, Other

-----------------------------------------------------------------------------
(* The parts of the inductive invariant.                                   *)

\* Nothing is lost as long as the relay runs, and nothing is left to read from a side
\* whose end its copy has seen.
CountInv ==
  relay = "running" =>
    \A s \in Sides :
      /\ Len(got[s]) + Len(outbox[s]) + Len(buf[s]) + Len(inbox[s]) = sent[s]
      /\ copy[s] = "draining" => ended[s] # "open" /\ inbox[s] = <<>>

Inv == TypeOK /\ CountInv /\ EndDeliversASide

\* TypeOK, one variable at a time.
LEMMA TypeFacts ==
  ASSUME TypeOK, NEW s \in Sides
  PROVE  /\ inbox \in [Sides -> Seq(Items)] /\ buf \in [Sides -> Seq(Items)]
         /\ outbox \in [Sides -> Seq(Items)] /\ got \in [Sides -> Seq(Items)]
         /\ inbox[s] \in Seq(Items) /\ buf[s] \in Seq(Items)
         /\ outbox[s] \in Seq(Items) /\ got[s] \in Seq(Items)
         /\ sent \in [Sides -> 0..MaxSent] /\ sent[s] \in Nat
         /\ copy \in [Sides -> {"copying", "draining"}]
<1>1. inbox \in [Sides -> Seq(Items)] /\ buf \in [Sides -> Seq(Items)]
  BY DEF TypeOK, Items
<1>2. outbox \in [Sides -> Seq(Items)] /\ got \in [Sides -> Seq(Items)]
  BY DEF TypeOK, Items
<1>3. sent \in [Sides -> 0..MaxSent] /\ copy \in [Sides -> {"copying", "draining"}]
  BY DEF TypeOK
<1> QED
  BY <1>1, <1>2, <1>3, RelayAssumption

-----------------------------------------------------------------------------
(* Concatenation, under a name that the provers do not look behind.        *)

Cat(p, q) == p \o q

LEMMA CatType ==
  \A S : \A p, q \in Seq(S) : Cat(p, q) \in Seq(S) /\ Len(Cat(p, q)) = Len(p) + Len(q)
BY ConcatProperties DEF Cat

LEMMA CatAssoc ==
  \A S : \A p, q, r \in Seq(S) : Cat(Cat(p, q), r) = Cat(p, Cat(q, r))
BY ConcatAssociative DEF Cat

LEMMA CatAppend ==
  \A S : \A p, q \in Seq(S), m \in S : Cat(p, Append(q, m)) = Append(Cat(p, q), m)
<1> SUFFICES ASSUME NEW S, NEW p \in Seq(S), NEW q \in Seq(S), NEW m \in S
             PROVE  Cat(p, Append(q, m)) = Append(Cat(p, q), m)
  OBVIOUS
<1> DEFINE e == <<m>>
<1>1. Append(q, m) = Cat(q, e)
  BY AppendIsConcat DEF Cat
<1>2. Append(Cat(p, q), m) = Cat(Cat(p, q), e)
  <2>1. \A r \in Seq(S) : Append(r, m) = Cat(r, e)
    BY AppendIsConcat DEF Cat
  <2> QED
    BY <2>1, CatType
<1>3. e \in Seq(S)
  OBVIOUS
<1> HIDE DEF e
<1>4. Cat(Cat(p, q), e) = Cat(p, Cat(q, e))
  BY <1>3, CatAssoc
<1> QED
  BY <1>1, <1>2, <1>4

LEMMA CatHeadTail ==
  ASSUME NEW S, NEW p \in Seq(S), NEW q \in Seq(S), p # <<>>
  PROVE  /\ Cat(p, q) # <<>> /\ Head(Cat(p, q)) = Head(p)
         /\ Tail(Cat(p, q)) = Cat(Tail(p), q)
<1>1. /\ Cat(p, q) \in Seq(S) /\ Len(Cat(p, q)) = Len(p) + Len(q)
      /\ Len(p) \in Nat \ {0} /\ Len(q) \in Nat
      /\ Tail(p) \in Seq(S) /\ Len(Tail(p)) = Len(p) - 1
  BY CatType, EmptySeq, LenProperties, HeadTailProperties
<1>2. Cat(p, q) # <<>>
  BY <1>1, EmptySeq
<1>3. /\ Tail(Cat(p, q)) \in Seq(S) /\ Len(Tail(Cat(p, q))) = Len(p) + Len(q) - 1
      /\ Cat(Tail(p), q) \in Seq(S) /\ Len(Cat(Tail(p), q)) = Len(p) + Len(q) - 1
  <2>1. /\ Tail(Cat(p, q)) \in Seq(S)
        /\ Len(Tail(Cat(p, q))) = Len(Cat(p, q)) - 1
    BY <1>1, <1>2, HeadTailProperties
  <2>2. Cat(Tail(p), q) \in Seq(S) /\ Len(Cat(Tail(p), q)) = Len(Tail(p)) + Len(q)
    BY <1>1, CatType
  <2> QED
    BY <1>1, <2>1, <2>2
<1>4. \A i \in 1..(Len(p) + Len(q)) :
        Cat(p, q)[i] = IF i <= Len(p) THEN p[i] ELSE q[i - Len(p)]
  BY ConcatProperties DEF Cat
<1>5. ASSUME NEW i \in 1..(Len(p) + Len(q) - 1)
      PROVE  Tail(Cat(p, q))[i] = Cat(Tail(p), q)[i]
  <2>1. Tail(Cat(p, q))[i] = Cat(p, q)[i + 1]
    BY <1>1, <1>2, <1>3, HeadTailProperties
  <2>2. Cat(Tail(p), q)[i] = IF i <= Len(p) - 1 THEN Tail(p)[i] ELSE q[i - (Len(p) - 1)]
    BY <1>1, ConcatProperties DEF Cat
  <2>3. i <= Len(p) - 1 => Tail(p)[i] = p[i + 1]
    BY <1>1, HeadTailProperties
  <2>4. i + 1 \in 1..(Len(p) + Len(q)) /\ i + 1 - Len(p) = i - (Len(p) - 1)
    BY <1>1
  <2>5. Cat(p, q)[i + 1] = IF i + 1 <= Len(p) THEN p[i + 1] ELSE q[i - (Len(p) - 1)]
    BY <1>4, <2>4
  <2> QED
    BY <1>1, <2>1, <2>2, <2>3, <2>5
<1>6. Tail(Cat(p, q)) = Cat(Tail(p), q)
  BY <1>3, <1>5, SeqEqual
<1>7. Head(Cat(p, q)) = Head(p)
  BY <1>1, <1>4
<1> QED
  BY <1>2, <1>6, <1>7

LEMMA CatPrefix ==
  ASSUME NEW S, NEW p \in Seq(S), NEW q \in Seq(S), NEW n \in 0..Len(p)
  PROVE  SubSeq(Cat(p, q), 1, n) = SubSeq(p, 1, n)
<1>1. Len(p) \in Nat
  BY LenProperties
<1>2. CASE n = 0
  BY <1>2, SubSeqEmpty
<1>3. CASE n # 0
  BY <1>1, <1>3, SubSeqOfConcat1 DEF Cat
<1> QED
  BY <1>2, <1>3

\* What moves from one queue to the next: a prefix of the second goes to the end of the
\* first, and together they are as before.
LEMMA Split ==
  ASSUME NEW S, NEW q \in Seq(S), NEW n \in 1..Len(q)
  PROVE  /\ SubSeq(q, 1, n) \in Seq(S) /\ Len(SubSeq(q, 1, n)) = n
         /\ SubSeq(q, n + 1, Len(q)) \in Seq(S) /\ Len(SubSeq(q, n + 1, Len(q))) = Len(q) - n
         /\ Cat(SubSeq(q, 1, n), SubSeq(q, n + 1, Len(q))) = q
<1>1. Len(q) \in Nat /\ \A i \in 1..Len(q) : q[i] \in S
  BY LenProperties, ElementOfSeq
<1>2. SubSeq(q, 1, n) \in Seq(S) /\ Len(SubSeq(q, 1, n)) = n
  BY <1>1, SubSeqProperties
<1>3. SubSeq(q, n + 1, Len(q)) \in Seq(S) /\ Len(SubSeq(q, n + 1, Len(q))) = Len(q) - n
  BY <1>1, SubSeqProperties
<1>4. Cat(SubSeq(q, 1, n), SubSeq(q, n + 1, Len(q))) = q
  BY <1>1, ConcatAdjacentSubSeq, SubSeqFull DEF Cat
<1> QED
  BY <1>2, <1>3, <1>4

LEMMA Moved ==
  \A S : \A p, q \in Seq(S) : \A n \in 1..Len(q) :
    LET p1 == Cat(p, SubSeq(q, 1, n))
        q1 == SubSeq(q, n + 1, Len(q))
    IN  /\ p1 \in Seq(S) /\ Len(p1) = Len(p) + n
        /\ q1 \in Seq(S) /\ Len(q1) = Len(q) - n
        /\ Cat(p1, q1) = Cat(p, q)
<1> SUFFICES ASSUME NEW S, NEW p \in Seq(S), NEW q \in Seq(S), NEW n \in 1..Len(q)
             PROVE  /\ Cat(p, SubSeq(q, 1, n)) \in Seq(S)
                    /\ Len(Cat(p, SubSeq(q, 1, n))) = Len(p) + n
                    /\ SubSeq(q, n + 1, Len(q)) \in Seq(S)
                    /\ Len(SubSeq(q, n + 1, Len(q))) = Len(q) - n
                    /\ Cat(Cat(p, SubSeq(q, 1, n)), SubSeq(q, n + 1, Len(q))) = Cat(p, q)
  OBVIOUS
<1> DEFINE a == SubSeq(q, 1, n)
           b == SubSeq(q, n + 1, Len(q))
<1>1. a \in Seq(S) /\ Len(a) = n /\ b \in Seq(S) /\ Len(b) = Len(q) - n /\ Cat(a, b) = q
  BY Split
<1> HIDE DEF a, b
<1>3. Cat(Cat(p, a), b) = Cat(p, Cat(a, b))
  BY <1>1, CatAssoc
<1>4. Cat(p, a) \in Seq(S) /\ Len(Cat(p, a)) = Len(p) + Len(a)
  BY <1>1, CatType
<1>5. /\ Cat(p, a) \in Seq(S) /\ Len(Cat(p, a)) = Len(p) + n
      /\ b \in Seq(S) /\ Len(b) = Len(q) - n
      /\ Cat(Cat(p, a), b) = Cat(p, q)
  BY <1>1, <1>3, <1>4
<1> QED
  BY <1>5 DEF a, b

\* One queue changes: the others stay, and all keep their type.
Replaced(f, g, s) == /\ g \in [Sides -> Seq(Items)]
                     /\ \A r \in Sides \ {s} : g[r] = f[r]

LEMMA Updated ==
  \A f, g, s, v : /\ f \in [Sides -> Seq(Items)] /\ s \in Sides /\ v \in Seq(Items)
                  /\ g = [f EXCEPT ![s] = v]
                  => Replaced(f, g, s)
<1> DEFINE Queue == Seq(Items)
<1> SUFFICES ASSUME NEW f \in [Sides -> Queue], NEW g, NEW s \in Sides, NEW v \in Queue,
                    g = [f EXCEPT ![s] = v]
             PROVE  g \in [Sides -> Queue] /\ \A r \in Sides \ {s} : g[r] = f[r]
  BY DEF Replaced
<1> HIDE DEF Queue
<1> QED
  OBVIOUS

-----------------------------------------------------------------------------
(* The actions.                                                            *)

\* The effect of Fill and Drain on the queues of a direction.
LEMMA FillFacts ==
  ASSUME TypeOK, NEW s \in Sides, Fill(s)
  PROVE  /\ inbox'[s] \in Seq(Items) /\ buf'[s] \in Seq(Items)
         /\ Len(inbox'[s]) <= Len(inbox[s]) /\ Len(buf'[s]) <= BufSize
         /\ Len(buf'[s]) + Len(inbox'[s]) = Len(buf[s]) + Len(inbox[s])
         /\ Cat(buf'[s], inbox'[s]) = Cat(buf[s], inbox[s])
         /\ Replaced(inbox, inbox', s) /\ Replaced(buf, buf', s)
<1>1. PICK n \in 1..Len(inbox[s]) :
        /\ Len(buf[s]) + n <= BufSize
        /\ buf' = [buf EXCEPT ![s] = Cat(@, SubSeq(inbox[s], 1, n))]
        /\ inbox' = [inbox EXCEPT ![s] = SubSeq(@, n + 1, Len(@))]
  BY DEF Fill, Cat
<1>2. /\ buf'[s] = Cat(buf[s], SubSeq(inbox[s], 1, n))
      /\ inbox'[s] = SubSeq(inbox[s], n + 1, Len(inbox[s]))
  BY <1>1, TypeFacts
<1>3. /\ buf'[s] \in Seq(Items) /\ Len(buf'[s]) = Len(buf[s]) + n
      /\ inbox'[s] \in Seq(Items) /\ Len(inbox'[s]) = Len(inbox[s]) - n
      /\ Cat(buf'[s], inbox'[s]) = Cat(buf[s], inbox[s])
  <2>1. PICK p, q : p = buf[s] /\ q = inbox[s]
    OBVIOUS
  <2>2. PICK p1, q1 : p1 = buf'[s] /\ q1 = inbox'[s]
    OBVIOUS
  <2>3. p \in Seq(Items) /\ q \in Seq(Items) /\ n \in 1..Len(q)
    BY <1>1, <2>1, TypeFacts
  <2>4. p1 = Cat(p, SubSeq(q, 1, n)) /\ q1 = SubSeq(q, n + 1, Len(q))
    BY <1>2, <2>1, <2>2
  <2>5. /\ p1 \in Seq(Items) /\ Len(p1) = Len(p) + n
        /\ q1 \in Seq(Items) /\ Len(q1) = Len(q) - n
        /\ Cat(p1, q1) = Cat(p, q)
    BY <2>3, <2>4, Moved
  <2> QED
    BY <2>1, <2>2, <2>5
<1>4. Len(buf[s]) \in Nat /\ Len(inbox[s]) \in Nat
  BY TypeFacts, LenProperties
<1>5. Replaced(buf, buf', s) /\ Replaced(inbox, inbox', s)
  <2>1. PICK v, w : v = buf'[s] /\ w = inbox'[s]
    OBVIOUS
  <2>2. buf' = [buf EXCEPT ![s] = v] /\ inbox' = [inbox EXCEPT ![s] = w]
    BY <1>1, <1>2, <2>1, TypeFacts
  <2>3. v \in Seq(Items) /\ w \in Seq(Items)
    BY <1>3, <2>1
  <2> QED
    BY <2>2, <2>3, TypeFacts, Updated
<1>6. /\ Len(inbox'[s]) <= Len(inbox[s]) /\ Len(buf'[s]) <= BufSize
      /\ Len(buf'[s]) + Len(inbox'[s]) = Len(buf[s]) + Len(inbox[s])
  <2>1. PICK i, j : i = Len(buf[s]) /\ j = Len(inbox[s])
    OBVIOUS
  <2>2. PICK i1, j1 : i1 = Len(buf'[s]) /\ j1 = Len(inbox'[s])
    OBVIOUS
  <2>3. i \in Nat /\ j \in Nat /\ n \in 1..j /\ i + n <= BufSize
    BY <1>1, <1>4, <2>1
  <2>4. i1 = i + n /\ j1 = j - n
    BY <1>3, <2>1, <2>2
  <2>5. j1 <= j /\ i1 <= BufSize /\ i1 + j1 = i + j
    BY <2>3, <2>4, RelayAssumption
  <2> QED
    BY <2>1, <2>2, <2>5
<1> QED
  BY <1>3, <1>5, <1>6

LEMMA DrainFacts ==
  ASSUME TypeOK, NEW s \in Sides, Drain(s)
  PROVE  /\ buf'[s] \in Seq(Items) /\ outbox'[s] \in Seq(Items)
         /\ Len(buf'[s]) <= Len(buf[s]) /\ Len(outbox'[s]) <= Window
         /\ Len(outbox'[s]) + Len(buf'[s]) = Len(outbox[s]) + Len(buf[s])
         /\ Cat(outbox'[s], buf'[s]) = Cat(outbox[s], buf[s])
         /\ Replaced(buf, buf', s) /\ Replaced(outbox, outbox', s)
<1>1. PICK n \in 1..Len(buf[s]) :
        /\ Len(outbox[s]) + n <= Window
        /\ outbox' = [outbox EXCEPT ![s] = Cat(@, SubSeq(buf[s], 1, n))]
        /\ buf' = [buf EXCEPT ![s] = SubSeq(@, n + 1, Len(@))]
  BY DEF Drain, Cat
<1>2. /\ outbox'[s] = Cat(outbox[s], SubSeq(buf[s], 1, n))
      /\ buf'[s] = SubSeq(buf[s], n + 1, Len(buf[s]))
  BY <1>1, TypeFacts
<1>3. /\ outbox'[s] \in Seq(Items) /\ Len(outbox'[s]) = Len(outbox[s]) + n
      /\ buf'[s] \in Seq(Items) /\ Len(buf'[s]) = Len(buf[s]) - n
      /\ Cat(outbox'[s], buf'[s]) = Cat(outbox[s], buf[s])
  <2>1. PICK p, q : p = outbox[s] /\ q = buf[s]
    OBVIOUS
  <2>2. PICK p1, q1 : p1 = outbox'[s] /\ q1 = buf'[s]
    OBVIOUS
  <2>3. p \in Seq(Items) /\ q \in Seq(Items) /\ n \in 1..Len(q)
    BY <1>1, <2>1, TypeFacts
  <2>4. p1 = Cat(p, SubSeq(q, 1, n)) /\ q1 = SubSeq(q, n + 1, Len(q))
    BY <1>2, <2>1, <2>2
  <2>5. /\ p1 \in Seq(Items) /\ Len(p1) = Len(p) + n
        /\ q1 \in Seq(Items) /\ Len(q1) = Len(q) - n
        /\ Cat(p1, q1) = Cat(p, q)
    BY <2>3, <2>4, Moved
  <2> QED
    BY <2>1, <2>2, <2>5
<1>4. Len(outbox[s]) \in Nat /\ Len(buf[s]) \in Nat
  BY TypeFacts, LenProperties
<1>5. Replaced(outbox, outbox', s) /\ Replaced(buf, buf', s)
  <2>1. PICK v, w : v = outbox'[s] /\ w = buf'[s]
    OBVIOUS
  <2>2. outbox' = [outbox EXCEPT ![s] = v] /\ buf' = [buf EXCEPT ![s] = w]
    BY <1>1, <1>2, <2>1, TypeFacts
  <2>3. v \in Seq(Items) /\ w \in Seq(Items)
    BY <1>3, <2>1
  <2> QED
    BY <2>2, <2>3, TypeFacts, Updated
<1>6. /\ Len(buf'[s]) <= Len(buf[s]) /\ Len(outbox'[s]) <= Window
      /\ Len(outbox'[s]) + Len(buf'[s]) = Len(outbox[s]) + Len(buf[s])
  <2>1. PICK i, j : i = Len(outbox[s]) /\ j = Len(buf[s])
    OBVIOUS
  <2>2. PICK i1, j1 : i1 = Len(outbox'[s]) /\ j1 = Len(buf'[s])
    OBVIOUS
  <2>3. i \in Nat /\ j \in Nat /\ n \in 1..j /\ i + n <= Window
    BY <1>1, <1>4, <2>1
  <2>4. i1 = i + n /\ j1 = j - n
    BY <1>3, <2>1, <2>2
  <2>5. j1 <= j /\ i1 <= Window /\ i1 + j1 = i + j
    BY <2>3, <2>4, RelayAssumption
  <2> QED
    BY <2>1, <2>2, <2>5
<1> QED
  BY <1>3, <1>5, <1>6

\* Send, and the other side's Receive.
LEMMA SendFacts ==
  ASSUME TypeOK, NEW s \in Sides, Send(s)
  PROVE  /\ sent[s] + 1 \in Items
         /\ inbox'[s] = Append(inbox[s], sent[s] + 1)
         /\ inbox'[s] \in Seq(Items) /\ Len(inbox'[s]) = Len(inbox[s]) + 1
         /\ Len(inbox'[s]) <= Window
         /\ Replaced(inbox, inbox', s)
<1>1. sent[s] + 1 \in Items
  BY TypeFacts, RelayAssumption DEF Send, Items
<1>2. inbox'[s] = Append(inbox[s], sent[s] + 1)
  BY TypeFacts DEF Send
<1>3. Len(inbox[s]) \in Nat /\ Len(inbox[s]) < Window
  BY TypeFacts, LenProperties DEF Send
<1>4. /\ inbox'[s] \in Seq(Items) /\ Len(inbox'[s]) = Len(inbox[s]) + 1
      /\ Len(inbox'[s]) <= Window
  BY <1>1, <1>2, <1>3, TypeFacts, AppendProperties, RelayAssumption
<1>5. Replaced(inbox, inbox', s)
  <2>1. PICK v : v = inbox'[s]
    OBVIOUS
  <2>2. inbox' = [inbox EXCEPT ![s] = v]
    BY <2>1, TypeFacts DEF Send
  <2> QED
    BY <1>4, <2>1, <2>2, TypeFacts, Updated
<1> QED
  BY <1>1, <1>2, <1>4, <1>5

LEMMA ReceiveFacts ==
  ASSUME TypeOK, NEW s \in Sides, Receive(s)
  PROVE  /\ outbox[s] # <<>>
         /\ got'[s] = Append(got[s], Head(outbox[s])) /\ outbox'[s] = Tail(outbox[s])
         /\ got'[s] \in Seq(Items) /\ outbox'[s] \in Seq(Items)
         /\ Len(got'[s]) = Len(got[s]) + 1 /\ Len(outbox'[s]) = Len(outbox[s]) - 1
         /\ Replaced(got, got', s) /\ Replaced(outbox, outbox', s)
<1>1. /\ outbox[s] # <<>>
      /\ got'[s] = Append(got[s], Head(outbox[s])) /\ outbox'[s] = Tail(outbox[s])
  BY TypeFacts DEF Receive
<1>2. /\ got'[s] \in Seq(Items) /\ outbox'[s] \in Seq(Items)
      /\ Len(got'[s]) = Len(got[s]) + 1 /\ Len(outbox'[s]) = Len(outbox[s]) - 1
  BY <1>1, TypeFacts, HeadTailProperties, AppendProperties
<1>3. Replaced(got, got', s) /\ Replaced(outbox, outbox', s)
  <2>1. PICK v, w : v = got'[s] /\ w = outbox'[s]
    OBVIOUS
  <2>2. got' = [got EXCEPT ![s] = v] /\ outbox' = [outbox EXCEPT ![s] = w]
    BY <2>1, TypeFacts DEF Receive
  <2> QED
    BY <1>2, <2>1, <2>2, TypeFacts, Updated
<1> QED
  BY <1>1, <1>2, <1>3

\* The drop of both sockets empties the buffers and leaves a prefix of each outbox, all of
\* it where nothing is unread in the socket.
LEMMA DropFacts ==
  ASSUME TypeOK, DropSockets
  PROVE  /\ buf' = [s \in Sides |-> <<>>]
         /\ outbox' \in [Sides -> Seq(Items)]
         /\ \A s \in Sides :
              \E n \in 0..Len(outbox[s]) :
                /\ outbox'[s] = SubSeq(outbox[s], 1, n)
                /\ Len(outbox'[s]) = n
                /\ inbox[Other(s)] = <<>> => n = Len(outbox[s])
<1>1. PICK kept \in [Sides -> 0..Window] :
        /\ \A s \in Sides : IF inbox[Other(s)] = <<>>
                            THEN kept[s] = Len(outbox[s])
                            ELSE kept[s] <= Len(outbox[s])
        /\ outbox' = [s \in Sides |-> SubSeq(outbox[s], 1, kept[s])]
  BY DEF DropSockets
<1>2. ASSUME NEW s \in Sides
      PROVE  /\ kept[s] \in 0..Len(outbox[s])
             /\ outbox'[s] = SubSeq(outbox[s], 1, kept[s])
             /\ outbox'[s] \in Seq(Items) /\ Len(outbox'[s]) = kept[s]
             /\ inbox[Other(s)] = <<>> => kept[s] = Len(outbox[s])
  <2>1. Len(outbox[s]) \in Nat /\ \A i \in 1..Len(outbox[s]) : outbox[s][i] \in Items
    BY TypeFacts, LenProperties, ElementOfSeq
  <2>2. kept[s] \in 0..Len(outbox[s]) /\ outbox'[s] = SubSeq(outbox[s], 1, kept[s])
    BY <1>1, <2>1, RelayAssumption
  <2>3. outbox'[s] \in Seq(Items) /\ Len(outbox'[s]) = kept[s]
    BY <2>1, <2>2, SubSeqProperties
  <2> QED
    BY <1>1, <2>2, <2>3
<1> QED
  BY <1>1, <1>2 DEF DropSockets

-----------------------------------------------------------------------------
(* Type correctness.                                                       *)

LEMMA TypeInitially == Init => TypeOK
<1> SUFFICES ASSUME Init PROVE TypeOK
  OBVIOUS
<1>1. <<>> \in Seq(1..MaxSent) /\ Len(<<>>) = 0
  BY EmptySeq
<1>2. {inbox, buf, outbox, got} \subseteq [Sides -> Seq(1..MaxSent)]
  BY <1>1 DEF Init
<1>3. \A s \in Sides : /\ Len(inbox[s]) <= Window
                      /\ Len(buf[s]) <= BufSize
                      /\ Len(outbox[s]) <= Window
  BY <1>1, RelayAssumption DEF Init
<1> QED
  BY <1>2, <1>3, RelayAssumption DEF Init, TypeOK

LEMMA TypeStep == TypeOK /\ [Next]_vars => TypeOK'
<1> SUFFICES ASSUME TypeOK, [Next]_vars PROVE TypeOK'
  OBVIOUS
<1>1. ASSUME NEW s \in Sides, Send(s) PROVE TypeOK'
  <2>1. inbox' \in [Sides -> Seq(Items)] /\ \A r \in Sides : Len(inbox'[r]) <= Window
    BY <1>1, SendFacts, TypeFacts DEF TypeOK, Replaced
  <2>2. sent' \in [Sides -> 0..MaxSent]
    BY <1>1, RelayAssumption DEF Send, TypeOK
  <2> QED
    BY <1>1, <2>1, <2>2 DEF Send, TypeOK, Items
<1>2. ASSUME NEW s \in Sides, CloseWrite(s) PROVE TypeOK'
  BY <1>2 DEF CloseWrite, TypeOK
<1>3. ASSUME NEW s \in Sides, Break(s) PROVE TypeOK'
  BY <1>3 DEF Break, TypeOK
<1>4. ASSUME NEW s \in Sides, Receive(s) PROVE TypeOK'
  <2>1. /\ got' \in [Sides -> Seq(Items)] /\ outbox' \in [Sides -> Seq(Items)]
        /\ Len(outbox'[s]) = Len(outbox[s]) - 1
        /\ \A r \in Sides \ {s} : outbox'[r] = outbox[r]
    BY <1>4, ReceiveFacts DEF Replaced
  <2>2. Len(outbox[s]) \in Nat /\ Len(outbox[s]) <= Window
    BY TypeFacts, LenProperties DEF TypeOK
  <2>3. ASSUME NEW r \in Sides PROVE Len(outbox'[r]) <= Window
    <3>1. CASE r = s
      <4>1. PICK i, j : i = Len(outbox[s]) /\ j = Len(outbox'[s])
        OBVIOUS
      <4>2. j <= Window
        BY <2>1, <2>2, <4>1, RelayAssumption
      <4> QED
        BY <3>1, <4>1, <4>2
    <3>2. CASE r # s
      BY <2>1, <3>2 DEF TypeOK
    <3> QED
      BY <3>1, <3>2
  <2> QED
    BY <1>4, <2>1, <2>3 DEF Receive, TypeOK, Items
<1>5. ASSUME NEW s \in Sides, Fill(s) PROVE TypeOK'
  <2>1. /\ inbox' \in [Sides -> Seq(Items)] /\ buf' \in [Sides -> Seq(Items)]
        /\ \A r \in Sides \ {s} : inbox'[r] = inbox[r] /\ buf'[r] = buf[r]
    BY <1>5, FillFacts DEF Replaced
  <2>2. Len(inbox'[s]) \in Nat /\ Len(inbox[s]) \in Nat /\ Len(inbox[s]) <= Window
    BY <1>5, FillFacts, TypeFacts, LenProperties DEF TypeOK
  <2>3. Len(inbox'[s]) <= Len(inbox[s]) /\ Len(buf'[s]) <= BufSize
    BY <1>5, FillFacts
  <2>4. Len(inbox'[s]) <= Window
    BY <2>2, <2>3, RelayAssumption
  <2>5. \A r \in Sides : Len(inbox'[r]) <= Window /\ Len(buf'[r]) <= BufSize
    BY <2>1, <2>3, <2>4 DEF TypeOK
  <2> QED
    BY <1>5, <2>1, <2>5 DEF Fill, TypeOK, Items
<1>6. ASSUME NEW s \in Sides, Drain(s) PROVE TypeOK'
  <2>1. /\ buf' \in [Sides -> Seq(Items)] /\ outbox' \in [Sides -> Seq(Items)]
        /\ \A r \in Sides \ {s} : buf'[r] = buf[r] /\ outbox'[r] = outbox[r]
    BY <1>6, DrainFacts DEF Replaced
  <2>2. Len(buf'[s]) \in Nat /\ Len(buf[s]) \in Nat /\ Len(buf[s]) <= BufSize
    BY <1>6, DrainFacts, TypeFacts, LenProperties DEF TypeOK
  <2>3. Len(buf'[s]) <= Len(buf[s]) /\ Len(outbox'[s]) <= Window
    BY <1>6, DrainFacts
  <2>4. Len(buf'[s]) <= BufSize
    BY <2>2, <2>3, RelayAssumption
  <2>5. \A r \in Sides : Len(buf'[r]) <= BufSize /\ Len(outbox'[r]) <= Window
    BY <2>1, <2>3, <2>4 DEF TypeOK
  <2> QED
    BY <1>6, <2>1, <2>5 DEF Drain, TypeOK, Items
<1>7. ASSUME NEW s \in Sides, SeeEnd(s) PROVE TypeOK'
  BY <1>7 DEF SeeEnd, TypeOK
<1>8. ASSUME DropSockets, UNCHANGED <<sent, ended, inbox, copy, got>>,
             relay' \in {"ended", "failed"}
      PROVE  TypeOK'
  <2>1. <<>> \in Seq(Items) /\ Len(<<>>) = 0
    BY EmptySeq
  <2>2. buf' \in [Sides -> Seq(Items)] /\ \A r \in Sides : Len(buf'[r]) <= BufSize
    <3>1. buf' = [r \in Sides |-> <<>>] /\ 0 <= BufSize
      BY <1>8, DropFacts, RelayAssumption
    <3>2. PICK e : e = <<>>
      OBVIOUS
    <3>3. buf' = [r \in Sides |-> e] /\ e \in Seq(Items) /\ Len(e) <= BufSize
      BY <2>1, <3>1, <3>2
    <3> QED
      BY <3>3
  <2>3. outbox' \in [Sides -> Seq(Items)]
    BY <1>8, DropFacts
  <2>4. ASSUME NEW r \in Sides PROVE Len(outbox'[r]) <= Window
    <3>1. PICK n \in 0..Len(outbox[r]) : Len(outbox'[r]) = n
      BY <1>8, DropFacts
    <3>2. Len(outbox[r]) \in Nat /\ Len(outbox[r]) <= Window
      BY TypeFacts, LenProperties DEF TypeOK
    <3> QED
      BY <3>1, <3>2, RelayAssumption
  <2> QED
    BY <1>8, <2>2, <2>3, <2>4 DEF TypeOK, Items
<1>9. ASSUME NEW s \in Sides, Finish(s) \/ Fail(s) PROVE TypeOK'
  BY <1>8, <1>9 DEF Finish, Fail
<1>10. CASE UNCHANGED vars
  BY <1>10 DEF vars, TypeOK
<1> QED
  BY <1>1, <1>2, <1>3, <1>4, <1>5, <1>6, <1>7, <1>9, <1>10, OtherSide DEF Next, Copy, Peer

\* Every variable keeps its type, and the queues and the copy buffers of proxy_tcp never
\* hold more than their size.
THEOREM TypeCorrect == Spec => []TypeOK
BY TypeInitially, TypeStep, PTL DEF Spec

-----------------------------------------------------------------------------
(* What the end of the relay delivers.                                     *)

LEMMA InvInitially == Init => Inv
<1> SUFFICES ASSUME Init PROVE CountInv /\ EndDeliversASide
  BY TypeInitially DEF Inv
<1>1. Len(<<>>) = 0
  BY EmptySeq
<1> QED
  BY <1>1 DEF Init, CountInv, EndDeliversASide

\* The lengths are numbers, and a queue of length 0 is empty.
LEMMA Lengths ==
  ASSUME TypeOK, NEW s \in Sides
  PROVE  /\ Len(got[s]) \in Nat /\ Len(outbox[s]) \in Nat
         /\ Len(buf[s]) \in Nat /\ Len(inbox[s]) \in Nat
BY TypeFacts, LenProperties

LEMMA CountStep == TypeOK /\ CountInv /\ [Next]_vars => CountInv'
<1> SUFFICES ASSUME TypeOK, CountInv, [Next]_vars, relay' = "running", NEW r \in Sides
             PROVE  /\ (Len(got[r]) + Len(outbox[r]) + Len(buf[r]) + Len(inbox[r]) = sent[r])'
                    /\ (copy[r] = "draining" => ended[r] # "open" /\ inbox[r] = <<>>)'
  BY DEF CountInv
<1>0. CASE UNCHANGED vars
  BY <1>0 DEF vars, CountInv
<1> SUFFICES ASSUME Next PROVE /\ (Len(got[r]) + Len(outbox[r]) + Len(buf[r]) + Len(inbox[r]) = sent[r])'
                               /\ (copy[r] = "draining" => ended[r] # "open" /\ inbox[r] = <<>>)'
  BY <1>0
<1>1. relay = "running" /\ relay' = relay
  BY DEF Next, Copy, Peer, Send, CloseWrite, Break, Receive, Fill, Drain, SeeEnd, Finish, Fail
<1>2. /\ Len(got[r]) + Len(outbox[r]) + Len(buf[r]) + Len(inbox[r]) = sent[r]
      /\ copy[r] = "draining" => ended[r] # "open" /\ inbox[r] = <<>>
  BY <1>1 DEF CountInv
<1>3. PICK g, o, b, i : g = Len(got[r]) /\ o = Len(outbox[r]) /\ b = Len(buf[r]) /\ i = Len(inbox[r])
  OBVIOUS
<1>4. /\ g \in Nat /\ o \in Nat /\ b \in Nat /\ i \in Nat /\ sent[r] \in Nat
      /\ g + o + b + i = sent[r]
  BY <1>2, <1>3, Lengths, TypeFacts
<1>5. ASSUME NEW s \in Sides, Send(s)
      PROVE  /\ (Len(got[r]) + Len(outbox[r]) + Len(buf[r]) + Len(inbox[r]) = sent[r])'
             /\ (copy[r] = "draining" => ended[r] # "open" /\ inbox[r] = <<>>)'
  <2>1. /\ Len(got'[r]) = g /\ Len(outbox'[r]) = o /\ Len(buf'[r]) = b
        /\ copy'[r] = copy[r] /\ ended'[r] = ended[r]
    BY <1>3, <1>5 DEF Send
  <2>2. CASE r = s
    <3>1. Len(inbox'[r]) = i + 1 /\ sent'[r] = sent[r] + 1 /\ ended[r] = "open"
      BY <1>3, <1>5, <2>2, SendFacts, TypeFacts DEF Send
    <3>2. g + o + b + (i + 1) = sent[r] + 1
      BY <1>4
    <3> QED
      BY <1>2, <2>1, <3>1, <3>2
  <2>3. CASE r # s
    <3>1. inbox'[r] = inbox[r] /\ sent'[r] = sent[r]
      BY <1>5, <2>3, SendFacts, TypeFacts DEF Send, Replaced
    <3> QED
      BY <1>2, <1>3, <1>4, <2>1, <3>1
  <2> QED
    BY <2>2, <2>3
<1>6. ASSUME NEW s \in Sides, CloseWrite(s) \/ Break(s)
      PROVE  /\ (Len(got[r]) + Len(outbox[r]) + Len(buf[r]) + Len(inbox[r]) = sent[r])'
             /\ (copy[r] = "draining" => ended[r] # "open" /\ inbox[r] = <<>>)'
  <2>1. /\ UNCHANGED <<sent, inbox, copy, buf, outbox, got>>
        /\ ended' \in {[ended EXCEPT ![s] = "closed"], [ended EXCEPT ![s] = "broken"]}
    BY <1>6 DEF CloseWrite, Break
  <2>2. ended[r] # "open" => ended'[r] # "open"
    BY <2>1 DEF TypeOK
  <2> QED
    BY <1>2, <2>1, <2>2
<1>7. ASSUME NEW s \in Sides, Receive(s)
      PROVE  /\ (Len(got[r]) + Len(outbox[r]) + Len(buf[r]) + Len(inbox[r]) = sent[r])'
             /\ (copy[r] = "draining" => ended[r] # "open" /\ inbox[r] = <<>>)'
  <2>1. UNCHANGED <<sent, ended, inbox, copy, buf>>
    BY <1>7 DEF Receive
  <2>2. CASE r = s
    <3>1. Len(got'[r]) = g + 1 /\ Len(outbox'[r]) = o - 1
      BY <1>3, <1>7, <2>2, ReceiveFacts
    <3>2. (g + 1) + (o - 1) + b + i = sent[r]
      BY <1>4
    <3> QED
      BY <1>2, <1>3, <2>1, <3>1, <3>2
  <2>3. CASE r # s
    <3>1. got'[r] = got[r] /\ outbox'[r] = outbox[r]
      BY <1>7, <2>3, ReceiveFacts DEF Replaced
    <3> QED
      BY <1>2, <2>1, <3>1
  <2> QED
    BY <2>2, <2>3
<1>8. ASSUME NEW s \in Sides, Fill(s)
      PROVE  /\ (Len(got[r]) + Len(outbox[r]) + Len(buf[r]) + Len(inbox[r]) = sent[r])'
             /\ (copy[r] = "draining" => ended[r] # "open" /\ inbox[r] = <<>>)'
  <2>1. UNCHANGED <<sent, ended, copy, outbox, got>> /\ copy[s] = "copying"
    BY <1>8 DEF Fill
  <2>2. CASE r = s
    <3>1. PICK b1, i1 : b1 = Len(buf'[r]) /\ i1 = Len(inbox'[r])
      OBVIOUS
    <3>2. b1 \in Nat /\ i1 \in Nat /\ b1 + i1 = b + i
      BY <1>3, <1>8, <2>2, <3>1, FillFacts, LenProperties
    <3>3. g + o + b1 + i1 = sent[r]
      BY <1>4, <3>2
    <3> QED
      BY <1>3, <2>1, <2>2, <3>1, <3>3
  <2>3. CASE r # s
    <3>1. buf'[r] = buf[r] /\ inbox'[r] = inbox[r]
      BY <1>8, <2>3, FillFacts DEF Replaced
    <3> QED
      BY <1>2, <2>1, <3>1
  <2> QED
    BY <2>2, <2>3
<1>9. ASSUME NEW s \in Sides, Drain(s)
      PROVE  /\ (Len(got[r]) + Len(outbox[r]) + Len(buf[r]) + Len(inbox[r]) = sent[r])'
             /\ (copy[r] = "draining" => ended[r] # "open" /\ inbox[r] = <<>>)'
  <2>1. UNCHANGED <<sent, ended, inbox, copy, got>>
    BY <1>9 DEF Drain
  <2>2. CASE r = s
    <3>1. PICK o1, b1 : o1 = Len(outbox'[r]) /\ b1 = Len(buf'[r])
      OBVIOUS
    <3>2. o1 \in Nat /\ b1 \in Nat /\ o1 + b1 = o + b
      BY <1>3, <1>9, <2>2, <3>1, DrainFacts, LenProperties
    <3>3. g + o1 + b1 + i = sent[r]
      BY <1>4, <3>2
    <3> QED
      BY <1>2, <1>3, <2>1, <3>1, <3>3
  <2>3. CASE r # s
    <3>1. outbox'[r] = outbox[r] /\ buf'[r] = buf[r]
      BY <1>9, <2>3, DrainFacts DEF Replaced
    <3> QED
      BY <1>2, <2>1, <3>1
  <2> QED
    BY <2>2, <2>3
<1>10. ASSUME NEW s \in Sides, SeeEnd(s)
       PROVE  /\ (Len(got[r]) + Len(outbox[r]) + Len(buf[r]) + Len(inbox[r]) = sent[r])'
              /\ (copy[r] = "draining" => ended[r] # "open" /\ inbox[r] = <<>>)'
  BY <1>2, <1>10, TypeFacts DEF SeeEnd
<1>11. \A s \in Sides : ~Finish(s) /\ ~Fail(s)
  BY DEF Finish, Fail
<1> QED
  BY <1>5, <1>6, <1>7, <1>8, <1>9, <1>10, <1>11, OtherSide DEF Next, Copy, Peer

LEMMA EndStep == TypeOK /\ CountInv /\ EndDeliversASide /\ [Next]_vars => EndDeliversASide'
<1> SUFFICES ASSUME TypeOK, CountInv, EndDeliversASide, [Next]_vars, relay' = "ended"
             PROVE  \E s \in Sides :
                      /\ copy'[s] = "draining"
                      /\ Len(got'[s]) + Len(outbox'[s]) = sent'[s] \/ inbox'[Other(s)] # <<>>
  BY DEF EndDeliversASide
<1>1. ASSUME NEW s \in Sides, Finish(s)
      PROVE  /\ copy'[s] = "draining"
             /\ Len(got'[s]) + Len(outbox'[s]) = sent'[s] \/ inbox'[Other(s)] # <<>>
  <2>1. /\ UNCHANGED <<sent, inbox, copy, got>> /\ copy[s] = "draining"
        /\ relay = "running" /\ buf[s] = <<>> /\ DropSockets
    BY <1>1 DEF Finish
  <2>2. PICK g, o, b, i : g = Len(got[s]) /\ o = Len(outbox[s]) /\ b = Len(buf[s]) /\ i = Len(inbox[s])
    OBVIOUS
  <2>3. /\ g \in Nat /\ o \in Nat /\ b = 0 /\ i = 0 /\ sent[s] \in Nat
        /\ g + o + b + i = sent[s]
    BY <2>1, <2>2, Lengths, TypeFacts, EmptySeq DEF CountInv
  <2>4. g + o = sent[s]
    BY <2>3
  <2>5. inbox[Other(s)] = <<>> => Len(outbox'[s]) = o
    BY <2>1, <2>2, DropFacts
  <2> QED
    BY <2>1, <2>2, <2>4, <2>5
<1>2. ASSUME NEW r \in Sides, Receive(r)
      PROVE  \E s \in Sides :
               /\ copy'[s] = "draining"
               /\ Len(got'[s]) + Len(outbox'[s]) = sent'[s] \/ inbox'[Other(s)] # <<>>
  <2>1. UNCHANGED <<sent, ended, inbox, copy, buf, relay>>
    BY <1>2 DEF Receive
  <2>2. PICK s \in Sides :
          /\ copy[s] = "draining"
          /\ Len(got[s]) + Len(outbox[s]) = sent[s] \/ inbox[Other(s)] # <<>>
    BY <2>1 DEF EndDeliversASide
  <2>3. Len(got'[s]) + Len(outbox'[s]) = Len(got[s]) + Len(outbox[s])
    <3>1. CASE r = s
      <4>1. PICK g, o : g = Len(got[s]) /\ o = Len(outbox[s])
        OBVIOUS
      <4>2. Len(got'[s]) = g + 1 /\ Len(outbox'[s]) = o - 1 /\ g \in Nat /\ o \in Nat
        BY <1>2, <3>1, <4>1, ReceiveFacts, Lengths
      <4>3. (g + 1) + (o - 1) = g + o
        BY <4>2
      <4> QED
        BY <4>1, <4>2, <4>3
    <3>2. CASE r # s
      <4>1. got'[s] = got[s] /\ outbox'[s] = outbox[s]
        BY <1>2, <3>2, ReceiveFacts DEF Replaced
      <4> QED
        BY <4>1
    <3> QED
      BY <3>1, <3>2
  <2> QED
    BY <2>1, <2>2, <2>3
<1>3. \A s \in Sides : ~(Send(s) \/ CloseWrite(s) \/ Break(s) \/ Fill(s) \/ Drain(s) \/ SeeEnd(s) \/ Fail(s))
  BY DEF Send, CloseWrite, Break, Fill, Drain, SeeEnd, Fail
<1>4. CASE UNCHANGED vars
  BY <1>4 DEF vars, EndDeliversASide
<1> QED
  BY <1>1, <1>2, <1>3, <1>4, OtherSide DEF Next, Copy, Peer

\* A copy of proxy_tcp that returns without an error has delivered everything its side
\* sent; only the reset of a socket with something unread may take some of it back.
THEOREM EndDelivers == Spec => []EndDeliversASide
<1>1. Inv /\ [Next]_vars => Inv'
  BY TypeStep, CountStep, EndStep DEF Inv
<1> QED
  BY <1>1, InvInitially, PTL DEF Spec, Inv

-----------------------------------------------------------------------------
(* The relay implements the abstract stream.                               *)

\* UnderWay, with its concatenation under the opaque name.
Way(s) == IF relay = "running" THEN Cat(Cat(outbox[s], buf[s]), inbox[s]) ELSE outbox[s]

LEMMA WayIsUnderWay == \A s \in Sides : UnderWay(s) = Way(s) /\ UnderWay(s)' = Way(s)'
BY DEF UnderWay, Way, Cat

LEMMA StreamInitially == Init => Stream!Init
<1> SUFFICES ASSUME Init PROVE Stream!Init
  OBVIOUS
<1>1. \A s \in Sides : UnderWay(s) = <<>>
  <2>1. Cat(<<>>, <<>>) = <<>>
    BY ConcatEmptySeq, EmptySeq DEF Cat
  <2> QED
    BY <2>1, WayIsUnderWay DEF Init, Way
<1> QED
  BY <1>1 DEF Init, Stream!Init

\* What a step that touches one direction only has to show.
LEMMA OthersStay ==
  ASSUME relay' = relay, NEW s \in Sides,
         \A r \in Sides \ {s} :
           /\ outbox'[r] = outbox[r] /\ buf'[r] = buf[r] /\ inbox'[r] = inbox[r]
  PROVE  \A r \in Sides \ {s} : UnderWay(r)' = UnderWay(r)
BY WayIsUnderWay DEF Way

LEMMA SendSends == ASSUME TypeOK, NEW s \in Sides, Send(s) PROVE Stream!Send(s)
<1>1. relay = "running" /\ UNCHANGED <<buf, outbox, got, relay>> /\ sent' = [sent EXCEPT ![s] = @ + 1]
  BY DEF Send
<1>2. UnderWay(s)' = Append(UnderWay(s), sent[s] + 1)
  <2>1. PICK o, b, i : o = outbox[s] /\ b = buf[s] /\ i = inbox[s]
    OBVIOUS
  <2>2. PICK m : m = sent[s] + 1
    OBVIOUS
  <2>3. o \in Seq(Items) /\ b \in Seq(Items) /\ i \in Seq(Items) /\ m \in Items
    BY <2>1, <2>2, SendFacts, TypeFacts
  <2>4. Cat(o, b) \in Seq(Items)
    BY <2>3, CatType
  <2>5. Cat(Cat(o, b), Append(i, m)) = Append(Cat(Cat(o, b), i), m)
    BY <2>3, <2>4, CatAppend
  <2>6. inbox'[s] = Append(i, m)
    BY <2>1, <2>2, SendFacts
  <2>7. UnderWay(s) = Cat(Cat(o, b), i)
    BY <1>1, <2>1, WayIsUnderWay DEF Way
  <2>8. UnderWay(s)' = Cat(Cat(o, b), Append(i, m))
    BY <1>1, <2>1, <2>6, WayIsUnderWay DEF Way
  <2> QED
    BY <2>2, <2>5, <2>7, <2>8
<1>3. \A r \in Sides \ {s} : UnderWay(r)' = UnderWay(r)
  BY <1>1, SendFacts, OthersStay DEF Replaced
<1> QED
  BY <1>1, <1>2, <1>3 DEF Stream!Send

LEMMA ReceiveDelivers == ASSUME TypeOK, NEW s \in Sides, Receive(s) PROVE Stream!Deliver(s)
<1>1. /\ UNCHANGED <<sent, inbox, buf, relay>>
      /\ got' = [got EXCEPT ![s] = Append(@, Head(outbox[s]))]
  BY DEF Receive
<1>2. /\ UnderWay(s) # <<>> /\ Head(UnderWay(s)) = Head(outbox[s])
      /\ UnderWay(s)' = Tail(UnderWay(s))
  <2>1. PICK o, b, i : o = outbox[s] /\ b = buf[s] /\ i = inbox[s]
    OBVIOUS
  <2>2. o \in Seq(Items) /\ b \in Seq(Items) /\ i \in Seq(Items) /\ o # <<>>
    BY <2>1, ReceiveFacts, TypeFacts
  <2>3. outbox'[s] = Tail(o) /\ Tail(o) \in Seq(Items)
    BY <2>1, <2>2, ReceiveFacts, HeadTailProperties
  <2>4. CASE relay = "running"
    <3>1. UnderWay(s) = Cat(Cat(o, b), i) /\ UnderWay(s)' = Cat(Cat(Tail(o), b), i)
      BY <1>1, <2>1, <2>3, <2>4, WayIsUnderWay DEF Way
    <3>2. /\ Cat(o, b) # <<>> /\ Head(Cat(o, b)) = Head(o)
          /\ Tail(Cat(o, b)) = Cat(Tail(o), b) /\ Cat(o, b) \in Seq(Items)
      BY <2>2, CatHeadTail, CatType
    <3>3. /\ Cat(Cat(o, b), i) # <<>> /\ Head(Cat(Cat(o, b), i)) = Head(Cat(o, b))
          /\ Tail(Cat(Cat(o, b), i)) = Cat(Tail(Cat(o, b)), i)
      BY <2>2, <3>2, CatHeadTail
    <3> QED
      BY <2>1, <3>1, <3>2, <3>3
  <2>5. CASE relay # "running"
    BY <1>1, <2>1, <2>2, <2>3, <2>5, WayIsUnderWay DEF Way
  <2> QED
    BY <2>4, <2>5
<1>3. \A r \in Sides \ {s} : UnderWay(r)' = UnderWay(r)
  BY <1>1, ReceiveFacts, OthersStay DEF Replaced
<1> QED
  BY <1>1, <1>2, <1>3 DEF Stream!Deliver

LEMMA FillStutters ==
  ASSUME TypeOK, NEW s \in Sides, Fill(s)
  PROVE  \A r \in Sides : UnderWay(r)' = UnderWay(r)
<1>1. relay = "running" /\ UNCHANGED <<outbox, relay>>
  BY DEF Fill
<1>2. UnderWay(s)' = UnderWay(s)
  <2>1. PICK o, b, i : o = outbox[s] /\ b = buf[s] /\ i = inbox[s]
    OBVIOUS
  <2>2. PICK b1, i1 : b1 = buf'[s] /\ i1 = inbox'[s]
    OBVIOUS
  <2>3. /\ o \in Seq(Items) /\ b \in Seq(Items) /\ i \in Seq(Items)
        /\ b1 \in Seq(Items) /\ i1 \in Seq(Items) /\ Cat(b1, i1) = Cat(b, i)
    BY <2>1, <2>2, FillFacts, TypeFacts
  <2>4. Cat(Cat(o, b), i) = Cat(Cat(o, b1), i1)
    BY <2>3, CatAssoc
  <2> QED
    BY <1>1, <2>1, <2>2, <2>4, WayIsUnderWay DEF Way
<1>3. \A r \in Sides \ {s} : UnderWay(r)' = UnderWay(r)
  BY <1>1, FillFacts, OthersStay DEF Replaced
<1> QED
  BY <1>2, <1>3

LEMMA DrainStutters ==
  ASSUME TypeOK, NEW s \in Sides, Drain(s)
  PROVE  \A r \in Sides : UnderWay(r)' = UnderWay(r)
<1>1. relay = "running" /\ UNCHANGED <<inbox, relay>>
  BY DEF Drain
<1>2. UnderWay(s)' = UnderWay(s)
  BY <1>1, DrainFacts, WayIsUnderWay DEF Way
<1>3. \A r \in Sides \ {s} : UnderWay(r)' = UnderWay(r)
  BY <1>1, DrainFacts, OthersStay DEF Replaced
<1> QED
  BY <1>2, <1>3

LEMMA EndCuts ==
  ASSUME TypeOK, NEW s \in Sides, Finish(s) \/ Fail(s)
  PROVE  Stream!Cut
<1>1. relay = "running" /\ relay' # "running" /\ UNCHANGED <<sent, inbox, got>> /\ DropSockets
  BY DEF Finish, Fail
<1>2. ASSUME NEW r \in Sides
      PROVE  /\ UnderWay(r)' \in Seq(Nat)
             /\ \E n \in 0..Len(UnderWay(r)) : UnderWay(r)' = SubSeq(UnderWay(r), 1, n)
  <2>1. PICK o, b, i : o = outbox[r] /\ b = buf[r] /\ i = inbox[r]
    OBVIOUS
  <2>2. o \in Seq(Items) /\ b \in Seq(Items) /\ i \in Seq(Items)
    BY <2>1, TypeFacts
  <2>3. PICK n \in 0..Len(o) : outbox'[r] = SubSeq(o, 1, n)
    BY <1>1, <2>1, DropFacts
  <2>4. n \in 0..Len(o) /\ Len(o) \in Nat /\ Len(b) \in Nat /\ Len(i) \in Nat
    BY <2>2, <2>3, LenProperties
  <2>5. Cat(o, b) \in Seq(Items) /\ Len(Cat(o, b)) = Len(o) + Len(b)
    BY <2>2, CatType
  <2>6. Len(Cat(Cat(o, b), i)) = Len(o) + Len(b) + Len(i)
    <3>1. PICK c : c = Cat(o, b)
      OBVIOUS
    <3>2. c \in Seq(Items) /\ Len(c) = Len(o) + Len(b)
      BY <2>5, <3>1
    <3>3. Len(Cat(c, i)) = Len(c) + Len(i)
      BY <2>2, <3>2, CatType
    <3> QED
      BY <3>1, <3>2, <3>3
  <2>7. n \in 0..Len(Cat(o, b)) /\ n \in 0..Len(Cat(Cat(o, b), i))
    BY <2>4, <2>5, <2>6
  <2>8. SubSeq(Cat(Cat(o, b), i), 1, n) = SubSeq(o, 1, n)
    <3>1. SubSeq(Cat(Cat(o, b), i), 1, n) = SubSeq(Cat(o, b), 1, n)
      BY <2>2, <2>5, <2>7, CatPrefix
    <3>2. SubSeq(Cat(o, b), 1, n) = SubSeq(o, 1, n)
      BY <2>2, <2>4, CatPrefix
    <3> QED
      BY <3>1, <3>2
  <2>9. UnderWay(r) = Cat(Cat(o, b), i) /\ UnderWay(r)' = SubSeq(o, 1, n)
    BY <1>1, <2>1, <2>3, WayIsUnderWay DEF Way
  <2>10. outbox'[r] \in Seq(Nat)
    <3>1. outbox'[r] \in Seq(Items) /\ Items \subseteq Nat
      BY <1>1, DropFacts DEF Items
    <3> QED
      BY <3>1, SeqMonotonic
  <2> QED
    BY <2>3, <2>7, <2>8, <2>9, <2>10
<1> QED
  BY <1>1, <1>2 DEF Stream!Cut

LEMMA StreamStep == TypeOK /\ [Next]_vars => [Stream!Next]_(Stream!streamVars)
<1> SUFFICES ASSUME TypeOK, [Next]_vars PROVE [Stream!Next]_(Stream!streamVars)
  OBVIOUS
<1>1. ASSUME UNCHANGED <<sent, got, relay>>, \A r \in Sides : UnderWay(r)' = UnderWay(r)
      PROVE  UNCHANGED Stream!streamVars
  BY <1>1 DEF Stream!streamVars
<1>2. ASSUME UNCHANGED <<sent, got, relay, outbox, buf, inbox>>
      PROVE  UNCHANGED Stream!streamVars
  <2>1. \A r \in Sides : UnderWay(r)' = UnderWay(r)
    BY <1>2 DEF UnderWay
  <2> QED
    BY <1>1, <1>2, <2>1
<1>3. ASSUME NEW s \in Sides, Send(s) \/ Receive(s) PROVE Stream!Next
  BY <1>3, SendSends, ReceiveDelivers DEF Stream!Next
<1>4. ASSUME NEW s \in Sides, Fill(s) \/ Drain(s) PROVE UNCHANGED Stream!streamVars
  <2>1. UNCHANGED <<sent, got, relay>>
    BY <1>4 DEF Fill, Drain
  <2> QED
    BY <1>1, <1>4, <2>1, FillStutters, DrainStutters
<1>5. ASSUME NEW s \in Sides, CloseWrite(s) \/ Break(s) \/ SeeEnd(s)
      PROVE  UNCHANGED Stream!streamVars
  BY <1>2, <1>5 DEF CloseWrite, Break, SeeEnd
<1>6. ASSUME NEW s \in Sides, Finish(s) \/ Fail(s) PROVE Stream!Next
  BY <1>6, EndCuts DEF Stream!Next
<1>7. CASE UNCHANGED vars
  BY <1>2, <1>7 DEF vars
<1> QED
  BY <1>3, <1>4, <1>5, <1>6, <1>7, OtherSide DEF Next, Copy, Peer

\* Through short reads, short writes, errors and the end of select!, both directions of
\* proxy_tcp are streams in order that lose nothing but a tail when they are cut.
THEOREM ImplementsDuplexStream == Spec => ImplementsStream
<1>1. TypeOK /\ [Next]_vars => TypeOK' /\ [Stream!Next]_(Stream!streamVars)
  BY TypeStep, StreamStep
<1> QED
  BY <1>1, TypeInitially, StreamInitially, PTL DEF Spec, ImplementsStream, Stream!Spec
=============================================================================

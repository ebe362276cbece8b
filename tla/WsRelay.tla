------------------------------- MODULE WsRelay -------------------------------
(***************************************************************************)
(* StreamProxy::proxy_ws (proxy/stream.rs): one loop that takes a message  *)
(* from either side and sends it to the other, awaiting the send inside    *)
(* the branch of select! that took it.                                     *)
(*                                                                         *)
(* The relay is an endpoint of two WebSocket connections, with the close   *)
(* handshake of tungstenite on each: the server's role towards the client, *)
(* the client's towards the upstream.  A Close that is read is an item of  *)
(* next() like any other and is answered by a later poll of the same       *)
(* connection.  A connection that is done yields None, which disables its  *)
(* branch.  Nothing but an error ends the loop, and an error drops both    *)
(* connections.                                                            *)
(*                                                                         *)
(* The n-th data message a side sends is n, and a Close is 0.  Pings and   *)
(* pongs are relayed like data; the pongs tungstenite adds of its own      *)
(* accord are left out.                                                    *)
(***************************************************************************)
EXTENDS Naturals, Sequences, SequencesExt

CONSTANTS
  Window,   \* messages under way between a socket and its peer, each way
  MaxSent   \* bound: data messages a side sends

ASSUME WsAssumption == Window \in Nat \ {0} /\ MaxSent \in Nat

Sides == {"client", "upstream"}
Other(s) == IF s = "client" THEN "upstream" ELSE "client"

Close == 0

\* The data messages of a queue, in which a Close can only be the last one.
Data(queue) == IF queue # <<>> /\ Last(queue) = Close THEN Front(queue) ELSE queue

VARIABLES
  sent,    \* per side: how many data messages it has sent
  peer,    \* per side: "open", "closed" (has sent a Close), "gone" or "broken"
  inbox,   \* per side: what it sent and the relay has not read
  state,   \* tungstenite's WebSocketState of the relay's connection with the side
  reply,   \* per side: its Close is still to be answered (additional_send)
  ended,   \* per side: its stream has yielded None
  hand,    \* the message whose send the loop awaits, in a sequence of at most one
  outbox,  \* per side: what the relay wrote for the other side and that has not read
  got,     \* per side: what the other side has read of outbox
  relay    \* "running" or "failed" (an error has ended the loop)

vars == <<sent, peer, inbox, state, reply, ended, hand, outbox, got, relay>>
peerVars == <<sent, peer>>

Init ==
  /\ sent = [s \in Sides |-> 0]
  /\ peer = [s \in Sides |-> "open"]
  /\ inbox = [s \in Sides |-> <<>>]
  /\ state = [s \in Sides |-> "Active"]
  /\ reply = [s \in Sides |-> FALSE]
  /\ ended = [s \in Sides |-> FALSE]
  /\ hand = <<>>
  /\ outbox = [s \in Sides |-> <<>>]
  /\ got = [s \in Sides |-> <<>>]
  /\ relay = "running"

-----------------------------------------------------------------------------
(* The two peers and the network.                                          *)

PeerSends(s, m) ==
  /\ relay = "running"
  /\ peer[s] = "open"
  /\ Len(inbox[s]) < Window
  /\ inbox' = [inbox EXCEPT ![s] = Append(@, m)]
  /\ UNCHANGED <<state, reply, ended, hand, outbox, got, relay>>

SendData(s) ==
  /\ sent[s] < MaxSent
  /\ PeerSends(s, sent[s] + 1)
  /\ sent' = [sent EXCEPT ![s] = @ + 1]
  /\ UNCHANGED peer

\* To begin the close handshake or to answer.
SendClose(s) ==
  /\ PeerSends(s, Close)
  /\ peer' = [peer EXCEPT ![s] = "closed"]
  /\ UNCHANGED sent

\* The side closes its connection, or the connection is reset.
Leave(s, how) ==
  /\ relay = "running"
  /\ peer[s] \notin {"gone", "broken"}
  /\ peer' = [peer EXCEPT ![s] = how]
  /\ UNCHANGED <<sent, inbox, state, reply, ended, hand, outbox, got, relay>>

\* The other side reads what came from s, also after the relay is over.
Receive(s) ==
  /\ peer[Other(s)] \notin {"gone", "broken"}
  /\ outbox[s] # <<>>
  /\ got' = [got EXCEPT ![s] = Append(@, Head(outbox[s]))]
  /\ outbox' = [outbox EXCEPT ![s] = Tail(@)]
  /\ UNCHANGED <<peerVars, inbox, state, reply, ended, hand, relay>>

-----------------------------------------------------------------------------
(* next() on the connection with s, polled by select!.                     *)

\* Mutant: the loop waits for a message of each side (join!) before it takes one.
PolledTogether(s) ==
  relay = "running" /\ hand = <<>> /\ ~ended[s] /\ inbox[Other(s)] # <<>>

Polled(s) == relay = "running" /\ hand = <<>> /\ ~ended[s]
CanRead(s) == state[s] \in {"Active", "ClosedByUs"}

\* read() tries to flush the reply to a Close before it reads on.
Room(s) == Len(outbox[s]) < Window
ReplyTried(s) == reply[s] => ~Room(Other(s))

\* Some(Ok(_)).
HasItem(s) == Polled(s) /\ CanRead(s) /\ peer[s] # "broken" /\ inbox[s] # <<>>
Take(s) ==
  /\ HasItem(s)
  /\ inbox' = [inbox EXCEPT ![s] = Tail(@)]
  /\ hand' = <<[from |-> s, msg |-> Head(inbox[s])]>>
  /\ IF Head(inbox[s]) # Close
     THEN UNCHANGED <<state, reply>>
     ELSE /\ state' = [state EXCEPT ![s] = IF @ = "Active" THEN "ClosedByPeer"
                                                           ELSE "CloseAcknowledged"]
          /\ reply' = [reply EXCEPT ![s] = state[s] = "Active"]
  /\ UNCHANGED <<peerVars, ended, outbox, got, relay>>

\* The reply is written.  The server's role is then done: None.  The client's role
\* waits for the server to close the connection.
FlushReply(s) ==
  /\ Polled(s)
  /\ reply[s]
  /\ peer[s] # "broken"
  /\ Room(Other(s))
  /\ outbox' = [outbox EXCEPT ![Other(s)] = Append(@, Close)]
  /\ reply' = [reply EXCEPT ![s] = FALSE]
  /\ ended' = [ended EXCEPT ![s] = s = "client"]
  /\ state' = [state EXCEPT ![s] = IF s = "client" THEN "Terminated" ELSE @]
  /\ UNCHANGED <<peerVars, inbox, hand, got, relay>>

\* After a close handshake the server's role is done at once, whatever the client does.
ServerDone(s) == s = "client" /\ ~CanRead(s) /\ ~reply[s]

\* The client's role waits for the other end, and both do with their reply not out.
HandshakeOver(s) ==
  /\ ~CanRead(s)
  /\ \/ ServerDone(s)
     \/ peer[s] = "gone" /\ inbox[s] = <<>> /\ ReplyTried(s)
     \/ peer[s] = "broken" /\ ~reply[s]

\* None: the connection has ended after a close handshake.
SeeEnd(s) ==
  /\ Polled(s)
  /\ HandshakeOver(s)
  /\ ended' = [ended EXCEPT ![s] = TRUE]
  /\ state' = [state EXCEPT ![s] = "Terminated"]
  /\ UNCHANGED <<peerVars, inbox, reply, hand, outbox, got, relay>>

-----------------------------------------------------------------------------
(* The body of a branch.                                                   *)

\* The message in hand came from s, and the other connection takes messages or does not.
SendsTo(s) ==
  /\ relay = "running"
  /\ hand # <<>> /\ hand[1].from = s
  /\ state[Other(s)] = "Active"
  /\ peer[Other(s)] # "broken"

SendError ==
  /\ relay = "running"
  /\ hand # <<>>
  /\ LET o == Other(hand[1].from)
     IN  state[o] # "Active" \/ peer[o] \in {"gone", "broken"}

Passes(s, queue) ==
  /\ outbox' = [outbox EXCEPT ![s] = queue]
  /\ state' = [state EXCEPT ![Other(s)] = IF hand[1].msg = Close THEN "ClosedByUs" ELSE @]
  /\ hand' = <<>>
  /\ UNCHANGED <<peerVars, inbox, reply, ended, got, relay>>

\* Mutant: a Close is passed on without waiting for the data before it.
SendCloseFirst(s) ==
  /\ SendsTo(s)
  /\ Room(s)
  /\ Passes(s, IF hand[1].msg = Close THEN <<Close>> \o outbox[s]
                                      ELSE Append(outbox[s], hand[1].msg))

\* Mutant: the message is fed to the connection without awaiting a flush.
SendUnflushed(s) == SendsTo(s) /\ Passes(s, Append(outbox[s], hand[1].msg))

\* Mutant: a message that does not fit at once is dropped.
SendOrDrop(s) ==
  /\ SendsTo(s)
  /\ Passes(s, IF Room(s) THEN Append(outbox[s], hand[1].msg) ELSE outbox[s])

\* send(): the message is written and flushed.  One to a peer that has gone may still
\* leave the relay.
SendHand(s) ==
  /\ SendsTo(s)
  /\ Room(s)
  /\ Passes(s, Append(outbox[s], hand[1].msg))

\* The `?` after an error returns from proxy_ws, and both connections are dropped:
\* with them the message in hand and the replies that were not written.  What the
\* relay wrote to a socket may be lost if there is something unread in the socket.
DropConnections ==
  /\ relay' = "failed"
  /\ hand' = <<>>
  /\ \E kept \in [Sides -> 0..Window] :
       /\ \A s \in Sides : IF inbox[Other(s)] = <<>>
                           THEN kept[s] = Len(outbox[s])
                           ELSE kept[s] <= Len(outbox[s])
       /\ outbox' = [s \in Sides |-> SubSeq(outbox[s], 1, kept[s])]
  /\ UNCHANGED <<peerVars, inbox, state, reply, ended, got>>

\* Mutant: an error of a send is not looked at.
SendFailureIgnored ==
  /\ SendError
  /\ hand' = <<>>
  /\ UNCHANGED <<peerVars, inbox, state, reply, ended, outbox, got, relay>>

\* send() to a connection in its close handshake (SendAfterClosing, AlreadyClosed) or
\* to one that is gone.
SendFails == SendError /\ DropConnections

\* Mutant: the end of a connection is only an error when it was reset.
ReadErrorOnReset(s) ==
  /\ Polled(s)
  /\ \/ peer[s] = "broken"
     \/ peer[s] = "gone" /\ reply[s]
     \/ inbox[s] # <<>> /\ ~CanRead(s) /\ ReplyTried(s)

\* Some(Err(_)): the connection is reset or ends without a close handshake, or something
\* follows a Close (ReceivedAfterClosing).
ReadError(s) ==
  /\ Polled(s)
  /\ ~ServerDone(s)
  /\ \/ peer[s] = "broken"
     \/ peer[s] = "gone" /\ reply[s]
     \/ peer[s] = "gone" /\ inbox[s] = <<>> /\ CanRead(s)
     \/ inbox[s] # <<>> /\ ~CanRead(s) /\ ReplyTried(s)

ReadFails(s) == ReadError(s) /\ DropConnections

-----------------------------------------------------------------------------

Poll(s) == Take(s) \/ FlushReply(s) \/ SeeEnd(s) \/ ReadFails(s)
Forward == SendFails \/ \E s \in Sides : SendHand(s)
Peer(s) ==
  \/ SendData(s) \/ SendClose(s) \/ Receive(Other(s))
  \/ \E how \in {"gone", "broken"} : Leave(s, how)
Next == Forward \/ \E s \in Sides : Poll(s) \/ Peer(s)

\* The task is polled when a socket is ready, and select! starts with either branch.
\* The peers owe the relay nothing.
Fairness == WF_vars(Forward) /\ \A s \in Sides : WF_vars(Poll(s))

Spec == Init /\ [][Next]_vars /\ Fairness

-----------------------------------------------------------------------------
(* Properties.                                                             *)

\* Every variable keeps its type, the queues their size.
TypeOK ==
  /\ sent \in [Sides -> 0..MaxSent]
  /\ peer \in [Sides -> {"open", "closed", "gone", "broken"}]
  /\ state \in [Sides -> {"Active", "ClosedByUs", "ClosedByPeer", "CloseAcknowledged",
                          "Terminated"}]
  /\ {reply, ended} \subseteq [Sides -> BOOLEAN]
  /\ {inbox, outbox, got} \subseteq [Sides -> Seq(0..MaxSent)]
  /\ \A s \in Sides : Len(inbox[s]) <= Window /\ Len(outbox[s]) <= Window
  /\ hand \in Seq([from : Sides, msg : 0..MaxSent]) /\ Len(hand) <= 1
  /\ relay \in {"running", "failed"}

\* The data of each direction arrives in order and once; only the end of the relay,
\* never a close handshake under way, may lose a tail of it.
InHand(s) == IF hand # <<>> /\ hand[1].from = s THEN <<hand[1].msg>> ELSE <<>>
UnderWay(s) ==
  IF relay = "running" THEN Data(outbox[s]) \o Data(InHand(s)) \o Data(inbox[s])
                       ELSE Data(outbox[s])
Stream == INSTANCE DuplexStream WITH pipe <- [s \in Sides |-> UnderWay(s)],
                                     got <- [s \in Sides |-> Data(got[s])],
                                     cut <- relay # "running"
ImplementsStream == Stream!Spec

\* select! panics when both of its patterns fail to match.  That cannot happen: of two
\* connections that close, one has its Close sent to the other, and that one then
\* yields a Close, whose send fails, before it could yield None.
NeverPanics == relay = "running" /\ hand = <<>> => \E s \in Sides : ~ended[s]

\* What either side reads ends with at most one Close; a side that did not close sees
\* one only if the other side did, and then has all that side sent.
ClosesInOrder ==
  \A s \in Sides :
    LET read == got[s] \o outbox[s]
    IN  /\ \A i \in 1..(Len(read) - 1) : read[i] # Close
        /\ Contains(read, Close) /\ peer[Other(s)] = "open"
             => peer[s] # "open" /\ Len(Data(read)) = sent[s]

\* With both sides closed or gone and room in front of each that still reads, the loop
\* has a step to take and one that leads to its end: an item to read, one to send, or an
\* error.  Neither an answer still to be written nor an ended connection is all it has.
NeverWaitsInVain ==
  /\ relay = "running"
  /\ \A s \in Sides : peer[s] # "open" /\ (Room(s) \/ peer[Other(s)] \in {"gone", "broken"})
  => \/ SendError
     \/ \E s \in Sides : HasItem(s) \/ ReadError(s) \/ (SendsTo(s) /\ Room(s))

\* A close handshake ends the relay as soon as both sides have sent their Close or
\* gone, if both read what they are sent: nothing waits for a connection that ended.
EndsWithBoth ==
  (\A s \in Sides : WF_vars(Receive(s))) =>
    (\A s \in Sides : peer[s] # "open") ~> (relay # "running")

\* The loop serves both directions by turns and waits for a send in between: that never
\* locks up if both sides read.  What s has sent reaches the other side, unless that
\* one has gone or the relay has ended.
FlowsIfBothRead ==
  (\A s \in Sides : WF_vars(Receive(s))) =>
    \A s \in Sides, n \in 1..MaxSent :
      (sent[s] >= n) ~> \/ Len(Data(got[s])) >= n
                        \/ relay # "running"
                        \/ peer[Other(s)] \in {"gone", "broken"}
=============================================================================

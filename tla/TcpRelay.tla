------------------------------ MODULE TcpRelay ------------------------------
(***************************************************************************)
(* StreamProxy::proxy_tcp (proxy/stream.rs): the two halves of one proxied *)
(* connection, each a tokio::io::copy, under one select!.                  *)
(*                                                                         *)
(* The copy from side s moves what s sends: from the socket's receive      *)
(* queue (inbox) into the copy's buffer (buf), and from there into what    *)
(* the other side's socket holds until the peer reads it (outbox).  The    *)
(* TLS session towards the client buffers like buf does: it is flushed at  *)
(* the end of a copy and lost when the connection is dropped before.       *)
(* select! drops both copies, and with them both sockets, when either      *)
(* ends.  Nothing shuts a writer down when its reader is at its end.       *)
(*                                                                         *)
(* Bytes are numbered items: the n-th item a side sends is n.              *)
(***************************************************************************)
EXTENDS Naturals, Sequences

CONSTANTS
  Window,   \* items a socket's queue holds
  BufSize,  \* items the buffer of a copy holds
  MaxSent   \* bound: items a side sends

ASSUME RelayAssumption ==
  /\ Window \in Nat \ {0}
  /\ BufSize \in Nat \ {0}
  /\ MaxSent \in Nat

Sides == {"client", "server"}
Other(s) == IF s = "client" THEN "server" ELSE "client"

VARIABLES
  sent,    \* per side: how many items it has sent
  ended,   \* per side: "open", "closed" (it sends no more) or "broken" (reset)
  inbox,   \* per side: what it sent and the relay has not read
  copy,    \* the copy from each side: "copying" or "draining" (it has seen the end)
  buf,     \* the copy from each side: what it has read and not written
  outbox,  \* the copy from each side: what it wrote and the other side has not read
  got,     \* the copy from each side: what the other side has read
  relay    \* "running", "ended" (a copy returned) or "failed" (a copy's error)

vars == <<sent, ended, inbox, copy, buf, outbox, got, relay>>

Init ==
  /\ sent = [s \in Sides |-> 0]
  /\ ended = [s \in Sides |-> "open"]
  /\ inbox = [s \in Sides |-> <<>>]
  /\ copy = [s \in Sides |-> "copying"]
  /\ buf = [s \in Sides |-> <<>>]
  /\ outbox = [s \in Sides |-> <<>>]
  /\ got = [s \in Sides |-> <<>>]
  /\ relay = "running"

-----------------------------------------------------------------------------
(* The two peers and the network.                                          *)

Send(s) ==
  /\ relay = "running"
  /\ ended[s] = "open"
  /\ sent[s] < MaxSent
  /\ Len(inbox[s]) < Window
  /\ sent' = [sent EXCEPT ![s] = @ + 1]
  /\ inbox' = [inbox EXCEPT ![s] = Append(@, sent[s] + 1)]
  /\ UNCHANGED <<ended, copy, buf, outbox, got, relay>>

\* A FIN from the server, a close_notify from the client.
CloseWrite(s) ==
  /\ relay = "running"
  /\ ended[s] = "open"
  /\ ended' = [ended EXCEPT ![s] = "closed"]
  /\ UNCHANGED <<sent, inbox, copy, buf, outbox, got, relay>>

\* The connection to s is reset, or a client's ends without a close_notify.
Break(s) ==
  /\ relay = "running"
  /\ ended[s] # "broken"
  /\ ended' = [ended EXCEPT ![s] = "broken"]
  /\ UNCHANGED <<sent, inbox, copy, buf, outbox, got, relay>>

\* The other side reads what s sent, also after the relay is over.
Receive(s) ==
  /\ ended[Other(s)] # "broken"
  /\ outbox[s] # <<>>
  /\ got' = [got EXCEPT ![s] = Append(@, Head(outbox[s]))]
  /\ outbox' = [outbox EXCEPT ![s] = Tail(@)]
  /\ UNCHANGED <<sent, ended, inbox, copy, buf, relay>>

-----------------------------------------------------------------------------
(* The copy from s to the other side.                                      *)

\* Mutant: one loop for both directions, which reads nothing while it has something
\* to write.
FillInTurn(s) ==
  /\ relay = "running"
  /\ copy[s] = "copying"
  /\ buf[Other(s)] = <<>>
  /\ \E n \in 1..Len(inbox[s]) :
       /\ Len(buf[s]) + n <= BufSize
       /\ buf' = [buf EXCEPT ![s] = @ \o SubSeq(inbox[s], 1, n)]
       /\ inbox' = [inbox EXCEPT ![s] = SubSeq(@, n + 1, Len(@))]
  /\ UNCHANGED <<sent, ended, copy, outbox, got, relay>>

\* Mutant: the buffer is not limited.
FillUnlimited(s) ==
  /\ relay = "running"
  /\ copy[s] = "copying"
  /\ \E n \in 1..Len(inbox[s]) :
       /\ buf' = [buf EXCEPT ![s] = @ \o SubSeq(inbox[s], 1, n)]
       /\ inbox' = [inbox EXCEPT ![s] = SubSeq(@, n + 1, Len(@))]
  /\ UNCHANGED <<sent, ended, copy, outbox, got, relay>>

Fill(s) ==
  /\ relay = "running"
  /\ copy[s] = "copying"
  /\ \E n \in 1..Len(inbox[s]) :
       /\ Len(buf[s]) + n <= BufSize
       /\ buf' = [buf EXCEPT ![s] = @ \o SubSeq(inbox[s], 1, n)]
       /\ inbox' = [inbox EXCEPT ![s] = SubSeq(@, n + 1, Len(@))]
  /\ UNCHANGED <<sent, ended, copy, outbox, got, relay>>

\* Mutant: what a short write leaves over is written from the start again.
DrainFromStart(s) ==
  /\ relay = "running"
  /\ ended[Other(s)] # "broken"
  /\ \E n \in 1..Len(buf[s]) :
       /\ Len(outbox[s]) + n <= Window
       /\ outbox' = [outbox EXCEPT ![s] = @ \o SubSeq(buf[s], 1, n)]
       /\ buf' = [buf EXCEPT ![s] = SubSeq(@, 1, Len(@) - n)]
  /\ UNCHANGED <<sent, ended, inbox, copy, got, relay>>

Drain(s) ==
  /\ relay = "running"
  /\ ended[Other(s)] # "broken"
  /\ \E n \in 1..Len(buf[s]) :
       /\ Len(outbox[s]) + n <= Window
       /\ outbox' = [outbox EXCEPT ![s] = @ \o SubSeq(buf[s], 1, n)]
       /\ buf' = [buf EXCEPT ![s] = SubSeq(@, n + 1, Len(@))]
  /\ UNCHANGED <<sent, ended, inbox, copy, got, relay>>

\* A read of length 0.
SeeEnd(s) ==
  /\ relay = "running"
  /\ copy[s] = "copying"
  /\ ended[s] = "closed"
  /\ inbox[s] = <<>>
  /\ copy' = [copy EXCEPT ![s] = "draining"]
  /\ UNCHANGED <<sent, ended, inbox, buf, outbox, got, relay>>

\* Both copies and both sockets are dropped.  What the relay wrote to a socket
\* still arrives, unless there is something unread in the socket: the kernel then
\* resets the connection and may throw away what it had not transmitted.
DropSockets ==
  /\ buf' = [s \in Sides |-> <<>>]
  /\ \E kept \in [Sides -> 0..Window] :
       /\ \A s \in Sides : IF inbox[Other(s)] = <<>>
                           THEN kept[s] = Len(outbox[s])
                           ELSE kept[s] <= Len(outbox[s])
       /\ outbox' = [s \in Sides |-> SubSeq(outbox[s], 1, kept[s])]

\* Mutant: the copy returns as soon as it has seen the end.
FinishUnflushed(s) ==
  /\ relay = "running"
  /\ copy[s] = "draining"
  /\ relay' = "ended"
  /\ DropSockets
  /\ UNCHANGED <<sent, ended, inbox, copy, got>>

\* Mutant: join! in the place of select!.
FinishBoth(s) ==
  /\ relay = "running"
  /\ \A r \in Sides : copy[r] = "draining" /\ buf[r] = <<>>
  /\ relay' = "ended"
  /\ DropSockets
  /\ UNCHANGED <<sent, ended, inbox, copy, got>>

\* The copy from s has written and flushed all it read, and returns.
Finish(s) ==
  /\ relay = "running"
  /\ copy[s] = "draining"
  /\ buf[s] = <<>>
  /\ relay' = "ended"
  /\ DropSockets
  /\ UNCHANGED <<sent, ended, inbox, copy, got>>

\* A read from s or a write to the other side fails; proxy_tcp logs the error.
Fail(s) ==
  /\ relay = "running"
  /\ \/ copy[s] = "copying" /\ ended[s] = "broken"
     \/ buf[s] # <<>> /\ ended[Other(s)] = "broken"
  /\ relay' = "failed"
  /\ DropSockets
  /\ UNCHANGED <<sent, ended, inbox, copy, got>>

-----------------------------------------------------------------------------

Copy(s) == Fill(s) \/ Drain(s) \/ SeeEnd(s) \/ Finish(s) \/ Fail(s)
Peer(s) == Send(s) \/ CloseWrite(s) \/ Break(s) \/ Receive(Other(s))
Next == \E s \in Sides : Copy(s) \/ Peer(s)

\* The relay's task is polled when a socket is ready, and select! polls both of its
\* copies.  The peers owe the relay nothing.
Fairness == \A s \in Sides : WF_vars(Copy(s))

Spec == Init /\ [][Next]_vars /\ Fairness

-----------------------------------------------------------------------------
(* Properties.                                                             *)

\* Every variable stays in its type: the queues and buffers within their size.
TypeOK ==
  /\ sent \in [Sides -> 0..MaxSent]
  /\ ended \in [Sides -> {"open", "closed", "broken"}]
  /\ copy \in [Sides -> {"copying", "draining"}]
  /\ relay \in {"running", "ended", "failed"}
  /\ {inbox, buf, outbox, got} \subseteq [Sides -> Seq(1..MaxSent)]
  /\ \A s \in Sides : /\ Len(inbox[s]) <= Window
                      /\ Len(buf[s]) <= BufSize
                      /\ Len(outbox[s]) <= Window

\* Short reads, short writes, errors and the drop of both copies lose, repeat and
\* reorder nothing of what either side reads; only the end of the relay may lose
\* the tail of what is under way.
UnderWay(s) ==
  IF relay = "running" THEN outbox[s] \o buf[s] \o inbox[s] ELSE outbox[s]
Stream == INSTANCE DuplexStream WITH pipe <- [s \in Sides |-> UnderWay(s)],
                                     cut <- relay # "running"
ImplementsStream == Stream!Spec

\* A relay that ends without an error was ended by a side that had sent its last,
\* and all this side sent reaches the other one.  It may be lost only to the reset
\* of a socket in which the relay left something unread.
EndDeliversASide ==
  relay = "ended" =>
    \E s \in Sides :
      /\ copy[s] = "draining"
      /\ Len(got[s]) + Len(outbox[s]) = sent[s] \/ inbox[Other(s)] # <<>>

\* The two directions do not wait for each other: what s sends gets through as long
\* as the other side reads it, even if s itself never reads.
FlowsAlone ==
  \A s \in Sides :
    WF_vars(Receive(s)) =>
      \A n \in 1..MaxSent :
        (sent[s] >= n) ~> (Len(got[s]) >= n \/ relay # "running" \/ ended[Other(s)] = "broken")

\* The relay ends once a side has sent its last and the other one reads: it does not
\* wait for the other side to end as well.
EndsWithASide ==
  \A s \in Sides :
    WF_vars(Receive(s)) =>
      (ended[s] = "closed") ~> (relay # "running" \/ ended[Other(s)] = "broken")

\* A transparent proxy of arbitrary TCP protocols: the connection ends when both
\* sides have ended their streams, so a client that has sent its request and closed
\* its sending half still gets the reply.
HalfCloseKeepsReply == relay = "ended" => \A s \in Sides : ended[s] # "open"
=============================================================================

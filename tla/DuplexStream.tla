---------------------------- MODULE DuplexStream ----------------------------
(***************************************************************************)
(* What a proxied connection is to its two ends: one stream of items each  *)
(* way, delivered in order, each item once, until the connection is cut.   *)
(* A cut may lose a tail of what is under way and nothing else.            *)
(*                                                                         *)
(* The stream that carries what side s sends is called s too.              *)
(***************************************************************************)
EXTENDS Naturals, Sequences

CONSTANT Sides

VARIABLES
  sent,   \* per stream: how many items its sender sent, which are 1, 2, ...
  pipe,   \* per stream: the items under way
  got,    \* per stream: the items its receiver has, in order of arrival
  cut     \* whether the connection was cut

streamVars == <<sent, pipe, got, cut>>

Init ==
  /\ sent = [s \in Sides |-> 0]
  /\ pipe = [s \in Sides |-> <<>>]
  /\ got = [s \in Sides |-> <<>>]
  /\ cut = FALSE

Send(s) ==
  /\ ~cut
  /\ sent' = [sent EXCEPT ![s] = @ + 1]
  /\ pipe' = [pipe EXCEPT ![s] = Append(@, sent[s] + 1)]
  /\ UNCHANGED <<got, cut>>

Deliver(s) ==
  /\ pipe[s] # <<>>
  /\ got' = [got EXCEPT ![s] = Append(@, Head(pipe[s]))]
  /\ pipe' = [pipe EXCEPT ![s] = Tail(@)]
  /\ UNCHANGED <<sent, cut>>

Cut ==
  /\ ~cut
  /\ cut' = TRUE
  /\ pipe' \in [Sides -> Seq(Nat)]
  /\ \A s \in Sides : \E n \in 0..Len(pipe[s]) : pipe'[s] = SubSeq(pipe[s], 1, n)
  /\ UNCHANGED <<sent, got>>

Next == Cut \/ \E s \in Sides : Send(s) \/ Deliver(s)

Spec == Init /\ [][Next]_streamVars
=============================================================================

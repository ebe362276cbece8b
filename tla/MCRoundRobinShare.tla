-------------------------- MODULE MCRoundRobinShare --------------------------
(* RoundRobinShare on small instances, with addresses in numerical order.     *)
EXTENDS RoundRobinShare, TLC
LOCAL INSTANCE SequencesExt

MCAddr == 1..3
MCIter == [S \in SUBSET MCAddr |-> SetToSortSeq(S, <)]

MCUpstreams == [load_balancer : {"round_robin"}, service_discovery : {"dns"}]

Symmetric == Permutations(Callers)
=============================================================================

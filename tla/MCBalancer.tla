----------------------------- MODULE MCBalancer -----------------------------
(* Balancer on small instances.  Addresses are numbers, so that the order in *)
(* which a BTreeSet is visited is the order of the addresses.                *)
EXTENDS Balancer
LOCAL INSTANCE SequencesExt

Ascending(S) == SetToSortSeq(S, <)

MCAddr == 1..3
MCIter == [S \in SUBSET MCAddr |-> Ascending(S)]

AllUpstreams == [load_balancer : Algorithms, service_discovery : {"dns", "local"}]
LeastConnUpstream == [load_balancer : {"least_conn"}, service_discovery : {"local"}]
=============================================================================

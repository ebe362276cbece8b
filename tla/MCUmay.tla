------------------------------- MODULE MCUmay -------------------------------
(* Umay on small instances.                                                  *)
EXTENDS Umay

OnePort == <<9994>>
OneAddr == {1}
OneIter == [S \in SUBSET OneAddr |-> IF S = {} THEN <<>> ELSE <<1>>]
DnsUpstream == [load_balancer |-> "round_robin", service_discovery |-> "dns"]
=============================================================================

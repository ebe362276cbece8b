------------------------- MODULE MCLeastConnections -------------------------
(* LeastConnections on small instances.                                      *)
EXTENDS LeastConnections, TLC

MCIter == <<"a1", "a2">>
MCRead == [method |-> "load", addr |-> "none"]
MCSymmetry == Permutations(Callers)
=============================================================================

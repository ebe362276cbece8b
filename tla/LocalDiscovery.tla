--------------------------- MODULE LocalDiscovery ---------------------------
(***************************************************************************)
(* LocalDiscovery (balance/discovery.rs): a set of backends in an ArcSwap, *)
(* with its editing methods and discover().  Every backend has weight 1    *)
(* and so is its address.                                                  *)
(***************************************************************************)
EXTENDS ArcSwapCell

CONSTANT Addr   \* the addresses the methods are called with

add_backend(a)    == [method |-> "add", addrs |-> {a}]
remove_backend(a) == [method |-> "remove", addrs |-> {a}]
set_backends(S)   == [method |-> "set", addrs |-> S]
clear_backends    == [method |-> "clear", addrs |-> {}]
discover          == [method |-> "discover", addrs |-> {}]

\* What with_backends() and default() begin with, and what the cell may hold.
Backends == SUBSET Addr

LocalEdits == {add_backend(a) : a \in Addr} \cup {remove_backend(a) : a \in Addr}
LocalStores == {set_backends(S) : S \in SUBSET Addr} \cup {clear_backends}

LocalApply(o, S) ==
  CASE o.method = "add" -> S \cup o.addrs
    [] o.method = "remove" -> S \ o.addrs
    [] o.method \in {"set", "clear"} -> o.addrs
=============================================================================

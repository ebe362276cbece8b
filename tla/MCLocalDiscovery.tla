-------------------------- MODULE MCLocalDiscovery --------------------------
(* LocalDiscovery on small instances.                                        *)
EXTENDS LocalDiscovery

\* default() begins with no backend; with_backends() would begin with some.
MCInitial == {}

\* Of the sets that can be stored, the full one, and the empty one of clear_backends().
MCStores == {set_backends(Addr), clear_backends}

ASSUME StoresAreCalls == MCStores \subseteq LocalStores
=============================================================================

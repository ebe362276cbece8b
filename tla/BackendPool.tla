----------------------------- MODULE BackendPool -----------------------------
(***************************************************************************)
(* What the load balancer promises to a connection handler, with no        *)
(* discovery, refresh task, index or algorithm in sight.                   *)
(*                                                                         *)
(* There is one pool of backends.  It changes as a whole, and never        *)
(* becomes empty once it held a backend.  A call of select sees the pool   *)
(* as it is at one instant: it is refused when the pool is empty then, and *)
(* otherwise returns a member of that pool, whatever the pool has become   *)
(* by the time it returns.                                                 *)
(*                                                                         *)
(* Balancer implements this specification for every selection algorithm    *)
(* and for both kinds of discovery.                                        *)
(***************************************************************************)

CONSTANTS
  Addr,       \* the addresses a backend may have
  Callers,    \* the connection handlers
  NoBackend   \* the answer of a refused call

VARIABLES
  pool,       \* the current set of backends
  stage,      \* per caller: "idle", "choosing" or "done"
  view,       \* per caller: the pool its call in progress saw
  answer      \* per caller: what its last call returned

poolVars == <<pool, stage, view, answer>>

Init ==
  /\ pool = {}
  /\ stage = [c \in Callers |-> "idle"]
  /\ view = [c \in Callers |-> {}]
  /\ answer = [c \in Callers |-> NoBackend]

Replace ==
  /\ pool' \in (SUBSET Addr) \ {{}}
  /\ UNCHANGED <<stage, view, answer>>

Refuse(c) ==
  /\ stage[c] = "idle"
  /\ pool = {}
  /\ stage' = [stage EXCEPT ![c] = "done"]
  /\ UNCHANGED <<pool, view, answer>>

Look(c) ==
  /\ stage[c] = "idle"
  /\ pool # {}
  /\ stage' = [stage EXCEPT ![c] = "choosing"]
  /\ view' = [view EXCEPT ![c] = pool]
  /\ UNCHANGED <<pool, answer>>

Return(c) ==
  /\ stage[c] = "choosing"
  /\ \E a \in view[c] : answer' = [answer EXCEPT ![c] = a]
  /\ stage' = [stage EXCEPT ![c] = "done"]
  /\ UNCHANGED <<pool, view>>

Forget(c) ==
  /\ stage[c] = "done"
  /\ stage' = [stage EXCEPT ![c] = "idle"]
  /\ view' = [view EXCEPT ![c] = {}]
  /\ answer' = [answer EXCEPT ![c] = NoBackend]
  /\ UNCHANGED pool

Next ==
  \/ Replace
  \/ \E c \in Callers : Refuse(c) \/ Look(c) \/ Return(c) \/ Forget(c)

\* A call that saw a backend returns: nothing it waits for can fail to come.
Fairness == \A c \in Callers : WF_poolVars(Return(c))

Safety == Init /\ [][Next]_poolVars
Spec == Safety /\ Fairness
=============================================================================

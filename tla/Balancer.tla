------------------------------ MODULE Balancer ------------------------------
(***************************************************************************)
(* LoadBalancer (balance/mod.rs) with its discovery (balance/discovery.rs) *)
(* and its selection algorithm (balance/selection.rs), as the tasks of the *)
(* tokio runtime run them:                                                 *)
(*                                                                         *)
(*   - one refresh task (start_refresh_task) that on each tick awaits      *)
(*     discover() and stores the answer in the ArcSwap `backends`;         *)
(*   - any number of connection handlers that call select(), each of which *)
(*     loads the ArcSwap once and then draws from the loaded set.          *)
(*                                                                         *)
(* Every await and every access to shared memory is a step of its own, so  *)
(* a store may fall between the load and the draw of any number of calls.  *)
(*                                                                         *)
(* A Backend is its socket address: both discoveries build it with weight  *)
(* 1, so the weight tells no two backends apart.                           *)
(***************************************************************************)
EXTENDS Naturals, Sequences, FiniteSets

CONSTANTS
  Addr,        \* socket addresses that discovery may return
  Callers,     \* the connection handlers that call select()
  Iter,        \* Iter[S] is the BTreeSet S in the order iter() visits it
  Upstreams,   \* the configured upstreams whose balancer this may be
  IndexSize,   \* the AtomicUsize index counts modulo IndexSize
  MaxChanges,  \* bound: how often the name's DNS records change
  NoBackend    \* Option::None

\* "ip_hash" is the fifth value of the configuration; create_selector panics on it.
Algorithms == {"round_robin", "weighted_round_robin", "least_conn", "random"}

Enumerates(s, S) ==
  /\ s \in [1..Cardinality(S) -> S]
  /\ \A a \in S : \E i \in 1..Cardinality(S) : s[i] = a

ASSUME AddrAssumption == IsFiniteSet(Addr) /\ NoBackend \notin Addr
ASSUME IterAssumption == \A S \in SUBSET Addr : Enumerates(Iter[S], S)
ASSUME UpstreamsAssumption ==
  Upstreams \subseteq [load_balancer : Algorithms, service_discovery : {"dns", "local"}]
ASSUME BoundAssumption == IndexSize \in Nat \ {0} /\ MaxChanges \in Nat

VARIABLES
  upstream,    \* the configuration the balancer was made from; it never changes
  zone,        \* what the source of discovery holds now
  zoneAt,      \* how many contents the zone has had, from 1 (history)
  lookups,     \* the refresh in progress, if any: the answer it waits for or holds
  backends,    \* Backends::backends, the published set
  backendsAt,  \* the zoneAt of the published set, 0 before the first (history)
  index,       \* RoundRobin::index and WeightedRoundRobin::index
  stage,       \* per caller: "idle", "choosing" (set loaded) or "done"
  view,        \* per caller: the set its call loaded
  viewAt,      \* per caller: the backendsAt its call loaded (history)
  answer       \* per caller: what select() returned

sourceVars  == <<upstream, zone, zoneAt>>
refreshVars == <<lookups, backends, backendsAt>>
callVars    == <<stage, view, viewAt, answer>>
vars == <<upstream, zone, zoneAt, lookups, backends, backendsAt, index,
          stage, view, viewAt, answer>>

Algorithm == upstream.load_balancer
Discovery == upstream.service_discovery

Asked == [found |-> FALSE, addrs |-> {}, at |-> 0]
Found(S, n) == [found |-> TRUE, addrs |-> S, at |-> n]

Init ==
  /\ upstream \in Upstreams
  /\ zone \in SUBSET Addr
  /\ zoneAt = 1
  /\ lookups = {}
  /\ backends = {}
  /\ backendsAt = 0
  /\ index = 0
  /\ stage = [c \in Callers |-> "idle"]
  /\ view = [c \in Callers |-> {}]
  /\ viewAt = [c \in Callers |-> 0]
  /\ answer = [c \in Callers |-> NoBackend]

-----------------------------------------------------------------------------
(* The source of discovery and the refresh task.                           *)

\* The name's address records change.  A LocalDiscovery keeps the addresses it
\* was built with: the load balancer owns it and calls nothing but discover().
ZoneChanges ==
  /\ Discovery = "dns"
  /\ zoneAt <= MaxChanges
  /\ zone' \in (SUBSET Addr) \ {zone}
  /\ zoneAt' = zoneAt + 1
  /\ UNCHANGED <<upstream, refreshVars, index, callVars>>

\* Mutant: each tick spawns its refresh instead of awaiting it.
TickSpawning ==
  /\ lookups' = lookups \cup {Asked}
  /\ UNCHANGED <<sourceVars, backends, backendsAt, index, callVars>>

\* The ticker fires and the task calls refresh().  The task awaits each refresh
\* before the next tick, so the tick finds no refresh in progress.
Tick ==
  /\ lookups = {}
  /\ lookups' = {Asked}
  /\ UNCHANGED <<sourceVars, backends, backendsAt, index, callVars>>

\* Mutant: DnsDiscovery passes an empty answer on.
DiscoveredUnchecked(S) == TRUE

\* DnsDiscovery turns an answer without addresses into an error;
\* LocalDiscovery returns whatever set it holds.
Discovered(S) == Discovery = "local" \/ S # {}

LookupAnswers ==
  /\ Asked \in lookups
  /\ Discovered(zone)
  /\ lookups' = (lookups \ {Asked}) \cup {Found(zone, zoneAt)}
  /\ UNCHANGED <<sourceVars, backends, backendsAt, index, callVars>>

\* Mutant: the first error ends the task's loop, which waits for nothing any more.
LookupFailsFatally ==
  /\ Asked \in lookups
  /\ Discovery = "dns"
  /\ lookups' = {[Asked EXCEPT !.at = zoneAt]}
  /\ UNCHANGED <<sourceVars, backends, backendsAt, index, callVars>>

\* lookup_ip fails or finds no address: refresh() returns before the store, and
\* the task logs the error and waits for the next tick.
LookupFails ==
  /\ Asked \in lookups
  /\ Discovery = "dns"
  /\ lookups' = lookups \ {Asked}
  /\ UNCHANGED <<sourceVars, backends, backendsAt, index, callVars>>

Publish ==
  \E r \in lookups :
    /\ r.found
    /\ backends' = r.addrs
    /\ backendsAt' = r.at
    /\ lookups' = lookups \ {r}
    /\ UNCHANGED <<sourceVars, index, callVars>>

-----------------------------------------------------------------------------
(* LoadBalancer::select().                                                 *)

\* The length of the set, which is also its total weight.
Ticket(S) == index % Cardinality(S)

\* RoundRobin, and WeightedRoundRobin: with every weight 1 the weighted walk ends at the
\* index-th backend.
InTurn(S) == {Iter[S][Ticket(S) + 1]}

\* LeastConnections: nothing increments its counts, so every one of them is 0 and
\* min_by_key keeps the first backend.
LeastConnected(S) == {Iter[S][1]}

\* Random.
AtRandom(S) == S

Selected(S) ==
  CASE Algorithm \in {"round_robin", "weighted_round_robin"} -> InTurn(S)
    [] Algorithm = "least_conn" -> LeastConnected(S)
    [] Algorithm = "random" -> AtRandom(S)

\* Mutant: an index of unbounded width.
NextIndexUnbounded ==
  IF Algorithm \in {"round_robin", "weighted_round_robin"}
  THEN index + 1
  ELSE index

\* Mutant: the index is increased before and after the draw.
NextIndexTwice ==
  IF Algorithm \in {"round_robin", "weighted_round_robin"}
  THEN (index + 2) % IndexSize
  ELSE index

\* fetch_add, which wraps around.
NextIndex ==
  IF Algorithm \in {"round_robin", "weighted_round_robin"}
  THEN (index + 1) % IndexSize
  ELSE index

\* get_backends() finds no backend: select() returns None.
LoadEmpty(c) ==
  /\ stage[c] = "idle"
  /\ backends = {}
  /\ stage' = [stage EXCEPT ![c] = "done"]
  /\ viewAt' = [viewAt EXCEPT ![c] = backendsAt]
  /\ UNCHANGED <<sourceVars, refreshVars, index, view, answer>>

\* Mutant: a call that overlaps another one shares the set that the other has loaded.
LoadShared(c) ==
  LET held == {view[d] : d \in Callers} \ {{}}
  IN  /\ stage[c] = "idle"
      /\ backends # {}
      /\ stage' = [stage EXCEPT ![c] = "choosing"]
      /\ \E S \in IF held = {} THEN {backends} ELSE held : view' = [view EXCEPT ![c] = S]
      /\ viewAt' = [viewAt EXCEPT ![c] = backendsAt]
      /\ UNCHANGED <<sourceVars, refreshVars, index, answer>>

Load(c) ==
  /\ stage[c] = "idle"
  /\ backends # {}
  /\ stage' = [stage EXCEPT ![c] = "choosing"]
  /\ view' = [view EXCEPT ![c] = backends]
  /\ viewAt' = [viewAt EXCEPT ![c] = backendsAt]
  /\ UNCHANGED <<sourceVars, refreshVars, index, answer>>

\* Mutant: the draw loads the ArcSwap a second time.
ChooseReloading(c) ==
  /\ stage[c] = "choosing"
  /\ \E a \in Selected(backends) : answer' = [answer EXCEPT ![c] = a]
  /\ index' = NextIndex
  /\ stage' = [stage EXCEPT ![c] = "done"]
  /\ UNCHANGED <<sourceVars, refreshVars, view, viewAt>>

\* The selection algorithm draws from the loaded set.
Choose(c) ==
  /\ stage[c] = "choosing"
  /\ \E a \in Selected(view[c]) : answer' = [answer EXCEPT ![c] = a]
  /\ index' = NextIndex
  /\ stage' = [stage EXCEPT ![c] = "done"]
  /\ UNCHANGED <<sourceVars, refreshVars, view, viewAt>>

\* The handler is finished with the connection and takes up another one.
Finish(c) ==
  /\ stage[c] = "done"
  /\ stage' = [stage EXCEPT ![c] = "idle"]
  /\ view' = [view EXCEPT ![c] = {}]
  /\ viewAt' = [viewAt EXCEPT ![c] = 0]
  /\ answer' = [answer EXCEPT ![c] = NoBackend]
  /\ UNCHANGED <<sourceVars, refreshVars, index>>

-----------------------------------------------------------------------------

Refresher == Tick \/ LookupAnswers \/ LookupFails \/ Publish
Caller(c) == LoadEmpty(c) \/ Load(c) \/ Choose(c) \/ Finish(c)
Next == ZoneChanges \/ Refresher \/ \E c \in Callers : Caller(c)

\* The runtime polls a woken task: the refresh task after a tick or an answer,
\* a handler inside select().  The resolver gives up after a time, and does not
\* fail for ever a name that has addresses.  Connections need not arrive or end.
Fairness ==
  /\ WF_vars(Tick)
  /\ WF_vars(LookupAnswers \/ LookupFails)
  /\ SF_vars(LookupAnswers)
  /\ WF_vars(Publish)
  /\ \A c \in Callers : WF_vars(Choose(c))

Spec == Init /\ [][Next]_vars /\ Fairness

-----------------------------------------------------------------------------
(* Properties.                                                             *)

\* Every variable stays in its type; the index stays below IndexSize.
TypeOK ==
  /\ upstream \in Upstreams
  /\ zone \in SUBSET Addr
  /\ zoneAt \in 1..(MaxChanges + 1)
  /\ lookups \in SUBSET [found : BOOLEAN, addrs : SUBSET Addr, at : 0..(MaxChanges + 1)]
  /\ backends \in SUBSET Addr
  /\ backendsAt \in 0..(MaxChanges + 1)
  /\ index \in 0..(IndexSize - 1)
  /\ stage \in [Callers -> {"idle", "choosing", "done"}]
  /\ view \in [Callers -> SUBSET Addr]
  /\ viewAt \in [Callers -> 0..(MaxChanges + 1)]
  /\ answer \in [Callers -> Addr \cup {NoBackend}]

\* With DNS discovery, "No backends available" (the None of select()) is only
\* ever answered to a call that looked before the first refresh succeeded: no
\* later failed or empty lookup, and no set that shrank between the load and
\* the draw, makes select() return None again.
NoneOnlyBeforeFirstRefresh ==
  Discovery = "dns" =>
    \A c \in Callers :
      stage[c] = "done" /\ answer[c] = NoBackend => viewAt[c] = 0

\* The published set never goes back to an older answer of discovery: refreshes
\* are awaited one by one, so their stores happen in the order of their lookups.
NeverRepublishesOlder == [][backendsAt' >= backendsAt]_vars

\* Once the records of the name settle, the published set is, from some point
\* on, the set the name resolves to; a name left without addresses keeps the
\* last set.  Failed lookups delay this but do not prevent it.
Converges == <>[](Discovered(zone) => backends = zone)

\* Stale answers die out: once the records of the name settle, there comes a time from
\* which every call that returns is given an address the name stands for, although the
\* sets of older answers live on in the calls that loaded them and the name may have
\* failed to resolve in between.
OnlyCurrentInTheEnd ==
  <>[][\A c \in Callers :
         stage[c] # "done" /\ stage'[c] = "done" /\ zone # {} => answer'[c] \in zone]_vars

\* The connections that a backend carries: the calls it was the answer of and whose
\* handlers have not ended.
Carried(a) == Cardinality({c \in Callers : stage[c] = "done" /\ answer[c] = a})

\* Least connection: a draw that no other draw races with returns a backend that
\* carries no more connections than any other of the set.
LeastConnPicksLeastLoaded ==
  [][\A c \in Callers :
       /\ stage[c] = "choosing" /\ stage'[c] = "done"
       /\ \A d \in Callers \ {c} : stage[d] # "choosing"
       => \A a \in view[c] : Carried(answer'[c]) <= Carried(a)]_vars

\* A handler sees one pool per call and gets a member of it, a pool once filled is
\* never seen empty again, and a call that saw a backend returns: what
\* BackendPool promises, whatever the refresh task and the other calls do.
Pool == INSTANCE BackendPool WITH pool <- backends
ImplementsPool == Pool!Spec
=============================================================================

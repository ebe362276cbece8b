--------------------------- MODULE BalancerProofs ---------------------------
(***************************************************************************)
(* Theorems about Balancer, for every set of addresses, callers and        *)
(* upstreams and every bound, and about the shares that RoundRobinShare    *)
(* accounts for, with every index width.                                   *)
(***************************************************************************)
EXTENDS RoundRobinShare, FiniteSetTheorems, TLAPS

\* A draw from a non-empty set returns a member of it: the ticket is below the
\* length, and iter() visits nothing but members.
LEMMA SelectedIsMember ==
  ASSUME NEW S \in SUBSET Addr, S # {}, index \in Nat, upstream \in Upstreams
  PROVE  Selected(S) \subseteq S
<1>1. IsFiniteSet(S) /\ Cardinality(S) \in Nat /\ Cardinality(S) # 0
  BY AddrAssumption, FS_Subset, FS_CardinalityType, FS_EmptySet
<1>2. Iter[S] \in [1..Cardinality(S) -> S]
  BY IterAssumption DEF Enumerates
<1>3. Ticket(S) + 1 \in 1..Cardinality(S) /\ 1 \in 1..Cardinality(S)
  BY <1>1 DEF Ticket
<1>4. Iter[S][Ticket(S) + 1] \in S /\ Iter[S][1] \in S
  BY <1>2, <1>3
<1> QED
  BY <1>4, UpstreamsAssumption
     DEF Selected, InTurn, LeastConnected, AtRandom, Algorithm, Algorithms

-----------------------------------------------------------------------------
(* Type correctness.  The draw needs that a call which loaded a set loaded *)
(* one that is not empty.                                                  *)

ViewNotEmpty == \A c \in Callers : stage[c] = "choosing" => view[c] # {}

TypeInv == TypeOK /\ ViewNotEmpty

LEMMA TypeInvInit == Init => TypeInv
  BY BoundAssumption DEF Init, TypeInv, TypeOK, ViewNotEmpty

LEMMA TypeInvNext == TypeInv /\ [Next]_vars => TypeInv'
<1> SUFFICES ASSUME TypeInv, [Next]_vars PROVE TypeInv'
  OBVIOUS
<1> USE BoundAssumption DEF TypeInv
<1> USE DEF sourceVars
<1>1. CASE ZoneChanges
  BY <1>1 DEF ZoneChanges, TypeOK, ViewNotEmpty, refreshVars, callVars
<1>2. CASE Tick
  BY <1>2 DEF Tick, Asked, TypeOK, ViewNotEmpty, callVars
<1>3. CASE LookupAnswers
  <2>1. Found(zone, zoneAt) \in [found : BOOLEAN, addrs : SUBSET Addr, at : 0..(MaxChanges + 1)]
    BY DEF Found, TypeOK
  <2>2. lookups' \in SUBSET [found : BOOLEAN, addrs : SUBSET Addr, at : 0..(MaxChanges + 1)]
    BY <1>3, <2>1 DEF LookupAnswers, TypeOK
  <2> QED
    BY <1>3, <2>2 DEF LookupAnswers, TypeOK, ViewNotEmpty, callVars
<1>4. CASE LookupFails
  BY <1>4 DEF LookupFails, TypeOK, ViewNotEmpty, callVars
<1>5. CASE Publish
  BY <1>5 DEF Publish, TypeOK, ViewNotEmpty, callVars
<1>6. ASSUME NEW c \in Callers, LoadEmpty(c) PROVE TypeInv'
  BY <1>6 DEF LoadEmpty, TypeOK, ViewNotEmpty, refreshVars
<1>7. ASSUME NEW c \in Callers, Load(c) PROVE TypeInv'
  BY <1>7 DEF Load, TypeOK, ViewNotEmpty, refreshVars
<1>8. ASSUME NEW c \in Callers, Choose(c) PROVE TypeInv'
  <2>1. view[c] \in SUBSET Addr /\ view[c] # {} /\ index \in Nat /\ upstream \in Upstreams
    BY <1>8 DEF Choose, TypeOK, ViewNotEmpty
  <2>2. PICK a \in Selected(view[c]) : answer' = [answer EXCEPT ![c] = a]
    BY <1>8 DEF Choose
  <2>3. a \in Addr
    BY <2>1, <2>2, SelectedIsMember
  <2>4. answer' \in [Callers -> Addr \cup {NoBackend}]
    BY <2>2, <2>3 DEF TypeOK
  <2>5. index' \in 0..(IndexSize - 1)
    <3>1. (index + 1) % IndexSize \in 0..(IndexSize - 1)
      BY <2>1
    <3> QED
      BY <1>8, <3>1 DEF Choose, NextIndex, TypeOK
  <2> QED
    BY <1>8, <2>4, <2>5 DEF Choose, TypeOK, ViewNotEmpty, refreshVars
<1>9. ASSUME NEW c \in Callers, Finish(c) PROVE TypeInv'
  BY <1>9 DEF Finish, TypeOK, ViewNotEmpty, refreshVars
<1>10. CASE UNCHANGED vars
  BY <1>10 DEF vars, TypeOK, ViewNotEmpty
<1> QED
  BY <1>1, <1>2, <1>3, <1>4, <1>5, <1>6, <1>7, <1>8, <1>9, <1>10
     DEF Next, Refresher, Caller

\* Every variable keeps its type: in particular a draw always finds a backend in
\* the set it loaded, and the index never leaves its width.
THEOREM TypeCorrect == Spec => []TypeOK
<1>1. TypeInv => TypeOK
  BY DEF TypeInv
<1> QED
  BY <1>1, TypeInvInit, TypeInvNext, PTL DEF Spec

-----------------------------------------------------------------------------
(* What the refresh task holds and has published, against the zone.        *)

\* The task awaits one refresh at a time; its answer is no older than the published
\* set and no newer than the zone.
RefreshInv ==
  /\ \A r, s \in lookups : r = s
  /\ \A r \in lookups : r.found => r.at \in 1..zoneAt /\ backendsAt <= r.at
  /\ backendsAt <= zoneAt

\* A DNS answer has addresses; a local source never changes.
SourceInv ==
  /\ Discovery = "dns" =>
       /\ \A r \in lookups : r.found => r.addrs # {}
       /\ backends = {} => backendsAt = 0
  /\ Discovery = "local" =>
       /\ \A r \in lookups : r.found => r.addrs = zone
       /\ backends \in {{}, zone}

Inv == TypeInv /\ RefreshInv /\ SourceInv /\ NoneOnlyBeforeFirstRefresh

LEMMA InvInit == Init => Inv
  BY TypeInvInit, BoundAssumption
     DEF Init, Inv, RefreshInv, SourceInv, NoneOnlyBeforeFirstRefresh

LEMMA RefreshInvNext == TypeInv /\ RefreshInv /\ [Next]_vars => RefreshInv'
<1> SUFFICES ASSUME TypeInv, RefreshInv, [Next]_vars PROVE RefreshInv'
  OBVIOUS
<1> zoneAt \in Nat /\ zoneAt >= 1 /\ backendsAt \in Nat
  BY BoundAssumption DEF TypeInv, TypeOK
<1>1. CASE ZoneChanges
  BY <1>1 DEF ZoneChanges, RefreshInv, refreshVars, TypeInv, TypeOK
<1>2. CASE Tick
  BY <1>2 DEF Tick, Asked, RefreshInv, sourceVars
<1>3. CASE LookupAnswers
  <2>1. lookups' = {Found(zone, zoneAt)}
    BY <1>3 DEF LookupAnswers, RefreshInv
  <2>2. zoneAt' = zoneAt /\ backendsAt' = backendsAt
    BY <1>3 DEF LookupAnswers, sourceVars
  <2>3. \A r \in lookups' : r.at = zoneAt
    BY <2>1 DEF Found
  <2>4. backendsAt <= zoneAt
    BY DEF RefreshInv
  <2> QED
    BY <2>1, <2>2, <2>3, <2>4 DEF RefreshInv
<1>4. CASE LookupFails
  BY <1>4 DEF LookupFails, RefreshInv, sourceVars
<1>5. CASE Publish
  <2>1. PICK r \in lookups : r.found /\ backendsAt' = r.at /\ lookups' = lookups \ {r}
    BY <1>5 DEF Publish
  <2>2. lookups' = {}
    BY <2>1 DEF RefreshInv
  <2> QED
    BY <1>5, <2>1, <2>2 DEF Publish, RefreshInv, sourceVars
<1>6. CASE UNCHANGED <<sourceVars, refreshVars>>
  BY <1>6 DEF RefreshInv, sourceVars, refreshVars
<1>7. CASE \E c \in Callers : Caller(c)
  <2>1. UNCHANGED <<sourceVars, refreshVars>>
    BY <1>7 DEF Caller, LoadEmpty, Load, Choose, Finish
  <2> QED
    BY <1>6, <2>1
<1>8. CASE UNCHANGED vars
  BY <1>6, <1>8 DEF vars, sourceVars, refreshVars
<1> QED
  BY <1>1, <1>2, <1>3, <1>4, <1>5, <1>7, <1>8 DEF Next, Refresher

LEMMA SourceInvNext == TypeInv /\ SourceInv /\ [Next]_vars => SourceInv'
<1> SUFFICES ASSUME TypeInv, SourceInv, [Next]_vars PROVE SourceInv'
  OBVIOUS
<1> USE DEF sourceVars, Discovery
<1>1. CASE ZoneChanges
  BY <1>1 DEF ZoneChanges, SourceInv, refreshVars
<1>2. CASE Tick
  BY <1>2 DEF Tick, Asked, SourceInv
<1>3. CASE LookupAnswers
  BY <1>3 DEF LookupAnswers, Discovered, Found, SourceInv
<1>4. CASE LookupFails
  BY <1>4 DEF LookupFails, SourceInv
<1>5. CASE Publish
  <2>1. PICK r \in lookups :
          r.found /\ backends' = r.addrs /\ lookups' = lookups \ {r}
    BY <1>5 DEF Publish
  <2> QED
    BY <1>5, <2>1 DEF Publish, SourceInv
<1>6. CASE UNCHANGED <<sourceVars, refreshVars>>
  BY <1>6 DEF SourceInv, refreshVars
<1>7. CASE \E c \in Callers : Caller(c)
  <2>1. UNCHANGED <<sourceVars, refreshVars>>
    BY <1>7 DEF Caller, LoadEmpty, Load, Choose, Finish
  <2> QED
    BY <1>6, <2>1
<1>8. CASE UNCHANGED vars
  BY <1>6, <1>8 DEF vars, refreshVars
<1> QED
  BY <1>1, <1>2, <1>3, <1>4, <1>5, <1>7, <1>8 DEF Next, Refresher

\* No step touches the configuration.
LEMMA UpstreamKept == [Next]_vars => upstream' = upstream
  BY DEF Next, Refresher, Caller, vars, sourceVars, ZoneChanges, Tick, LookupAnswers,
         LookupFails, Publish, LoadEmpty, Load, Choose, Finish

LEMMA NoneNext == Inv /\ [Next]_vars => NoneOnlyBeforeFirstRefresh'
<1> SUFFICES ASSUME Inv, [Next]_vars, Discovery = "dns",
                    NEW c \in Callers, stage'[c] = "done", answer'[c] = NoBackend
             PROVE  viewAt'[c] = 0
  BY UpstreamKept DEF NoneOnlyBeforeFirstRefresh, Discovery
<1>1. stage[c] = "done" /\ answer[c] = NoBackend => viewAt[c] = 0
  BY DEF Inv, NoneOnlyBeforeFirstRefresh
<1>2. CASE UNCHANGED callVars
  BY <1>1, <1>2 DEF callVars
<1>3. ASSUME NEW d \in Callers, LoadEmpty(d) PROVE viewAt'[c] = 0
  <2>1. backendsAt = 0
    BY <1>3 DEF LoadEmpty, Inv, SourceInv
  <2> QED
    BY <1>1, <1>3, <2>1 DEF LoadEmpty, Inv, TypeInv, TypeOK
<1>4. ASSUME NEW d \in Callers, Load(d) PROVE viewAt'[c] = 0
  BY <1>1, <1>4 DEF Load, Inv, TypeInv, TypeOK
<1>5. ASSUME NEW d \in Callers, Choose(d) PROVE viewAt'[c] = 0
  <2>1. PICK a \in Selected(view[d]) : answer' = [answer EXCEPT ![d] = a]
    BY <1>5 DEF Choose
  <2>2. view[d] \in SUBSET Addr /\ view[d] # {} /\ index \in Nat /\ upstream \in Upstreams
    BY <1>5 DEF Choose, Inv, TypeInv, TypeOK, ViewNotEmpty
  <2>3. a \in Addr
    BY <2>1, <2>2, SelectedIsMember
  <2>4. d # c
    BY <2>1, <2>3, AddrAssumption DEF Inv, TypeInv, TypeOK
  <2> QED
    BY <1>1, <1>5, <2>1, <2>4 DEF Choose, Inv, TypeInv, TypeOK
<1>6. ASSUME NEW d \in Callers, Finish(d) PROVE viewAt'[c] = 0
  BY <1>1, <1>6 DEF Finish, Inv, TypeInv, TypeOK
<1>7. CASE ZoneChanges \/ Refresher
  BY <1>2, <1>7 DEF ZoneChanges, Refresher, Tick, LookupAnswers, LookupFails, Publish
<1>8. CASE UNCHANGED vars
  BY <1>2, <1>8 DEF vars, callVars
<1> QED
  BY <1>3, <1>4, <1>5, <1>6, <1>7, <1>8 DEF Next, Caller

\* The inductive invariant.
LEMMA InvAlways == Spec => []Inv
<1>1. Inv /\ [Next]_vars => Inv'
  BY TypeInvNext, RefreshInvNext, SourceInvNext, NoneNext DEF Inv
<1> QED
  BY InvInit, <1>1, PTL DEF Spec

\* "No backends available" is only ever answered to a call that looked before the
\* first refresh succeeded.
THEOREM RefusedOnlyAtFirst == Spec => []NoneOnlyBeforeFirstRefresh
<1>1. Inv => NoneOnlyBeforeFirstRefresh
  BY DEF Inv
<1> QED
  BY <1>1, InvAlways, PTL

\* The published set never goes back to an older answer of discovery.
THEOREM PublishesInOrder == Spec => NeverRepublishesOlder
<1>1. Inv /\ [Next]_vars => [backendsAt' >= backendsAt]_vars
  <2> SUFFICES ASSUME Inv, [Next]_vars PROVE backendsAt' >= backendsAt
    OBVIOUS
  <2> backendsAt \in Nat
    BY DEF Inv, TypeInv, TypeOK
  <2>1. CASE Publish
    BY <2>1 DEF Publish, Inv, RefreshInv, TypeInv, TypeOK
  <2>2. CASE ZoneChanges \/ Tick \/ LookupAnswers \/ LookupFails
    BY <2>2 DEF ZoneChanges, Tick, LookupAnswers, LookupFails, refreshVars
  <2>3. CASE \E c \in Callers : Caller(c)
    BY <2>3 DEF Caller, LoadEmpty, Load, Choose, Finish, refreshVars
  <2>4. CASE UNCHANGED vars
    BY <2>4 DEF vars
  <2> QED
    BY <2>1, <2>2, <2>3, <2>4 DEF Next, Refresher
<1> QED
  BY <1>1, InvAlways, PTL DEF Spec, NeverRepublishesOlder

-----------------------------------------------------------------------------
(* The step simulation: every step of the load balancer is a step of the   *)
(* pool or leaves it alone.                                                *)

LEMMA PoolInit == Init => Pool!Init
  BY DEF Init, Pool!Init

LEMMA PoolNext == Inv /\ [Next]_vars => [Pool!Next]_(Pool!poolVars)
<1> SUFFICES ASSUME Inv, [Next]_vars PROVE [Pool!Next]_(Pool!poolVars)
  OBVIOUS
<1>1. CASE ZoneChanges \/ Tick \/ LookupAnswers \/ LookupFails
  BY <1>1 DEF ZoneChanges, Tick, LookupAnswers, LookupFails, refreshVars, callVars,
              Pool!poolVars
\* A refresh that publishes an empty set publishes it over an empty set.
<1>2. CASE Publish
  <2>1. backends' \in SUBSET Addr /\ UNCHANGED callVars
    BY <1>2 DEF Publish, Inv, TypeInv, TypeOK
  <2>2. backends' = {} => backends = {}
    BY <1>2, UpstreamsAssumption DEF Publish, Inv, SourceInv, TypeInv, TypeOK, Discovery
  <2>3. CASE backends' = {}
    BY <2>1, <2>2, <2>3 DEF callVars, Pool!poolVars
  <2>4. CASE backends' # {}
    BY <2>1, <2>4 DEF callVars, Pool!Replace, Pool!Next
  <2> QED
    BY <2>3, <2>4
<1>3. ASSUME NEW c \in Callers, LoadEmpty(c) PROVE Pool!Refuse(c)
  BY <1>3 DEF LoadEmpty, Pool!Refuse, refreshVars
<1>4. ASSUME NEW c \in Callers, Load(c) PROVE Pool!Look(c)
  BY <1>4 DEF Load, Pool!Look, refreshVars
<1>5. ASSUME NEW c \in Callers, Choose(c) PROVE Pool!Return(c)
  <2>1. view[c] \in SUBSET Addr /\ view[c] # {} /\ index \in Nat /\ upstream \in Upstreams
    BY <1>5 DEF Choose, Inv, TypeInv, TypeOK, ViewNotEmpty
  <2>2. \E a \in view[c] : answer' = [answer EXCEPT ![c] = a]
    BY <1>5, <2>1, SelectedIsMember DEF Choose
  <2> QED
    BY <1>5, <2>2 DEF Choose, Pool!Return, refreshVars
<1>6. ASSUME NEW c \in Callers, Finish(c) PROVE Pool!Forget(c)
  BY <1>6 DEF Finish, Pool!Forget, refreshVars
<1>7. CASE UNCHANGED vars
  BY <1>7 DEF vars, Pool!poolVars
<1> QED
  BY <1>1, <1>2, <1>3, <1>4, <1>5, <1>6, <1>7 DEF Next, Refresher, Caller, Pool!Next

\* The safety part of ImplementsPool: to a handler the load balancer is one pool
\* that changes as a whole, is never emptied, and answers each call with a member
\* of the pool as it was at one instant of the call.
THEOREM SimulatesPool == Spec => Pool!Safety
  BY PoolInit, PoolNext, InvAlways, PTL DEF Spec, Pool!Safety

-----------------------------------------------------------------------------
(* Round robin.  First, what the index leaves when it is divided by the    *)
(* length of a set.                                                        *)

LEMMA Division ==
  ASSUME NEW x \in Nat, NEW n \in Nat \ {0}
  PROVE  x = n * (x \div n) + (x % n) /\ x \div n \in Nat /\ x % n \in 0..(n - 1)
OBVIOUS

LEMMA Remainder ==
  ASSUME NEW n \in Nat \ {0}, NEW q \in Nat, NEW r \in 0..(n - 1)
  PROVE  (n * q + r) % n = r
OBVIOUS

LEMMA NextRemainder ==
  ASSUME NEW x \in Nat, NEW n \in Nat \ {0}
  PROVE  (x + 1) % n = IF x % n = n - 1 THEN 0 ELSE (x % n) + 1
<1> DEFINE q == x \div n
           r == x % n
<1>1. x = n * q + r /\ q \in Nat /\ r \in 0..(n - 1)
  BY Division
<1> HIDE DEF q, r
<1>2. CASE r = n - 1
  <2>1. x + 1 = n * (q + 1) + 0
    BY <1>1, <1>2
  <2>2. q + 1 \in Nat /\ 0 \in 0..(n - 1)
    BY <1>1
  <2>3. (x + 1) % n = 0
    BY <2>1, <2>2, Remainder
  <2> QED
    BY <1>2, <2>3 DEF r
<1>3. CASE r # n - 1
  <2>1. x + 1 = n * q + (r + 1) /\ r + 1 \in 0..(n - 1)
    BY <1>1, <1>3
  <2>2. (x + 1) % n = r + 1
    BY <1>1, <2>1, Remainder
  <2> QED
    BY <1>3, <2>2 DEF r
<1> QED
  BY <1>2, <1>3

LEMMA LastRemainder ==
  ASSUME NEW m \in Nat \ {0}, NEW n \in Nat \ {0}, m % n = 0
  PROVE  (m - 1) % n = n - 1
<1> DEFINE q == m \div n
<1>1. m = n * q + 0 /\ q \in Nat
  BY Division
<1> HIDE DEF q
<1>2. q # 0
  BY <1>1
<1>3. m - 1 = n * (q - 1) + (n - 1) /\ q - 1 \in Nat /\ n - 1 \in 0..(n - 1)
  BY <1>1, <1>2
<1>4. (n * (q - 1) + (n - 1)) % n = n - 1
  BY <1>3, Remainder
<1> QED
  BY <1>3, <1>4

-----------------------------------------------------------------------------
(* The order in which the published set will be drawn from.                *)

RoundRobins ==
  \A u \in Upstreams : u.load_balancer \in {"round_robin", "weighted_round_robin"}

\* The position that the next draw takes in a set of n backends, and how many draws
\* come before the one of position i, if position t is next.
NextPosition(S) == Ticket(S) + 1
Turn(i, t, n) == IF i >= t THEN i - t ELSE i + n - t

Share(i) == tally[Iter[backends][i]]

\* The heart of the argument: whoever is drawn later was drawn more often by at most
\* one, and whoever is drawn earlier by none, but for the disturbances.
Balanced ==
  \A i, j \in 1..Cardinality(backends) :
    LET t == NextPosition(backends)
        n == Cardinality(backends)
    IN  Share(i) <= Share(j) + (strays + unevenWraps)
                           + (IF Turn(i, t, n) > Turn(j, t, n) THEN 1 ELSE 0)

AccountsOK ==
  /\ tally \in [Addr -> Nat]
  /\ strays \in Nat
  /\ unevenWraps \in Nat

ShareInv == TypeInv /\ AccountsOK /\ Balanced

\* iter() visits every backend at one position.
LEMMA Positions ==
  ASSUME NEW S \in SUBSET Addr
  PROVE  /\ Cardinality(S) \in Nat
         /\ \A i \in 1..Cardinality(S) : Iter[S][i] \in S
         /\ \A a \in S : \E i \in 1..Cardinality(S) : Iter[S][i] = a
         /\ \A i, j \in 1..Cardinality(S) : Iter[S][i] = Iter[S][j] => i = j
<1> DEFINE n == Cardinality(S)
           f == Iter[S]
<1>1. IsFiniteSet(S) /\ n \in Nat
  BY AddrAssumption, FS_Subset, FS_CardinalityType
<1>2. f \in [1..n -> S] /\ \A a \in S : \E i \in 1..n : f[i] = a
  BY IterAssumption DEF Enumerates
<1>3. IsFiniteSet(1..n) /\ Cardinality(1..n) = n
  BY <1>1, FS_Interval
<1> HIDE DEF f
<1>4. f \in Surjection(1..n, S)
  BY <1>2 DEF Surjection
<1>5. f \in Injection(1..n, S)
  BY <1>1, <1>3, <1>4, FS_SurjSameCardinalityImpliesInj
<1>6. \A i, j \in 1..n : f[i] = f[j] => i = j
  BY <1>5 DEF Injection, IsInjective
<1> QED
  BY <1>1, <1>2, <1>6 DEF f

\* A draw moves the index to the next position of any set, or restarts it in the middle
\* of a round.
LEMMA PositionAdvances ==
  ASSUME RoundRobins, TypeInv, NEW S \in SUBSET Addr, S # {}, index' = NextIndex
  PROVE  LET n == Cardinality(S)
             t == NextPosition(S)
             u == (index' % n) + 1
         IN  /\ t \in 1..n /\ u \in 1..n
             /\ \/ u = IF t = n THEN 1 ELSE t + 1
                \/ index' # index + 1 /\ IndexSize % n # 0
<1> DEFINE n == Cardinality(S)
<1>1. n \in Nat \ {0}
  BY Positions, AddrAssumption, FS_Subset, FS_EmptySet
<1>2. index \in Nat /\ index < IndexSize /\ IndexSize \in Nat \ {0}
  BY BoundAssumption DEF TypeInv, TypeOK
<1>3. index' = (index + 1) % IndexSize
  BY DEF RoundRobins, NextIndex, Algorithm, TypeInv, TypeOK
<1> HIDE DEF n
<1>4. index % n \in 0..(n - 1)
  BY <1>1, <1>2, Division
<1>5. CASE index + 1 < IndexSize
  <2>1. index' = index + 1
    BY <1>2, <1>3, <1>5
  <2>2. index' % n = IF index % n = n - 1 THEN 0 ELSE (index % n) + 1
    BY <1>1, <1>2, <2>1, NextRemainder
  <2> QED
    BY <1>1, <1>4, <2>2 DEF n, NextPosition, Ticket
<1>6. CASE index + 1 = IndexSize
  <2>1. index' = 0
    BY <1>2, <1>3, <1>6
  <2>2. 0 % n = 0
    BY <1>1
  <2>3. index = IndexSize - 1
    BY <1>2, <1>6
  <2>4. IndexSize % n = 0 => index % n = n - 1
    BY <1>1, <1>2, <2>3, LastRemainder
  <2> QED
    BY <1>1, <1>2, <1>4, <2>1, <2>2, <2>4 DEF n, NextPosition, Ticket
<1> QED
  BY <1>2, <1>5, <1>6

LEMMA ShareInvInit == ShareInit => ShareInv
<1> SUFFICES ASSUME ShareInit PROVE ShareInv
  OBVIOUS
<1>1. TypeInv
  BY TypeInvInit DEF ShareInit
<1>2. AccountsOK
  BY DEF ShareInit, AccountsOK
<1>3. backends = {} /\ Cardinality(backends) = 0
  BY FS_EmptySet DEF ShareInit, Init
<1> QED
  BY <1>1, <1>2, <1>3 DEF ShareInv, Balanced

\* A draw by a call that loaded the published set, or by a stray one.  Position T is
\* drawn and U is next; the disturbances D stay or, if U is out of order, grow to E.
LEMMA ChooseKeepsBalance ==
  ASSUME RoundRobins, ShareInv, NEW c \in Callers, AccountedChoose(c)
  PROVE  AccountsOK' /\ Balanced'
<1> DEFINE n == Cardinality(backends)
           t == NextPosition(backends)
           u == NextPosition(backends)'
           d == strays + unevenWraps
           e == strays' + unevenWraps'
           share == [i \in 1..n |-> Share(i)]
<1>1. /\ Choose(c) /\ backends' = backends /\ index' = NextIndex
      /\ view[c] \in SUBSET Addr /\ view[c] # {} /\ index \in Nat /\ upstream \in Upstreams
  <2>1. Choose(c)
    BY DEF AccountedChoose
  <2>2. backends' = backends /\ index' = NextIndex /\ stage[c] = "choosing"
    BY <2>1 DEF Choose, refreshVars
  <2>3. view[c] \in SUBSET Addr /\ view[c] # {} /\ index \in Nat /\ upstream \in Upstreams
    BY <2>2 DEF ShareInv, TypeInv, TypeOK, ViewNotEmpty
  <2> QED
    BY <2>1, <2>2, <2>3
<1>2. answer'[c] = Iter[view[c]][NextPosition(view[c])] /\ answer'[c] \in Addr
  <2>1. Selected(view[c]) = {Iter[view[c]][NextPosition(view[c])]}
    BY <1>1 DEF RoundRobins, Selected, InTurn, Algorithm, NextPosition
  <2>2. answer' = [answer EXCEPT ![c] = Iter[view[c]][NextPosition(view[c])]]
    BY <1>1, <2>1 DEF Choose
  <2>3. answer \in [Callers -> Addr \cup {NoBackend}]
    BY DEF ShareInv, TypeInv, TypeOK
  <2> QED
    BY <1>1, <2>1, <2>2, <2>3, SelectedIsMember
<1>3. /\ tally \in [Addr -> Nat] /\ strays \in Nat /\ unevenWraps \in Nat
      /\ d \in Nat
  BY DEF ShareInv, AccountsOK
<1>4. /\ tally' \in [Addr -> Nat] /\ strays' \in Nat /\ unevenWraps' \in Nat
      /\ e \in Nat
  BY <1>2, <1>3 DEF AccountedChoose
<1>5. AccountsOK'
  BY <1>4 DEF AccountsOK
<1>6. CASE backends = {}
  <2>1. Cardinality(backends') = 0
    BY <1>1, <1>6, FS_EmptySet
  <2> QED
    BY <1>5, <2>1 DEF Balanced
<1>7. CASE backends # {}
  <2>1. backends \in SUBSET Addr
    BY DEF ShareInv, TypeInv, TypeOK
  <2>2. /\ n \in Nat
        /\ \A i \in 1..n : Iter[backends][i] \in backends
        /\ \A i, j \in 1..n : Iter[backends][i] = Iter[backends][j] => i = j
    BY <2>1, Positions
  <2>3. u = (index' % n) + 1
    BY <1>1 DEF NextPosition, Ticket
  <2>4. /\ t \in 1..n /\ u \in 1..n
        /\ \/ u = IF t = n THEN 1 ELSE t + 1
           \/ index' # index + 1 /\ IndexSize % n # 0
    BY <1>1, <1>7, <2>1, <2>3, PositionAdvances DEF ShareInv
  <2>5. share \in [1..n -> Nat]
    BY <1>3, <2>1, <2>2 DEF Share
  <2>6. \A i, j \in 1..n :
          share[i] <= share[j] + d + (IF Turn(i, t, n) > Turn(j, t, n) THEN 1 ELSE 0)
    BY DEF ShareInv, Balanced
  <2>7. unevenWraps' = IF index' # index + 1 /\ IndexSize % n # 0 THEN unevenWraps + 1
                                                                 ELSE unevenWraps
    BY <1>7 DEF AccountedChoose, WrapsUnevenly
  <2>8. PICK N, T, U, D, E, before, after :
          /\ N = n /\ T = t /\ U = u /\ D = d /\ E = e
          /\ before = share /\ after = [i \in 1..n |-> Share(i)']
    OBVIOUS
  <2> HIDE DEF n, t, u, d, e, share
  <2>9. /\ N \in Nat /\ T \in 1..N /\ U \in 1..N /\ before \in [1..N -> Nat]
        /\ D \in Nat /\ E \in Nat
        /\ \A i, j \in 1..N :
             before[i] <= before[j] + D + (IF Turn(i, T, N) > Turn(j, T, N) THEN 1 ELSE 0)
    BY <1>3, <1>4, <2>2, <2>4, <2>5, <2>6, <2>8
  <2>10. ASSUME NEW i \in 1..N, NEW j \in 1..N
         PROVE  after[i] <= after[j] + E + (IF Turn(i, U, N) > Turn(j, U, N) THEN 1 ELSE 0)
    <3>1. /\ before[i] \in Nat /\ before[j] \in Nat
          /\ before[i] <= before[j] + D + (IF Turn(i, T, N) > Turn(j, T, N) THEN 1 ELSE 0)
      BY <2>9
    <3>2. CASE view[c] = backends
      <4>1. tally' = [tally EXCEPT ![answer'[c]] = @ + 1] /\ strays' = strays
        BY <3>2 DEF AccountedChoose
      <4>2. (E = D /\ U = (IF T = N THEN 1 ELSE T + 1)) \/ E >= D + 1
        BY <1>3, <2>4, <2>7, <2>8, <4>1 DEF d, e
      <4>3. answer'[c] = Iter[backends][t]
        BY <1>2, <3>2 DEF t
      <4>4. \A k \in 1..N : after[k] = IF k = T THEN before[k] + 1 ELSE before[k]
        <5> SUFFICES ASSUME NEW k \in 1..n
                     PROVE  Share(k)' = IF k = t THEN Share(k) + 1 ELSE Share(k)
          BY <2>8 DEF share
        <5>1. Share(k)' = tally'[Iter[backends][k]] /\ Iter[backends][k] \in Addr
          BY <1>1, <2>1, <2>2 DEF Share
        <5>2. Iter[backends][k] = Iter[backends][t] <=> k = t
          BY <2>2, <2>4
        <5> QED
          BY <1>3, <4>1, <4>3, <5>1, <5>2 DEF Share
      <4>5. (IF i = T THEN before[i] + 1 ELSE before[i])
              <= (IF j = T THEN before[j] + 1 ELSE before[j])
                   + E + (IF Turn(i, U, N) > Turn(j, U, N) THEN 1 ELSE 0)
        <5>1. PICK A \in Nat, B \in Nat : A = before[i] /\ B = before[j]
          BY <3>1
        <5>2. A <= B + D + (IF Turn(i, T, N) > Turn(j, T, N) THEN 1 ELSE 0)
          BY <3>1, <5>1
        <5>3. /\ N \in Nat /\ T \in 1..N /\ U \in 1..N /\ D \in Nat /\ E \in Nat
              /\ i = j => A = B
          BY <2>9, <5>1
        <5>4. (IF i = T THEN A + 1 ELSE A)
                <= (IF j = T THEN B + 1 ELSE B)
                     + E + (IF Turn(i, U, N) > Turn(j, U, N) THEN 1 ELSE 0)
          <6>1. CASE E >= D + 1
            <7>1. A <= B + D + 1 /\ (i = T => A <= B + D)
              BY <5>2, <5>3 DEF Turn
            <7>2. (IF i = T THEN A + 1 ELSE A) <= (IF j = T THEN B + 1 ELSE B) + E
              BY <5>3, <6>1, <7>1
            <7> QED
              BY <5>3, <7>2
          <6>2. CASE E = D /\ U = (IF T = N THEN 1 ELSE T + 1)
            <7>1. CASE T = N
              BY <5>2, <5>3, <6>2, <7>1 DEF Turn
            <7>2. CASE T # N
              BY <5>2, <5>3, <6>2, <7>2 DEF Turn
            <7> QED
              BY <7>1, <7>2
          <6> QED
            BY <4>2, <6>1, <6>2
        <5> QED
          BY <5>1, <5>4
      <4> QED
        BY <4>4, <4>5
    <3>3. CASE view[c] # backends
      <4>1. tally' = tally /\ strays' = strays + 1
        BY <3>3 DEF AccountedChoose
      <4>2. E >= D + 1
        BY <1>3, <2>7, <2>8, <4>1 DEF d, e
      <4>3. after = before
        BY <1>1, <2>8, <4>1 DEF Share, share
      <4>4. PICK A \in Nat, B \in Nat, x \in {0, 1}, y \in {0, 1} :
              /\ A = before[i] /\ B = before[j]
              /\ x = IF Turn(i, T, N) > Turn(j, T, N) THEN 1 ELSE 0
              /\ y = IF Turn(i, U, N) > Turn(j, U, N) THEN 1 ELSE 0
        BY <3>1
      <4>5. A <= B + D + x
        BY <3>1, <4>4
      <4>6. A <= B + E + y
        BY <2>9, <4>2, <4>5
      <4> QED
        BY <4>3, <4>4, <4>6
    <3> QED
      BY <3>2, <3>3
  <2>11. \A i, j \in 1..n :
           Share(i)' <= Share(j)' + e + (IF Turn(i, u, n) > Turn(j, u, n) THEN 1 ELSE 0)
    BY <2>8, <2>10
  <2> QED
    BY <1>1, <1>5, <2>11 DEF Balanced, n, u, e
<1> QED
  BY <1>6, <1>7

LEMMA ShareInvNext == RoundRobins /\ ShareInv /\ [ShareNext]_<<vars, accounts>> => ShareInv'
<1> SUFFICES ASSUME RoundRobins, ShareInv, [ShareNext]_<<vars, accounts>> PROVE ShareInv'
  OBVIOUS
<1>1. TypeInv'
  <2>1. [Next]_vars
    BY DEF ShareNext, AccountedPublish, Unaccounted, AccountedChoose, Next, Refresher, Caller
  <2> QED
    BY <2>1, TypeInvNext DEF ShareInv
<1>2. CASE UNCHANGED <<backends, index, accounts>>
  BY <1>1, <1>2 DEF ShareInv, AccountsOK, Balanced, Share, NextPosition, Ticket,
                    accounts
<1>3. CASE AccountedPublish /\ backends' # backends
  <2>1. tally' = [a \in Addr |-> 0] /\ strays' = 0 /\ unevenWraps' = 0
    BY <1>3 DEF AccountedPublish
  <2>2. \A i \in 1..Cardinality(backends') : Iter[backends'][i] \in Addr
    BY <1>1, Positions DEF TypeInv, TypeOK
  <2>3. \A i \in 1..Cardinality(backends') : Share(i)' = 0
    BY <2>1, <2>2 DEF Share
  <2>4. Balanced'
    BY <2>1, <2>3 DEF Balanced
  <2> QED
    BY <1>1, <2>1, <2>4 DEF ShareInv, AccountsOK
<1>4. CASE AccountedPublish /\ backends' = backends
  BY <1>2, <1>4 DEF AccountedPublish, Publish
<1>5. CASE Unaccounted
  BY <1>2, <1>5 DEF Unaccounted, ZoneChanges, Tick, LookupAnswers, LookupFails, LoadEmpty,
                    Load, Finish, refreshVars
<1>6. ASSUME NEW c \in Callers, AccountedChoose(c) PROVE ShareInv'
  BY <1>1, <1>6, ChooseKeepsBalance DEF ShareInv
<1>7. CASE UNCHANGED <<vars, accounts>>
  BY <1>2, <1>7 DEF vars
<1> QED
  BY <1>3, <1>4, <1>5, <1>6, <1>7 DEF ShareNext

\* Both round robins give every backend of the published set the same number of
\* connections, give or take one and the disturbances, for every number of handlers,
\* every index width and every sequence of refreshes.
THEOREM SharesStayEven ==
  ASSUME RoundRobins
  PROVE  ShareSpec => []EvenShare
<1>1. ShareInv => EvenShare
  <2> SUFFICES ASSUME ShareInv, NEW a \in backends, NEW b \in backends
               PROVE  tally[a] <= tally[b] + 1 + strays + unevenWraps
    BY DEF EvenShare
  <2>1. PICK i, j \in 1..Cardinality(backends) :
          Iter[backends][i] = a /\ Iter[backends][j] = b
    BY Positions DEF ShareInv, TypeInv, TypeOK
  <2>2. /\ tally[a] \in Nat /\ tally[b] \in Nat /\ strays \in Nat /\ unevenWraps \in Nat
    BY DEF ShareInv, AccountsOK, TypeInv, TypeOK
  <2>3. tally[a] <= tally[b] + (strays + unevenWraps) + 1
    <3> DEFINE lead == IF Turn(i, NextPosition(backends), Cardinality(backends))
                            > Turn(j, NextPosition(backends), Cardinality(backends))
                       THEN 1 ELSE 0
    <3>1. tally[a] <= tally[b] + (strays + unevenWraps) + lead
      BY <2>1 DEF ShareInv, Balanced, Share
    <3>2. lead \in {0, 1}
      BY <2>2
    <3> QED
      BY <2>2, <3>1, <3>2
  <2> QED
    BY <2>2, <2>3
<1>2. ShareInv /\ [ShareNext]_<<vars, accounts>> => ShareInv'
  BY ShareInvNext
<1> QED
  BY <1>1, <1>2, ShareInvInit, PTL DEF ShareSpec
=============================================================================

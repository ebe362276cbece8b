----------------------------- MODULE UmayProofs -----------------------------
(***************************************************************************)
(* Theorems about Umay: with the stages of the handlers in between, the    *)
(* server's life is still the one of Server and the load balancer still    *)
(* the one of Balancer, so what ServerProofs and BalancerProofs prove of   *)
(* them holds here as well; and a handler, its connection and its call of  *)
(* select() stay together.                                                 *)
(***************************************************************************)
EXTENDS Umay, ServerProofs

\* The load balancer with what is proved of it.  The accounts of RoundRobinShare, which
\* BalancerProofs also speaks of, play no part here.
Bal == INSTANCE BalancerProofs WITH Callers <- Conns,
                                    upstream <- Upstream, Upstreams <- {Upstream},
                                    MaxDraws <- 0, tally <- <<>>, strays <- 0, unevenWraps <- 0

\* What BalancerProofs assumes.
LEMMA PoolAssumptions ==
  /\ Bal!AddrAssumption /\ Bal!IterAssumption /\ Bal!UpstreamsAssumption
  /\ Bal!BoundAssumption /\ Bal!MaxDrawsAssumption
<1>1. Bal!AddrAssumption
  BY PoolAssumption DEF Bal!AddrAssumption, IsFiniteSet, Bal!IsFiniteSet
<1>2. \A S : Pool!Cardinality(S) = Bal!Cardinality(S)
  BY DEF Pool!Cardinality, Bal!Cardinality
<1>3. Bal!IterAssumption
  BY PoolAssumption, <1>2 DEF Bal!IterAssumption, Pool!Enumerates, Bal!Enumerates
<1>4. Bal!UpstreamsAssumption
  BY PoolAssumption DEF Bal!UpstreamsAssumption, Pool!Algorithms, Bal!Algorithms
<1> QED
  BY PoolAssumption, <1>1, <1>3, <1>4 DEF Bal!BoundAssumption, Bal!MaxDrawsAssumption

-----------------------------------------------------------------------------
(* The parts keep what they promise alone.                                 *)

\* Every step of the composition is a step of Server or leaves its variables alone.
LEMMA StepOfServer == [UmayNext]_umayVars => [Next]_vars
<1> SUFFICES ASSUME [UmayNext]_umayVars
             PROVE [Next]_vars
  OBVIOUS
<1>1 CASE UNCHANGED umayVars
  BY <1>1 DEF umayVars
<1>2 ASSUME NEW c \in Conns, Ends(c), process = "up"
     PROVE Next
  BY <1>2 DEF Ends, Next, Environment
<1>3 ASSUME NEW c \in Conns, Handler(c), process = "up"
     PROVE [Next]_vars
  BY <1>2, <1>3
     DEF Handler, Computes, HandshakeEnds, UpgradeEnds, ConnectEnds, RelayEnds, Looks,
         Selects, Refused, Terminates, HandshakeFails, Upgrades, UpgradeFails, Connects,
         ConnectFails, Advances
<1>4 ASSUME NEW s \in Services, AcceptEnds(s) \/ ServiceSteps(s), process = "up"
     PROVE Next
  BY <1>4 DEF AcceptEnds, ServiceSteps, Accepts, Aside, Next, ServiceTask
<1>5 ASSUME SignalSteps \/ MainSteps \/ KernelSteps, process = "up"
     PROVE Next
  BY <1>5 DEF SignalSteps, MainSteps, KernelSteps, Aside, Next, Environment
<1>6 CASE RefreshSteps \/ RecordsChange
  BY <1>6 DEF RefreshSteps, RecordsChange, Refreshes
<1>7 QED
  BY <1>1, <1>3, <1>4, <1>5, <1>6 DEF UmayNext

\* The composition implements the server's life, fairness aside.
THEOREM ServerSafety == UmaySpec => Init /\ [][Next]_vars
BY StepOfServer, PTL DEF UmaySpec, UmayInit

\* Every step of the composition is a step of Balancer or leaves its variables alone.
LEMMA StepOfPool == [UmayNext]_umayVars => [Pool!Next]_(Pool!vars)
<1> SUFFICES ASSUME [UmayNext]_umayVars
             PROVE [Pool!Next]_(Pool!vars)
  OBVIOUS
<1>1. UNCHANGED poolVars => UNCHANGED Pool!vars
  BY DEF poolVars, Pool!vars
<1>2. CASE UNCHANGED umayVars
  BY <1>1, <1>2 DEF umayVars
<1>3. ASSUME NEW c \in Conns, Ends(c)
      PROVE  [Pool!Next]_(Pool!vars)
  BY <1>1, <1>3 DEF Ends, Pool!Next, Pool!Caller
<1>4. ASSUME NEW c \in Conns, Looks(c) \/ Selects(c)
      PROVE  Pool!Next
  BY <1>4 DEF Looks, Selects, Pool!Next, Pool!Caller
<1>5. ASSUME NEW c \in Conns, Handler(c)
      PROVE  [Pool!Next]_(Pool!vars)
  BY <1>1, <1>3, <1>4, <1>5
     DEF Handler, Computes, HandshakeEnds, UpgradeEnds, ConnectEnds, RelayEnds,
         Refused, Terminates, HandshakeFails, Upgrades, UpgradeFails, Connects, ConnectFails
<1>6. ASSUME NEW s \in Services, AcceptEnds(s) \/ ServiceSteps(s)
      PROVE  UNCHANGED poolVars
  BY <1>6 DEF AcceptEnds, ServiceSteps, Accepts, Aside
<1>7. CASE SignalSteps \/ MainSteps \/ KernelSteps
  BY <1>1, <1>7 DEF SignalSteps, MainSteps, KernelSteps, Aside
<1>8. CASE RefreshSteps \/ RecordsChange
  BY <1>8 DEF RefreshSteps, RecordsChange, Refreshes, Pool!Next
<1> QED
  BY <1>1, <1>2, <1>5, <1>6, <1>7, <1>8 DEF UmayNext

\* The composition implements the load balancer, fairness aside.
THEOREM BalancerSafety == UmaySpec => Pool!Init /\ [][Pool!Next]_(Pool!vars)
BY StepOfPool, PTL DEF UmaySpec, UmayInit

\* The two instances of Balancer are one.
LEMMA PoolIsBal ==
  /\ Pool!Init => Bal!Init
  /\ [Pool!Next]_(Pool!vars) => [Bal!Next]_(Bal!vars)
<1>1. \A S : Pool!Cardinality(S) = Bal!Cardinality(S)
  BY DEF Pool!Cardinality, Bal!Cardinality
<1>2. Pool!Init => Bal!Init
  BY DEF Pool!Init, Bal!Init
<1>3. \A S : Pool!Selected(S) = Bal!Selected(S)
  BY <1>1 DEF Pool!Selected, Bal!Selected, Pool!Algorithm, Bal!Algorithm, Pool!InTurn,
              Bal!InTurn, Pool!Ticket, Bal!Ticket, Pool!LeastConnected, Bal!LeastConnected,
              Pool!AtRandom, Bal!AtRandom
<1>4. Pool!Refresher => Bal!Refresher
  BY DEF Pool!Refresher, Bal!Refresher, Pool!Tick, Bal!Tick, Pool!LookupAnswers,
         Bal!LookupAnswers, Pool!LookupFails, Bal!LookupFails, Pool!Publish, Bal!Publish,
         Pool!Asked, Bal!Asked, Pool!Found, Bal!Found, Pool!Discovered, Bal!Discovered,
         Pool!Discovery, Bal!Discovery,
         Pool!sourceVars, Bal!sourceVars, Pool!callVars, Bal!callVars
<1>5. Pool!ZoneChanges => Bal!ZoneChanges
  BY DEF Pool!ZoneChanges, Bal!ZoneChanges, Pool!Discovery, Bal!Discovery, Pool!refreshVars, Bal!refreshVars,
         Pool!callVars, Bal!callVars
<1>6. ASSUME NEW c \in Conns, Pool!Choose(c) PROVE Bal!Choose(c)
  BY <1>3, <1>6 DEF Pool!Choose, Bal!Choose, Pool!NextIndex, Bal!NextIndex,
                    Pool!Algorithm, Bal!Algorithm,
                    Pool!sourceVars, Bal!sourceVars, Pool!refreshVars, Bal!refreshVars
<1>7. ASSUME NEW c \in Conns, Pool!Caller(c) PROVE Bal!Caller(c)
  BY <1>6, <1>7 DEF Pool!Caller, Bal!Caller, Pool!LoadEmpty, Bal!LoadEmpty, Pool!Load, Bal!Load,
                    Pool!Finish, Bal!Finish, Pool!sourceVars, Bal!sourceVars,
                    Pool!refreshVars, Bal!refreshVars
<1>8. UNCHANGED Pool!vars => UNCHANGED Bal!vars
  BY DEF Pool!vars, Bal!vars
<1> QED
  BY <1>2, <1>4, <1>5, <1>7, <1>8 DEF Pool!Next, Bal!Next

LEMMA PoolInvNext == Bal!Inv /\ [UmayNext]_umayVars => Bal!Inv'
<1> SUFFICES ASSUME Bal!Inv, [UmayNext]_umayVars PROVE Bal!Inv'
  OBVIOUS
<1>1. [Bal!Next]_(Bal!vars)
  BY StepOfPool, PoolIsBal
<1>2. Bal!TypeInv /\ Bal!RefreshInv /\ Bal!SourceInv
  BY DEF Bal!Inv
<1>3. Bal!TypeInv'
  BY <1>1, <1>2, PoolAssumptions, Bal!TypeInvNext
<1>4. Bal!RefreshInv'
  BY <1>1, <1>2, PoolAssumptions, Bal!RefreshInvNext
<1>5. Bal!SourceInv'
  BY <1>1, <1>2, PoolAssumptions, Bal!SourceInvNext
<1>6. Bal!NoneOnlyBeforeFirstRefresh'
  BY <1>1, PoolAssumptions, Bal!NoneNext
<1> QED
  BY <1>3, <1>4, <1>5, <1>6 DEF Bal!Inv

-----------------------------------------------------------------------------
(* Handlers and connections.                                               *)

Ats == {"none", "handshake", "select", "upgrade", "connect", "relay"}

\* A call of select() starts and ends with its stage: nothing before it, no backend in
\* it, and behind it one of the set it loaded.
CallMatches(c) ==
  /\ at[c] \in {"none", "handshake"} => stage[c] = "idle"
  /\ at[c] \in {"none", "handshake", "select"} => answer[c] = NoBackend
  /\ at[c] \in {"upgrade", "connect", "relay"} => stage[c] = "done" /\ answer[c] \in view[c]

ConnMatches(c) == conn[c] = "open" <=> at[c] # "none"

CallInv == at \in [Conns -> Ats] /\ \A c \in Conns : CallMatches(c)
ConnInv == process = "up" => \A c \in Conns : ConnMatches(c)

UmayInv == Inv /\ Bal!Inv /\ CallInv /\ ConnInv

LEMMA StageInit == UmayInit => CallInv /\ ConnInv
BY DEF UmayInit, Init, Pool!Init, CallInv, ConnInv, Ats, CallMatches, ConnMatches

\* The types of a call's variables, from the invariant of Balancer.
LEMMA CallTypes ==
  ASSUME Bal!Inv
  PROVE  /\ stage \in [Conns -> {"idle", "choosing", "done"}]
         /\ view \in [Conns -> SUBSET Addr]
         /\ answer \in [Conns -> Addr \cup {NoBackend}]
         /\ index \in Nat
         /\ \A c \in Conns : stage[c] = "choosing" => view[c] # {}
  BY PoolAssumption DEF Bal!Inv, Bal!TypeInv, Bal!TypeOK, Bal!ViewNotEmpty

\* What select() returns is one of the set that its call loaded.
LEMMA ChoiceIsMember ==
  ASSUME Bal!Inv, NEW c \in Conns, Pool!Choose(c)
  PROVE  answer'[c] \in view[c]
<1>1. view[c] \in SUBSET Addr /\ view[c] # {} /\ index \in Nat /\ DOMAIN answer = Conns
  BY CallTypes DEF Pool!Choose
<1>2. Bal!Selected(view[c]) \subseteq view[c]
  BY <1>1, PoolAssumptions, Bal!SelectedIsMember
<1>3. \A S : Pool!Cardinality(S) = Bal!Cardinality(S)
  BY DEF Pool!Cardinality, Bal!Cardinality
<1>4. Pool!Selected(view[c]) = Bal!Selected(view[c])
  BY <1>3 DEF Pool!Selected, Bal!Selected, Pool!Algorithm, Bal!Algorithm, Pool!InTurn,
              Bal!InTurn, Pool!Ticket, Bal!Ticket, Pool!LeastConnected, Bal!LeastConnected,
              Pool!AtRandom, Bal!AtRandom
<1> QED
  BY <1>1, <1>2, <1>4 DEF Pool!Choose

\* A handler that ends leaves nothing of its call behind.
LEMMA EndsMatches ==
  ASSUME TypeOK, Bal!Inv, CallInv, ConnInv, process = "up",
         NEW c \in Conns, Ends(c), at[c] # "select" \/ stage[c] = "done"
  PROVE  CallInv' /\ ConnInv'
<1> USE DEF CallInv, ConnInv
<1>1. /\ conn' = [conn EXCEPT ![c] = "closed"] /\ conn[c] = "open"
      /\ at' = [at EXCEPT ![c] = "none"]
  BY DEF Ends, HandlerEnds
<1>2. /\ stage'[c] = "idle" /\ answer'[c] = NoBackend
      /\ \A d \in Conns : d # c => /\ stage'[d] = stage[d] /\ answer'[d] = answer[d]
                                  /\ view'[d] = view[d]
  <2>1. CASE stage[c] = "done"
    BY <2>1, CallTypes DEF Ends, Pool!Finish
  <2>2. CASE stage[c] # "done"
    BY <2>2 DEF Ends, poolVars, Ats, CallMatches
  <2> QED
    BY <2>1, <2>2
<1>3. ASSUME NEW d \in Conns PROVE CallMatches(d)' /\ ConnMatches(d)'
  BY <1>1, <1>2, <1>3 DEF CallMatches, ConnMatches, TypeOK
<1> QED
  BY <1>1, <1>3 DEF Ats

\* The other steps of a handler leave its connection open and take it a stage further.
LEMMA HandlerMatches ==
  ASSUME TypeOK, Bal!Inv, CallInv, ConnInv, process = "up", NEW c \in Conns, Handler(c)
  PROVE  CallInv' /\ ConnInv'
<1> USE DEF CallInv, ConnInv
<1>1. CASE Looks(c)
  <2>1. UNCHANGED <<process, conn, at, answer>> /\ at[c] = "select"
    BY <1>1 DEF Looks, vars, Pool!Load, Pool!LoadEmpty
  <2>2. \A d \in Conns : d # c => stage'[d] = stage[d] /\ view'[d] = view[d]
    BY <1>1, CallTypes DEF Looks, Pool!Load, Pool!LoadEmpty
  <2>3. ASSUME NEW d \in Conns PROVE CallMatches(d)' /\ ConnMatches(d)'
    BY <2>1, <2>2, <2>3 DEF CallMatches, ConnMatches
  <2> QED
    BY <2>1, <2>3
<1>2. CASE Selects(c)
  <2>1. /\ UNCHANGED <<process, conn, view>> /\ at[c] = "select"
        /\ at' = [at EXCEPT ![c] = at'[c]] /\ at'[c] \in {"upgrade", "connect"}
    BY <1>2 DEF Selects, Advances, vars, Pool!Choose
  <2>2. stage'[c] = "done" /\ answer'[c] \in view[c]
    BY <1>2, CallTypes, ChoiceIsMember DEF Selects, Pool!Choose
  <2>3. \A d \in Conns : d # c => stage'[d] = stage[d] /\ answer'[d] = answer[d]
    BY <1>2, CallTypes DEF Selects, Pool!Choose
  <2>4. ASSUME NEW d \in Conns PROVE CallMatches(d)' /\ ConnMatches(d)'
    BY <2>1, <2>2, <2>3, <2>4 DEF CallMatches, ConnMatches
  <2> QED
    BY <2>1, <2>4 DEF Ats
<1>3. ASSUME NEW from \in Ats \ {"none", "select"}, NEW to \in Ats \ {"none", "handshake"},
             Advances(c, from, to), UNCHANGED poolVars,
             from = "handshake" => to = "select",
             from # "handshake" => to # "select"
      PROVE  CallInv' /\ ConnInv'
  <2>1. UNCHANGED <<process, conn, stage, view, answer>>
    BY <1>3 DEF Advances, vars, poolVars
  <2>2. at[c] = from /\ at' = [at EXCEPT ![c] = to]
    BY <1>3 DEF Advances
  <2>3. ASSUME NEW d \in Conns PROVE CallMatches(d)' /\ ConnMatches(d)'
    BY <1>3, <2>1, <2>2, <2>3 DEF CallMatches, ConnMatches, Ats
  <2> QED
    BY <2>1, <2>2, <2>3
<1>4. CASE Terminates(c) \/ Upgrades(c) \/ Connects(c)
  BY <1>3, <1>4 DEF Terminates, Upgrades, Connects, Ats
<1>5. CASE Refused(c) \/ HandshakeFails(c) \/ UpgradeFails(c) \/ ConnectFails(c) \/ RelayEnds(c)
  BY <1>5, EndsMatches DEF Refused, HandshakeFails, UpgradeFails, ConnectFails, RelayEnds
<1> QED
  BY <1>1, <1>2, <1>4, <1>5
     DEF Handler, Computes, HandshakeEnds, UpgradeEnds, ConnectEnds

\* The head of the queue leaves it for a handler or for good.
LEMMA TakeNextMatches ==
  ASSUME TypeOK, WaitsAtListener, CallInv, ConnInv, process = "up",
         NEW s \in Services, NEW fate \in {"open", "reset"},
         TakeNext(s, fate), UNCHANGED poolVars,
         at' = IF fate = "open" THEN [at EXCEPT ![Head(queue[s])] = "handshake"] ELSE at
  PROVE  CallInv' /\ ConnInv'
<1> USE DEF CallInv, ConnInv
<1> DEFINE c == Head(queue[s])
<1>1. /\ queue[s] \in Seq(Conns) /\ queue[s] # <<>> /\ c \in Conns
      /\ conn' = [conn EXCEPT ![c] = fate]
      /\ UNCHANGED <<process, stage, view, answer>>
  BY DEF TakeNext, TypeOK, mainVars, poolVars
<1>2. conn[c] = "queued" /\ c = queue[s][1] /\ 1 \in DOMAIN queue[s]
  BY <1>1 DEF WaitsAtListener
<1> HIDE DEF c
<1>3. at[c] = "none"
  BY <1>1, <1>2 DEF ConnMatches
<1>4. at' = IF fate = "open" THEN [at EXCEPT ![c] = "handshake"] ELSE at
  BY DEF c
<1>5. ASSUME NEW d \in Conns PROVE CallMatches(d)' /\ ConnMatches(d)'
  BY <1>1, <1>2, <1>3, <1>4, <1>5 DEF CallMatches, ConnMatches, TypeOK
<1> QED
  BY <1>1, <1>4, <1>5 DEF Ats

LEMMA ConnectMatches ==
  ASSUME TypeOK, CallInv, ConnInv, process = "up", NEW s \in Services, NEW c \in Conns,
         Connect(s, c), UNCHANGED <<poolVars, at>>
  PROVE  CallInv' /\ ConnInv'
<1> USE DEF CallInv, ConnInv
<1>1. /\ conn[c] \in {"none", "closed", "reset"}
      /\ conn' = [conn EXCEPT ![c] = "queued"]
      /\ UNCHANGED <<stage, view, answer, at>>
  BY DEF Connect, poolVars
<1>2. ASSUME NEW d \in Conns PROVE CallMatches(d)' /\ ConnMatches(d)'
  BY <1>1, <1>2 DEF CallMatches, ConnMatches, TypeOK
<1> QED
  BY <1>1, <1>2

LEMMA StopMatches ==
  ASSUME TypeOK, WaitsAtListener, CallInv, ConnInv, process = "up",
         NEW s \in Services, Stop(s), UNCHANGED <<poolVars, at>>
  PROVE  CallInv' /\ ConnInv'
<1> USE DEF CallInv, ConnInv
<1>1. /\ conn' = [c \in Conns |-> IF c \in ToSet(queue[s]) THEN "reset" ELSE conn[c]]
      /\ UNCHANGED <<stage, view, answer, at>>
  BY DEF Stop, poolVars
<1>2. \A c \in ToSet(queue[s]) : conn[c] = "queued"
  BY DEF WaitsAtListener, ToSet
<1>3. ASSUME NEW d \in Conns PROVE CallMatches(d)' /\ ConnMatches(d)'
  BY <1>1, <1>2, <1>3 DEF CallMatches, ConnMatches
<1> QED
  BY <1>1, <1>3

LEMMA StageNext ==
  Inv /\ Bal!Inv /\ CallInv /\ ConnInv /\ [UmayNext]_umayVars => CallInv' /\ ConnInv'
<1> SUFFICES ASSUME Inv, Bal!Inv, CallInv, ConnInv, [UmayNext]_umayVars
             PROVE  CallInv' /\ ConnInv'
  OBVIOUS
<1>1. TypeOK /\ WaitsAtListener
  BY DEF Inv
<1>2. ASSUME UNCHANGED <<process, conn, stage, view, answer, at>>
      PROVE  CallInv' /\ ConnInv'
  BY <1>2 DEF CallInv, ConnInv, CallMatches, ConnMatches
<1>3. CASE UNCHANGED umayVars
  BY <1>2, <1>3 DEF umayVars, vars, poolVars
<1>4. ASSUME process = "up", NEW c \in Conns, Handler(c) PROVE CallInv' /\ ConnInv'
  BY <1>1, <1>4, HandlerMatches
<1>5. ASSUME process = "up", NEW s \in Services, AcceptEnds(s) PROVE CallInv' /\ ConnInv'
  BY <1>1, <1>5, TakeNextMatches DEF AcceptEnds, Accepts, Aside, Accept, AcceptFails
<1>6. ASSUME process = "up", NEW s \in Services, ServiceSteps(s) PROVE CallInv' /\ ConnInv'
  <2>1. CASE Stop(s)
    BY <1>1, <1>6, <2>1, StopMatches DEF ServiceSteps, Aside
  <2>2. CASE Bind(s) \/ BindFails(s)
    BY <1>2, <1>6, <2>2 DEF ServiceSteps, Aside, Bind, BindFails, mainVars, connVars, poolVars
  <2> QED
    BY <1>6, <2>1, <2>2 DEF ServiceSteps, Aside
<1>7. ASSUME ProcessEnds("killed") \/ ProcessEnds("exited"), UNCHANGED <<poolVars, at>>
      PROVE  CallInv' /\ ConnInv'
  BY <1>7 DEF ProcessEnds, poolVars, CallInv, ConnInv, CallMatches
<1>8. CASE SignalSteps
  BY <1>2, <1>8 DEF SignalSteps, Aside, SignalTask, InstallHandler, InstallFails, Fire,
                    SenderDropped, mainVars, connVars, poolVars
<1>9. CASE MainSteps
  <2>1. CASE ExitOver
    BY <1>7, <1>9, <2>1 DEF MainSteps, Aside, ExitOver
  <2>2. CASE SpawnService \/ ShutdownSeen \/ Tick \/ GraceOver
    BY <1>2, <1>9, <2>2 DEF MainSteps, Aside, SpawnService, ShutdownSeen, Tick, GraceOver,
                            mainVars, connVars, poolVars
  <2> QED
    BY <1>9, <2>1, <2>2 DEF MainSteps, Aside, MainTask
<1>10. ASSUME process = "up", KernelSteps PROVE CallInv' /\ ConnInv'
  <2>1. CASE KilledBySignal
    BY <1>7, <1>10, <2>1 DEF KernelSteps, Aside, KilledBySignal
  <2>2. CASE SignalArrives
    BY <1>2, <1>10, <2>2 DEF KernelSteps, Aside, SignalArrives, mainVars, connVars, poolVars
  <2>3. ASSUME NEW c \in Conns, NEW s \in Services, Connect(s, c) PROVE CallInv' /\ ConnInv'
    BY <1>1, <1>10, <2>3, ConnectMatches DEF KernelSteps, Aside
  <2> QED
    BY <1>10, <2>1, <2>2, <2>3 DEF KernelSteps, Aside
<1>11. CASE RefreshSteps \/ RecordsChange
  BY <1>2, <1>11
     DEF RefreshSteps, RecordsChange, Refreshes, vars, Pool!Refresher, Pool!Tick,
         Pool!LookupAnswers, Pool!LookupFails, Pool!Publish, Pool!ZoneChanges, Pool!callVars
<1> QED
  BY <1>3, <1>4, <1>5, <1>6, <1>8, <1>9, <1>10, <1>11 DEF UmayNext

LEMMA UmayInvAlways == UmaySpec => []UmayInv
<1>1. UmayInit => UmayInv
  <2>1. Pool!Init => Bal!Inv
    BY PoolIsBal, PoolAssumptions, Bal!InvInit
  <2> QED
    BY <2>1, InvInit, StageInit DEF UmayInit, UmayInv
<1>2. Inv /\ [Next]_vars => Inv'
  BY TypeNext, ClockNext, SpawnNext, ReceiverNext, NoneUpNext, QueuesNext DEF Inv
<1>3. UmayInv /\ [UmayNext]_umayVars => UmayInv'
  BY <1>2, StepOfServer, PoolInvNext, StageNext DEF UmayInv
<1> QED
  BY <1>1, <1>3, PTL DEF UmaySpec

\* Whatever becomes of the pool, the backends and the process, a handler, its connection
\* and its call of select() stay together.
THEOREM StagesStayMatched == UmaySpec => []StagesMatch
<1>1. UmayInv => StagesMatch
  BY DEF UmayInv, CallInv, ConnInv, CallMatches, ConnMatches, StagesMatch, Ats
<1> QED
  BY <1>1, UmayInvAlways, PTL

\* "No backends available" is only for the clients that came before the first refresh
\* succeeded: no handler takes over the answer of the one before it, and neither a failed
\* or empty lookup nor the end of the grace period empties the pool.
THEOREM RefusesOnlyAtFirst == UmaySpec => []RefusedOnlyAtFirst
<1>1. UmayInv => RefusedOnlyAtFirst
  BY DEF UmayInv, Bal!Inv, Bal!NoneOnlyBeforeFirstRefresh, Bal!Discovery, CallInv,
         CallMatches, RefusedOnlyAtFirst
<1> QED
  BY <1>1, UmayInvAlways, PTL

\* With handlers that may hang in any stage, the process still leaves every connection
\* the whole grace period and the whole exit timeout.
THEOREM GraceIsGivenToHandlers == UmaySpec => []CutOnlyAfterGrace
<1>1. Inv => CutOnlyAfterGrace
  BY ServerAssumption DEF Inv, TypeOK, ClockInv, CutOnlyAfterGrace
<1>2. UmayInv => CutOnlyAfterGrace
  BY <1>1 DEF UmayInv
<1> QED
  BY <1>2, UmayInvAlways, PTL

\* Each handler sees one pool in its call of select(), gets a member of it, and sees no
\* pool empty that was filled before: what BackendPool promises.
THEOREM HandlersSeeOnePool == UmaySpec => Bal!Pool!Safety
<1>1. UmayInit => Bal!Pool!Init
  BY PoolIsBal, PoolAssumptions, Bal!PoolInit DEF UmayInit
<1>2. UmayInv /\ [UmayNext]_umayVars => [Bal!Pool!Next]_(Bal!Pool!poolVars)
  BY StepOfPool, PoolIsBal, PoolAssumptions, Bal!PoolNext DEF UmayInv
<1> QED
  BY <1>1, <1>2, UmayInvAlways, PTL DEF UmaySpec, Bal!Pool!Safety
=============================================================================

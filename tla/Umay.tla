-------------------------------- MODULE Umay --------------------------------
(***************************************************************************)
(* The running proxy: one service of Server, its load balancer (Balancer,  *)
(* whose callers are the handlers), and between them the stages of         *)
(* StreamProxy::handle_connection (proxy/stream.rs), each an await of the  *)
(* handler's task:                                                         *)
(*                                                                         *)
(*   handshake -> select -> [upgrade ->] connect -> relay                  *)
(*                                                                         *)
(* with the upgrade for ws servers only.  An error of any stage, and the   *)
(* end of the relay, end the handler.  What the relay does is TcpRelay and *)
(* WsRelay; here it ends when it likes.                                    *)
(***************************************************************************)
EXTENDS Server

CONSTANTS
  Addr, NoBackend, Iter, IndexSize, MaxChanges,  \* see Balancer
  Upstream,   \* the upstream that the listener passes its connections to
  Protocol    \* the listener's protocol, "tcp" or "ws"

VARIABLES
  zone, zoneAt, lookups, backends, backendsAt, index,  \* see Balancer
  stage, view, viewAt, answer,  \* per connection: its call of select(), see Balancer
  at       \* per connection: the stage of its handler, "none" without one

Pool == INSTANCE Balancer WITH Callers <- Conns, upstream <- Upstream, Upstreams <- {Upstream}

poolVars == <<zone, zoneAt, lookups, backends, backendsAt, index, stage, view, viewAt, answer>>
umayVars == <<vars, poolVars, at>>

ASSUME UmayAssumption == NumServices = 1 /\ Protocol \in {"tcp", "ws"}

\* What Balancer assumes of its constants.
ASSUME PoolAssumption ==
  /\ IsFiniteSet(Addr) /\ NoBackend \notin Addr
  /\ \A S \in SUBSET Addr : Pool!Enumerates(Iter[S], S)
  /\ Upstream \in [load_balancer : Pool!Algorithms, service_discovery : {"dns", "local"}]
  /\ IndexSize \in Nat \ {0} /\ MaxChanges \in Nat

UmayInit ==
  /\ Init
  /\ Pool!Init
  /\ at = [c \in Conns |-> "none"]

-----------------------------------------------------------------------------
(* The handler of connection c.                                            *)

\* An await of the handler that ends well takes it to the next stage.
Advances(c, from, to) ==
  /\ at[c] = from
  /\ at' = [at EXCEPT ![c] = to]
  /\ UNCHANGED vars

\* Mutant: the call of select() outlives its handler.
EndsKeeping(c) ==
  /\ HandlerEnds(c)
  /\ at' = [at EXCEPT ![c] = "none"]
  /\ UNCHANGED poolVars

\* The handler returns; what select() gave it is dropped with its future.
Ends(c) ==
  /\ HandlerEnds(c)
  /\ at' = [at EXCEPT ![c] = "none"]
  /\ IF stage[c] = "done" THEN Pool!Finish(c) ELSE UNCHANGED poolVars

\* TerminateFuture: the TLS handshake, with or without a server name or a client
\* certificate, or its failure.
Terminates(c) == Advances(c, "handshake", "select") /\ UNCHANGED poolVars
HandshakeFails(c) == at[c] = "handshake" /\ Ends(c)

\* Mutant: a client is left waiting for a first refresh.
LooksWhenFilled(c) ==
  /\ at[c] = "select"
  /\ Pool!Load(c)
  /\ UNCHANGED <<vars, at>>

\* select() loads the set of backends: "No backends available", or a backend to come.
Looks(c) ==
  /\ at[c] = "select"
  /\ Pool!Load(c) \/ Pool!LoadEmpty(c)
  /\ UNCHANGED <<vars, at>>

Refused(c) == at[c] = "select" /\ stage[c] = "done" /\ Ends(c)

Selects(c) ==
  /\ Pool!Choose(c)
  /\ Advances(c, "select", IF Protocol = "ws" THEN "upgrade" ELSE "connect")

\* accept_async: the client's WebSocket handshake, which the proxy answers before it
\* has an upstream.
Upgrades(c) == Advances(c, "upgrade", "connect") /\ UNCHANGED poolVars
UpgradeFails(c) == at[c] = "upgrade" /\ Ends(c)

\* TcpStream::connect, or connect_async with the upstream's WebSocket handshake.
Connects(c) == Advances(c, "connect", "relay") /\ UNCHANGED poolVars

\* The backend is down or not a WebSocket server, which the pool does not know.  There is no
\* second choice.
ConnectFails(c) == at[c] = "connect" /\ Ends(c)

RelayEnds(c) == at[c] = "relay" /\ Ends(c)

\* What only the handler's own task has to do, and what it waits for its peers to do.
Computes(c) == Looks(c) \/ Selects(c) \/ Refused(c)
HandshakeEnds(c) == Terminates(c) \/ HandshakeFails(c)
UpgradeEnds(c) == Upgrades(c) \/ UpgradeFails(c)
ConnectEnds(c) == Connects(c) \/ ConnectFails(c)

-----------------------------------------------------------------------------
(* The rest of the process, and its environment.                           *)

\* The service spawns a handler, with a clone of the proxy.
Accepts(s) ==
  /\ Accept(s)
  /\ at' = [at EXCEPT ![Head(queue[s])] = "handshake"]
  /\ UNCHANGED poolVars

\* The steps of Server that concern no handler.
Aside(A) == A /\ UNCHANGED <<poolVars, at>>

\* Mutant: the accept loop awaits the handler instead of spawning it.
AcceptEndsAwaiting(s) ==
  /\ \A c \in Conns : conn[c] # "open"
  /\ Accepts(s) \/ Aside(AcceptFails(s))

AcceptEnds(s) == Accepts(s) \/ Aside(AcceptFails(s))

SignalSteps == Aside(SignalTask)
MainSteps == Aside(MainTask)
ServiceSteps(s) == Aside(Bind(s) \/ BindFails(s) \/ Stop(s))
KernelSteps == Aside(KilledBySignal \/ SignalArrives
                       \/ \E c \in Conns, s \in Services : Connect(s, c))

\* The refresh task and what it looks up have nothing to do with the services: run()
\* starts the task any time before it spawns the service whose handlers call select(),
\* and nobody stops it.
Refreshes(A) == A /\ UNCHANGED <<vars, at>>

RefreshSteps == Refreshes(Pool!Refresher)
RecordsChange == Refreshes(Pool!ZoneChanges)

Handler(c) ==
  Computes(c) \/ HandshakeEnds(c) \/ UpgradeEnds(c) \/ ConnectEnds(c) \/ RelayEnds(c)

UmayNext ==
  /\ process = "up"
  /\ \/ \E c \in Conns : Handler(c)
     \/ \E s \in Services : AcceptEnds(s) \/ ServiceSteps(s)
     \/ SignalSteps \/ MainSteps \/ KernelSteps
     \/ RefreshSteps \/ RecordsChange

\* As in Server, and a handler that waits for nobody is polled.  Clients, backends and the
\* refresh task owe nothing.
UmayFairness ==
  /\ WF_umayVars(process = "up" /\ Aside(InstallHandler \/ InstallFails))
  /\ WF_umayVars(process = "up" /\ Aside(Fire))
  /\ WF_umayVars(process = "up" /\ MainSteps)
  /\ \A s \in Services :
       /\ WF_umayVars(process = "up" /\ Aside(Bind(s) \/ BindFails(s)))
       /\ WF_umayVars(process = "up" /\ AcceptEnds(s))
       /\ WF_umayVars(process = "up" /\ Aside(Stop(s)))
  /\ \A c \in Conns : WF_umayVars(process = "up" /\ Computes(c))

UmaySpec == UmayInit /\ [][UmayNext]_umayVars /\ UmayFairness

-----------------------------------------------------------------------------
(* Properties.                                                             *)

\* A handler and its connection, its call of select() and the backend it was given
\* belong together at every stage, and nothing of one connection is left to the next
\* one in its place.
StagesMatch ==
  /\ at \in [Conns -> {"none", "handshake", "select", "upgrade", "connect", "relay"}]
  /\ process = "up" =>
       \A c \in Conns :
         /\ conn[c] = "open" <=> at[c] # "none"
         /\ at[c] \in {"none", "handshake"} => stage[c] = "idle" /\ answer[c] = NoBackend
         /\ at[c] \in {"upgrade", "connect", "relay"} => answer[c] \in view[c]

\* A client is refused only because no refresh had succeeded yet when its handler asked:
\* whatever the handler of a connection before it left behind, and whatever the refresh
\* task met with since.
RefusedOnlyAtFirst ==
  Upstream.service_discovery = "dns" =>
    \A c \in Conns : at[c] = "select" /\ stage[c] = "done" => viewAt[c] = 0

\* The stages of the handlers are invisible to the server's life: run(), run_service()
\* and the signal task keep all their promises, the live ones too, with handlers that
\* hang in any stage.
ImplementsServer == Spec

\* A handler that hangs in any stage holds up no other connection: one whose own peers
\* answer is relayed, or it is over, whether the pool is empty or what it has is dead.
ServedAlone ==
  \A c \in Conns :
    WF_umayVars(process = "up" /\ (HandshakeEnds(c) \/ UpgradeEnds(c) \/ ConnectEnds(c))) =>
      (conn[c] = "queued") ~> (at[c] = "relay" \/ conn[c] \in {"closed", "reset", "cut"})
=============================================================================

# A verification of umay

umay is a TLS proxy and load balancer in Rust on tokio.  This directory holds TLA+
modules translated from its source, the TLC configurations that check them, and proofs
that the TLA+ proof system checks.  Paths below are relative to `umay/src/` of the
repository.

## The system

`main` loads the configuration, builds a tokio runtime and runs `run_server`: it builds
an `UmayServer` from the configuration, starts the signal task and awaits `run`.

| component | source | state | operations |
|---|---|---|---|
| configuration | `app/config.rs` | none after loading | `load`, `validate` |
| construction | `app/server.rs` | the stream proxies built so far | `try_from`, `initialize_*`, `create_*` |
| server | `app/server.rs`, `main.rs` | one task per stream proxy, its listener, the main task's two sleeps | `run`, `run_service`, `shutdown`, `bind_listener` |
| signal task | `app/signal.rs` | three signal streams, the sender of a watch channel | `shutdown` |
| load balancer | `balance/mod.rs` | `ArcSwap` of the backend set, the refresh task | `refresh`, `get_backends`, `select`, `start_refresh_task` |
| discovery | `balance/discovery.rs` | a resolver, or an `ArcSwap` of addresses | `discover`, `add_backend`, `remove_backend`, `set_backends`, `clear_backends` |
| selection | `balance/selection.rs` | an atomic index, or an `ArcSwap` of counts | `select`, `increment`, `decrement` |
| connection handler | `proxy/stream.rs` | one task per connection | `handle_connection` |
| TCP relay | `proxy/stream.rs` | two copies, each with a buffer | `proxy_tcp` |
| WebSocket relay | `proxy/stream.rs` | one loop over two message streams | `proxy_ws` |
| TLS | `tls/` | immutable stores; rustls sessions | `Store::try_from`, `terminate` |

They meet in few places:

- `run` spawns, for each stream proxy, a refresh task of the proxy's own load balancer
  and a service task, and gives the service a clone of the watch receiver.
- A service spawns a handler per connection.  A handler terminates TLS, calls `select`,
  connects to the backend and relays until one side ends.  Nothing joins handlers: the
  runtime drops them when `run` has returned.
- The refresh task and the handlers share the `ArcSwap` of backends, and the handlers
  share the index of the selection algorithm.
- The signal task and the server share the watch channel and nothing else.

What is hard about it: a set that is replaced between the load and the draw of a call;
answers of a lookup that must be published in order; an index that wraps and that calls
on different sets share; a shutdown that arrives while services are being spawned or
bound; a `select!` that drops what lost the race; peers that never answer.
`PROJECT.json` lists these hazards line by line.

## The modules

**`Balancer`** models the load balancer, its refresh task, both discoveries and all
selection algorithms.  `backends` is the `ArcSwap`, `index` the atomic counter (modulo
`IndexSize` for 2^64), `lookups` the refresh in progress.  `Tick`, `LookupAnswers`,
`LookupFails` and `Publish` are the refresh task between its awaits; `LoadEmpty`, `Load`
and `Choose` are `select`, cut where it touches shared memory; `Finish` lets a handler
take up another connection.  `ZoneChanges` is the environment: the name's records
change.  A backend is its address, because both discoveries give every backend the
weight 1; so the weighted walk ends where round robin does.  `upstream` is the
configuration the balancer was made from, any of the constant `Upstreams`, and never
changes; `Selected` dispatches on it as `create_selector` does.  `zoneAt`, `backendsAt`
and `viewAt` are history.

**`BackendPool`** is what a handler may rely on: one pool that changes as a whole and is
never emptied, and calls that see it at one instant.  `Balancer` implements it under
`pool <- backends`, and so does `Umay`.

**`RoundRobinShare`** adds accounts to `Balancer`: how often each backend was drawn since
the set was published, and the two things that disturb an even share.

**`Server`** models the life of the process after construction: the signal task, the
main task, the services with the kernel's listen queues, connections, and the end of the
process.  Each connection is `queued` (completed by the kernel), `open` (it has a
handler), `closed` (the handler returned), `reset` (refused after completion) or `cut`
(its handler was dropped with the runtime).  `Changed` is `watch::Receiver::changed`: a
version newer than the one seen, or a dropped sender.

**`TcpRelay`** models `proxy_tcp`: per direction a receive queue, a copy buffer and what
the other socket holds.  tokio's `copy` is modelled as this code uses it; the TLS
session's buffer is part of the copy's.  Dropping a socket that holds unread data may
lose what the kernel had not yet transmitted, as a reset does.

**`DuplexStream`** is what a proxied connection promises: each way a stream in order,
each item once, until a cut that loses at most a tail.  `TcpRelay` implements it under
`pipe <- UnderWay` and `cut <- relay # "running"`.

**`WsRelay`** models `proxy_ws`: the loop with the message it has `hand` on, and two
WebSocket connections as tungstenite keeps them.  `Take` is a branch of `select!` that
matches, `SendHand` and `SendFails` its body, `ReadFails` an error item (each with its
guard under a name: `HasItem`, `SendsTo`, `SendError`, `ReadError`), `SeeEnd` a stream
that yields `None`; `FlushReply` is the answer to a Close, which a later `next()` of the
same connection writes.  After a Close the states are tungstenite's: `ClosedByPeer` and
`ClosedByUs` refuse to send, the server's role is done once the answer is out, the
client's role waits for the server to close (`ServerDone`, `HandshakeOver`).  Assumed of
tungstenite 0.23 and so marked external: what is read after a Close is an error, and a
message that was fed is written in order.  The pongs that it sends of its own accord are
left out; pings and pongs of the peers are relayed like data.  `WsRelay` implements
`DuplexStream` for the data.

**`Umay`** composes `Server` (one service, by EXTENDS), `Balancer` (by INSTANCE, its
callers the connections) and the stages of `handle_connection`: `handshake`, `select`,
`upgrade` (ws only), `connect`, `relay`.  Every action of `Server` and of `Balancer` is
joined with what it means for the stages: `Accepts` begins a handler, `Looks` and
`Selects` are the call of `select`, and `Ends` is `HandlerEnds` with what the call gave
dropped (`Finish`).  `RefreshSteps` is the refresh task, which runs on through the grace
period.  Nothing in the process knows which backends are up, so `Connects` and
`ConnectFails` are open to every handler that connects.  The relay stage ends when it
likes: `TcpRelay` and `WsRelay` say how.  When the process is over everything is left as
it was.

**`ArcSwapCell`** is an `ArcSwap` that tasks edit with `rcu`, `store` and `load`; pointers
are compared, so `current` says whether the pointer a task loaded is still the cell's.
**`AtomicCell`** is what that promises: each call at one instant, once.
**`LocalDiscovery`** gives it the methods of `LocalDiscovery`, **`LeastConnections`** the
two counters and `select`, under the discipline they are made for: count what `select`
returned, count it down at the end.  Nothing in the program makes these calls; that
discipline is an assumption about a caller to come.

**`Startup`** models the way from `main` to `run`: which configurations end in an error,
a logged error with status 0, a panic, or a server, and what that server consists of.
A `tls` block is what its three files hold, and `StoreMade` is `Store::try_from`.
What it hands over is what `PortOf` of `Server` and `upstream` of `Balancer` stand for.

`MC*` modules give the constants of a run.  `*Proofs` modules hold the theorems.

Definitions named in comments as mutants change one definition of the model the way a
bug in the code would; each property is broken by at least one of them.  They are part
of no specification.

## The runs

| run | instance | asks |
|---|---|---|
| `balancer` | 3 addresses, 2 callers, all 8 upstreams (4 algorithms, `dns` or `local`), index modulo 3, 2 changes of the zone | are handlers served from one pool, refused only before the first refresh, does the pool follow the name (or stay the local list, also an empty one), do stale answers die out |
| `balancer_least_conn` | 3 addresses, 2 callers | does `least_conn` pick a least loaded backend (no) |
| `round_robin_share` | 3 addresses, 2 callers, index modulo 4, 1 change, 7 draws | how even is round robin |
| `server_shutdown` | 3 services, 2 of them on one port, 2 reusable connections, sleeps of 2 and 1 ticks | does every shutdown end the process in time, with nothing accepted late and nobody left waiting at a closed listener or unanswered |
| `tcp_relay` | 3 items each way, queues and buffers of 2 | is the relay a duplex stream, do directions stay independent, does it end |
| `tcp_half_close` | 1 item each way | does a half-close keep the reply (no) |
| `startup` | 1 upstream of 24, up to 2 servers of 52 kinds, 13 of them by their TLS files | is it all servers or none |
| `startup_documented` | the three-server `dns` upstream of `config/umay-base.yaml` and one with ip hashing | does the proxy offer what the documents say (no) |
| `local_discovery` | 2 tasks, 2 addresses, all 7 calls | are concurrent edits atomic, is the loop lock-free |
| `least_connections` | 3 handlers, 2 backends | are the counts exact, how far off can a choice be |
| `ws_relay` | 3 messages and a Close each way, queues of 2 | does data arrive in order, a Close behind it, can `select!` panic, does a close end the loop, without anything that waits in vain, does it lock up although both sides read |
| `umay` | 1 ws service, 2 connections, `dns` with 1 address or none and 1 change of it, `round_robin`, sleeps of 1 and 0 ticks | does the server keep its promises with handlers in any stage, do handlers, connections and calls match, who is refused, does a handler that hangs hold up another |

Why the bounds are enough.  Two callers are all a race on the index or the set needs: one
that acts between two steps of the other.  Two changes of the zone make three generations
of answers, so an older one can overtake, and three addresses make sets that shrink,
grow and move.  `IndexSize` 3 with sets of 1, 2 and 3 wraps both evenly and unevenly; so
does 4, and seven draws are more than two rounds of three.  Two services on one port make
`PortTaken` matter, and the third, on a port of its own, shows that the loser disturbs
nobody; two connections make one wait behind the other, and they are used again after
they end.  Three items against queues of two fill everything on the way.  Three handlers
on two backends make two rcu loops fail against a third.  In `Umay` the second connection
is the one that a hanging handler could hold up, and the one that asks before the first
refresh while the other asks after it; a ws service has all the stages.  With one change
of the records (`MaxChanges` 1) a name loses its address or gains it, so a filled pool
meets an empty answer and an empty one is filled late.  Sets of several addresses are
asked by `balancer`, for the same definitions: here they would multiply the 300,000
states, and the stages do not tell addresses apart.  The theorems of `UmayProofs` hold
for any sets and any number of changes.  Symmetry is used for safety runs only.

The runs answered "no" are expected to fail:
each states a sentence of the repository's documents that the code does not keep, and
`PROJECT.json` quotes it.

Deadlock is not checked where the system may stop: a process that ended, a relay whose
handler returned, a start that is over.

## Fairness

- `Balancer`: the runtime polls a woken task, so the refresh task ticks, publishes, and
  takes an answer or an error; a handler inside `select` draws.  Strong fairness of
  `LookupAnswers` says that a name which has addresses is not failed for ever; without
  it no proxy could follow a name.  Connections need neither arrive nor end.
- `Server`: the tasks are polled and time passes.  `select!` starts at a random branch,
  so each ready branch is taken some time.  A tick is long against the time a woken task
  waits, hence `ServicesIdle` in `Tick`; a system so overloaded that a task waits for a
  second would break this.  An accept that fails without taking the head of the kernel's
  queue, as for want of a file descriptor, changes nothing and is a stuttering step of
  `TakeNext`; fairness of the accept says that this does not last for ever.
  Signals, clients and handlers owe nothing.
- `TcpRelay`, `WsRelay`: the relay's task is polled, and `select!` starts with either
  branch.  Peers owe nothing; the properties that need a reading peer say so in their
  premise.
- `Umay`: as `Server`, as long as the process is up; and a handler inside `select` is
  polled.  Nothing is asked of the refresh task.  TLS clients, WebSocket clients and
  backends owe nothing; `ServedAlone` asks for the peers of the one connection it speaks of.
- `ArcSwapCell`: a task inside a call runs on.
- `LeastConnections` states none and claims no liveness.

## What is proved

For all values of the constants under the assumptions that the modules name:

- `BalancerProofs`: `TypeOK`; `NoneOnlyBeforeFirstRefresh`; `NeverRepublishesOlder`; and
  that every step of `Balancer` is a step of `BackendPool` or leaves it alone
  (`SimulatesPool`).  The inductive invariant adds to `TypeOK` that a call which loaded a
  set loaded a non-empty one (`ViewNotEmpty`, which makes the draw well defined), that at
  most one refresh is in progress and its answer lies between the published set and the
  zone in age (`RefreshInv`), and that a DNS answer is never empty while a local source
  and the choice of it, `upstream`, never change (`SourceInv`, which is why a published
  set is never replaced by an empty one).  `SelectedIsMember` is where the algorithms enter: the ticket is below the length
  of the set, whatever the index.
  `EvenShare` (`SharesStayEven`) follows from an invariant that knows which backend is
  next: those before it in the set's order are one draw ahead of the others, give or take
  the strays and uneven wraps (`Balanced`).  A draw from the published set moves the next
  position by one; a wrap that fits the set takes it from the last to the first.
- `ServerProofs`: `TypeOK`, `CutOnlyAfterGrace`, `WaitsAtListener`, `NoAcceptInGrace` and
  `ListensUntilShutdown`.  The invariant's parts: the clock of the two sleeps
  (`ClockInv`); the loop of `run` is over and the channel has spoken once the main task
  sleeps (`SpawnInv`); no receiver has seen the send when it is cloned (`ReceiverInv`);
  hence no service is up in the grace period (`NoneUpInGrace`).
  `WaitsAtListener` is inductive with these: whoever is queued stands once, at a service
  that listens, so `Stop` resets its own queue and nobody else's.  It is the safe part of
  `QueuedIsAnswered`; that such a service accepts or stops is about fairness and is left
  to TLC.
- `UmayProofs`: every step of the composition is one of `Server` or leaves it alone
  (`ServerSafety`), and one of `Balancer` or leaves it alone (`BalancerSafety`), so what
  `ServerProofs` and `BalancerProofs` prove holds of it: `GraceIsGivenToHandlers`, and that
  handlers see `BackendPool` (`HandlersSeeOnePool`).  `BalancerProofs` is instantiated with
  the connections for its callers; its assumptions follow from `PoolAssumption`
  (`PoolAssumptions`), and its invariant is part of the composition's.  What the stages add
  is `CallInv`, how far the call of `select` is in each stage, and `ConnInv`, that the open
  connections are those with a handler.  An accepted connection was in no handler before, by
  `WaitsAtListener`; the backend a handler goes on with is one of the set it loaded, by
  `SelectedIsMember`.  From these `StagesMatch`, and, with the invariant of `Balancer`,
  `RefusedOnlyAtFirst`: a handler refused holds no answer, so its call looked before the
  first refresh.
- `TcpRelayProofs`: `TypeOK`; `EndDeliversASide`, from `CountInv` (while the relay runs
  nothing is lost: what is read, written, buffered and waiting adds up to what was sent,
  and nothing waits behind an end that was seen); and `ImplementsStream`.  The simulation
  rests on three facts about concatenation: moving a prefix from one queue to the next
  leaves the whole as it is, an append at the last queue is an append to the whole, and
  the head of the first is the head of the whole.  They are stated of `Cat`, which hides
  the library's operator from the provers where it would slow them down.
- `LeastConnectionsProofs`: `CountsAreExact`, because a call takes effect on the value it
  has read and on no other (`ImplementsAtomic`'s invariant), and each handler's stage says
  whether it is counted; a decrement finds its own handler among those counted, so the
  count is not 0.  `SkewIsBounded` follows: what a backend carries and its count differ by
  the handlers between two calls, and `Least` returns a least count (`LeastIsLeast`, from
  the least-number principle, which the library has as well-foundedness of `<`).
- `WsRelayProofs`: `TypeOK`, and `NeverPanics` from `CloseInv`: once a stream has
  yielded `None` a Close was read from it, and passing that one on closes the other
  connection by our own hand or ends the loop.  `ClosesInOrder` and `ImplementsStream`
  need the queues as well (`OrderInv`).  `PeerInv`: a Close is the last message of an
  inbox, and a connection that no longer reads has nothing unread.  `ReadInv`: a Close is
  the last message of what a side reads (`Read`), none has gone to a side that the relay
  may still write to, and while the relay runs the data read, in hand and waiting adds up
  to what was sent, so nothing is missing when a Close is passed on.  The simulation uses
  the lemmas about `Cat` again, and that taking a queue's data commutes with an append, a
  tail and a cut as long as a Close can only be last (`DataAppend`, `DataTail`,
  `DataPrefix`).  `NeverWaitsInVain` is the safe part of `EndsWithBoth`: with both sides
  closed or gone, one connection can still be read, and its side's Close is in the inbox
  or its end is an error.  The inboxes no longer grow then, so the loop ends; that last
  inference is about fairness and is left to TLC.
- `ArcSwapCellProofs`: `TypeOK` where edits stay inside `Values`, and `ImplementsAtomic`
  for any calls at all, from `current[c] => seen[c] = cell`.
- `StartupProofs`: `ServesAllOrNothing`, from the invariant that the proxies built so far are those of a
  prefix of the servers, each usable.

Only model-checked: everything under fairness (`Converges`, `OnlyCurrentInTheEnd`, the
fairness part of `ImplementsPool`, `SignalEndsProcess`, `QueuedIsAnswered`,
`FlowsAlone`, `EndsWithASide`, `EndsWithBoth`, `FlowsIfBothRead`, `ServedAlone`,
`ImplementsServer`, `LockFree`), because the prover does not handle ENABLED.  Every
safety property of the runs that pass is proved.

## What is not modelled

Metrics, the HTTP proxy, the TLS client and the test PKI hold no behaviour.  TLS itself
is rustls: a handshake ends or fails.  Of the credentials only what decides construction
is modelled; a certificate in the wrong format or of another key is accepted by the code
and by the model.  The http block of the configuration builds nothing; `DnsConfig` and
the setters are used by nothing.  `ip_hash`, `udp` and `http` are `todo!()` in the code
and a panic in `Startup`.  A walk over weights other than 1 is left out because no
discovery gives one.  The layers of the configuration's sources belong to the config
crate: only what `load` makes of them is modelled.  (`config/umay-base.yaml` as it stands
would not load: `wss` is not a protocol.  The separator of keys, `_`, is also part of the
names of the fields, so a variable like `UMAY_WORKER_THREADS` reaches none of them.)
Memory and the kernel's limit on listen queues are unbounded; a want of file descriptors
shows only as the accept that fails.

Some things the properties do not promise because the code does not do them.  A handler
whose backend is down tries no other one.  With `dns`, only the first server of an
upstream is a source of backends (`startup_documented`).  `proxy_ws` awaits its sends, so
while one side does not read, what that side sends is held back too: `FlowsIfBothRead`
therefore needs both sides to read, where `TcpRelay`'s `FlowsAlone` needs one.  And a
Close that is read while other data is on its way to the side that sent it may be cut
off without an answer.

## What is left

In order of importance:

1. The automatic pongs of tungstenite, which write to a side that the loop is not sending
   to.
2. The weighted walk against shares in closed form, and the table of the config crate with
   the environment over the file.

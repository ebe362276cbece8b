------------------------------- MODULE Server -------------------------------
(***************************************************************************)
(* The process's life: UmayServer::run and run_service (app/server.rs),    *)
(* the signal task (app/signal.rs) and the end of main (main.rs).          *)
(*                                                                         *)
(* Tasks: the signal task holds the sender of a watch channel; run() is    *)
(* the main task, which spawns one task per stream proxy and then waits    *)
(* for the channel; each service task binds its port and then selects      *)
(* between the next connection and the channel; each accepted connection   *)
(* gets a handler task of its own.  When run() returns, main drops the     *)
(* runtime and with it every task that is left.                            *)
(*                                                                         *)
(* The state starts where signal::shutdown() has spawned its task and      *)
(* run() is about to start.                                                *)
(***************************************************************************)
EXTENDS Naturals, Sequences, FiniteSets, SequencesExt

CONSTANTS
  NumServices,  \* the length of stream_proxies
  PortOf,       \* the port each service listens on
  Conns,        \* client connections; one that is over is used again
  GracePeriod,  \* shutdown_grace_period, in ticks
  ExitTimeout   \* exit_timeout, in ticks

Services == 1..NumServices

ASSUME ServerAssumption ==
  /\ NumServices \in Nat
  /\ DOMAIN PortOf = Services
  /\ GracePeriod \in Nat
  /\ ExitTimeout \in Nat

\* The handled signals, in the order their handlers are installed.
Signals == <<"SIGQUIT", "SIGTERM", "SIGINT">>

VARIABLES
  process,   \* "up", "exited" (run_server returned) or "killed" (by a signal)
  main,      \* the main task: "serving", "grace" or "exit" (the two sleeps)
  timer,     \* ticks left of the sleep the main task is in
  elapsed,   \* ticks since the main task saw the shutdown (history)
  spawned,   \* how many services run() has spawned
  service,   \* per service: "unborn", "starting", "listening", "stopped", "failed" or "aborted"
  queue,     \* per service: connections the kernel completed and nobody accepted
  conn,      \* per connection: "none", "queued", "open", "closed", "reset" or "cut"
  installed, \* how many signal handlers are installed
  pending,   \* the signals delivered to an installed handler
  sent,      \* whether shutdown_tx.send(()) has happened: the channel's version
  sender,    \* "held" or "dropped"
  sawSent    \* per service: the version its receiver was cloned with

mainVars    == <<process, main, timer, elapsed>>
serviceVars == <<spawned, service, sawSent>>
connVars    == <<queue, conn>>
signalVars  == <<installed, pending, sent, sender>>
vars == <<process, main, timer, elapsed, spawned, service, queue, conn,
          installed, pending, sent, sender, sawSent>>

Init ==
  /\ process = "up"
  /\ main = "serving"
  /\ timer = 0
  /\ elapsed = 0
  /\ spawned = 0
  /\ service = [s \in Services |-> "unborn"]
  /\ queue = [s \in Services |-> <<>>]
  /\ conn = [c \in Conns |-> "none"]
  /\ installed = 0
  /\ pending = {}
  /\ sent = FALSE
  /\ sender = "held"
  /\ sawSent = [s \in Services |-> FALSE]

\* Every connection the process still held when it ends, in the kernel's queue
\* or in a handler.
ConnsAtEnd ==
  [c \in Conns |-> CASE conn[c] = "queued" -> "reset"
                     [] conn[c] = "open" -> "cut"
                     [] OTHER -> conn[c]]

ProcessEnds(how) ==
  /\ process' = how
  /\ conn' = ConnsAtEnd
  /\ queue' = [s \in Services |-> <<>>]
  /\ service' = [s \in Services |->
                   IF service[s] \in {"starting", "listening"} THEN "aborted" ELSE service[s]]

-----------------------------------------------------------------------------
(* Signals and the signal task.                                            *)

\* A signal whose handler is not installed yet ends the process at once.
KilledBySignal ==
  /\ installed < Len(Signals)
  /\ ProcessEnds("killed")
  /\ UNCHANGED <<main, timer, elapsed, spawned, sawSent, signalVars>>

SignalArrives ==
  /\ \E i \in 1..installed : pending' = pending \cup {Signals[i]}
  /\ UNCHANGED <<mainVars, serviceVars, connVars, installed, sent, sender>>

InstallHandler ==
  /\ installed < Len(Signals)
  /\ sender = "held"
  /\ installed' = installed + 1
  /\ UNCHANGED <<mainVars, serviceVars, connVars, pending, sent, sender>>

\* unwrap() panics: the task ends and drops the sender without a send.
InstallFails ==
  /\ installed < Len(Signals)
  /\ sender = "held"
  /\ sender' = "dropped"
  /\ UNCHANGED <<mainVars, serviceVars, connVars, installed, pending, sent>>

Fire ==
  /\ installed = Len(Signals)
  /\ pending # {}
  /\ ~sent
  /\ sent' = TRUE
  /\ UNCHANGED <<mainVars, serviceVars, connVars, installed, pending, sender>>

\* The signal task ends after the send.  A caller of run() that is not main may
\* keep its sender, so this step need not happen.
SenderDropped ==
  /\ sent
  /\ sender = "held"
  /\ sender' = "dropped"
  /\ UNCHANGED <<mainVars, serviceVars, connVars, installed, pending, sent>>

-----------------------------------------------------------------------------
(* UmayServer::run and shutdown.                                           *)

\* changed() is ready when the version moved past the one the receiver has seen,
\* or when the sender is gone; `_ =` takes the error for a change.
Changed(seen) == sent # seen \/ sender = "dropped"

\* Mutant: the service subscribes to the channel instead of cloning the receiver,
\* and so has seen a send that came before it.
SpawnServiceSubscribing ==
  /\ main = "serving"
  /\ spawned < NumServices
  /\ spawned' = spawned + 1
  /\ service' = [service EXCEPT ![spawned + 1] = "starting"]
  /\ sawSent' = [sawSent EXCEPT ![spawned + 1] = sent]
  /\ UNCHANGED <<mainVars, connVars, signalVars>>

\* One turn of the loop.  The clone has seen what the receiver of run() has: no send.
SpawnService ==
  /\ main = "serving"
  /\ spawned < NumServices
  /\ spawned' = spawned + 1
  /\ service' = [service EXCEPT ![spawned + 1] = "starting"]
  /\ sawSent' = [sawSent EXCEPT ![spawned + 1] = FALSE]
  /\ UNCHANGED <<mainVars, connVars, signalVars>>

ShutdownSeen ==
  /\ main = "serving"
  /\ spawned = NumServices
  /\ Changed(FALSE)
  /\ main' = "grace"
  /\ timer' = GracePeriod
  /\ UNCHANGED <<process, elapsed, serviceVars, connVars, signalVars>>

\* A tick is long against the time a woken task waits for a worker thread: no
\* service task has anything to do when the clock moves on.
ServicesIdle ==
  \A s \in Services : /\ service[s] # "starting"
                      /\ service[s] = "listening" => ~Changed(sawSent[s])

\* Mutant: the sleep does not look at its deadline.
TickPastDeadline ==
  /\ main \in {"grace", "exit"}
  /\ ServicesIdle
  /\ timer' = timer - 1
  /\ elapsed' = elapsed + 1
  /\ UNCHANGED <<process, main, serviceVars, connVars, signalVars>>

Tick ==
  /\ main \in {"grace", "exit"}
  /\ timer > 0
  /\ ServicesIdle
  /\ timer' = timer - 1
  /\ elapsed' = elapsed + 1
  /\ UNCHANGED <<process, main, serviceVars, connVars, signalVars>>

\* Mutant: the second sleep is left out.
GraceOverAtOnce ==
  /\ main = "grace"
  /\ timer = 0
  /\ main' = "exit"
  /\ timer' = 0
  /\ UNCHANGED <<process, elapsed, serviceVars, connVars, signalVars>>

GraceOver ==
  /\ main = "grace"
  /\ timer = 0
  /\ main' = "exit"
  /\ timer' = ExitTimeout
  /\ UNCHANGED <<process, elapsed, serviceVars, connVars, signalVars>>

\* Mutant: the exit waits for the open connections.
ExitOverDrained ==
  /\ main = "exit"
  /\ timer = 0
  /\ \A c \in Conns : conn[c] # "open"
  /\ ProcessEnds("exited")
  /\ UNCHANGED <<main, timer, elapsed, spawned, sawSent, signalVars>>

\* run() returns, block_on() returns, and main drops the runtime.
ExitOver ==
  /\ main = "exit"
  /\ timer = 0
  /\ ProcessEnds("exited")
  /\ UNCHANGED <<main, timer, elapsed, spawned, sawSent, signalVars>>

-----------------------------------------------------------------------------
(* run_service and the handlers it spawns.                                 *)

PortTaken(s) ==
  \E r \in Services \ {s} : PortOf[r] = PortOf[s] /\ service[r] = "listening"

Bind(s) ==
  /\ service[s] = "starting"
  /\ ~PortTaken(s)
  /\ service' = [service EXCEPT ![s] = "listening"]
  /\ UNCHANGED <<mainVars, spawned, sawSent, connVars, signalVars>>

\* Mutant: run() propagates the error of a service.
BindFailsFatally(s) ==
  /\ service[s] = "starting"
  /\ ProcessEnds("exited")
  /\ UNCHANGED <<main, timer, elapsed, spawned, sawSent, signalVars>>

\* Another service or another process has the port, or the process may not bind
\* it: run_service returns the error, and the spawned task logs it.
BindFails(s) ==
  /\ service[s] = "starting"
  /\ service' = [service EXCEPT ![s] = "failed"]
  /\ UNCHANGED <<mainVars, spawned, sawSent, connVars, signalVars>>

\* A client's connection is complete as soon as the kernel has queued it.
Connect(s, c) ==
  /\ service[s] = "listening"
  /\ conn[c] \in {"none", "closed", "reset"}
  /\ conn' = [conn EXCEPT ![c] = "queued"]
  /\ queue' = [queue EXCEPT ![s] = Append(@, c)]
  /\ UNCHANGED <<mainVars, serviceVars, signalVars>>

\* Mutant: the loop awaits the handler instead of spawning it.
TakeNextAwaiting(s, fate) ==
  /\ service[s] = "listening"
  /\ \A c \in Conns : conn[c] # "open"
  /\ queue[s] # <<>>
  /\ conn' = [conn EXCEPT ![Head(queue[s])] = fate]
  /\ queue' = [queue EXCEPT ![s] = Tail(@)]
  /\ UNCHANGED <<mainVars, serviceVars, signalVars>>

\* The head of the queue gets a handler, or is dropped because an option cannot
\* be set or the peer is gone already; the loop goes on either way.  An accept that
\* fails before it takes the head (no file descriptor is left, say) changes nothing:
\* it is a stuttering step.
TakeNext(s, fate) ==
  /\ service[s] = "listening"
  /\ queue[s] # <<>>
  /\ conn' = [conn EXCEPT ![Head(queue[s])] = fate]
  /\ queue' = [queue EXCEPT ![s] = Tail(@)]
  /\ UNCHANGED <<mainVars, serviceVars, signalVars>>

Accept(s) == TakeNext(s, "open")
AcceptFails(s) == TakeNext(s, "reset")

\* Mutant: the listener outlives the loop that accepts from it.
StopKeepingListener(s) ==
  /\ service[s] = "listening"
  /\ Changed(sawSent[s])
  /\ service' = [service EXCEPT ![s] = "stopped"]
  /\ UNCHANGED <<mainVars, spawned, sawSent, connVars, signalVars>>

\* The loop breaks and drops the listener, and the kernel resets what it queued.
Stop(s) ==
  /\ service[s] = "listening"
  /\ Changed(sawSent[s])
  /\ service' = [service EXCEPT ![s] = "stopped"]
  /\ conn' = [c \in Conns |-> IF c \in ToSet(queue[s]) THEN "reset" ELSE conn[c]]
  /\ queue' = [queue EXCEPT ![s] = <<>>]
  /\ UNCHANGED <<mainVars, spawned, sawSent, signalVars>>

\* The handler returns, with or without an error.
HandlerEnds(c) ==
  /\ conn[c] = "open"
  /\ conn' = [conn EXCEPT ![c] = "closed"]
  /\ UNCHANGED <<mainVars, serviceVars, queue, signalVars>>

-----------------------------------------------------------------------------

SignalTask == InstallHandler \/ InstallFails \/ Fire \/ SenderDropped
MainTask == SpawnService \/ ShutdownSeen \/ Tick \/ GraceOver \/ ExitOver
ServiceTask(s) == Bind(s) \/ BindFails(s) \/ Accept(s) \/ AcceptFails(s) \/ Stop(s)
Environment ==
  \/ KilledBySignal
  \/ SignalArrives
  \/ \E c \in Conns : HandlerEnds(c) \/ \E s \in Services : Connect(s, c)

Next ==
  /\ process = "up"
  /\ \/ SignalTask
     \/ MainTask
     \/ \E s \in Services : ServiceTask(s)
     \/ Environment

\* The runtime polls every task that is woken, and time passes.  select! starts
\* from a random branch, so neither of its branches waits for ever while it is
\* ready: Stop(s) and the accept of service s are fair each on its own.  A process
\* that has run out of file descriptors gets some back in time.
\* Signals, clients and handlers owe nothing; the sender need not be dropped.
Fairness ==
  /\ WF_vars(process = "up" /\ (InstallHandler \/ InstallFails))
  /\ WF_vars(process = "up" /\ Fire)
  /\ WF_vars(process = "up" /\ MainTask)
  /\ \A s \in Services :
       /\ WF_vars(process = "up" /\ (Bind(s) \/ BindFails(s)))
       /\ WF_vars(process = "up" /\ (Accept(s) \/ AcceptFails(s)))
       /\ WF_vars(process = "up" /\ Stop(s))

Spec == Init /\ [][Next]_vars /\ Fairness

-----------------------------------------------------------------------------
(* Properties.                                                             *)

TypeOK ==
  /\ process \in {"up", "exited", "killed"}
  /\ main \in {"serving", "grace", "exit"}
  /\ timer \in Nat
  /\ elapsed \in 0..(GracePeriod + ExitTimeout)
  /\ spawned \in 0..NumServices
  /\ service \in [Services -> {"unborn", "starting", "listening", "stopped", "failed", "aborted"}]
  /\ queue \in [Services -> Seq(Conns)]
  /\ conn \in [Conns -> {"none", "queued", "open", "closed", "reset", "cut"}]
  /\ installed \in 0..Len(Signals)
  /\ pending \subseteq ToSet(Signals)
  /\ sent \in BOOLEAN
  /\ sender \in {"held", "dropped"}
  /\ sawSent \in [Services -> BOOLEAN]

\* A shutdown leaves every open connection the whole grace period and the whole
\* exit timeout: a handler that the end of the process cut off had that long,
\* counted from the moment run() saw the shutdown.
CutOnlyAfterGrace ==
  process = "exited" => elapsed = GracePeriod + ExitTimeout

\* A connection that waits for a handler stands once, in the queue of one service,
\* and that service listens: whichever way a service or the process ends, nobody is
\* left waiting at a listener that no loop accepts from, and no handler takes up a
\* connection that another one has.
WaitsAtListener ==
  /\ \A c \in Conns : conn[c] = "queued" =>
       \E s \in Services : service[s] = "listening" /\ \E i \in DOMAIN queue[s] : queue[s][i] = c
  /\ \A s \in Services : \A i \in DOMAIN queue[s] :
       /\ conn[queue[s][i]] = "queued"
       /\ \A r \in Services : \A j \in DOMAIN queue[r] :
            queue[s][i] = queue[r][j] => s = r /\ i = j

\* Once the grace period runs, no handler starts: every service has seen the
\* shutdown, also one that was spawned or bound after the send, or whose
\* receiver was cloned after it.
NoAcceptInGrace ==
  [][elapsed > 0 => \A c \in Conns : conn[c] # "open" => conn'[c] # "open"]_vars

\* A service goes on listening until the channel has something to say or a signal
\* kills the process: no failed bind of another service, no failed accept and no
\* handler takes it down.
ListensUntilShutdown ==
  [][\A s \in Services :
       service[s] = "listening" /\ service'[s] # "listening" =>
         sent \/ sender = "dropped" \/ process' = "killed"]_vars

\* After a handled signal the process ends, whatever its connections do.
SignalEndsProcess == (pending # {}) ~> (process # "up")

\* A connection that the kernel completed is taken up or reset, even when every
\* handler hangs.
QueuedIsAnswered == \A c \in Conns : (conn[c] = "queued") ~> (conn[c] # "queued")
=============================================================================

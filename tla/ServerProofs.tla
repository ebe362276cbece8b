---------------------------- MODULE ServerProofs ----------------------------
(***************************************************************************)
(* Theorems about Server, for every number of services, every assignment   *)
(* of ports, every set of connections and every pair of sleeps.            *)
(***************************************************************************)
EXTENDS Server, TLAPS

-----------------------------------------------------------------------------
(* The parts of the inductive invariant.                                   *)

\* The two sleeps run one after the other, each for its whole length.
ClockInv ==
  /\ main = "serving" => timer = 0 /\ elapsed = 0
  /\ main = "grace" => elapsed + timer = GracePeriod
  /\ main = "exit" => elapsed + timer = GracePeriod + ExitTimeout
  /\ process = "exited" => main = "exit" /\ timer = 0

\* run() leaves its loop with every service spawned, and sleeps only after the
\* channel had something to say.
SpawnInv ==
  /\ \A s \in Services : service[s] = "unborn" <=> s > spawned
  /\ main # "serving" => spawned = NumServices /\ (sent \/ sender = "dropped")

\* No receiver has seen the send when it is cloned, so every service that is up
\* when the clock starts has yet to stop.
ReceiverInv == \A s \in Services : ~sawSent[s]

NoneUpInGrace ==
  elapsed > 0 => \A s \in Services : service[s] \notin {"unborn", "starting", "listening"}

Inv == TypeOK /\ ClockInv /\ SpawnInv /\ ReceiverInv /\ NoneUpInGrace /\ WaitsAtListener

States == {"unborn", "starting", "listening", "stopped", "failed", "aborted"}
Fates == {"none", "queued", "open", "closed", "reset", "cut"}

-----------------------------------------------------------------------------
(* Type correctness.                                                       *)

LEMMA ProcessEndsType ==
  ASSUME TypeOK, NEW how \in {"exited", "killed"}, ProcessEnds(how)
  PROVE  /\ process' \in {"up", "exited", "killed"}
         /\ conn' \in [Conns -> Fates]
         /\ queue' \in [Services -> Seq(Conns)]
         /\ service' \in [Services -> States]
  BY DEF ProcessEnds, ConnsAtEnd, TypeOK, States, Fates

LEMMA TakeNextType ==
  ASSUME TypeOK, NEW s \in Services, NEW fate \in {"open", "reset"}, TakeNext(s, fate)
  PROVE  TypeOK'
<1>1. queue[s] \in Seq(Conns) /\ queue[s] # <<>>
  BY DEF TypeOK, TakeNext
<1>2. Tail(queue[s]) \in Seq(Conns)
  BY <1>1
<1>3. queue' \in [Services -> Seq(Conns)]
  BY <1>2 DEF TypeOK, TakeNext
<1>4. conn' \in [Conns -> Fates]
  BY DEF TypeOK, TakeNext, Fates
<1> QED
  BY <1>3, <1>4 DEF TypeOK, TakeNext, Fates, mainVars, serviceVars, signalVars

LEMMA TypeInit == Init => TypeOK
<1> SUFFICES ASSUME Init PROVE TypeOK
  OBVIOUS
<1>1. queue \in [Services -> Seq(Conns)]
  <2>1. <<>> \in Seq(Conns)
    OBVIOUS
  <2> QED
    BY <2>1 DEF Init
<1>2. timer \in Nat /\ elapsed \in 0..(GracePeriod + ExitTimeout)
  BY ServerAssumption DEF Init
<1>3. spawned \in 0..NumServices /\ installed \in 0..Len(Signals)
  BY ServerAssumption DEF Init, Signals
<1>4. service \in [Services -> States] /\ conn \in [Conns -> Fates]
  BY DEF Init, States, Fates
<1>5. pending \subseteq ToSet(Signals) /\ sawSent \in [Services -> BOOLEAN]
  BY DEF Init
<1> QED
  BY <1>1, <1>2, <1>3, <1>4, <1>5 DEF Init, TypeOK, States, Fates

LEMMA TypeNext == TypeOK /\ ClockInv /\ [Next]_vars => TypeOK'
<1> SUFFICES ASSUME TypeOK, ClockInv, [Next]_vars PROVE TypeOK'
  OBVIOUS
<1> USE ServerAssumption
<1> Len(Signals) = 3
  BY DEF Signals
<1>1. CASE KilledBySignal
  BY <1>1, ProcessEndsType DEF KilledBySignal, TypeOK, States, Fates, signalVars
<1>2. CASE SignalArrives
  <2>1. PICK i \in 1..installed : pending' = pending \cup {Signals[i]}
    BY <1>2 DEF SignalArrives
  <2>2. i \in DOMAIN Signals
    BY <2>1 DEF TypeOK, Signals
  <2>3. pending' \subseteq ToSet(Signals)
    BY <2>1, <2>2 DEF ToSet, TypeOK
  <2> QED
    BY <1>2, <2>3 DEF SignalArrives, TypeOK, mainVars, serviceVars, connVars
<1>3. CASE InstallHandler
  BY <1>3 DEF InstallHandler, TypeOK, mainVars, serviceVars, connVars
<1>4. CASE InstallFails
  BY <1>4 DEF InstallFails, TypeOK, mainVars, serviceVars, connVars
<1>5. CASE Fire
  BY <1>5 DEF Fire, TypeOK, mainVars, serviceVars, connVars
<1>6. CASE SenderDropped
  BY <1>6 DEF SenderDropped, TypeOK, mainVars, serviceVars, connVars
<1>7. CASE SpawnService
  BY <1>7 DEF SpawnService, TypeOK, Services, mainVars, connVars, signalVars
<1>8. CASE ShutdownSeen
  BY <1>8 DEF ShutdownSeen, TypeOK, serviceVars, connVars, signalVars
<1>9. CASE Tick
  BY <1>9 DEF Tick, TypeOK, ClockInv, serviceVars, connVars, signalVars
<1>10. CASE GraceOver
  BY <1>10 DEF GraceOver, TypeOK, serviceVars, connVars, signalVars
<1>11. CASE ExitOver
  BY <1>11, ProcessEndsType DEF ExitOver, TypeOK, States, Fates, signalVars
<1>12. ASSUME NEW s \in Services, Bind(s) PROVE TypeOK'
  BY <1>12 DEF Bind, TypeOK, mainVars, connVars, signalVars
<1>13. ASSUME NEW s \in Services, BindFails(s) PROVE TypeOK'
  BY <1>13 DEF BindFails, TypeOK, mainVars, connVars, signalVars
<1>14. ASSUME NEW s \in Services, Accept(s) \/ AcceptFails(s) PROVE TypeOK'
  BY <1>14, TakeNextType DEF Accept, AcceptFails
<1>15. ASSUME NEW s \in Services, Stop(s) PROVE TypeOK'
  BY <1>15 DEF Stop, TypeOK, mainVars, signalVars
<1>16. ASSUME NEW s \in Services, NEW c \in Conns, Connect(s, c) PROVE TypeOK'
  <2>1. queue' \in [Services -> Seq(Conns)]
    BY <1>16 DEF Connect, TypeOK
  <2> QED
    BY <1>16, <2>1 DEF Connect, TypeOK, mainVars, serviceVars, signalVars
<1>17. ASSUME NEW c \in Conns, HandlerEnds(c) PROVE TypeOK'
  BY <1>17 DEF HandlerEnds, TypeOK, mainVars, serviceVars, signalVars
<1>18. CASE UNCHANGED vars
  BY <1>18 DEF vars, TypeOK
<1> QED
  BY <1>1, <1>2, <1>3, <1>4, <1>5, <1>6, <1>7, <1>8, <1>9, <1>10, <1>11, <1>12,
     <1>13, <1>14, <1>15, <1>16, <1>17, <1>18
     DEF Next, SignalTask, MainTask, ServiceTask, Environment

-----------------------------------------------------------------------------
(* The rest of the inductive invariant, conjunct by conjunct.              *)

LEMMA InvInit == Init => Inv
  BY TypeInit, ServerAssumption
     DEF Init, Inv, ClockInv, SpawnInv, ReceiverInv, NoneUpInGrace, WaitsAtListener, Services

\* Only the main task touches its clock, and only the end of the process its process.
LEMMA ClockNext == TypeOK /\ ClockInv /\ [Next]_vars => ClockInv'
<1> SUFFICES ASSUME TypeOK, ClockInv, [Next]_vars PROVE ClockInv'
  OBVIOUS
<1> USE ServerAssumption
<1> timer \in Nat /\ elapsed \in Nat
  BY DEF TypeOK
<1>1. CASE UNCHANGED mainVars
  BY <1>1 DEF ClockInv, mainVars
<1>2. CASE KilledBySignal
  BY <1>2 DEF KilledBySignal, ProcessEnds, ClockInv
<1>3. CASE SpawnService
  BY <1>1, <1>3 DEF SpawnService
<1>4. CASE ShutdownSeen
  BY <1>4 DEF ShutdownSeen, ClockInv
<1>5. CASE Tick
  BY <1>5 DEF Tick, ClockInv
<1>6. CASE GraceOver
  BY <1>6 DEF GraceOver, ClockInv
<1>7. CASE ExitOver
  BY <1>7 DEF ExitOver, ProcessEnds, ClockInv
<1>8. CASE SignalTask \/ SignalArrives
  BY <1>1, <1>8 DEF SignalTask, InstallHandler, InstallFails, Fire, SenderDropped, SignalArrives
<1>9. ASSUME NEW s \in Services, ServiceTask(s) PROVE ClockInv'
  BY <1>1, <1>9 DEF ServiceTask, Bind, BindFails, Accept, AcceptFails, TakeNext, Stop
<1>10. ASSUME NEW c \in Conns, HandlerEnds(c) \/ \E s \in Services : Connect(s, c)
       PROVE  ClockInv'
  BY <1>1, <1>10 DEF HandlerEnds, Connect
<1>11. CASE UNCHANGED vars
  BY <1>1, <1>11 DEF vars, mainVars
<1> QED
  BY <1>2, <1>3, <1>4, <1>5, <1>6, <1>7, <1>8, <1>9, <1>10, <1>11
     DEF Next, MainTask, Environment
LEMMA SpawnNext == TypeOK /\ SpawnInv /\ [Next]_vars => SpawnInv'
<1> SUFFICES ASSUME TypeOK, SpawnInv, [Next]_vars PROVE SpawnInv'
  OBVIOUS
<1> USE ServerAssumption
<1>1. CASE KilledBySignal
  BY <1>1 DEF KilledBySignal, ProcessEnds, SpawnInv, TypeOK, signalVars
<1>2. CASE InstallHandler \/ InstallFails \/ Fire \/ SenderDropped \/ SignalArrives
  BY <1>2 DEF InstallHandler, InstallFails, Fire, SenderDropped, SignalArrives,
              SpawnInv, mainVars, serviceVars
<1>3. CASE SpawnService
  BY <1>3 DEF SpawnService, SpawnInv, TypeOK, Services, mainVars
<1>4. CASE ShutdownSeen
  BY <1>4 DEF ShutdownSeen, Changed, SpawnInv, TypeOK, serviceVars, signalVars
<1>5. CASE Tick
  BY <1>5 DEF Tick, SpawnInv, serviceVars, signalVars
<1>6. CASE GraceOver
  BY <1>6 DEF GraceOver, SpawnInv, serviceVars, signalVars
<1>7. CASE ExitOver
  BY <1>7 DEF ExitOver, ProcessEnds, SpawnInv, TypeOK, signalVars
<1>8. ASSUME NEW s \in Services, Bind(s) \/ BindFails(s) \/ Stop(s) PROVE SpawnInv'
  BY <1>8 DEF Bind, BindFails, Stop, SpawnInv, TypeOK, mainVars, signalVars
<1>9. ASSUME NEW s \in Services, Accept(s) \/ AcceptFails(s) PROVE SpawnInv'
  BY <1>9 DEF Accept, AcceptFails, TakeNext, SpawnInv, mainVars, serviceVars, signalVars
<1>10. ASSUME NEW c \in Conns, HandlerEnds(c) \/ \E s \in Services : Connect(s, c)
       PROVE  SpawnInv'
  BY <1>10 DEF HandlerEnds, Connect, SpawnInv, mainVars, serviceVars, signalVars
<1>11. CASE UNCHANGED vars
  BY <1>11 DEF vars, SpawnInv
<1> QED
  BY <1>1, <1>2, <1>3, <1>4, <1>5, <1>6, <1>7, <1>8, <1>9, <1>10, <1>11
     DEF Next, SignalTask, MainTask, ServiceTask, Environment

\* Only SpawnService clones a receiver.
LEMMA ReceiverNext == TypeOK /\ ReceiverInv /\ [Next]_vars => ReceiverInv'
<1> SUFFICES ASSUME TypeOK, ReceiverInv, [Next]_vars PROVE ReceiverInv'
  OBVIOUS
<1>1. CASE SpawnService
  BY <1>1 DEF SpawnService, ReceiverInv, TypeOK
<1>2. CASE UNCHANGED sawSent
  BY <1>2 DEF ReceiverInv
<1>3. CASE SignalTask \/ Environment
  BY <1>2, <1>3 DEF SignalTask, InstallHandler, InstallFails, Fire, SenderDropped, Environment,
              KilledBySignal, SignalArrives, HandlerEnds, Connect, serviceVars
<1>4. CASE ShutdownSeen \/ Tick \/ GraceOver \/ ExitOver
  BY <1>2, <1>4 DEF ShutdownSeen, Tick, GraceOver, ExitOver, serviceVars
<1>5. ASSUME NEW s \in Services, ServiceTask(s) PROVE ReceiverInv'
  BY <1>2, <1>5 DEF ServiceTask, Bind, BindFails, Accept, AcceptFails, TakeNext, Stop,
              serviceVars
<1>6. CASE UNCHANGED vars
  BY <1>2, <1>6 DEF vars
<1> QED
  BY <1>1, <1>3, <1>4, <1>5, <1>6 DEF Next, MainTask

\* The first tick finds every service stopped or failed, and nothing starts one later.
LEMMA NoneUpNext == Inv /\ [Next]_vars => NoneUpInGrace'
<1> SUFFICES ASSUME Inv, [Next]_vars, elapsed' > 0, NEW s \in Services
             PROVE  service'[s] \notin {"unborn", "starting", "listening"}
  BY DEF NoneUpInGrace
<1> USE ServerAssumption DEF Inv
<1> elapsed \in Nat
  BY DEF TypeOK
<1>1. elapsed > 0 => service[s] \notin {"unborn", "starting", "listening"}
  BY DEF NoneUpInGrace
<1>2. CASE Tick
  <2>1. service[s] # "unborn"
    BY <1>2 DEF Tick, SpawnInv, Services
  <2>2. Changed(sawSent[s])
    BY <1>2 DEF Tick, SpawnInv, ReceiverInv, Changed, TypeOK
  <2> QED
    BY <1>2, <2>1, <2>2 DEF Tick, ServicesIdle, serviceVars
<1>3. CASE KilledBySignal \/ ExitOver
  BY <1>1, <1>3 DEF KilledBySignal, ExitOver, ProcessEnds, TypeOK
<1>4. CASE SpawnService
  BY <1>4 DEF SpawnService, ClockInv, mainVars
<1>5. CASE ShutdownSeen \/ GraceOver
  BY <1>1, <1>5 DEF ShutdownSeen, GraceOver, serviceVars
<1>6. CASE SignalTask \/ SignalArrives
  BY <1>1, <1>6 DEF SignalTask, InstallHandler, InstallFails, Fire, SenderDropped, SignalArrives,
              mainVars, serviceVars
<1>7. ASSUME NEW r \in Services, ServiceTask(r)
      PROVE  service'[s] \notin {"unborn", "starting", "listening"}
  <2>1. elapsed' = elapsed
    BY <1>7 DEF ServiceTask, Bind, BindFails, Accept, AcceptFails, TakeNext, Stop, mainVars
  <2>2. service[r] \notin {"starting", "listening"}
    BY <2>1 DEF NoneUpInGrace
  <2> QED
    BY <1>7, <2>2 DEF ServiceTask, Bind, BindFails, Accept, AcceptFails, TakeNext, Stop
<1>8. ASSUME NEW c \in Conns, HandlerEnds(c) \/ \E r \in Services : Connect(r, c)
      PROVE  service'[s] \notin {"unborn", "starting", "listening"}
  BY <1>1, <1>8 DEF HandlerEnds, Connect, mainVars, serviceVars
<1>9. CASE UNCHANGED vars
  BY <1>1, <1>9 DEF vars
<1> QED
  BY <1>2, <1>3, <1>4, <1>5, <1>6, <1>7, <1>8, <1>9 DEF Next, MainTask, Environment

-----------------------------------------------------------------------------
(* The listeners' queues.                                                  *)

\* A step that neither touches a queue nor stops a listener.
LEMMA QueuesKept ==
  ASSUME TypeOK, WaitsAtListener, UNCHANGED queue,
         \A c \in Conns : conn'[c] = "queued" <=> conn[c] = "queued",
         \A s \in Services : service[s] = "listening" => service'[s] = "listening"
  PROVE  WaitsAtListener'
<1>1. \A s \in Services : \A i \in DOMAIN queue[s] : queue[s][i] \in Conns
  BY DEF TypeOK
<1> QED
  BY <1>1 DEF WaitsAtListener

\* The end of the process empties every queue and resets what stood in it.
LEMMA QueuesAtEnd ==
  ASSUME NEW how, ProcessEnds(how)
  PROVE  WaitsAtListener'
<1>1. \A s \in Services : queue'[s] = <<>>
  BY DEF ProcessEnds
<1>2. \A c \in Conns : conn'[c] # "queued"
  BY DEF ProcessEnds, ConnsAtEnd
<1> QED
  BY <1>1, <1>2 DEF WaitsAtListener

\* The head leaves its queue, and everyone behind it moves up by one.
LEMMA QueuesTakeNext ==
  ASSUME TypeOK, WaitsAtListener, NEW s \in Services, NEW fate \in {"open", "reset"},
         TakeNext(s, fate)
  PROVE  WaitsAtListener'
<1>1. /\ queue[s] \in Seq(Conns) /\ queue[s] # <<>>
      /\ 1 \in DOMAIN queue[s] /\ Head(queue[s]) = queue[s][1] /\ queue[s][1] \in Conns
  BY DEF TakeNext, TypeOK
<1>2. /\ conn' = [conn EXCEPT ![queue[s][1]] = fate]
      /\ service' = service
      /\ \A r \in Services \ {s} : queue'[r] = queue[r]
  BY <1>1 DEF TakeNext, TypeOK, serviceVars
<1>3. /\ DOMAIN queue'[s] = 1..(Len(queue[s]) - 1)
      /\ \A i \in DOMAIN queue'[s] : i + 1 \in DOMAIN queue[s] /\ queue'[s][i] = queue[s][i + 1]
  BY <1>1 DEF TakeNext, TypeOK
<1>4. \A i \in DOMAIN queue[s] : i # 1 => i - 1 \in DOMAIN queue'[s] /\ queue'[s][i - 1] = queue[s][i]
  BY <1>1, <1>3
<1>5. \A r \in Services : \A i \in DOMAIN queue'[r] :
        \E j \in DOMAIN queue[r] : /\ queue'[r][i] = queue[r][j]
                                   /\ j = (IF r = s THEN i + 1 ELSE i)
                                   /\ r = s => j # 1
  BY <1>1, <1>2, <1>3
<1>6. ASSUME NEW r \in Services, NEW i \in DOMAIN queue'[r]
      PROVE  conn'[queue'[r][i]] = "queued"
  <2>1. PICK j \in DOMAIN queue[r] : queue'[r][i] = queue[r][j] /\ (r = s => j # 1)
    BY <1>5, <1>6
  <2>2. conn[queue[r][j]] = "queued" /\ queue[r][j] # queue[s][1]
    BY <1>1, <2>1 DEF WaitsAtListener
  <2>3. queue[r][j] \in Conns
    BY DEF TypeOK
  <2> QED
    BY <1>2, <2>1, <2>2, <2>3 DEF TypeOK
<1>7. ASSUME NEW r \in Services, NEW i \in DOMAIN queue'[r],
             NEW t \in Services, NEW k \in DOMAIN queue'[t], queue'[r][i] = queue'[t][k]
      PROVE  r = t /\ i = k
  <2>1. PICK j \in DOMAIN queue[r] : /\ queue'[r][i] = queue[r][j]
                                     /\ j = (IF r = s THEN i + 1 ELSE i)
    BY <1>5, <1>7
  <2>2. PICK l \in DOMAIN queue[t] : /\ queue'[t][k] = queue[t][l]
                                     /\ l = (IF t = s THEN k + 1 ELSE k)
    BY <1>5, <1>7
  <2>3. queue[r][j] = queue[t][l]
    BY <1>7, <2>1, <2>2
  <2>4. r = t /\ j = l
    BY <2>3 DEF WaitsAtListener
  <2>5. queue'[r] \in Seq(Conns)
    BY TakeNextType DEF TypeOK
  <2>6. i \in Int /\ k \in Int
    BY <2>4, <2>5
  <2> QED
    BY <2>1, <2>2, <2>4, <2>6
<1>8. ASSUME NEW c \in Conns, conn'[c] = "queued"
      PROVE  \E r \in Services : service'[r] = "listening" /\ \E i \in DOMAIN queue'[r] : queue'[r][i] = c
  <2>1. conn[c] = "queued" /\ c # queue[s][1]
    BY <1>1, <1>2, <1>8 DEF TypeOK
  <2>2. PICK r \in Services : service[r] = "listening" /\ \E i \in DOMAIN queue[r] : queue[r][i] = c
    BY <2>1 DEF WaitsAtListener
  <2>3. PICK i \in DOMAIN queue[r] : queue[r][i] = c
    BY <2>2
  <2>4. CASE r = s
    BY <1>2, <1>4, <2>1, <2>2, <2>3, <2>4
  <2>5. CASE r # s
    BY <1>2, <2>2, <2>3, <2>5
  <2> QED
    BY <2>4, <2>5
<1> QED
  BY <1>6, <1>7, <1>8 DEF WaitsAtListener

\* A connection that is in no queue joins the end of one.
LEMMA QueuesConnect ==
  ASSUME TypeOK, WaitsAtListener, NEW s \in Services, NEW c \in Conns, Connect(s, c)
  PROVE  WaitsAtListener'
<1>1. /\ service[s] = "listening" /\ service' = service
      /\ conn[c] # "queued" /\ conn' = [conn EXCEPT ![c] = "queued"]
      /\ \A r \in Services \ {s} : queue'[r] = queue[r]
  BY DEF Connect, serviceVars, TypeOK
<1> DEFINE last == Len(queue[s]) + 1
<1>2. /\ DOMAIN queue'[s] = DOMAIN queue[s] \cup {last}
      /\ queue'[s][last] = c
      /\ last \notin DOMAIN queue[s]
      /\ \A i \in DOMAIN queue[s] : queue'[s][i] = queue[s][i]
  <2>1. queue'[s] = Append(queue[s], c) /\ queue[s] \in Seq(Conns)
    BY DEF Connect, TypeOK
  <2> QED
    BY <2>1
<1> HIDE DEF last
<1>3. ASSUME NEW r \in Services, NEW i \in DOMAIN queue[r]
      PROVE  /\ i \in DOMAIN queue'[r] /\ queue'[r][i] = queue[r][i]
             /\ queue[r][i] \in Conns /\ queue[r][i] # c
  <2>1. queue[r][i] \in Conns
    BY DEF TypeOK
  <2>2. queue[r][i] # c
    BY <1>1 DEF WaitsAtListener
  <2>3. CASE r = s
    BY <1>2, <2>1, <2>2, <2>3
  <2>4. CASE r # s
    BY <1>1, <2>1, <2>2, <2>4
  <2> QED
    BY <2>3, <2>4
<1>4. \A r \in Services : \A i \in DOMAIN queue'[r] : i \in DOMAIN queue[r] \/ (r = s /\ i = last)
  BY <1>1, <1>2
<1>5. \A r \in Services : \A i \in DOMAIN queue'[r] : conn'[queue'[r][i]] = "queued"
  BY <1>1, <1>2, <1>3, <1>4 DEF WaitsAtListener, TypeOK
<1>6. ASSUME NEW r \in Services, NEW i \in DOMAIN queue'[r],
             NEW t \in Services, NEW k \in DOMAIN queue'[t], queue'[r][i] = queue'[t][k]
      PROVE  r = t /\ i = k
  <2>1. CASE i \in DOMAIN queue[r] /\ k \in DOMAIN queue[t]
    BY <1>3, <1>6, <2>1 DEF WaitsAtListener
  <2>2. CASE ~(i \in DOMAIN queue[r] /\ k \in DOMAIN queue[t])
    BY <1>2, <1>3, <1>4, <1>6, <2>2
  <2> QED
    BY <2>1, <2>2
<1>7. ASSUME NEW d \in Conns, conn'[d] = "queued"
      PROVE  \E r \in Services : service'[r] = "listening" /\ \E i \in DOMAIN queue'[r] : queue'[r][i] = d
  <2>1. CASE d = c
    BY <1>1, <1>2, <2>1
  <2>2. CASE d # c
    <3>1. conn[d] = "queued"
      BY <1>1, <1>7, <2>2 DEF TypeOK
    <3> QED
      BY <1>1, <1>3, <3>1 DEF WaitsAtListener
  <2> QED
    BY <2>1, <2>2
<1> QED
  BY <1>5, <1>6, <1>7 DEF WaitsAtListener

\* The listener goes with its whole queue, and nobody else's connection is in that.
LEMMA QueuesStop ==
  ASSUME TypeOK, WaitsAtListener, NEW s \in Services, Stop(s)
  PROVE  WaitsAtListener'
<1>1. \A c \in Conns : c \in ToSet(queue[s]) <=> \E i \in DOMAIN queue[s] : queue[s][i] = c
  BY DEF ToSet
<1>2. /\ \A c \in Conns : conn'[c] = IF c \in ToSet(queue[s]) THEN "reset" ELSE conn[c]
      /\ queue'[s] = <<>>
      /\ \A r \in Services \ {s} : queue'[r] = queue[r] /\ service'[r] = service[r]
  BY DEF Stop, TypeOK
<1>3. DOMAIN queue'[s] = {}
  BY <1>2
<1>4. \A r \in Services \ {s} : \A i \in DOMAIN queue[r] :
        queue[r][i] \in Conns /\ conn'[queue[r][i]] = "queued"
  BY <1>1, <1>2 DEF WaitsAtListener, TypeOK
<1>5. ASSUME NEW c \in Conns, conn'[c] = "queued"
      PROVE  \E r \in Services : service'[r] = "listening" /\ \E i \in DOMAIN queue'[r] : queue'[r][i] = c
  BY <1>1, <1>2, <1>5 DEF WaitsAtListener
<1> QED
  BY <1>2, <1>3, <1>4, <1>5 DEF WaitsAtListener

LEMMA QueuesNext == TypeOK /\ SpawnInv /\ WaitsAtListener /\ [Next]_vars => WaitsAtListener'
<1> SUFFICES ASSUME TypeOK, SpawnInv, WaitsAtListener, [Next]_vars PROVE WaitsAtListener'
  OBVIOUS
<1>1. CASE UNCHANGED <<queue, conn, service>>
  BY <1>1, QueuesKept
<1>2. CASE KilledBySignal \/ ExitOver
  BY <1>2, QueuesAtEnd DEF KilledBySignal, ExitOver
<1>3. CASE SignalTask \/ SignalArrives
  BY <1>1, <1>3 DEF SignalTask, InstallHandler, InstallFails, Fire, SenderDropped, SignalArrives,
              serviceVars, connVars
<1>4. CASE SpawnService
  <2>1. service[spawned + 1] = "unborn"
    BY <1>4, ServerAssumption DEF SpawnService, SpawnInv, TypeOK, Services
  <2> QED
    BY <1>4, <2>1, QueuesKept DEF SpawnService, connVars, TypeOK
<1>5. CASE ShutdownSeen \/ Tick \/ GraceOver
  BY <1>1, <1>5 DEF ShutdownSeen, Tick, GraceOver, serviceVars, connVars
<1>6. ASSUME NEW s \in Services, Bind(s) \/ BindFails(s) PROVE WaitsAtListener'
  BY <1>6, QueuesKept DEF Bind, BindFails, connVars, TypeOK
<1>7. ASSUME NEW s \in Services, Accept(s) \/ AcceptFails(s) PROVE WaitsAtListener'
  BY <1>7, QueuesTakeNext DEF Accept, AcceptFails
<1>8. ASSUME NEW s \in Services, Stop(s) PROVE WaitsAtListener'
  BY <1>8, QueuesStop
<1>9. ASSUME NEW s \in Services, NEW c \in Conns, Connect(s, c) PROVE WaitsAtListener'
  BY <1>9, QueuesConnect
<1>10. ASSUME NEW c \in Conns, HandlerEnds(c) PROVE WaitsAtListener'
  BY <1>10, QueuesKept DEF HandlerEnds, serviceVars, TypeOK
<1>11. CASE UNCHANGED vars
  BY <1>1, <1>11 DEF vars
<1> QED
  BY <1>2, <1>3, <1>4, <1>5, <1>6, <1>7, <1>8, <1>9, <1>10, <1>11
     DEF Next, MainTask, ServiceTask, Environment

\* The inductive invariant.
LEMMA InvAlways == Spec => []Inv
<1>1. Inv /\ [Next]_vars => Inv'
  BY TypeNext, ClockNext, SpawnNext, ReceiverNext, NoneUpNext, QueuesNext DEF Inv
<1> QED
  BY InvInit, <1>1, PTL DEF Spec

-----------------------------------------------------------------------------
(* The theorems.                                                           *)

\* Every variable keeps its type: in particular run() sleeps no longer than the
\* grace period and the exit timeout together.
THEOREM TypeCorrect == Spec => []TypeOK
<1>1. Inv => TypeOK
  BY DEF Inv
<1> QED
  BY <1>1, InvAlways, PTL

\* A shutdown leaves every open connection the whole grace period and the whole exit
\* timeout before the end of the process cuts it.
THEOREM GraceIsGiven == Spec => []CutOnlyAfterGrace
<1>1. Inv => CutOnlyAfterGrace
  BY ServerAssumption DEF Inv, TypeOK, ClockInv, CutOnlyAfterGrace
<1> QED
  BY <1>1, InvAlways, PTL

\* A connection that waits for a handler stands once, in the queue of one service that
\* listens, however the services and the process end.
THEOREM NobodyLeftWaiting == Spec => []WaitsAtListener
<1>1. Inv => WaitsAtListener
  BY DEF Inv
<1> QED
  BY <1>1, InvAlways, PTL

\* Once the grace period runs, no handler starts.
THEOREM NothingAcceptedInGrace == Spec => NoAcceptInGrace
<1> DEFINE Opens == \E c \in Conns : conn[c] # "open" /\ conn'[c] = "open"
<1>1. Inv /\ [Next]_vars /\ elapsed > 0 => ~Opens
  <2> SUFFICES ASSUME Inv, [Next]_vars, elapsed > 0, NEW c \in Conns, conn[c] # "open"
               PROVE  conn'[c] # "open"
    OBVIOUS
  <2>1. \A s \in Services : service[s] # "listening"
    BY DEF Inv, NoneUpInGrace
  <2>2. CASE UNCHANGED connVars
    BY <2>2 DEF connVars
  <2>3. CASE KilledBySignal \/ ExitOver
    BY <2>3 DEF KilledBySignal, ExitOver, ProcessEnds, ConnsAtEnd
  <2>4. CASE SignalTask \/ SignalArrives
    BY <2>2, <2>4 DEF SignalTask, InstallHandler, InstallFails, Fire, SenderDropped,
                SignalArrives
  <2>5. CASE SpawnService \/ ShutdownSeen \/ Tick \/ GraceOver
    BY <2>2, <2>5 DEF SpawnService, ShutdownSeen, Tick, GraceOver
  <2>6. ASSUME NEW s \in Services, ServiceTask(s) PROVE conn'[c] # "open"
    BY <2>1, <2>2, <2>6 DEF ServiceTask, Bind, BindFails, Accept, AcceptFails, TakeNext, Stop
  <2>7. ASSUME NEW d \in Conns, HandlerEnds(d) \/ \E s \in Services : Connect(s, d)
        PROVE  conn'[c] # "open"
    BY <2>1, <2>7 DEF HandlerEnds, Connect, Inv, TypeOK
  <2>8. CASE UNCHANGED vars
    BY <2>2, <2>8 DEF vars, connVars
  <2> QED
    BY <2>3, <2>4, <2>5, <2>6, <2>7, <2>8 DEF Next, MainTask, Environment
<1>2. Inv /\ [Next]_vars =>
        [elapsed > 0 => \A c \in Conns : conn[c] # "open" => conn'[c] # "open"]_vars
  BY <1>1
<1> QED
  BY <1>2, InvAlways, PTL DEF Spec, NoAcceptInGrace

\* A service goes on listening until the channel has something to say or a signal
\* kills the process.
THEOREM ListensOn == Spec => ListensUntilShutdown
<1>1. ASSUME Inv, [Next]_vars, NEW s \in Services,
             service[s] = "listening", service'[s] # "listening"
      PROVE  sent \/ sender = "dropped" \/ process' = "killed"
  <2>1. CASE KilledBySignal
    BY <2>1 DEF KilledBySignal, ProcessEnds
  <2>2. CASE ExitOver
    BY <1>1, <2>2 DEF ExitOver, Inv, SpawnInv
  <2>3. CASE SpawnService
    BY <1>1, <2>3, ServerAssumption DEF SpawnService, Inv, SpawnInv, TypeOK, Services
  <2>4. ASSUME NEW r \in Services, ServiceTask(r)
        PROVE  sent \/ sender = "dropped"
    BY <1>1, <2>4 DEF ServiceTask, Bind, BindFails, Accept, AcceptFails, TakeNext, Stop,
                Changed, serviceVars, Inv, TypeOK, ReceiverInv
  <2>5. CASE UNCHANGED service
    BY <1>1, <2>5
  <2>6. CASE SignalTask \/ SignalArrives \/ ShutdownSeen \/ Tick \/ GraceOver
    BY <2>5, <2>6 DEF SignalTask, InstallHandler, InstallFails, Fire, SenderDropped,
                SignalArrives, ShutdownSeen, Tick, GraceOver, serviceVars
  <2>7. ASSUME NEW c \in Conns, HandlerEnds(c) \/ \E r \in Services : Connect(r, c)
        PROVE  UNCHANGED service
    BY <2>7 DEF HandlerEnds, Connect, serviceVars
  <2>8. CASE UNCHANGED vars
    BY <2>5, <2>8 DEF vars
  <2> QED
    BY <1>1, <2>1, <2>2, <2>3, <2>4, <2>5, <2>6, <2>7, <2>8 DEF Next, MainTask, Environment
<1>2. Inv /\ [Next]_vars =>
        [\A s \in Services :
           service[s] = "listening" /\ service'[s] # "listening" =>
             sent \/ sender = "dropped" \/ process' = "killed"]_vars
  BY <1>1
<1> QED
  BY <1>2, InvAlways, PTL DEF Spec, ListensUntilShutdown
=============================================================================

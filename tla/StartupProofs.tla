--------------------------- MODULE StartupProofs ---------------------------
(***************************************************************************)
(* What Startup builds, for every configuration: whatever the upstreams,   *)
(* the servers and their number, run() starts with one proxy for each      *)
(* server, built from it, or does not start.                               *)
(***************************************************************************)
EXTENDS Startup, TLAPS

\* What proxy i is built from.
Built(i) ==
  /\ Usable(Servers[i])
  /\ ~Unimplemented(Servers[i])
  /\ proxies[i] = Proxy(Servers[i])

Proxies == {Proxy(Servers[i]) : i \in DOMAIN Servers}

\* The proxies are those of a prefix of the servers, and of all of them in run().
PrefixInv ==
  /\ proxies \in Seq(Proxies)
  /\ Len(proxies) <= Len(Servers)
  /\ \A i \in DOMAIN proxies : Built(i)
  /\ phase = "serving" => Len(proxies) = Len(Servers)

Inv == config \in Configs /\ PrefixInv

\* The servers of a configuration are a list of servers, and each that can be built
\* uses an upstream that is one.
LEMMA ServersType ==
  ASSUME config \in Configs
  PROVE  /\ Servers \in Seq(StreamServers(STRING))
         /\ \A i \in DOMAIN Servers :
              Usable(Servers[i]) => UpstreamOf(Servers[i]) \in Upstreams
<1>1. config.stream = NoStream \/ IsStream(config.stream)
  BY ConfigsAssumption DEF IsConfig
<1>2. CASE config.stream = NoStream
  BY <1>2 DEF Servers
<1>3. CASE config.stream # NoStream /\ IsStream(config.stream)
  BY <1>3 DEF Servers, IsStream, Usable, UpstreamOf
<1> QED
  BY <1>1, <1>2, <1>3

-----------------------------------------------------------------------------

LEMMA Initially == Init => Inv
<1> SUFFICES ASSUME Init PROVE Inv
  OBVIOUS
<1>1. config \in Configs /\ proxies = <<>> /\ phase = "loading"
  BY DEF Init
<1>2. Servers \in Seq(StreamServers(STRING))
  BY <1>1, ServersType
<1> QED
  BY <1>1, <1>2 DEF Inv, PrefixInv

\* All of these are about the configuration, which never changes.
LEMMA ConfigKept ==
  ASSUME config' = config
  PROVE  /\ Servers' = Servers
         /\ Proxies' = Proxies
         /\ \A i : /\ Usable(Servers[i]) /\ ~Unimplemented(Servers[i])
                  /\ proxies'[i] = Proxy(Servers[i])
                  => Built(i)'
<1>1. Servers' = Servers
  BY DEF Servers
<1>2. \A srv : UpstreamOf(srv)' = UpstreamOf(srv)
  BY DEF UpstreamOf
<1> QED
  BY <1>1, <1>2 DEF Built, Usable, Unimplemented, Proxy, Proxies, UpstreamOf

\* Only a server that can be used and is implemented is built, and it is the next one.
LEMMA BuiltInOrder == Inv /\ ServerBuilt => PrefixInv'
<1> SUFFICES ASSUME Inv, ServerBuilt PROVE PrefixInv'
  OBVIOUS
<1> DEFINE n == Len(proxies) + 1
<1>1. config' = config /\ phase' = phase /\ phase = "building"
  BY DEF ServerBuilt, Building
<1>2. Servers \in Seq(StreamServers(STRING)) /\ proxies \in Seq(Proxies)
  BY ServersType DEF Inv, PrefixInv
<1>3. n \in DOMAIN Servers
  BY <1>2 DEF ServerBuilt, Building
<1>4. /\ Usable(Servers[n]) /\ ~Unimplemented(Servers[n])
      /\ proxies' = Append(proxies, Proxy(Servers[n]))
  BY DEF ServerBuilt, Current
<1>5. Proxy(Servers[n]) \in Proxies
  BY <1>3 DEF Proxies
<1>6. /\ proxies' \in Seq(Proxies)
      /\ Len(proxies') = n
      /\ proxies'[n] = Proxy(Servers[n])
      /\ \A i \in DOMAIN proxies' : i # n => i \in DOMAIN proxies /\ proxies'[i] = proxies[i]
  BY <1>2, <1>4, <1>5
<1>7. Servers' = Servers /\ Proxies' = Proxies
  BY <1>1, ConfigKept
<1>8. ASSUME NEW i \in DOMAIN proxies' PROVE Built(i)'
  <2>1. /\ Usable(Servers[i]) /\ ~Unimplemented(Servers[i])
        /\ proxies'[i] = Proxy(Servers[i])
    BY <1>4, <1>6, <1>8 DEF Inv, PrefixInv, Built
  <2> QED
    BY <2>1, <1>1, ConfigKept
<1> QED
  BY <1>1, <1>2, <1>3, <1>6, <1>7, <1>8 DEF PrefixInv

\* Everything else leaves the proxies as they are.
LEMMA KeptOtherwise ==
  ASSUME Inv, UNCHANGED <<config, proxies>>,
         phase' = "serving" => phase = "serving" \/ Len(proxies) = Len(Servers)
  PROVE  PrefixInv'
<1>1. \A i \in DOMAIN proxies' : Built(i)'
  BY ConfigKept DEF Inv, PrefixInv, Built
<1> QED
  BY <1>1, ConfigKept DEF Inv, PrefixInv

LEMMA Preserved == Inv /\ [Next]_vars => Inv'
<1> SUFFICES ASSUME Inv, [Next]_vars PROVE Inv'
  OBVIOUS
<1>1. config' \in Configs
  BY DEF Inv, Next, vars, LoadFails, RuntimePanics, RuntimeStarts, ServerRefused,
         ResolverFails, ServerPanics, ServerBuilt, Run, Ends
<1>2. CASE ServerBuilt
  BY <1>1, <1>2, BuiltInOrder DEF Inv
<1>3. CASE ~ServerBuilt
  <2>1. UNCHANGED <<config, proxies>>
    BY <1>3 DEF Next, vars, LoadFails, RuntimePanics, RuntimeStarts, ServerRefused,
                ResolverFails, ServerPanics, Run, Ends
  <2>2. phase' = "serving" => phase = "serving" \/ Len(proxies) = Len(Servers)
    BY <1>3 DEF Next, vars, LoadFails, RuntimePanics, RuntimeStarts, ServerRefused,
                ResolverFails, ServerPanics, Run, Ends
  <2> QED
    BY <1>1, <2>1, <2>2, KeptOtherwise DEF Inv
<1> QED
  BY <1>2, <1>3

LEMMA Invariance == Spec => []Inv
<1> QED
  BY Initially, Preserved, PTL DEF Spec

-----------------------------------------------------------------------------

\* run() starts with all of the configured servers, each as it is configured: the first
\* server that try_from cannot build leaves nothing to run.
THEOREM AllOrNothing == Spec => []ServesAllOrNothing
<1>1. Inv => ServesAllOrNothing
  <2> SUFFICES ASSUME Inv, phase = "serving", NEW i \in DOMAIN Servers
               PROVE  /\ Len(proxies) = Len(Servers)
                      /\ Built(i)
                      /\ Servers[i] \in StreamServers(STRING)
    BY DEF ServesAllOrNothing, Built, Usable, StoreMade, Readable, HasVerifiers,
           HasSigningKey, Proxy, StreamServers, TlsBlocks, Inv, PrefixInv
  <2> QED
    BY ServersType DEF Inv, PrefixInv
<1> QED
  BY <1>1, Invariance, PTL
=============================================================================

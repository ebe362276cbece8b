------------------------------ MODULE Startup ------------------------------
(***************************************************************************)
(* From the start of the process to run(): main, UmayConfig::load, the     *)
(* runtime, and UmayServer::try_from with what it calls (app/config.rs,    *)
(* app/server.rs, tls/credentials.rs).                                     *)
(*                                                                         *)
(* The configuration is a value: its stream block, if any, has upstreams   *)
(* by name and a list of servers.  try_from visits the servers in order    *)
(* and builds one StreamProxy for each, with a TLS store and a load        *)
(* balancer of its own.  The first server it cannot build ends the whole   *)
(* process, in one of three ways: by an error of main (status 1), by an    *)
(* error that run_server only logs (status 0), or by a panic.              *)
(***************************************************************************)
EXTENDS Naturals, Sequences, FiniteSets

CONSTANTS
  Configs,   \* the configurations the process may be started with
  NoStream,  \* Option::None of the stream block
  NoTls      \* Option::None of a server's tls block

LoadBalancers == {"round_robin", "least_conn", "random", "ip_hash", "weighted_round_robin"}

\* A server's address is a literal IP address or a name.
Upstreams ==
  [load_balancer : LoadBalancers,
   service_discovery : {"dns", "local"},
   servers : Seq({"ip", "name"})]

\* What the three files of a tls block hold.  Everything else in the block (enabled,
\* proxy_tls_verify, the protocols, the ciphers) is read by nobody.  The trusted file
\* may hold bytes that are no text, broken PEM, PEM without a certificate, certificates
\* of which none can be a trust anchor ("untrusted"), or at least one that can.
TlsBlocks ==
  [trusted : {"unreadable", "binary", "malformed", "empty", "untrusted", "anchors"},
   certificate : {"unreadable", "pem", "der"},
   key : {"unreadable", "malformed", "empty", "rsa", "ecdsa"}]

StreamServers(Names) ==
  [port : Nat,
   protocol : {"tcp", "udp", "ws", "http"},
   proxy_pass : Names,
   tls : TlsBlocks \cup {NoTls}]

IsStream(st) ==
  /\ DOMAIN st = {"upstreams", "servers"}
  /\ \A name \in DOMAIN st.upstreams : st.upstreams[name] \in Upstreams
  /\ st.servers \in Seq(StreamServers(STRING))

IsConfig(cfg) ==
  /\ cfg.worker_threads \in Nat
  /\ cfg.http \in BOOLEAN
  /\ cfg.stream = NoStream \/ IsStream(cfg.stream)

ASSUME ConfigsAssumption == \A cfg \in Configs : IsConfig(cfg)

VARIABLES
  config,   \* what config/umay.yaml and the environment hold
  phase,    \* "loading", "building" (in try_from), "serving" or "ended"
  proxies,  \* the stream proxies built so far
  status    \* of the process: "none", "failure" (1), "success" (0) or "panic"

vars == <<config, phase, proxies, status>>

Init ==
  /\ config \in Configs
  /\ phase = "loading"
  /\ proxies = <<>>
  /\ status = "none"

Ends(how) ==
  /\ phase' = "ended"
  /\ status' = how
  /\ UNCHANGED <<config, proxies>>

-----------------------------------------------------------------------------
(* main.                                                                   *)

\* validate(): a configuration has a stream block or an http block.
Valid == config.stream # NoStream \/ config.http

\* The file is missing, not a configuration or not valid, or the runtime cannot be built.
LoadFails ==
  /\ phase = "loading"
  /\ Ends("failure")

\* Builder::worker_threads and max_blocking_threads assert that they are not given 0.
RuntimePanics ==
  /\ phase = "loading"
  /\ Valid
  /\ config.worker_threads = 0
  /\ Ends("panic")

RuntimeStarts ==
  /\ phase = "loading"
  /\ Valid
  /\ config.worker_threads > 0
  /\ phase' = "building"
  /\ UNCHANGED <<config, proxies, status>>

-----------------------------------------------------------------------------
(* UmayServer::try_from.                                                   *)

Servers == IF config.stream = NoStream THEN <<>> ELSE config.stream.servers
Current == Servers[Len(proxies) + 1]
UpstreamOf(srv) == config.stream.upstreams[srv.proxy_pass]

\* What create_discovery hands to the balancer: the name of the first server, or the
\* addresses of all of them.  A local address is parsed, not resolved.
Discoverable(up) ==
  IF up.service_discovery = "dns"
  THEN up.servers # <<>>
  ELSE \A i \in DOMAIN up.servers : up.servers[i] = "ip"

\* The readers of TlsConfig: any file that cannot be read is an error.
Readable(tls) == "unreadable" \notin {tls.trusted, tls.certificate, tls.key}

\* create_root_store wants PEM with a certificate, and passes over those that cannot be
\* trust anchors; when none is left, neither verifier can be built.
HasRoots(tls) == tls.trusted \in {"untrusted", "anchors"}
HasVerifiers(tls) == tls.trusted = "anchors"

\* create_certified_key: only an ECDSA key can sign.  The server's certificate is taken
\* as it is, whether it is DER or not and whether it belongs to the key or not.
HasSigningKey(tls) == tls.key = "ecdsa"

\* Store::try_from and Store::new.
StoreMade(tls) ==
  Readable(tls) /\ HasRoots(tls) /\ HasSigningKey(tls) /\ HasVerifiers(tls)

\* Mutant: a server without a TLS block is served in the clear.
UsableWithoutTls(srv) ==
  /\ srv.tls # NoTls => StoreMade(srv.tls)
  /\ srv.proxy_pass \in DOMAIN config.stream.upstreams
  /\ Discoverable(UpstreamOf(srv))

Usable(srv) ==
  /\ srv.tls # NoTls /\ StoreMade(srv.tls)
  /\ srv.proxy_pass \in DOMAIN config.stream.upstreams
  /\ Discoverable(UpstreamOf(srv))

\* create_selector and try_from have a todo!() for these.
Unimplemented(srv) ==
  \/ UpstreamOf(srv).load_balancer = "ip_hash"
  \/ srv.protocol \in {"udp", "http"}

Proxy(srv) ==
  [port |-> srv.port,
   protocol |-> srv.protocol,
   algorithm |-> UpstreamOf(srv).load_balancer,
   discovery |-> UpstreamOf(srv).service_discovery,
   sources |-> IF UpstreamOf(srv).service_discovery = "dns"
               THEN SubSeq(UpstreamOf(srv).servers, 1, 1)
               ELSE UpstreamOf(srv).servers]

Building == phase = "building" /\ Len(proxies) < Len(Servers)

\* Any `?` of the loop: run_server logs the error and returns Ok, and so does main.
ServerRefused ==
  /\ Building
  /\ ~Usable(Current)
  /\ Ends("success")

\* The system's resolver configuration cannot be read.
ResolverFails ==
  /\ Building
  /\ Usable(Current)
  /\ UpstreamOf(Current).service_discovery = "dns"
  /\ Ends("success")

ServerPanics ==
  /\ Building
  /\ Usable(Current)
  /\ Unimplemented(Current)
  /\ Ends("panic")

ServerBuilt ==
  /\ Building
  /\ Usable(Current)
  /\ ~Unimplemented(Current)
  /\ proxies' = Append(proxies, Proxy(Current))
  /\ UNCHANGED <<config, phase, status>>

\* try_from returns; run() starts with what it built.  The http block builds nothing.
Run ==
  /\ phase = "building"
  /\ Len(proxies) = Len(Servers)
  /\ phase' = "serving"
  /\ UNCHANGED <<config, proxies, status>>

Next ==
  \/ LoadFails \/ RuntimePanics \/ RuntimeStarts
  \/ ServerRefused \/ ResolverFails \/ ServerPanics \/ ServerBuilt
  \/ Run

Spec == Init /\ [][Next]_vars /\ WF_vars(Next)

-----------------------------------------------------------------------------
(* Properties.                                                             *)

\* The process serves all that its stream block configures or nothing: run() never
\* starts with a server left out, out of place, without TLS or without its upstream,
\* whichever of several faults try_from meets first.
ServesAllOrNothing ==
  phase = "serving" =>
    /\ Len(proxies) = Len(Servers)
    /\ \A i \in DOMAIN Servers :
         LET srv == Servers[i]
         IN  /\ srv.tls # NoTls
             /\ srv.tls.trusted = "anchors" /\ srv.tls.key = "ecdsa"
             /\ srv.tls.certificate # "unreadable"
             /\ srv.proxy_pass \in DOMAIN config.stream.upstreams
             /\ proxies[i].port = srv.port
             /\ proxies[i].protocol = srv.protocol
             /\ proxies[i].algorithm = UpstreamOf(srv).load_balancer

\* What the documents offer: every algorithm of the README is there, so try_from does not
\* panic, and a proxy balances over all the servers of its upstream, as the sample
\* configuration lists several.
OffersWhatIsDocumented ==
  phase = "serving" \/ status = "panic" =>
    /\ phase = "serving"
    /\ \A i \in DOMAIN proxies : proxies[i].sources = UpstreamOf(Servers[i]).servers
=============================================================================

----------------------------- MODULE MCStartup -----------------------------
(* Startup on small configurations: one upstream, up to two servers that use  *)
(* it or a name that is not configured, and the configurations without a      *)
(* stream block or without worker threads.                                    *)
EXTENDS Startup

MCUpstreams ==
  [load_balancer : {"round_robin", "least_conn", "ip_hash"},
   service_discovery : {"dns", "local"},
   servers : {<<>>, <<"ip">>, <<"name">>, <<"ip", "name">>}]

Good == [trusted |-> "anchors", certificate |-> "der", key |-> "ecdsa"]

\* A block whose files are all right, each of the others with one file that is not, and
\* a certificate that no handshake can use.
MCTls ==
  {NoTls, Good, [Good EXCEPT !.certificate = "pem"]}
    \cup {[Good EXCEPT !.trusted = t] : t \in {"unreadable", "binary", "malformed", "empty", "untrusted"}}
    \cup {[Good EXCEPT !.key = k] : k \in {"unreadable", "malformed", "empty", "rsa"}}
    \cup {[Good EXCEPT !.certificate = "unreadable"]}

MCServers ==
  [port : {9994},
   protocol : {"tcp", "udp"},
   proxy_pass : {"backend", "gone"},
   tls : MCTls]

MCServerLists ==
  {<<>>} \cup {<<srv>> : srv \in MCServers}
    \cup {<<srv, [srv2 EXCEPT !.port = 9984]>> : srv, srv2 \in MCServers}

WithStream ==
  {[worker_threads |-> 4, http |-> FALSE,
    stream |-> [upstreams |-> [name \in {"backend"} |-> up], servers |-> list]] :
     up \in MCUpstreams, list \in MCServerLists}

WithoutStream ==
  [worker_threads : {0, 4}, http : BOOLEAN, stream : {NoStream}]

MCConfigs == WithStream \cup WithoutStream

\* The message_broker of config/umay-base.yaml, and an upstream with the ip hashing that
\* README.md lists, each behind a server whose TLS files are all right.
Documented ==
  {[worker_threads |-> 4, http |-> FALSE,
    stream |->
      [upstreams |->
         [message_broker |-> [load_balancer |-> "round_robin", service_discovery |-> "dns",
                              servers |-> <<"name", "name", "name">>],
          hashed |-> [load_balancer |-> "ip_hash", service_discovery |-> "local",
                      servers |-> <<"ip", "ip">>]],
       servers |->
         <<[port |-> 12345, protocol |-> "tcp", proxy_pass |-> "message_broker", tls |-> Good],
           [port |-> 12346, protocol |-> "tcp", proxy_pass |-> "hashed", tls |-> Good]>>]]}
=============================================================================

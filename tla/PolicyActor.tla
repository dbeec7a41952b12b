------------------------------ MODULE PolicyActor ------------------------------
(***************************************************************************)
(* The proxy's PolicyActor (armour-proxy/src/policy.rs): the requests of   *)
(* the data-plane host, which start and stop the HTTP and TCP proxies,     *)
(* install policies and maintain labels.  Starting a proxy is an           *)
(* asynchronous step during which the actor handles nothing else           *)
(* (.wait(ctx)).  The requests that proxies send to this actor are in      *)
(* HttpProxy and TcpProxy, which extend this module.                       *)
(*                                                                         *)
(* CPOnboard, Timeout and label requests whose URI does not parse change   *)
(* nothing of this state (they write to the host, or set the upstream      *)
(* timeout, which is nondeterministic in HttpProxy): they are stutters.    *)
(***************************************************************************)
EXTENDS Identity, Policies

CONSTANTS
  HttpPolicies,   \* HTTP policies the host may install
  TcpPolicies,    \* TCP policies the host may install
  Ingress,        \* addresses an HTTP proxy may be an ingress for
  MaxOps          \* bound on the number of requests of the host

ASSUME PoliciesAssumption ==
  /\ \A fp \in HttpPolicies :
       DOMAIN fp \subseteq HttpFns /\ \A f \in DOMAIN fp : fp[f] \in FnPolicy
  /\ \A fp \in TcpPolicies :
       DOMAIN fp \subseteq TcpFns /\ \A f \in DOMAIN fp : fp[f] \in FnPolicy

ASSUME NoneNotPolicy == /\ None \notin HttpPolicies
                        /\ None \notin TcpPolicies
                        /\ None \notin Ingress

ASSUME MaxOpsAssumption == MaxOps \in Nat

VARIABLES
  http,       \* HttpPolicy: policy, status (request, response, allow_all), proxy
  tcp,        \* TcpPolicy: policy, status (connect, disconnect), proxy
  starting,   \* the start_proxy future the actor waits for, or None
  running,    \* the actix System runs
  sockets,    \* [Ports -> who holds the listening socket of the port]
  reported,   \* the policy hashes the host was last told
  ops         \* requests of the host handled so far

ctlVars == <<http, tcp, starting, running, sockets, reported, ops>>
actorVars == <<idVars, ctlVars>>

SocketStates == {"free", "http", "tcp", "closing", "leaked"}

Starting == [proto : {"http", "tcp"}, port : Ports, ingress : Ingress \cup {None}]

ASSUME NoneNotStarting == None \notin Starting

\* Variant: the copies of the status are taken from the policy that is replaced.
http_set_policy_Stale(h, fp) ==
  LET req == fn_get(h.policy, "allow_rest_request")
      res == fn_get(h.policy, "allow_rest_response")
  IN  [h EXCEPT !.policy = fp, !.request = req, !.response = res,
                !.allow_all = (req = Allow /\ res = Allow)]

\* The fields of HttpPolicy and TcpPolicy that set_policy assigns.
http_set_policy(h, fp) ==
  LET req == fn_get(fp, "allow_rest_request")
      res == fn_get(fp, "allow_rest_response")
  IN  [h EXCEPT !.policy = fp, !.request = req, !.response = res,
                !.allow_all = (req = Allow /\ res = Allow)]

tcp_set_policy(t, fp) ==
  [t EXCEPT !.policy = fp,
            !.connect = fn_get(fp, "allow_tcp_connection"),
            !.disconnect = fn_get(fp, "on_tcp_disconnect")]

ActorInit ==
  /\ IdInit
  /\ http = [policy |-> deny_all(HttpFns), request |-> Deny, response |-> Deny,
             allow_all |-> FALSE, port |-> None, ingress |-> None]
  /\ tcp = [policy |-> deny_all(TcpFns), connect |-> Deny, disconnect |-> Deny,
            port |-> None]
  /\ starting = None
  /\ running = TRUE
  /\ sockets = [p \in Ports |-> "free"]
  /\ reported = [http |-> deny_all(HttpFns), tcp |-> deny_all(TcpFns)]
  /\ ops = 0

\* The actor takes messages unless it waits for a proxy to start.
Ready == running /\ starting = None

HostRequest == /\ Ready
               /\ ops < MaxOps
               /\ ops' = ops + 1

-----------------------------------------------------------------------------
(***************************************************************************)
(* Stopping.  server.stop(true) closes the HTTP listener later on.  The    *)
(* TCP listener was leaked with Box::leak when the proxy started, so its   *)
(* socket stays open when the TcpDataServer actor stops.                   *)
(***************************************************************************)
http_stopped(h) == [h EXCEPT !.port = None, !.ingress = None]
tcp_stopped(t) == [t EXCEPT !.port = None]

AfterHttpStop(s) ==
  [p \in Ports |-> IF p = http.port THEN "closing" ELSE s[p]]
AfterTcpStop(s) ==
  [p \in Ports |-> IF p = tcp.port THEN "leaked" ELSE s[p]]

\* Stop of a proxy that does not run is answered RequestFailed.
StopHttp ==
  /\ HostRequest
  /\ http' = http_stopped(http)
  /\ sockets' = AfterHttpStop(sockets)
  /\ UNCHANGED <<idVars, tcp, starting, running, reported>>

StopTcp ==
  /\ HostRequest
  /\ tcp' = tcp_stopped(tcp)
  /\ sockets' = AfterTcpStop(sockets)
  /\ UNCHANGED <<idVars, http, starting, running, reported>>

\* The HTTP server closes its listener some time after stop.
HttpListenerClosed ==
  \E p \in Ports :
    /\ running
    /\ sockets[p] = "closing"
    /\ sockets' = [sockets EXCEPT ![p] = "free"]
    /\ UNCHANGED <<idVars, http, tcp, starting, running, reported, ops>>

-----------------------------------------------------------------------------
\* Variant: the proxy that runs is not stopped first.
StartHttp_NoStop(p, ingress) ==
  /\ HostRequest
  /\ p # http.port
  /\ starting' = [proto |-> "http", port |-> p, ingress |-> ingress]
  /\ UNCHANGED <<idVars, http, tcp, running, sockets, reported>>

(***************************************************************************)
(* Starting.  Both handlers compare the port with the port of the HTTP     *)
(* proxy, stop the proxy of their own protocol and wait for start_proxy.   *)
(***************************************************************************)
StartHttp(p, ingress) ==
  /\ HostRequest
  /\ p # http.port
  /\ http' = http_stopped(http)
  /\ sockets' = AfterHttpStop(sockets)
  /\ starting' = [proto |-> "http", port |-> p, ingress |-> ingress]
  /\ UNCHANGED <<idVars, tcp, running, reported>>

StartTcp(p) ==
  /\ HostRequest
  /\ p # http.port
  /\ tcp' = tcp_stopped(tcp)
  /\ sockets' = AfterTcpStop(sockets)
  /\ starting' = [proto |-> "tcp", port |-> p, ingress |-> None]
  /\ UNCHANGED <<idVars, http, running, reported>>

\* start_proxy could bind: the port's socket was free.
StartOk ==
  /\ running
  /\ starting # None
  /\ sockets[starting.port] = "free"
  /\ sockets' = [sockets EXCEPT ![starting.port] = starting.proto]
  /\ IF starting.proto = "http"
     THEN /\ http' = [http EXCEPT !.port = starting.port,
                                  !.ingress = starting.ingress]
          /\ UNCHANGED tcp
     ELSE /\ tcp' = [tcp EXCEPT !.port = starting.port]
          /\ UNCHANGED http
  /\ starting' = None
  /\ UNCHANGED <<idVars, running, reported, ops>>

\* start_proxy failed, for want of the port or of the resolver: only a warning.
StartFailed ==
  /\ running
  /\ starting # None
  /\ starting' = None
  /\ UNCHANGED <<idVars, http, tcp, running, sockets, reported, ops>>

\* RequestFailed: an HTTP proxy runs on the port already.
StartRefused(p) ==
  /\ HostRequest
  /\ p = http.port
  /\ UNCHANGED <<idVars, http, tcp, starting, running, sockets, reported>>

-----------------------------------------------------------------------------
(***************************************************************************)
(* SetPolicy: installs the TCP policy if there is one, then the HTTP one,  *)
(* and reports the hash of each (UpdatedPolicy).                           *)
(***************************************************************************)
SetPolicy(t, h) ==
  /\ HostRequest
  /\ tcp' = IF t = None THEN tcp ELSE tcp_set_policy(tcp, t)
  /\ http' = IF h = None THEN http ELSE http_set_policy(http, h)
  /\ reported' = [http |-> IF h = None THEN reported.http ELSE h,
                  tcp  |-> IF t = None THEN reported.tcp ELSE t]
  /\ UNCHANGED <<idVars, starting, running, sockets>>

Label ==
  /\ HostRequest
  /\ handle_label_op
  /\ UNCHANGED <<http, tcp, starting, running, sockets, reported>>

\* Status reports both policies, from which the host takes the hashes.
Status ==
  /\ HostRequest
  /\ reported' = [http |-> http.policy, tcp |-> tcp.policy]
  /\ UNCHANGED <<idVars, http, tcp, starting, running, sockets>>

\* Shutdown, and the end of the stream from the host: the System stops.
Shutdown ==
  /\ Ready
  /\ running' = FALSE
  /\ UNCHANGED <<idVars, http, tcp, starting, sockets, reported, ops>>

-----------------------------------------------------------------------------
HostStep ==
  \/ StopHttp
  \/ StopTcp
  \/ \E p \in Ports, i \in Ingress \cup {None} : StartHttp(p, i)
  \/ \E p \in Ports : StartTcp(p)
  \/ \E p \in Ports : StartRefused(p)
  \/ Label
  \/ Status

ServerStep == StartOk \/ StartFailed \/ HttpListenerClosed

ActorNext ==
  \/ HostStep
  \/ \E t \in TcpPolicies \cup {None}, h \in HttpPolicies \cup {None} : SetPolicy(t, h)
  \/ ServerStep
  \/ Shutdown

ActorSpec == ActorInit /\ [][ActorNext]_actorVars

-----------------------------------------------------------------------------
Installed(fns, ps) == ps \cup {deny_all(fns)}

ActorTypeOK ==
  /\ IdTypeOK
  /\ http \in [policy : Installed(HttpFns, HttpPolicies),
               request : FnPolicy, response : FnPolicy, allow_all : BOOLEAN,
               port : Ports \cup {None}, ingress : Ingress \cup {None}]
  /\ tcp \in [policy : Installed(TcpFns, TcpPolicies),
              connect : FnPolicy, disconnect : FnPolicy,
              port : Ports \cup {None}]
  /\ starting \in Starting \cup {None}
  /\ running \in BOOLEAN
  /\ sockets \in [Ports -> SocketStates]
  /\ reported \in [http : Installed(HttpFns, HttpPolicies),
                   tcp  : Installed(TcpFns, TcpPolicies)]
  /\ ops \in 0..MaxOps

(***************************************************************************)
(* The actor's view of its proxies is the truth about the sockets: the     *)
(* proxy it believes to run on a port is the one that listens there, and   *)
(* no other socket is in use by that protocol.  Restarting on another      *)
(* port, a failed start and a stop all keep it (http.stop and tcp.stop in  *)
(* StartHttp and StartTcp, policy.rs).                                     *)
(***************************************************************************)
OneServerPerProtocol ==
  /\ {p \in Ports : sockets[p] = "http"} = {http.port} \ {None}
  /\ {p \in Ports : sockets[p] = "tcp"} = {tcp.port} \ {None}

(***************************************************************************)
(* What a connection is checked against (the FnPolicy copies in the        *)
(* status) and what the host was last told (Connect, UpdatedPolicy,        *)
(* Status) are both the policy whose program is evaluated.                 *)
(***************************************************************************)
PolicyViewsAgree ==
  /\ reported = [http |-> http.policy, tcp |-> tcp.policy]
  /\ http.request = fn_get(http.policy, "allow_rest_request")
  /\ http.response = fn_get(http.policy, "allow_rest_response")
  /\ http.allow_all <=> (http.request = Allow /\ http.response = Allow)
  /\ tcp.connect = fn_get(tcp.policy, "allow_tcp_connection")
  /\ tcp.disconnect = fn_get(tcp.policy, "on_tcp_disconnect")
=============================================================================

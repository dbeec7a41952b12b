--------------------------- MODULE PolicyActorProofs ---------------------------
(***************************************************************************)
(* Proofs about PolicyActor, for every set of ports, policies and          *)
(* ingresses and any number of requests of the host.                       *)
(***************************************************************************)
EXTENDS PolicyActor, IdentityProofs

\* The proxy of the protocol that is being started does not run: StartHttp and
\* StartTcp stop it before they wait.
StartsStopped ==
  starting # None =>
    /\ starting.proto = "http" => http.port = None
    /\ starting.proto = "tcp" => tcp.port = None

(***************************************************************************)
(* The inductive invariant.  OneServerPerProtocol alone is not inductive:  *)
(* StartOk adds a listener and needs that there was none.                  *)
(***************************************************************************)
ActorInv == /\ ActorTypeOK
            /\ OneServerPerProtocol
            /\ PolicyViewsAgree
            /\ StartsStopped

\* Looking up a function of a policy gives an FnPolicy, Deny by default.
LEMMA FnGetType ==
  /\ \A fp \in Installed(HttpFns, HttpPolicies), f \in HttpFns : fn_get(fp, f) \in FnPolicy
  /\ \A fp \in Installed(TcpFns, TcpPolicies), f \in TcpFns : fn_get(fp, f) \in FnPolicy
<1>1. Deny \in FnPolicy
  BY DEF FnPolicy
<1>2. ASSUME NEW fns, NEW f \in fns
      PROVE  fn_get(deny_all(fns), f) = Deny
  BY DEF fn_get, deny_all
<1>3. ASSUME NEW fp \in HttpPolicies, NEW f \in HttpFns
      PROVE  fn_get(fp, f) \in FnPolicy
  BY <1>1, PoliciesAssumption DEF fn_get, DefaultFnPolicy
<1>4. ASSUME NEW fp \in TcpPolicies, NEW f \in TcpFns
      PROVE  fn_get(fp, f) \in FnPolicy
  BY <1>1, PoliciesAssumption DEF fn_get, DefaultFnPolicy
<1>5. QED BY <1>1, <1>2, <1>3, <1>4 DEF Installed

\* The request counter stays within its bound.
LEMMA HostRequestOps ==
  ASSUME ActorTypeOK, HostRequest
  PROVE  /\ running /\ starting = None /\ running = TRUE
         /\ ops' \in 0..MaxOps
BY MaxOpsAssumption DEF ActorTypeOK, HostRequest, Ready

LEMMA ActorInitInv == ActorInit => ActorInv
<1> SUFFICES ASSUME ActorInit PROVE ActorInv
  OBVIOUS
<1>1. IdTypeOK
  BY IdInitInv DEF ActorInit, IdInv
<1>2. Deny \in FnPolicy /\ Deny # Allow
  BY DEF FnPolicy, Deny, Allow
<1>3. ActorTypeOK
  BY <1>1, <1>2, MaxOpsAssumption DEF ActorInit, ActorTypeOK, Installed, SocketStates
<1>4. OneServerPerProtocol
  BY DEF ActorInit, OneServerPerProtocol
<1>5. PolicyViewsAgree
  BY <1>2 DEF ActorInit, PolicyViewsAgree, fn_get, deny_all, HttpFns, TcpFns
<1>6. QED BY <1>3, <1>4, <1>5 DEF ActorInv, StartsStopped, ActorInit

-----------------------------------------------------------------------------
\* The identity part is unaffected by steps that leave its variables alone.
LEMMA IdUnchanged == ASSUME IdTypeOK, UNCHANGED idVars PROVE IdTypeOK'
BY DEF IdTypeOK, idVars

\* Stopping the HTTP proxy frees its protocol and touches nothing else.
LEMMA HttpStopped ==
  ASSUME ActorInv, http' = http_stopped(http), sockets' = AfterHttpStop(sockets)
  PROVE  /\ http' \in [policy : Installed(HttpFns, HttpPolicies),
                       request : FnPolicy, response : FnPolicy, allow_all : BOOLEAN,
                       port : Ports \cup {None}, ingress : Ingress \cup {None}]
         /\ http'.port = None
         /\ http'.policy = http.policy /\ http'.request = http.request
         /\ http'.response = http.response /\ http'.allow_all = http.allow_all
         /\ sockets' \in [Ports -> SocketStates]
         /\ {p \in Ports : sockets'[p] = "http"} = {}
         /\ {p \in Ports : sockets'[p] = "tcp"} = {p \in Ports : sockets[p] = "tcp"}
<1>1. /\ http \in [policy : Installed(HttpFns, HttpPolicies),
                   request : FnPolicy, response : FnPolicy, allow_all : BOOLEAN,
                   port : Ports \cup {None}, ingress : Ingress \cup {None}]
      /\ sockets \in [Ports -> SocketStates]
  BY DEF ActorInv, ActorTypeOK
<1>2. {p \in Ports : sockets[p] = "http"} = {http.port} \ {None}
  BY DEF ActorInv, OneServerPerProtocol
<1>3. \A p \in Ports : sockets[p] = "http" <=> p = http.port
  BY <1>2, NoneAssumption
<1>4. \A p \in Ports : sockets'[p] = IF p = http.port THEN "closing" ELSE sockets[p]
  BY DEF AfterHttpStop
<1>5. \A p \in Ports : sockets'[p] # "http" /\ (sockets'[p] = "tcp" <=> sockets[p] = "tcp")
  BY <1>3, <1>4
<1>6. sockets' \in [Ports -> SocketStates]
  BY <1>1 DEF AfterHttpStop, SocketStates
<1>7. QED BY <1>1, <1>5, <1>6 DEF http_stopped

\* The same for the TCP proxy, whose listener leaks.
LEMMA TcpStopped ==
  ASSUME ActorInv, tcp' = tcp_stopped(tcp), sockets' = AfterTcpStop(sockets)
  PROVE  /\ tcp' \in [policy : Installed(TcpFns, TcpPolicies),
                      connect : FnPolicy, disconnect : FnPolicy, port : Ports \cup {None}]
         /\ tcp'.port = None
         /\ tcp'.policy = tcp.policy /\ tcp'.connect = tcp.connect
         /\ tcp'.disconnect = tcp.disconnect
         /\ sockets' \in [Ports -> SocketStates]
         /\ {p \in Ports : sockets'[p] = "tcp"} = {}
         /\ {p \in Ports : sockets'[p] = "http"} = {p \in Ports : sockets[p] = "http"}
<1>1. /\ tcp \in [policy : Installed(TcpFns, TcpPolicies),
                  connect : FnPolicy, disconnect : FnPolicy, port : Ports \cup {None}]
      /\ sockets \in [Ports -> SocketStates]
  BY DEF ActorInv, ActorTypeOK
<1>2. {p \in Ports : sockets[p] = "tcp"} = {tcp.port} \ {None}
  BY DEF ActorInv, OneServerPerProtocol
<1>3. \A p \in Ports : sockets[p] = "tcp" <=> p = tcp.port
  BY <1>2, NoneAssumption
<1>4. \A p \in Ports : sockets'[p] = IF p = tcp.port THEN "leaked" ELSE sockets[p]
  BY DEF AfterTcpStop
<1>5. \A p \in Ports : sockets'[p] # "tcp" /\ (sockets'[p] = "http" <=> sockets[p] = "http")
  BY <1>3, <1>4
<1>6. sockets' \in [Ports -> SocketStates]
  BY <1>1 DEF AfterTcpStop, SocketStates
<1>7. QED BY <1>1, <1>5, <1>6 DEF tcp_stopped

-----------------------------------------------------------------------------
\* Stops, and starts up to the wait.
LEMMA StopStartInv ==
  ASSUME ActorInv,
         \/ StopHttp \/ StopTcp
         \/ \E p \in Ports, i \in Ingress \cup {None} : StartHttp(p, i)
         \/ \E p \in Ports : StartTcp(p)
  PROVE  ActorInv'
<1> USE DEF ActorInv
<1>1. HostRequest
  BY DEF StopHttp, StopTcp, StartHttp, StartTcp
<1>2. /\ running = TRUE /\ starting = None /\ ops' \in 0..MaxOps
  BY <1>1, HostRequestOps
<1>3. ASSUME http' = http_stopped(http), sockets' = AfterHttpStop(sockets),
             UNCHANGED <<idVars, tcp, running, reported>>,
             \/ starting' = None
             \/ \E p \in Ports, i \in Ingress \cup {None} :
                  starting' = [proto |-> "http", port |-> p, ingress |-> i]
      PROVE  ActorInv'
  <2>1. IdTypeOK'
    BY <1>3, IdUnchanged DEF ActorTypeOK
  <2>2. starting' \in Starting \cup {None}
    BY <1>3 DEF Starting
  <2>3. ActorTypeOK'
    BY <1>2, <1>3, <2>1, <2>2, HttpStopped DEF ActorTypeOK
  <2>4. OneServerPerProtocol'
    BY <1>3, HttpStopped DEF OneServerPerProtocol
  <2>5. PolicyViewsAgree'
    BY <1>3, HttpStopped DEF PolicyViewsAgree
  <2>6. StartsStopped'
    BY <1>3, HttpStopped DEF StartsStopped
  <2>7. QED BY <2>3, <2>4, <2>5, <2>6
<1>4. ASSUME tcp' = tcp_stopped(tcp), sockets' = AfterTcpStop(sockets),
             UNCHANGED <<idVars, http, running, reported>>,
             \/ starting' = None
             \/ \E p \in Ports : starting' = [proto |-> "tcp", port |-> p, ingress |-> None]
      PROVE  ActorInv'
  <2>1. IdTypeOK'
    BY <1>4, IdUnchanged DEF ActorTypeOK
  <2>2. starting' \in Starting \cup {None}
    BY <1>4 DEF Starting
  <2>3. ActorTypeOK'
    BY <1>2, <1>4, <2>1, <2>2, TcpStopped DEF ActorTypeOK
  <2>4. OneServerPerProtocol'
    BY <1>4, TcpStopped DEF OneServerPerProtocol
  <2>5. PolicyViewsAgree'
    BY <1>4, TcpStopped DEF PolicyViewsAgree
  <2>6. StartsStopped'
    BY <1>4, TcpStopped DEF StartsStopped
  <2>7. QED BY <2>3, <2>4, <2>5, <2>6
<1>5. CASE StopHttp
  BY <1>2, <1>3, <1>5 DEF StopHttp
<1>6. CASE StopTcp
  BY <1>2, <1>4, <1>6 DEF StopTcp
<1>7. ASSUME NEW p \in Ports, NEW i \in Ingress \cup {None}, StartHttp(p, i)
      PROVE  ActorInv'
  BY <1>3, <1>7 DEF StartHttp
<1>8. ASSUME NEW p \in Ports, StartTcp(p)
      PROVE  ActorInv'
  BY <1>4, <1>8 DEF StartTcp
<1>9. QED BY <1>5, <1>6, <1>7, <1>8

\* The end of a start, and the listener that closes late.
LEMMA ServerStepInv == ASSUME ActorInv, ServerStep PROVE ActorInv'
<1> USE DEF ActorInv
<1>1. CASE StartOk
  <2> USE <1>1
  <2>1. starting \in Starting /\ starting.port \in Ports /\ starting.proto \in {"http", "tcp"}
    BY DEF StartOk, ActorTypeOK, Starting
  <2>2. IdTypeOK'
    BY IdUnchanged DEF StartOk, ActorTypeOK
  <2>3. sockets' \in [Ports -> SocketStates]
    BY <2>1 DEF StartOk, ActorTypeOK, SocketStates
  <2>4. /\ sockets'[starting.port] = starting.proto
        /\ \A p \in Ports : p # starting.port => sockets'[p] = sockets[p]
        /\ sockets[starting.port] = "free"
    BY <2>1 DEF StartOk, ActorTypeOK
  <2>5. CASE starting.proto = "http"
    <3>1. http' = [http EXCEPT !.port = starting.port, !.ingress = starting.ingress]
          /\ tcp' = tcp
      BY <2>5 DEF StartOk
    <3>2. http.port = None
      BY <2>5 DEF StartsStopped, StartOk
    <3>3. \A p \in Ports : sockets[p] # "http"
      BY <3>2 DEF OneServerPerProtocol
    <3>4. starting.ingress \in Ingress \cup {None}
      BY <2>1 DEF Starting
    <3>5. ActorTypeOK'
      BY <2>1, <2>2, <2>3, <3>1, <3>4 DEF ActorTypeOK, StartOk
    <3>6. http'.port = starting.port
      BY <3>1 DEF ActorTypeOK
    <3>7. OneServerPerProtocol'
      <4>1. {p \in Ports : sockets'[p] = "http"} = {http'.port} \ {None}
        BY <2>1, <2>4, <2>5, <3>3, <3>6, NoneAssumption
      <4>2. {p \in Ports : sockets'[p] = "tcp"} = {p \in Ports : sockets[p] = "tcp"}
        BY <2>4, <2>5
      <4>3. QED BY <3>1, <4>1, <4>2 DEF OneServerPerProtocol
    <3>8. PolicyViewsAgree'
      BY <3>1 DEF ActorTypeOK, PolicyViewsAgree, StartOk
    <3>9. QED BY <3>5, <3>7, <3>8 DEF StartsStopped, StartOk
  <2>6. CASE starting.proto = "tcp"
    <3>1. tcp' = [tcp EXCEPT !.port = starting.port] /\ http' = http
      BY <2>6 DEF StartOk
    <3>2. tcp.port = None
      BY <2>6 DEF StartsStopped, StartOk
    <3>3. \A p \in Ports : sockets[p] # "tcp"
      BY <3>2 DEF OneServerPerProtocol
    <3>5. ActorTypeOK'
      BY <2>1, <2>2, <2>3, <3>1 DEF ActorTypeOK, StartOk
    <3>6. tcp'.port = starting.port
      BY <3>1 DEF ActorTypeOK
    <3>7. OneServerPerProtocol'
      <4>1. {p \in Ports : sockets'[p] = "tcp"} = {tcp'.port} \ {None}
        BY <2>1, <2>4, <2>6, <3>3, <3>6, NoneAssumption
      <4>2. {p \in Ports : sockets'[p] = "http"} = {p \in Ports : sockets[p] = "http"}
        BY <2>4, <2>6
      <4>3. QED BY <3>1, <4>1, <4>2 DEF OneServerPerProtocol
    <3>8. PolicyViewsAgree'
      BY <3>1 DEF ActorTypeOK, PolicyViewsAgree, StartOk
    <3>9. QED BY <3>5, <3>7, <3>8 DEF StartsStopped, StartOk
  <2>7. QED BY <2>1, <2>5, <2>6
<1>2. CASE StartFailed
  <2>1. IdTypeOK'
    BY <1>2, IdUnchanged DEF StartFailed, ActorTypeOK
  <2>2. QED
    BY <1>2, <2>1 DEF StartFailed, ActorTypeOK, OneServerPerProtocol, PolicyViewsAgree,
                      StartsStopped
<1>3. CASE HttpListenerClosed
  <2>1. PICK p \in Ports : /\ sockets[p] = "closing"
                           /\ sockets' = [sockets EXCEPT ![p] = "free"]
                           /\ UNCHANGED <<idVars, http, tcp, starting, running, reported, ops>>
    BY <1>3 DEF HttpListenerClosed
  <2>2. IdTypeOK'
    BY <2>1, IdUnchanged DEF ActorTypeOK
  <2>3. ActorTypeOK'
    BY <2>1, <2>2 DEF ActorTypeOK, SocketStates
  <2>4. \A q \in Ports : /\ sockets'[q] = "http" <=> sockets[q] = "http"
                         /\ sockets'[q] = "tcp" <=> sockets[q] = "tcp"
    BY <2>1 DEF ActorTypeOK
  <2>5. OneServerPerProtocol'
    BY <2>1, <2>4 DEF OneServerPerProtocol
  <2>6. QED BY <2>1, <2>3, <2>5 DEF PolicyViewsAgree, StartsStopped
<1>4. QED BY <1>1, <1>2, <1>3 DEF ServerStep

\* Installing policies: both copies in the status and both reports follow.
LEMMA SetPolicyInv ==
  ASSUME ActorInv, NEW t \in TcpPolicies \cup {None}, NEW h \in HttpPolicies \cup {None},
         SetPolicy(t, h)
  PROVE  ActorInv'
<1> USE DEF ActorInv
<1>1. /\ running = TRUE /\ starting = None /\ ops' \in 0..MaxOps
  BY HostRequestOps DEF SetPolicy
<1>2. IdTypeOK'
  BY IdUnchanged DEF SetPolicy, ActorTypeOK
<1>3. /\ http' \in [policy : Installed(HttpFns, HttpPolicies),
                    request : FnPolicy, response : FnPolicy, allow_all : BOOLEAN,
                    port : Ports \cup {None}, ingress : Ingress \cup {None}]
      /\ http'.port = http.port
      /\ http'.policy = IF h = None THEN http.policy ELSE h
      /\ http'.request = fn_get(http'.policy, "allow_rest_request")
      /\ http'.response = fn_get(http'.policy, "allow_rest_response")
      /\ http'.allow_all <=> (http'.request = Allow /\ http'.response = Allow)
  <2>1. http \in [policy : Installed(HttpFns, HttpPolicies),
                  request : FnPolicy, response : FnPolicy, allow_all : BOOLEAN,
                  port : Ports \cup {None}, ingress : Ingress \cup {None}]
    BY DEF ActorTypeOK
  <2>2. CASE h = None
    <3>1. http' = http
      BY <2>2 DEF SetPolicy
    <3>2. QED BY <2>1, <2>2, <3>1 DEF PolicyViewsAgree
  <2>3. CASE h # None
    <3>1. http' = http_set_policy(http, h)
      BY <2>3 DEF SetPolicy
    <3>2. h \in Installed(HttpFns, HttpPolicies)
      BY <2>3 DEF Installed
    <3>3. /\ fn_get(h, "allow_rest_request") \in FnPolicy
          /\ fn_get(h, "allow_rest_response") \in FnPolicy
      BY <3>2, FnGetType DEF HttpFns
    <3>4. QED BY <2>1, <2>3, <3>1, <3>2, <3>3 DEF http_set_policy
  <2>4. QED BY <2>2, <2>3
<1>4. /\ tcp' \in [policy : Installed(TcpFns, TcpPolicies),
                   connect : FnPolicy, disconnect : FnPolicy, port : Ports \cup {None}]
      /\ tcp'.port = tcp.port
      /\ tcp'.policy = IF t = None THEN tcp.policy ELSE t
      /\ tcp'.connect = fn_get(tcp'.policy, "allow_tcp_connection")
      /\ tcp'.disconnect = fn_get(tcp'.policy, "on_tcp_disconnect")
  <2>1. tcp \in [policy : Installed(TcpFns, TcpPolicies),
                 connect : FnPolicy, disconnect : FnPolicy, port : Ports \cup {None}]
    BY DEF ActorTypeOK
  <2>2. CASE t = None
    <3>1. tcp' = tcp
      BY <2>2 DEF SetPolicy
    <3>2. QED BY <2>1, <2>2, <3>1 DEF PolicyViewsAgree
  <2>3. CASE t # None
    <3>1. tcp' = tcp_set_policy(tcp, t)
      BY <2>3 DEF SetPolicy
    <3>2. t \in Installed(TcpFns, TcpPolicies)
      BY <2>3 DEF Installed
    <3>3. /\ fn_get(t, "allow_tcp_connection") \in FnPolicy
          /\ fn_get(t, "on_tcp_disconnect") \in FnPolicy
      BY <3>2, FnGetType DEF TcpFns
    <3>4. QED BY <2>1, <2>3, <3>1, <3>2, <3>3 DEF tcp_set_policy
  <2>4. QED BY <2>2, <2>3
<1>5. reported' = [http |-> http'.policy, tcp |-> tcp'.policy]
  BY <1>3, <1>4 DEF SetPolicy, PolicyViewsAgree
<1>6. reported' \in [http : Installed(HttpFns, HttpPolicies),
                     tcp  : Installed(TcpFns, TcpPolicies)]
  BY <1>3, <1>4, <1>5
<1>7. ActorTypeOK'
  BY <1>1, <1>2, <1>3, <1>4, <1>6 DEF ActorTypeOK, SetPolicy
<1>8. OneServerPerProtocol'
  BY <1>3, <1>4 DEF OneServerPerProtocol, SetPolicy
<1>9. PolicyViewsAgree'
  BY <1>3, <1>4, <1>5 DEF PolicyViewsAgree
<1>10. StartsStopped'
  BY <1>1 DEF StartsStopped, SetPolicy
<1>11. QED BY <1>7, <1>8, <1>9, <1>10

\* The requests that leave proxies and policies alone.
LEMMA OtherRequestInv ==
  ASSUME ActorInv, \/ \E p \in Ports : StartRefused(p)
                   \/ Label \/ Status \/ Shutdown
  PROVE  ActorInv'
<1> USE DEF ActorInv
<1>1. ASSUME NEW p \in Ports, StartRefused(p) PROVE ActorInv'
  <2>1. /\ IdTypeOK' /\ ops' \in 0..MaxOps
    BY <1>1, IdUnchanged, HostRequestOps DEF StartRefused, ActorTypeOK
  <2>2. QED
    BY <1>1, <2>1 DEF StartRefused, ActorTypeOK, OneServerPerProtocol, PolicyViewsAgree,
                      StartsStopped
<1>2. CASE Label
  <2>1. /\ IdTypeOK' /\ ops' \in 0..MaxOps
    BY <1>2, LabelOpType, HostRequestOps DEF Label, ActorTypeOK
  <2>2. QED
    BY <1>2, <2>1 DEF Label, ActorTypeOK, OneServerPerProtocol, PolicyViewsAgree,
                      StartsStopped
<1>3. CASE Status
  <2>1. /\ IdTypeOK' /\ ops' \in 0..MaxOps
    BY <1>3, IdUnchanged, HostRequestOps DEF Status, ActorTypeOK
  <2>2. QED
    BY <1>3, <2>1 DEF Status, ActorTypeOK, OneServerPerProtocol, PolicyViewsAgree,
                      StartsStopped
<1>4. CASE Shutdown
  <2>1. IdTypeOK'
    BY <1>4, IdUnchanged DEF Shutdown, ActorTypeOK
  <2>2. QED
    BY <1>4, <2>1 DEF Shutdown, ActorTypeOK, OneServerPerProtocol, PolicyViewsAgree,
                      StartsStopped
<1>5. QED BY <1>1, <1>2, <1>3, <1>4

LEMMA ActorUnchangedInv == ASSUME ActorInv, UNCHANGED actorVars PROVE ActorInv'
<1>1. IdTypeOK'
  BY IdUnchanged DEF ActorInv, ActorTypeOK, actorVars
<1>2. QED
  BY <1>1 DEF ActorInv, ActorTypeOK, OneServerPerProtocol, PolicyViewsAgree, StartsStopped,
              actorVars, ctlVars

\* Every step of the actor keeps the invariant.
LEMMA ActorStepInv == ASSUME ActorInv, ActorNext PROVE ActorInv'
BY StopStartInv, ServerStepInv, SetPolicyInv, OtherRequestInv DEF ActorNext, HostStep

\* Other requests of the host, and the end of a start, leave the policy alone.
LEMMA ControlKeepsPolicy ==
  ASSUME ActorInv, HostStep \/ ServerStep \/ Shutdown
  PROVE  /\ http'.policy = http.policy
         /\ tcp'.policy = tcp.policy
         /\ connection_number' = connection_number
         /\ CacheCoherent => CacheCoherent'
         /\ running' = running \/ (running = TRUE /\ running' = FALSE)
<1>0. running' = running \/ (running = TRUE /\ running' = FALSE)
  BY DEF HostStep, ServerStep, Shutdown, StopHttp, StopTcp, StartHttp, StartTcp, StartRefused,
         Status, StartOk, StartFailed, HttpListenerClosed, Label, Ready, ActorInv, ActorTypeOK
<1>1. /\ http \in [policy : Installed(HttpFns, HttpPolicies),
                   request : FnPolicy, response : FnPolicy, allow_all : BOOLEAN,
                   port : Ports \cup {None}, ingress : Ingress \cup {None}]
      /\ tcp \in [policy : Installed(TcpFns, TcpPolicies),
                  connect : FnPolicy, disconnect : FnPolicy, port : Ports \cup {None}]
  BY DEF ActorInv, ActorTypeOK
<1>2. /\ http_stopped(http).policy = http.policy
      /\ tcp_stopped(tcp).policy = tcp.policy
  BY <1>1 DEF http_stopped, tcp_stopped
<1>3. CASE Label
  <2>1. http' = http /\ tcp' = tcp /\ handle_label_op
    BY <1>3 DEF Label
  <2>2. CacheCoherent => CacheCoherent'
    BY <2>1, LabelOpInv DEF IdInv, ActorInv, ActorTypeOK
  <2>3. connection_number' = connection_number
    BY <2>1 DEF handle_label_op, add_uri, add_ip, remove_uri, remove_ip, clear_labels
  <2>4. QED BY <1>0, <2>1, <2>2, <2>3
<1>4. ASSUME ~Label
      PROVE  /\ http'.policy = http.policy /\ tcp'.policy = tcp.policy /\ UNCHANGED idVars
  <2>1. CASE StartOk
    BY <1>1, <2>1 DEF StartOk
  <2>2. CASE ~StartOk
    BY <1>2, <1>4, <2>2 DEF HostStep, ServerStep, Shutdown, StopHttp, StopTcp, StartHttp,
         StartTcp, StartRefused, Status, StartFailed, HttpListenerClosed
  <2>3. QED BY <2>1, <2>2
<1>5. CASE ~Label
  BY <1>0, <1>4, <1>5 DEF idVars, CacheCoherent, LabelsOf
<1>6. QED BY <1>3, <1>5

LEMMA ActorInvariant == ActorSpec => []ActorInv
<1>1. ActorInit => ActorInv
  BY ActorInitInv
<1>2. ActorInv /\ [ActorNext]_actorVars => ActorInv'
  BY ActorStepInv, ActorUnchangedInv
<1>3. QED BY <1>1, <1>2, PTL DEF ActorSpec

(***************************************************************************)
(* However starts, stops and failures of starts follow each other, each    *)
(* protocol has at most one listening server, the one the PolicyActor      *)
(* knows of.                                                               *)
(***************************************************************************)
THEOREM ActorOneServer == ActorSpec => []OneServerPerProtocol
<1>1. ActorInv => OneServerPerProtocol
  BY DEF ActorInv
<1>2. QED BY <1>1, ActorInvariant, PTL

(***************************************************************************)
(* The status copies that the proxies get and the hashes that the host     *)
(* gets are those of the installed policies, also while a proxy starts.    *)
(***************************************************************************)
THEOREM ActorViewsAgree == ActorSpec => []PolicyViewsAgree
<1>1. ActorInv => PolicyViewsAgree
  BY DEF ActorInv
<1>2. QED BY <1>1, ActorInvariant, PTL

\* The state of the actor is well formed.
THEOREM ActorTypeCorrect == ActorSpec => []ActorTypeOK
<1>1. ActorInv => ActorTypeOK
  BY DEF ActorInv
<1>2. QED BY <1>1, ActorInvariant, PTL
=============================================================================

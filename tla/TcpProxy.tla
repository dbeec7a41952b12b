------------------------------- MODULE TcpProxy -------------------------------
(***************************************************************************)
(* The TCP proxy (armour-proxy/src/tcp_proxy.rs, tcp_policy.rs) with the   *)
(* PolicyActor it consults.  One TcpDataServer actor per listening port    *)
(* takes connections one at a time: it waits for the policy's answer and   *)
(* for the connection to the original destination before it takes the      *)
(* next one.  A TcpData actor then relays bytes both ways until one side   *)
(* ends or the traffic is too fast, and reports what it relayed.           *)
(*                                                                         *)
(* An unreachable!() in a handler of the PolicyActor ends the process.     *)
(***************************************************************************)
EXTENDS PolicyActor

CONSTANTS
  Conns,        \* TCP connections
  Peers,        \* socket addresses of clients
  Destinations, \* original destinations (SO_ORIGINAL_DST)
  LocalIps,     \* INTERFACE_IPS
  MAX_SPEED,    \* messages a TcpData actor relays between two heartbeats
  ChunkSizes,   \* lengths of the byte chunks that the codecs deliver
  MaxBytes      \* bound on the bytes a connection relays each way

ASSUME TcpConstants ==
  /\ Peers \subseteq {SocketAddr(i, p) : i \in Ips, p \in Ports}
  /\ Destinations \subseteq {SocketAddr(i, p) : i \in Ips, p \in Ports}
  /\ MAX_SPEED \in Nat /\ MaxBytes \in Nat /\ ChunkSizes \subseteq Nat

VARIABLES
  conns,      \* [Conns -> state of each connection]
  stopped,    \* ports whose TcpDataServer actor has handled Stop
  panicked    \* a handler of the PolicyActor reached unreachable!()

tcpVars == <<actorVars, conns, stopped, panicked>>

Conn == [pc       : {"idle", "queued", "policy", "judge", "connect", "open", "ended",
                     "reported", "closed"},
         port     : Ports \cup {None},             \* the port it came in at
         from     : Peers \cup {None},
         to       : Destinations \cup {None},
         env      : Installed(TcpFns, TcpPolicies) \cup {None}, \* the policy evaluating it
         stats    : BOOLEAN,                       \* connection: Some(ConnectionStats)
         connection : DPConnection,
         sent     : 0..MaxBytes,
         received : 0..MaxBytes,
         counter  : 0..(MAX_SPEED + 1),
         server_writer : 0..MaxBytes,              \* bytes the Writer holds for the server
         client_writer : 0..MaxBytes,              \* bytes the Writer holds for the client
         up       : 0..MaxBytes,                   \* history: bytes that left for the server
         down     : 0..MaxBytes,                   \* history: bytes that left for the client
         by       : FnPolicy]                      \* history: what admitted it

IdleConn ==
  [pc |-> "idle", port |-> None, from |-> None, to |-> None, env |-> None,
   stats |-> FALSE,
   connection |-> [from |-> DefaultDPID, to |-> DefaultDPID, number |-> 0],
   sent |-> 0, received |-> 0, counter |-> 0, server_writer |-> 0, client_writer |-> 0,
   up |-> 0, down |-> 0, by |-> Deny]

TcpInit ==
  /\ ActorInit
  /\ conns = [c \in Conns |-> IdleConn]
  /\ stopped = {}
  /\ panicked = FALSE

\* The server actor waits for the policy's answer or for the destination.
Waited == {"policy", "judge", "connect"}

Become(c, k) == conns' = [conns EXCEPT ![c] = k]

\* shutdown_both, or the stream is dropped: nothing is left but the history.
Close(c) == Become(c, [IdleConn EXCEPT !.pc = "closed", !.by = conns[c].by])

\* Variant: the server actor waits for the end of the relay as well.
ServerFree_AfterRelay(p) ==
  /\ sockets[p] \in {"tcp", "leaked"}
  /\ p \notin stopped
  /\ \A c \in Conns : conns[c].port = p => conns[c].pc \notin Waited \cup {"open"}

\* The server actor of port p exists and waits for no connection (.wait(ctx)).
ServerFree(p) ==
  /\ sockets[p] \in {"tcp", "leaked"}
  /\ p \notin stopped
  /\ \A c \in Conns : conns[c].port = p => conns[c].pc \notin Waited

-----------------------------------------------------------------------------
(***************************************************************************)
(* A client connects to a listening socket and waits in the stream of the  *)
(* server actor.  The leaked listener of a server that was stopped still   *)
(* completes connections, which nobody takes any more.                     *)
(***************************************************************************)
ClientConnects(c, p, s, d) ==
  /\ running
  /\ sockets[p] \in {"tcp", "leaked"}
  /\ conns[c].pc = "idle"
  /\ Become(c, [conns[c] EXCEPT !.pc = "queued", !.port = p, !.from = s, !.to = d])
  /\ UNCHANGED <<actorVars, stopped, panicked>>

(***************************************************************************)
(* StreamHandler<TcpConnect>: without an original destination or a peer    *)
(* address, and when the destination is the proxy itself, the connection   *)
(* is closed; otherwise GetTcpPolicy goes to the actor.                    *)
(***************************************************************************)
ToSelf(p, d) == d.port = p /\ d.ip \in LocalIps

TcpConnect(c) ==
  LET k == conns[c]
  IN  /\ running
      /\ k.pc = "queued"
      /\ ServerFree(k.port)
      /\ IF k.to # None /\ ~ToSelf(k.port, k.to)
         THEN Become(c, [k EXCEPT !.pc = "policy"])
         ELSE Close(c)
      /\ UNCHANGED <<actorVars, stopped, panicked>>

\* Variant: the server actor stops once its relays have ended.
ServerStops_WaitsForRelays(p) ==
  /\ running
  /\ sockets[p] = "leaked"
  /\ ServerFree(p)
  /\ \A c \in Conns : conns[c].port = p => conns[c].pc # "open"
  /\ stopped' = stopped \cup {p}
  /\ UNCHANGED <<actorVars, conns, panicked>>

\* Stop waits in the mailbox of the server actor while it handles a connection.
ServerStops(p) ==
  /\ running
  /\ sockets[p] = "leaked"
  /\ ServerFree(p)
  /\ stopped' = stopped \cup {p}
  /\ UNCHANGED <<actorVars, conns, panicked>>

Panic ==
  /\ running' = FALSE
  /\ panicked' = TRUE
  /\ UNCHANGED <<idVars, http, tcp, starting, sockets, reported, ops, conns, stopped>>

(***************************************************************************)
(* Handler<GetTcpPolicy>.  Where the policy has a function, the actor      *)
(* starts its evaluation in the environment installed now and is free      *)
(* again; the verdict comes later and its outcome is arbitrary.            *)
(***************************************************************************)
GetTcpPolicyAllow(c) ==
  /\ tcp.connect = Allow
  /\ connection_number < MaxConnections
  /\ connection_number' = connection_number + 1
  /\ Become(c, [conns[c] EXCEPT !.pc = "connect", !.by = Allow])
  /\ UNCHANGED <<tables, caches, ctlVars, stopped, panicked>>

GetTcpPolicyDeny(c) ==
  /\ tcp.connect = Deny
  /\ Close(c)
  /\ UNCHANGED <<actorVars, stopped, panicked>>

GetTcpPolicyEval(c) ==
  /\ tcp.connect = Args(1)
  /\ \E d1, d2 \in DnsAnswer :
       /\ connection(conns[c].from, conns[c].to, d1, d2)
       /\ Become(c, [conns[c] EXCEPT !.pc = "judge", !.env = tcp.policy,
                       !.connection = Connection(conns[c].from, conns[c].to, d1, d2)])
  /\ UNCHANGED <<ctlVars, stopped, panicked>>

GetTcpPolicyPanic(c) ==
  /\ tcp.connect \notin {Allow, Deny, Args(1)}
  /\ Panic

GetTcpPolicy(c) ==
  /\ Ready
  /\ conns[c].pc = "policy"
  /\ \/ GetTcpPolicyAllow(c)
     \/ GetTcpPolicyDeny(c)
     \/ GetTcpPolicyEval(c)
     \/ GetTcpPolicyPanic(c)

\* Variant: only a verdict of false refuses the connection.
TcpVerdict_ErrorAdmits(c) ==
  /\ running
  /\ conns[c].pc = "judge"
  /\ LET k == [conns[c] EXCEPT !.env = None]
     IN  \E b \in EvalOutcomes(conns[c].env, "allow_tcp_connection", 1) :
           IF b = "false"
           THEN Close(c)
           ELSE Become(c, [k EXCEPT !.pc = "connect", !.stats = TRUE,
                                    !.by = IF b = "true" THEN Args(1) ELSE @])
  /\ UNCHANGED <<actorVars, stopped, panicked>>

\* The evaluation ends; the server actor refuses the connection unless it is true.
TcpVerdict(c) ==
  /\ running
  /\ conns[c].pc = "judge"
  /\ LET k == [conns[c] EXCEPT !.env = None]
     IN  \E b \in EvalOutcomes(conns[c].env, "allow_tcp_connection", 1) :
           IF b = "true"
           THEN Become(c, [k EXCEPT !.pc = "connect", !.stats = TRUE, !.by = Args(1)])
           ELSE Close(c)
  /\ UNCHANGED <<actorVars, stopped, panicked>>

\* TcpStream::connect to the destination: a TcpData actor, or shutdown_both.
ConnectServer(c) ==
  /\ running
  /\ conns[c].pc = "connect"
  /\ \/ Become(c, [conns[c] EXCEPT !.pc = "open"])
     \/ Close(c)
  /\ UNCHANGED <<actorVars, stopped, panicked>>

-----------------------------------------------------------------------------
\* Variant: one message more than the limit's own slack.
TooFast_OffByOne(k) == k.counter > MAX_SPEED + 1

(***************************************************************************)
(* TcpData: a chunk from the client is counted and given to the Writer for *)
(* the server, one from the server to the Writer for the client.  Writers  *)
(* only buffer; Flush is when bytes leave.  When the counter is above      *)
(* MAX_SPEED the actor stops without relaying the chunk.                   *)
(***************************************************************************)
TooFast(k) == k.counter > MAX_SPEED

Count(k) == [k EXCEPT !.counter = @ + 1]

ClientBytes(c, len) ==
  LET k == conns[c]
  IN  /\ running /\ k.pc = "open"
      /\ IF TooFast(k) THEN Become(c, [k EXCEPT !.pc = "ended"])
         ELSE /\ k.up + k.server_writer + len <= MaxBytes
              /\ Become(c, [Count(k) EXCEPT !.sent = IF k.stats THEN @ + len ELSE @,
                                            !.server_writer = @ + len])
      /\ UNCHANGED <<actorVars, stopped, panicked>>

\* Variant: the server's bytes are relayed and not counted.
ServerBytes_Uncounted(c, len) ==
  LET k == conns[c]
  IN  /\ running /\ k.pc = "open"
      /\ IF TooFast(k) THEN Become(c, [k EXCEPT !.pc = "ended"])
         ELSE /\ k.down + k.client_writer + len <= MaxBytes
              /\ Become(c, [Count(k) EXCEPT !.client_writer = @ + len])
      /\ UNCHANGED <<actorVars, stopped, panicked>>

ServerBytes(c, len) ==
  LET k == conns[c]
  IN  /\ running /\ k.pc = "open"
      /\ IF TooFast(k) THEN Become(c, [k EXCEPT !.pc = "ended"])
         ELSE /\ k.down + k.client_writer + len <= MaxBytes
              /\ Become(c, [Count(k) EXCEPT !.received = IF k.stats THEN @ + len ELSE @,
                                            !.client_writer = @ + len])
      /\ UNCHANGED <<actorVars, stopped, panicked>>

\* hb: every 500 ms.
Heartbeat(c) ==
  /\ running
  /\ conns[c].pc = "open"
  /\ Become(c, [conns[c] EXCEPT !.counter = 0])
  /\ UNCHANGED <<actorVars, stopped, panicked>>

\* The sockets take some of what the Writers hold.
FlushServer(c) ==
  /\ running
  /\ conns[c].pc = "open"
  /\ \E n \in 1..conns[c].server_writer :
       Become(c, [conns[c] EXCEPT !.server_writer = @ - n, !.up = @ + n])
  /\ UNCHANGED <<actorVars, stopped, panicked>>

FlushClient(c) ==
  /\ running
  /\ conns[c].pc = "open"
  /\ \E n \in 1..conns[c].client_writer :
       Become(c, [conns[c] EXCEPT !.client_writer = @ - n, !.down = @ + n])
  /\ UNCHANGED <<actorVars, stopped, panicked>>

\* The stream from the client finished, or a write failed: the actor stops, and what
\* its Writers still hold is lost.
Finished(c) ==
  /\ running
  /\ conns[c].pc = "open"
  /\ Become(c, [conns[c] EXCEPT !.pc = "ended"])
  /\ UNCHANGED <<actorVars, stopped, panicked>>

\* Variant: statistics that no function is to see are never taken.
Disconnect_OnlyArgs(c) ==
  /\ Ready
  /\ conns[c].pc = "ended"
  /\ conns[c].stats
  /\ tcp.disconnect = Args(3)
  /\ Become(c, [conns[c] EXCEPT !.pc = "reported"])
  /\ UNCHANGED <<actorVars, stopped, panicked>>

(***************************************************************************)
(* stopped() sends the statistics, if the connection has some, and         *)
(* Handler<ConnectionStats> evaluates on_tcp_disconnect of the policy      *)
(* installed by then.                                                      *)
(***************************************************************************)
Disconnect(c) ==
  /\ Ready
  /\ conns[c].pc = "ended"
  /\ conns[c].stats
  /\ IF tcp.disconnect.kind = "Args" /\ tcp.disconnect.n # 3
     THEN Panic
     ELSE /\ Become(c, [conns[c] EXCEPT !.pc = "reported"])
          /\ UNCHANGED <<actorVars, stopped, panicked>>

-----------------------------------------------------------------------------
InstallPolicy ==
  \E t \in TcpPolicies \cup {None}, h \in HttpPolicies \cup {None} :
    SetPolicy(t, h) /\ UNCHANGED <<conns, stopped, panicked>>

Control ==
  /\ HostStep \/ ServerStep \/ Shutdown
  /\ UNCHANGED <<conns, stopped, panicked>>

Relay(c) ==
  \/ \E len \in ChunkSizes : ClientBytes(c, len) \/ ServerBytes(c, len)
  \/ FlushServer(c)
  \/ FlushClient(c)
  \/ Heartbeat(c)
  \/ Finished(c)

TcpNext ==
  \/ Control
  \/ InstallPolicy
  \/ \E p \in Ports : ServerStops(p)
  \/ \E c \in Conns :
       \/ \E p \in Ports, s \in Peers, d \in Destinations \cup {None} :
            ClientConnects(c, p, s, d)
       \/ TcpConnect(c)
       \/ GetTcpPolicy(c)
       \/ TcpVerdict(c)
       \/ ConnectServer(c)
       \/ Relay(c)
       \/ Disconnect(c)

(***************************************************************************)
(* Fairness: the actors empty their mailboxes, and connecting to a server  *)
(* succeeds or fails.  An evaluation ends: programs are not recursive and  *)
(* external calls time out.  Nothing is assumed about how long a peer      *)
(* keeps a connection open.                                                *)
(***************************************************************************)
TcpFairness ==
  /\ WF_tcpVars((StartOk \/ StartFailed) /\ UNCHANGED <<conns, stopped, panicked>>)
  /\ \A c \in Conns : /\ WF_tcpVars(TcpConnect(c))
                      /\ WF_tcpVars(GetTcpPolicy(c))
                      /\ WF_tcpVars(TcpVerdict(c))
                      /\ WF_tcpVars(ConnectServer(c))
                      /\ WF_tcpVars(Disconnect(c))
  /\ \A p \in Ports : WF_tcpVars(ServerStops(p))

TcpSpec == TcpInit /\ [][TcpNext]_tcpVars /\ TcpFairness

-----------------------------------------------------------------------------
TcpTypeOK ==
  /\ ActorTypeOK
  /\ conns \in [Conns -> Conn]
  /\ stopped \subseteq Ports
  /\ panicked \in BOOLEAN

Relayed(k) == k.pc \in {"open", "ended", "reported"}

(***************************************************************************)
(* A connection is relayed only if the policy let it in, and what is       *)
(* reported to on_tcp_disconnect accounts for every byte: statistics exist *)
(* exactly for the connections whose policy function was evaluated, with   *)
(* the connection's own ports, and count the bytes that left for either    *)
(* side and those that its Writer held when the relay ended, so never less *)
(* than what really left.                                                  *)
(***************************************************************************)
StatsExact ==
  \A c \in Conns :
    LET k == conns[c]
    IN  Relayed(k) =>
          /\ k.by # Deny
          /\ k.stats <=> k.by = Args(1)
          /\ k.stats => /\ k.sent = k.up + k.server_writer
                        /\ k.received = k.down + k.client_writer
                        /\ k.connection.from.port = k.from.port
                        /\ k.connection.to.port = k.to.port

(***************************************************************************)
(* The comment on the unreachable!() of both handlers: "policy is checked  *)
(* beforehand".                                                            *)
(***************************************************************************)
PolicyCheckedBeforehand == ~panicked

(***************************************************************************)
(* Every connection that ends with statistics is reported, and a server    *)
(* that was told to stop does, unless the process ends.                    *)
(***************************************************************************)
EndedReported ==
  \A c \in Conns :
    (conns[c].pc = "ended" /\ conns[c].stats) ~> (conns[c].pc = "reported" \/ ~running)

StopTakesEffect ==
  \A p \in Ports : sockets[p] = "leaked" ~> (p \in stopped \/ ~running)

-----------------------------------------------------------------------------
(***************************************************************************)
(* The refinement: a TCP connection is a message with one check.  It       *)
(* relies on one policy only, the one that is evaluating it.               *)
(***************************************************************************)
TcpAnswer(fp, k) ==
  LET f == fn_get(fp, "allow_tcp_connection")
  IN  CASE f = Allow -> "allow" [] f = Deny -> "deny" [] OTHER -> "judge"

Place(k) == CASE k.pc = "idle"                 -> "new"
              [] k.pc \in {"queued", "policy"} -> "waiting"
              [] k.pc = "closed"               -> "left"
              [] OTHER                         -> "inside"

GatePlace  == [c \in Conns |-> Place(conns[c])]
GatePassed == [c \in Conns |-> IF conns[c].pc \in {"connect", "open", "ended", "reported"}
                                    \/ conns[c].by # Deny
                               THEN 1 ELSE 0]
GateJudged == [c \in Conns |-> IF conns[c].by.kind = "Args" THEN {1} ELSE {}]
GateSince  == [c \in Conns |-> IF conns[c].pc = "judge" THEN {conns[c].env} ELSE {}]

TcpGate ==
  INSTANCE Gate WITH
    Messages <- Conns,
    Checks   <- 1,
    Policies <- Installed(TcpFns, TcpPolicies),
    Answer   <- TcpAnswer,
    up       <- running,
    policy   <- tcp.policy,
    place    <- GatePlace,
    passed   <- GatePassed,
    judged   <- GateJudged,
    since    <- GateSince

(***************************************************************************)
(* The TCP proxy implements Gate: a connection is relayed only on account  *)
(* of the policy in force when the actor took the request, whatever was    *)
(* installed while it waited in the mailbox or was evaluated.              *)
(***************************************************************************)
TcpMediates == TcpGate!Safe

(***************************************************************************)
(* No client waits for ever for the decision, although the server takes    *)
(* connections one at a time and the ones behind wait for evaluations and  *)
(* slow destinations of the ones before: each is closed or let in, unless  *)
(* the process ends or the server it queues at has stopped.                *)
(***************************************************************************)
TcpDecided ==
  \A c \in Conns :
    conns[c].pc \in {"queued", "policy", "judge"}
      ~> \/ conns[c].pc = "closed" \/ GatePassed[c] = 1
         \/ ~running
         \/ conns[c].port \in stopped
=============================================================================

---------------------------- MODULE TcpProxyProofs ----------------------------
(***************************************************************************)
(* Proofs about TcpProxy, for any number of connections and ports, every   *)
(* set of policies and any speed limit.                                    *)
(***************************************************************************)
EXTENDS TcpProxy, PolicyActorProofs

TcpInstalled == Installed(TcpFns, TcpPolicies)

Admitted == {"connect", "open", "ended", "reported"}

\* What one connection has been through, by its place.
ConnInv(k) ==
  /\ k.pc \notin {"idle", "closed"} => k.port \in Ports /\ k.from \in Peers
  /\ k.pc \notin {"idle", "closed", "queued"} => k.to \in Destinations
  /\ k.pc \notin Admitted \cup {"closed"} => k.by = Deny /\ k.stats = FALSE
  /\ k.pc = "judge" => /\ k.env \in TcpInstalled
                       /\ fn_get(k.env, "allow_tcp_connection") = Args(1)
                       /\ k.connection.from.port = k.from.port
                       /\ k.connection.to.port = k.to.port
  /\ k.pc \in Admitted => k.by \in {Allow, Args(1)} /\ (k.stats <=> k.by = Args(1))
  /\ k.pc \in Admitted /\ k.stats => /\ k.connection.from.port = k.from.port
                                     /\ k.connection.to.port = k.to.port
  /\ k.pc \notin {"open", "ended", "reported"} =>
       k.up = 0 /\ k.down = 0 /\ k.server_writer = 0 /\ k.client_writer = 0
  /\ k.up + k.server_writer <= MaxBytes /\ k.down + k.client_writer <= MaxBytes
  /\ k.sent = IF k.stats THEN k.up + k.server_writer ELSE 0
  /\ k.received = IF k.stats THEN k.down + k.client_writer ELSE 0

(***************************************************************************)
(* The inductive invariant.  StatsExact alone is not inductive: that the   *)
(* report is exact needs that statistics start with the relay, when        *)
(* nothing was read or buffered, and keep the ports the evaluation was     *)
(* given.                                                                  *)
(***************************************************************************)
TcpInv ==
  /\ ActorInv
  /\ CacheCoherent
  /\ conns \in [Conns -> Conn]
  /\ stopped \subseteq Ports
  /\ panicked \in BOOLEAN
  /\ \A c \in Conns : ConnInv(conns[c])

-----------------------------------------------------------------------------
LEMMA DenyIsPolicy == Deny \in FnPolicy /\ Allow \in FnPolicy /\ Args(1) \in FnPolicy
BY DEF FnPolicy, MaxArgs

LEMMA IdleIsConn == IdleConn \in Conn
<1>1. [from |-> DefaultDPID, to |-> DefaultDPID, number |-> 0] \in DPConnection
  BY DEF DPConnection, DefaultDPID, DPID
<1>2. 0 \in 0..MaxBytes /\ 0 \in 0..(MAX_SPEED + 1)
  BY TcpConstants
<1>3. QED BY <1>1, <1>2, DenyIsPolicy DEF IdleConn, Conn

LEMMA TcpInitInv == TcpInit => TcpInv
<1> SUFFICES ASSUME TcpInit PROVE TcpInv
  OBVIOUS
<1>1. ActorInv
  BY ActorInitInv DEF TcpInit
<1>2. CacheCoherent
  BY IdInitInv DEF TcpInit, ActorInit, IdInv
<1>3. IdleConn \in Conn
  BY IdleIsConn
<1>4. ConnInv(IdleConn)
  BY TcpConstants DEF ConnInv, IdleConn, Admitted
<1>5. QED BY <1>1, <1>2, <1>3, <1>4 DEF TcpInit, TcpInv

-----------------------------------------------------------------------------
\* What is known of a connection.
LEMMA ConnFacts ==
  ASSUME TcpInv, NEW c \in Conns
  PROVE  conns[c] \in Conn /\ ConnInv(conns[c])
BY DEF TcpInv

\* A connection goes on as k and the actor keeps its invariants.
LEMMA BecomeInv ==
  ASSUME TcpInv, NEW c \in Conns, NEW k \in Conn, Become(c, k),
         ActorInv', CacheCoherent', UNCHANGED <<stopped, panicked>>, ConnInv(k)
  PROVE  TcpInv'
<1>1. /\ conns' \in [Conns -> Conn]
      /\ \A e \in Conns : conns'[e] = IF e = c THEN k ELSE conns[e]
  BY DEF TcpInv, Become
<1>2. \A e \in Conns : ConnInv(conns'[e])
  BY <1>1 DEF TcpInv
<1>3. stopped' \subseteq Ports /\ panicked' \in BOOLEAN
  BY DEF TcpInv
<1>4. QED BY <1>1, <1>2, <1>3 DEF TcpInv

\* The actor is left alone.
LEMMA ActorKept ==
  ASSUME TcpInv, UNCHANGED actorVars
  PROVE  ActorInv' /\ CacheCoherent'
<1>1. ActorInv'
  BY ActorUnchangedInv DEF TcpInv
<1>2. CacheCoherent'
  BY DEF TcpInv, CacheCoherent, actorVars, idVars, LabelsOf
<1>3. QED BY <1>1, <1>2

\* The record of a connection that is closed.
LEMMA ClosedConn ==
  ASSUME TcpInv, NEW c \in Conns
  PROVE  LET z == [IdleConn EXCEPT !.pc = "closed", !.by = conns[c].by]
         IN  z \in Conn /\ z.pc = "closed" /\ z.by = conns[c].by /\ ConnInv(z)
<1> DEFINE z == [IdleConn EXCEPT !.pc = "closed", !.by = conns[c].by]
<1>1. IdleConn \in Conn
  BY IdleIsConn
<1>2. conns[c].by \in FnPolicy
  BY ConnFacts DEF Conn
<1>3. z \in Conn
  BY <1>1, <1>2 DEF Conn
<1>4. z.pc = "closed" /\ z.by = conns[c].by /\ ConnInv(z)
  BY TcpConstants DEF ConnInv, IdleConn, Admitted
<1>5. QED BY <1>3, <1>4

LEMMA CloseInv ==
  ASSUME TcpInv, NEW c \in Conns, Close(c), UNCHANGED <<actorVars, stopped, panicked>>
  PROVE  TcpInv'
<1> DEFINE z == [IdleConn EXCEPT !.pc = "closed", !.by = conns[c].by]
<1>1. z \in Conn /\ ConnInv(z)
  BY ClosedConn
<1>2. Become(c, z)
  BY DEF Close
<1> HIDE DEF z
<1>3. QED BY <1>1, <1>2, ActorKept, BecomeInv

\* The connection moves on and everything else that it carries stays.
LEMMA MoveInv ==
  ASSUME TcpInv, NEW c \in Conns, NEW pc,
         \/ conns[c].pc = "queued" /\ pc = "policy" /\ conns[c].to # None
         \/ conns[c].pc = "connect" /\ pc = "open"
         \/ conns[c].pc = "open" /\ pc = "ended"
         \/ conns[c].pc = "ended" /\ pc = "reported",
         Become(c, [conns[c] EXCEPT !.pc = pc]),
         UNCHANGED <<actorVars, stopped, panicked>>
  PROVE  TcpInv'
<1> DEFINE k == [conns[c] EXCEPT !.pc = pc]
<1>1. conns[c] \in Conn /\ ConnInv(conns[c])
  BY ConnFacts
<1>2. /\ k \in Conn /\ k.pc = pc /\ k.port = conns[c].port /\ k.from = conns[c].from
      /\ k.to = conns[c].to /\ k.env = conns[c].env /\ k.stats = conns[c].stats
      /\ k.connection = conns[c].connection
      /\ k.sent = conns[c].sent /\ k.received = conns[c].received /\ k.up = conns[c].up
      /\ k.down = conns[c].down /\ k.by = conns[c].by
      /\ k.server_writer = conns[c].server_writer
      /\ k.client_writer = conns[c].client_writer
  BY <1>1 DEF Conn
<1>3. conns[c].to \in Destinations \cup {None}
  BY <1>1 DEF Conn
<1>4. ConnInv(k)
  BY <1>1, <1>2, <1>3 DEF ConnInv, Admitted
<1>5. QED BY <1>2, <1>4, ActorKept, BecomeInv

\* A client connects, and the server actor takes it or closes it at once.
LEMMA ClientConnectsInv ==
  ASSUME TcpInv, NEW c \in Conns, NEW p \in Ports, NEW s \in Peers,
         NEW d \in Destinations \cup {None}, ClientConnects(c, p, s, d)
  PROVE  TcpInv'
<1> DEFINE k == [conns[c] EXCEPT !.pc = "queued", !.port = p, !.from = s, !.to = d]
<1>1. /\ conns[c] \in Conn /\ ConnInv(conns[c]) /\ conns[c].pc = "idle" /\ Become(c, k)
      /\ UNCHANGED <<actorVars, stopped, panicked>>
  BY ConnFacts DEF ClientConnects
<1>2. /\ k \in Conn /\ k.pc = "queued" /\ k.port = p /\ k.from = s
      /\ k.to = d /\ k.stats = conns[c].stats
      /\ k.sent = conns[c].sent /\ k.received = conns[c].received /\ k.up = conns[c].up
      /\ k.down = conns[c].down /\ k.by = conns[c].by
      /\ k.server_writer = conns[c].server_writer
      /\ k.client_writer = conns[c].client_writer
  BY <1>1 DEF Conn
<1>3. ConnInv(k)
  BY <1>1, <1>2 DEF ConnInv, Admitted
<1>4. QED BY <1>1, <1>2, <1>3, ActorKept, BecomeInv

LEMMA TcpConnectInv ==
  ASSUME TcpInv, NEW c \in Conns, TcpConnect(c)
  PROVE  TcpInv'
<1>1. conns[c].pc = "queued" /\ UNCHANGED <<actorVars, stopped, panicked>>
  BY DEF TcpConnect
<1>2. CASE conns[c].to # None /\ Become(c, [conns[c] EXCEPT !.pc = "policy"])
  BY <1>1, <1>2, MoveInv
<1>3. CASE Close(c)
  BY <1>1, <1>3, CloseInv
<1>4. QED BY <1>2, <1>3 DEF TcpConnect

\* An unreachable!() ends the process and leaves the rest as it is.
LEMMA PanicInv == ASSUME TcpInv, Panic PROVE TcpInv'
<1>1. IdTypeOK'
  BY IdUnchanged DEF Panic, TcpInv, ActorInv, ActorTypeOK
<1>2. ActorInv'
  BY <1>1 DEF Panic, TcpInv, ActorInv, ActorTypeOK, OneServerPerProtocol, PolicyViewsAgree,
              StartsStopped
<1>3. CacheCoherent'
  BY DEF Panic, TcpInv, CacheCoherent, idVars, LabelsOf
<1>4. QED
  BY <1>2, <1>3 DEF Panic, TcpInv

\* The actor counts a connection; its control state stays.
LEMMA ControlKept ==
  ASSUME TcpInv, IdTypeOK', UNCHANGED ctlVars
  PROVE  ActorInv'
BY DEF TcpInv, ActorInv, ActorTypeOK, OneServerPerProtocol, PolicyViewsAgree,
       StartsStopped, ctlVars

\* The actor answers: it admits, refuses, starts an evaluation, or panics.
LEMMA GetTcpPolicyInv ==
  ASSUME TcpInv, NEW c \in Conns, GetTcpPolicy(c)
  PROVE  TcpInv'
<1>1. /\ conns[c] \in Conn /\ ConnInv(conns[c]) /\ conns[c].pc = "policy"
      /\ conns[c].from \in Peers /\ conns[c].to \in Destinations
  BY ConnFacts DEF GetTcpPolicy, ConnInv
<1>2. CASE GetTcpPolicyAllow(c)
  <2> DEFINE k == [conns[c] EXCEPT !.pc = "connect", !.by = Allow]
  <2>1. Become(c, k) /\ UNCHANGED <<ctlVars, stopped, panicked>>
    BY <1>2 DEF GetTcpPolicyAllow
  <2>2. IdTypeOK'
    BY <1>2, MaxConnectionsAssumption
       DEF GetTcpPolicyAllow, TcpInv, ActorInv, ActorTypeOK, IdTypeOK, tables, caches
  <2>3. CacheCoherent'
    BY <1>2 DEF GetTcpPolicyAllow, TcpInv, CacheCoherent, LabelsOf, tables, caches
  <2>4. /\ k \in Conn /\ k.pc = "connect" /\ k.by = Allow /\ k.port = conns[c].port
        /\ k.from = conns[c].from /\ k.to = conns[c].to /\ k.stats = conns[c].stats
        /\ k.sent = conns[c].sent /\ k.received = conns[c].received /\ k.up = conns[c].up
        /\ k.down = conns[c].down /\ k.server_writer = conns[c].server_writer
        /\ k.client_writer = conns[c].client_writer
    BY <1>1, DenyIsPolicy DEF Conn
  <2>5. Allow # Args(1)
    BY DEF Allow, Args
  <2>6. ConnInv(k)
    BY <1>1, <2>4, <2>5 DEF ConnInv, Admitted
  <2>7. ActorInv'
    BY <2>1, <2>2, ControlKept
  <2>8. QED BY <2>1, <2>3, <2>4, <2>6, <2>7, BecomeInv
<1>3. CASE GetTcpPolicyDeny(c)
  BY <1>1, <1>3, CloseInv DEF GetTcpPolicyDeny
<1>4. CASE GetTcpPolicyEval(c)
  <2>1. PICK d1 \in DnsAnswer, d2 \in DnsAnswer :
          /\ connection(conns[c].from, conns[c].to, d1, d2)
          /\ Become(c, [conns[c] EXCEPT !.pc = "judge", !.env = tcp.policy,
                          !.connection = Connection(conns[c].from, conns[c].to, d1, d2)])
    BY <1>4 DEF GetTcpPolicyEval
  <2> DEFINE v == Connection(conns[c].from, conns[c].to, d1, d2)
             k == [conns[c] EXCEPT !.pc = "judge", !.env = tcp.policy, !.connection = v]
  <2>2. /\ conns[c].from \in ID /\ conns[c].from.kind = "SocketAddr"
        /\ conns[c].to \in ID /\ conns[c].to.kind = "SocketAddr"
    BY <1>1, TcpConstants DEF ID, SocketAddr
  <2>3. IdTypeOK /\ IdInv
    BY DEF TcpInv, ActorInv, ActorTypeOK, IdInv
  <2>4. IdTypeOK' /\ CacheCoherent'
    BY <2>1, <2>2, <2>3, ConnectionInv DEF IdInv
  <2>5. /\ v \in DPConnection
        /\ v.from.port = conns[c].from.port /\ v.to.port = conns[c].to.port
    BY <2>2, <2>3, ConnectionValue
  <2>6. /\ tcp.policy \in TcpInstalled
        /\ fn_get(tcp.policy, "allow_tcp_connection") = Args(1)
    BY <1>4 DEF GetTcpPolicyEval, TcpInv, ActorInv, ActorTypeOK, PolicyViewsAgree, TcpInstalled
  <2>7. /\ k \in Conn /\ k.pc = "judge" /\ k.env = tcp.policy
        /\ k.connection = v /\ k.port = conns[c].port
        /\ k.from = conns[c].from /\ k.to = conns[c].to /\ k.stats = conns[c].stats
        /\ k.sent = conns[c].sent /\ k.received = conns[c].received /\ k.up = conns[c].up
        /\ k.down = conns[c].down /\ k.by = conns[c].by
        /\ k.server_writer = conns[c].server_writer
        /\ k.client_writer = conns[c].client_writer
    BY <1>1, <2>5, <2>6 DEF Conn, TcpInstalled
  <2>8. ConnInv(k)
    BY <1>1, <2>5, <2>6, <2>7 DEF ConnInv, Admitted
  <2>9. UNCHANGED <<ctlVars, stopped, panicked>>
    BY <1>4 DEF GetTcpPolicyEval
  <2>10. ActorInv'
    BY <2>4, <2>9, ControlKept
  <2>11. QED BY <2>1, <2>4, <2>7, <2>8, <2>9, <2>10, BecomeInv
<1>5. CASE GetTcpPolicyPanic(c)
  BY <1>5, PanicInv DEF GetTcpPolicyPanic
<1>6. QED BY <1>2, <1>3, <1>4, <1>5 DEF GetTcpPolicy

\* The verdict: statistics start with the connection.
LEMMA TcpVerdictInv ==
  ASSUME TcpInv, NEW c \in Conns, TcpVerdict(c)
  PROVE  TcpInv'
<1> DEFINE q == [conns[c] EXCEPT !.env = None]
           k == [q EXCEPT !.pc = "connect", !.stats = TRUE, !.by = Args(1)]
<1>1. /\ conns[c] \in Conn /\ ConnInv(conns[c])
      /\ conns[c].pc = "judge" /\ UNCHANGED <<actorVars, stopped, panicked>>
  BY ConnFacts DEF TcpVerdict
<1>2. CASE Become(c, k)
  <2>1. /\ k \in Conn /\ k.pc = "connect" /\ k.by = Args(1) /\ k.port = conns[c].port
        /\ k.from = conns[c].from /\ k.to = conns[c].to /\ k.stats = TRUE
        /\ k.connection = conns[c].connection
        /\ k.sent = conns[c].sent /\ k.received = conns[c].received /\ k.up = conns[c].up
        /\ k.down = conns[c].down /\ k.server_writer = conns[c].server_writer
        /\ k.client_writer = conns[c].client_writer
    BY <1>1, DenyIsPolicy DEF Conn
  <2>2. ConnInv(k)
    BY <1>1, <2>1 DEF ConnInv, Admitted
  <2>3. QED BY <1>1, <1>2, <2>1, <2>2, ActorKept, BecomeInv
<1>3. CASE Close(c)
  BY <1>1, <1>3, CloseInv
<1>4. QED BY <1>2, <1>3 DEF TcpVerdict

-----------------------------------------------------------------------------
\* What a relay changes: the counters s and r, the bytes that left (u up and d
\* down), the bytes in the Writers (ws and wc) and the speed counter.
RelayRecord(k, n, s, r, ws, wc, u, d) ==
  [k EXCEPT !.counter = n, !.sent = s, !.received = r, !.server_writer = ws,
            !.client_writer = wc, !.up = u, !.down = d]

\* Relaying keeps the invariant if the statistics account for all bytes.
LEMMA RelayRecordInv ==
  ASSUME TcpInv, NEW c \in Conns, conns[c].pc = "open",
         NEW n \in 0..(MAX_SPEED + 1), NEW s \in 0..MaxBytes, NEW r \in 0..MaxBytes,
         NEW ws \in 0..MaxBytes, NEW wc \in 0..MaxBytes, NEW u \in 0..MaxBytes,
         NEW d \in 0..MaxBytes,
         u + ws <= MaxBytes, d + wc <= MaxBytes,
         s = IF conns[c].stats THEN u + ws ELSE 0,
         r = IF conns[c].stats THEN d + wc ELSE 0,
         Become(c, RelayRecord(conns[c], n, s, r, ws, wc, u, d)),
         UNCHANGED <<actorVars, stopped, panicked>>
  PROVE  TcpInv'
<1> DEFINE k == RelayRecord(conns[c], n, s, r, ws, wc, u, d)
<1>1. conns[c] \in Conn /\ ConnInv(conns[c])
  BY ConnFacts
<1>2. k \in Conn
  BY <1>1, ZenonT(60) DEF Conn, RelayRecord
<1>3. /\ k.pc = "open" /\ k.by = conns[c].by /\ k.port = conns[c].port
      /\ k.from = conns[c].from /\ k.to = conns[c].to /\ k.stats = conns[c].stats
      /\ k.connection = conns[c].connection
      /\ k.sent = s /\ k.received = r /\ k.server_writer = ws /\ k.client_writer = wc
      /\ k.up = u /\ k.down = d
  BY <1>1 DEF Conn, RelayRecord
<1> HIDE DEF k
<1>4. ConnInv(k)
  BY <1>1, <1>3 DEF ConnInv, Admitted
<1>5. Become(c, k)
  BY DEF k
<1>6. QED BY <1>2, <1>4, <1>5, ActorKept, BecomeInv

\* A chunk of the client's changes the counter, `sent' and the server's Writer.
LEMMA ClientBytesRecord ==
  ASSUME NEW k \in Conn, NEW len
  PROVE  [Count(k) EXCEPT !.sent = IF k.stats THEN @ + len ELSE @, !.server_writer = @ + len]
           = RelayRecord(k, k.counter + 1, IF k.stats THEN k.sent + len ELSE k.sent, k.received,
                         k.server_writer + len, k.client_writer, k.up, k.down)
BY DEF Count, Conn, RelayRecord

\* A chunk of the server's changes the counter, `received' and the client's Writer.
LEMMA ServerBytesRecord ==
  ASSUME NEW k \in Conn, NEW len
  PROVE  [Count(k) EXCEPT !.received = IF k.stats THEN @ + len ELSE @, !.client_writer = @ + len]
           = RelayRecord(k, k.counter + 1, k.sent, IF k.stats THEN k.received + len ELSE k.received,
                         k.server_writer, k.client_writer + len, k.up, k.down)
BY DEF Count, Conn, RelayRecord

\* A chunk is counted when its Writer gets it, and leaves later or is lost.
LEMMA RelayInv ==
  ASSUME TcpInv, NEW c \in Conns, Relay(c)
  PROVE  TcpInv'
<1> DEFINE k == conns[c]
<1>1. k \in Conn /\ ConnInv(k)
  BY ConnFacts
<1>2. k.pc = "open" /\ UNCHANGED <<actorVars, stopped, panicked>>
  BY DEF Relay, ClientBytes, ServerBytes, FlushServer, FlushClient, Heartbeat, Finished
<1>3. CASE Become(c, [k EXCEPT !.pc = "ended"])
  BY <1>2, <1>3, MoveInv
<1>4. /\ k.counter \in 0..(MAX_SPEED + 1) /\ k.up \in 0..MaxBytes
      /\ k.down \in 0..MaxBytes /\ k.sent \in 0..MaxBytes
      /\ k.received \in 0..MaxBytes /\ k.stats \in BOOLEAN
      /\ k.server_writer \in 0..MaxBytes /\ k.client_writer \in 0..MaxBytes
      /\ k.up + k.server_writer <= MaxBytes /\ k.down + k.client_writer <= MaxBytes
      /\ k.sent = IF k.stats THEN k.up + k.server_writer ELSE 0
      /\ k.received = IF k.stats THEN k.down + k.client_writer ELSE 0
  BY <1>1 DEF Conn, ConnInv
<1>5. ASSUME NEW len \in ChunkSizes, ClientBytes(c, len), ~TooFast(k) PROVE TcpInv'
  <2> DEFINE s == IF k.stats THEN k.sent + len ELSE k.sent
             ws == k.server_writer + len
             n == k.counter + 1
  <2>1. k.up + k.server_writer + len <= MaxBytes
    BY <1>5 DEF ClientBytes
  <2>2. len \in Nat
    BY TcpConstants
  <2>3. n \in 0..(MAX_SPEED + 1)
    BY <1>4, <1>5, TcpConstants DEF TooFast
  <2>4. /\ ws \in 0..MaxBytes /\ s \in 0..MaxBytes /\ k.up + ws <= MaxBytes
        /\ s = IF k.stats THEN k.up + ws ELSE 0
    BY <1>4, <2>1, <2>2, TcpConstants
  <2>5. Become(c, RelayRecord(k, n, s, k.received, ws, k.client_writer, k.up, k.down))
    BY <1>1, <1>5, ClientBytesRecord DEF ClientBytes
  <2> HIDE DEF s, ws, n
  <2>6. QED BY <1>2, <1>4, <2>3, <2>4, <2>5, RelayRecordInv
<1>6. ASSUME NEW len \in ChunkSizes, ServerBytes(c, len), ~TooFast(k) PROVE TcpInv'
  <2> DEFINE r == IF k.stats THEN k.received + len ELSE k.received
             wc == k.client_writer + len
             n == k.counter + 1
  <2>1. k.down + k.client_writer + len <= MaxBytes
    BY <1>6 DEF ServerBytes
  <2>2. len \in Nat
    BY TcpConstants
  <2>3. n \in 0..(MAX_SPEED + 1)
    BY <1>4, <1>6, TcpConstants DEF TooFast
  <2>4. /\ wc \in 0..MaxBytes /\ r \in 0..MaxBytes /\ k.down + wc <= MaxBytes
        /\ r = IF k.stats THEN k.down + wc ELSE 0
    BY <1>4, <2>1, <2>2, TcpConstants
  <2>5. Become(c, RelayRecord(k, n, k.sent, r, k.server_writer, wc, k.up, k.down))
    BY <1>1, <1>6, ServerBytesRecord DEF ServerBytes
  <2> HIDE DEF r, wc, n
  <2>6. QED BY <1>2, <1>4, <2>3, <2>4, <2>5, RelayRecordInv
<1>7. CASE FlushServer(c)
  <2>1. PICK b \in 1..k.server_writer :
          Become(c, [k EXCEPT !.server_writer = @ - b, !.up = @ + b])
    BY <1>7 DEF FlushServer
  <2> DEFINE w == k.server_writer
             ws == w - b
             u == k.up + b
  <2>2. ws \in 0..MaxBytes /\ u \in 0..MaxBytes /\ u + ws = k.up + k.server_writer
    <3>1. w \in Nat /\ k.up \in Nat /\ MaxBytes \in Nat /\ w <= MaxBytes /\ k.up + w <= MaxBytes
      BY <1>4, TcpConstants
    <3>2. b \in Nat /\ b <= w
      BY <3>1
    <3> HIDE DEF w
    <3>3. ws \in 0..MaxBytes /\ u \in 0..MaxBytes /\ u + ws = k.up + w
      BY <3>1, <3>2
    <3>4. QED BY <3>3 DEF w
  <2>3. Become(c, RelayRecord(k, k.counter, k.sent, k.received, ws, k.client_writer, u, k.down))
    BY <1>1, <2>1 DEF Become, Conn, RelayRecord
  <2> HIDE DEF ws, u
  <2>4. QED BY <1>2, <1>4, <2>2, <2>3, RelayRecordInv
<1>8. CASE FlushClient(c)
  <2>1. PICK b \in 1..k.client_writer :
          Become(c, [k EXCEPT !.client_writer = @ - b, !.down = @ + b])
    BY <1>8 DEF FlushClient
  <2> DEFINE w == k.client_writer
             wc == w - b
             d == k.down + b
  <2>2. wc \in 0..MaxBytes /\ d \in 0..MaxBytes /\ d + wc = k.down + k.client_writer
    <3>1. /\ w \in Nat /\ k.down \in Nat /\ MaxBytes \in Nat /\ w <= MaxBytes
          /\ k.down + w <= MaxBytes
      BY <1>4, TcpConstants
    <3>2. b \in Nat /\ b <= w
      BY <3>1
    <3> HIDE DEF w
    <3>3. wc \in 0..MaxBytes /\ d \in 0..MaxBytes /\ d + wc = k.down + w
      BY <3>1, <3>2
    <3>4. QED BY <3>3 DEF w
  <2>3. Become(c, RelayRecord(k, k.counter, k.sent, k.received, k.server_writer, wc, k.up, d))
    BY <1>1, <2>1 DEF Become, Conn, RelayRecord
  <2> HIDE DEF wc, d
  <2>4. QED BY <1>2, <1>4, <2>2, <2>3, RelayRecordInv
<1>9. CASE Heartbeat(c)
  <2>1. 0 \in 0..(MAX_SPEED + 1)
    BY TcpConstants
  <2>2. Become(c, RelayRecord(k, 0, k.sent, k.received, k.server_writer, k.client_writer,
                              k.up, k.down))
    BY <1>1, <1>9 DEF Heartbeat, Become, Conn, RelayRecord
  <2>3. QED BY <1>2, <1>4, <2>1, <2>2, RelayRecordInv
<1>10. QED
  BY <1>3, <1>5, <1>6, <1>7, <1>8, <1>9 DEF Relay, ClientBytes, ServerBytes, Finished

\* The destination answers or not, and the end of a relay is reported.
LEMMA EndsInv ==
  ASSUME TcpInv, NEW c \in Conns, ConnectServer(c) \/ Disconnect(c)
  PROVE  TcpInv'
<1>1. CASE ConnectServer(c)
  BY <1>1, MoveInv, CloseInv DEF ConnectServer
<1>2. CASE Disconnect(c)
  BY <1>2, MoveInv, PanicInv DEF Disconnect
<1>3. QED BY <1>1, <1>2

-----------------------------------------------------------------------------
\* The actor alone moves and leaves its caches in order.
LEMMA OnlyActor ==
  ASSUME TcpInv, ActorInv', CacheCoherent', conns' = conns, stopped' \subseteq Ports,
         panicked' = panicked
  PROVE  TcpInv'
BY DEF TcpInv

LEMMA TcpControlInv ==
  ASSUME TcpInv, Control \/ InstallPolicy \/ \E p \in Ports : ServerStops(p)
  PROVE  TcpInv'
<1>1. CASE Control
  <2>1. ActorInv'
    BY <1>1, StopStartInv, ServerStepInv, OtherRequestInv DEF Control, HostStep, TcpInv
  <2>2. CacheCoherent'
    BY <1>1, ControlKeepsPolicy DEF Control, TcpInv
  <2>3. QED BY <1>1, <2>1, <2>2, OnlyActor DEF Control, TcpInv
<1>2. CASE InstallPolicy
  <2>1. PICK t \in TcpPolicies \cup {None}, h \in HttpPolicies \cup {None} :
          SetPolicy(t, h) /\ UNCHANGED <<conns, stopped, panicked>>
    BY <1>2 DEF InstallPolicy
  <2>2. ActorInv' /\ UNCHANGED idVars
    BY <2>1, SetPolicyInv DEF TcpInv, SetPolicy
  <2>3. CacheCoherent'
    BY <2>2 DEF TcpInv, idVars, CacheCoherent, LabelsOf
  <2>4. QED BY <2>1, <2>2, <2>3, OnlyActor DEF TcpInv
<1>3. ASSUME NEW p \in Ports, ServerStops(p) PROVE TcpInv'
  <2>1. UNCHANGED actorVars /\ UNCHANGED <<conns, panicked>> /\ stopped' = stopped \cup {p}
    BY <1>3 DEF ServerStops
  <2>2. ActorInv'
    BY <2>1, ActorUnchangedInv DEF TcpInv
  <2>3. CacheCoherent'
    BY <2>1 DEF TcpInv, actorVars, idVars, CacheCoherent, LabelsOf
  <2>4. QED BY <2>1, <2>2, <2>3, OnlyActor DEF TcpInv
<1>4. QED BY <1>1, <1>2, <1>3

\* Every step of the TCP proxy, its host and its peers keeps the invariant.
LEMMA TcpStepInv == ASSUME TcpInv, [TcpNext]_tcpVars PROVE TcpInv'
<1>1. CASE Control \/ InstallPolicy \/ \E p \in Ports : ServerStops(p)
  BY <1>1, TcpControlInv
<1>2. ASSUME NEW c \in Conns, NEW p \in Ports, NEW s \in Peers,
             NEW d \in Destinations \cup {None}, ClientConnects(c, p, s, d)
      PROVE  TcpInv'
  BY <1>2, ClientConnectsInv
<1>3. ASSUME NEW c \in Conns,
             \/ TcpConnect(c) \/ GetTcpPolicy(c) \/ TcpVerdict(c) \/ ConnectServer(c)
             \/ Relay(c) \/ Disconnect(c)
      PROVE  TcpInv'
  BY <1>3, TcpConnectInv, GetTcpPolicyInv, TcpVerdictInv, RelayInv, EndsInv
<1>4. CASE UNCHANGED tcpVars
  <2>1. ActorInv'
    BY <1>4, ActorUnchangedInv DEF TcpInv, tcpVars
  <2>2. CacheCoherent'
    BY <1>4 DEF TcpInv, tcpVars, actorVars, idVars, CacheCoherent, LabelsOf
  <2>3. QED BY <1>4, <2>1, <2>2, OnlyActor DEF tcpVars, TcpInv
<1>5. QED BY <1>1, <1>2, <1>3, <1>4 DEF TcpNext

LEMMA TcpInvariant == TcpSpec => []TcpInv
<1>1. TcpInit => TcpInv
  BY TcpInitInv
<1>2. TcpInv /\ [TcpNext]_tcpVars => TcpInv'
  BY TcpStepInv
<1>3. QED BY <1>1, <1>2, PTL DEF TcpSpec

(***************************************************************************)
(* The state of actor, servers and connections is well formed, also when   *)
(* a handler panics; in particular the speed counter never exceeds the     *)
(* limit by more than the one chunk that ends the relay.                   *)
(***************************************************************************)
THEOREM TcpTypeCorrect == TcpSpec => []TcpTypeOK
<1>1. TcpInv => TcpTypeOK
  BY DEF TcpInv, TcpTypeOK, ActorInv
<1>2. QED BY <1>1, TcpInvariant, PTL

(***************************************************************************)
(* Whatever is relayed was admitted, and the statistics that               *)
(* on_tcp_disconnect gets account for every byte: those that left and      *)
(* those a Writer still held at the end, however chunks, flushes and the   *)
(* end of the relay interleave.                                            *)
(***************************************************************************)
THEOREM TcpStatsExact == TcpSpec => []StatsExact
<1>1. TcpInv => StatsExact
  <2> SUFFICES ASSUME TcpInv, NEW c \in Conns, Relayed(conns[c])
               PROVE  LET k == conns[c]
                      IN  /\ k.by # Deny
                          /\ k.stats <=> k.by = Args(1)
                          /\ k.stats => /\ k.sent = k.up + k.server_writer
                                        /\ k.received = k.down + k.client_writer
                                        /\ k.connection.from.port = k.from.port
                                        /\ k.connection.to.port = k.to.port
    BY DEF StatsExact
  <2>1. ConnInv(conns[c]) /\ conns[c].pc \in Admitted
    BY ConnFacts DEF Relayed, Admitted
  <2>2. Allow # Deny /\ Args(1) # Deny
    BY DEF Allow, Deny, Args
  <2>3. QED BY <2>1, <2>2 DEF ConnInv
<1>2. QED BY <1>1, TcpInvariant, PTL

-----------------------------------------------------------------------------
(***************************************************************************)
(* The TCP proxy implements Gate, for every set of connections, ports and  *)
(* policies.                                                               *)
(***************************************************************************)
\* The parts of the gate's state that one connection stands for.
ConnPassed(k) == IF k.pc \in Admitted \/ k.by # Deny THEN 1 ELSE 0
ConnJudged(k) == IF k.by.kind = "Args" THEN {1} ELSE {}
ConnSince(k)  == IF k.pc = "judge" THEN {k.env} ELSE {}

\* A connection goes on as k: the gate changes for this message only.
LEMMA ConnFrame ==
  ASSUME TcpInv, NEW c \in Conns, NEW k \in Conn, Become(c, k)
  PROVE  /\ GatePlace' = [GatePlace EXCEPT ![c] = Place(k)]
         /\ GatePassed' = [GatePassed EXCEPT ![c] = ConnPassed(k)]
         /\ GateJudged' = [GateJudged EXCEPT ![c] = ConnJudged(k)]
         /\ GateSince' = [GateSince EXCEPT ![c] = ConnSince(k)]
<1>1. \A e \in Conns : conns'[e] = IF e = c THEN k ELSE conns[e]
  BY DEF TcpInv, Become
<1>2. GatePlace' = [GatePlace EXCEPT ![c] = Place(k)]
  BY <1>1 DEF GatePlace
<1>3. GatePassed' = [GatePassed EXCEPT ![c] = ConnPassed(k)]
  BY <1>1 DEF GatePassed, ConnPassed, Admitted
<1>4. GateJudged' = [GateJudged EXCEPT ![c] = ConnJudged(k)]
  BY <1>1 DEF GateJudged, ConnJudged
<1>5. GateSince' = [GateSince EXCEPT ![c] = ConnSince(k)]
  BY <1>1 DEF GateSince, ConnSince
<1>6. QED BY <1>2, <1>3, <1>4, <1>5

\* The gate's view of one connection.
LEMMA ConnView ==
  ASSUME NEW c \in Conns
  PROVE  /\ GatePlace[c] = Place(conns[c])
         /\ GatePassed[c] = ConnPassed(conns[c])
         /\ GateJudged[c] = ConnJudged(conns[c])
         /\ GateSince[c] = ConnSince(conns[c])
BY DEF GatePlace, GatePassed, GateJudged, GateSince, ConnPassed, ConnJudged, ConnSince, Admitted

\* What is set to the value it had is as it was.
LEMMA ViewKept ==
  ASSUME NEW f, NEW g, NEW c \in Conns, NEW v, f = [x \in Conns |-> f[x]],
         g = [f EXCEPT ![c] = v], f[c] = v
  PROVE  g = f
<1>1. g = [x \in Conns |-> f[x]]
  <2>1. DOMAIN f = Conns
    OBVIOUS
  <2>2. g = [x \in Conns |-> IF x = c THEN v ELSE f[x]]
    BY <2>1
  <2>3. QED BY <2>2
<1>2. QED BY <1>1

\* The gate's view has a value for each connection.
LEMMA Views ==
  /\ GatePlace = [x \in Conns |-> GatePlace[x]]
  /\ GatePassed = [x \in Conns |-> GatePassed[x]]
  /\ GateJudged = [x \in Conns |-> GateJudged[x]]
  /\ GateSince = [x \in Conns |-> GateSince[x]]
<1>1. GatePlace = [x \in Conns |-> GatePlace[x]]
  BY DEF GatePlace
<1>2. GatePassed = [x \in Conns |-> GatePassed[x]]
  BY DEF GatePassed
<1>3. GateJudged = [x \in Conns |-> GateJudged[x]]
  BY DEF GateJudged
<1>4. GateSince = [x \in Conns |-> GateSince[x]]
  BY DEF GateSince
<1>5. QED BY <1>1, <1>2, <1>3, <1>4

\* What a step of the proxy is for the gate.
TcpGateStep == TcpGate!Next \/ UNCHANGED TcpGate!vars

LEMMA ConnSteps ==
  ASSUME NEW c \in Conns,
         TcpGate!Arrive(c) \/ TcpGate!Admit(c) \/ TcpGate!Pass(c) \/ TcpGate!Leave(c)
  PROVE  TcpGateStep
BY DEF TcpGateStep, TcpGate!Next

\* A step of a connection that the gate does not see.
LEMMA StutterMaps ==
  ASSUME TcpInv, NEW c \in Conns, NEW k \in Conn, Become(c, k), UNCHANGED actorVars,
         conns[c].pc \in Admitted, k.pc \in Admitted, k.by = conns[c].by
  PROVE  TcpGateStep
<1>1. /\ GatePlace' = [GatePlace EXCEPT ![c] = Place(k)]
      /\ GatePassed' = [GatePassed EXCEPT ![c] = ConnPassed(k)]
      /\ GateJudged' = [GateJudged EXCEPT ![c] = ConnJudged(k)]
      /\ GateSince' = [GateSince EXCEPT ![c] = ConnSince(k)]
  BY ConnFrame
<1>2. Place(k) = Place(conns[c]) /\ ConnSince(k) = ConnSince(conns[c])
  BY DEF Place, ConnSince, Admitted
<1>3. ConnPassed(k) = ConnPassed(conns[c]) /\ ConnJudged(k) = ConnJudged(conns[c])
  BY DEF ConnPassed, ConnJudged
<1>4. /\ GatePlace[c] = Place(k) /\ GatePassed[c] = ConnPassed(k)
      /\ GateJudged[c] = ConnJudged(k) /\ GateSince[c] = ConnSince(k)
  BY <1>2, <1>3, ConnView
<1>5. GatePlace' = GatePlace /\ GateSince' = GateSince
  BY <1>1, <1>4, Views, ViewKept
<1>6. GatePassed' = GatePassed /\ GateJudged' = GateJudged
  BY <1>1, <1>4, Views, ViewKept
<1>7. running' = running /\ tcp' = tcp
  BY DEF actorVars, ctlVars
<1>8. QED BY <1>5, <1>6, <1>7 DEF TcpGateStep, TcpGate!vars

\* A connection that is closed before it was relayed is a message that leaves.
LEMMA ClosedMaps ==
  ASSUME TcpInv, NEW c \in Conns, Close(c), UNCHANGED actorVars,
         running, conns[c].pc # "closed"
  PROVE  TcpGateStep
<1> DEFINE k == [IdleConn EXCEPT !.pc = "closed", !.by = conns[c].by]
<1>1. k \in Conn /\ k.pc = "closed" /\ k.by = conns[c].by
  BY ClosedConn
<1>2. Become(c, k)
  BY DEF Close
<1> HIDE DEF k
<1>3. /\ GatePlace' = [GatePlace EXCEPT ![c] = Place(k)]
      /\ GatePassed' = [GatePassed EXCEPT ![c] = ConnPassed(k)]
      /\ GateJudged' = [GateJudged EXCEPT ![c] = ConnJudged(k)]
      /\ GateSince' = [GateSince EXCEPT ![c] = ConnSince(k)]
  BY <1>1, <1>2, ConnFrame
<1>4. Place(k) = "left" /\ ConnSince(k) = {} /\ Place(conns[c]) # "left"
  BY <1>1 DEF Place, ConnSince
<1>5. ConnPassed(k) = ConnPassed(conns[c]) /\ ConnJudged(k) = ConnJudged(conns[c])
  <2>1. conns[c].pc \in Admitted => conns[c].by # Deny
    <3>1. conns[c].pc \in Admitted => conns[c].by \in {Allow, Args(1)}
      BY ConnFacts DEF ConnInv
    <3>2. QED BY <3>1 DEF Allow, Args, Deny
  <2>2. ConnPassed(k) = ConnPassed(conns[c])
    BY <1>1, <2>1 DEF ConnPassed, Admitted
  <2>3. QED BY <1>1, <2>2 DEF ConnJudged
<1>6. GatePassed' = GatePassed /\ GateJudged' = GateJudged
  <2>1. GatePassed[c] = ConnPassed(k) /\ GateJudged[c] = ConnJudged(k)
    BY <1>5, ConnView
  <2>2. QED BY <1>3, <2>1, Views, ViewKept
<1>7. running' = running /\ tcp' = tcp
  BY DEF actorVars, ctlVars
<1>8. TcpGate!Leave(c)
  BY <1>3, <1>4, <1>6, <1>7, ConnView DEF TcpGate!Leave
<1>9. QED BY <1>8, ConnSteps

\* A connection that passes no check and relies on no policy before and after.
LEMMA WaitingViews ==
  ASSUME TcpInv, NEW c \in Conns, NEW k \in Conn, Become(c, k),
         conns[c].pc \in {"idle", "queued"}, k.pc \in {"queued", "policy"},
         k.by = conns[c].by
  PROVE  /\ GatePlace' = [GatePlace EXCEPT ![c] = "waiting"]
         /\ GatePassed' = GatePassed /\ GateJudged' = GateJudged /\ GateSince' = GateSince
<1>1. /\ GatePlace' = [GatePlace EXCEPT ![c] = Place(k)]
      /\ GatePassed' = [GatePassed EXCEPT ![c] = ConnPassed(k)]
      /\ GateJudged' = [GateJudged EXCEPT ![c] = ConnJudged(k)]
      /\ GateSince' = [GateSince EXCEPT ![c] = ConnSince(k)]
  BY ConnFrame
<1>2. Place(k) = "waiting"
  BY DEF Place
<1>3. ConnPassed(k) = ConnPassed(conns[c]) /\ ConnJudged(k) = ConnJudged(conns[c])
      /\ ConnSince(k) = ConnSince(conns[c])
  BY DEF ConnPassed, ConnJudged, ConnSince, Admitted
<1>4. /\ GatePassed[c] = ConnPassed(k) /\ GateJudged[c] = ConnJudged(k)
      /\ GateSince[c] = ConnSince(k)
  BY <1>3, ConnView
<1>5. GatePassed' = GatePassed /\ GateJudged' = GateJudged /\ GateSince' = GateSince
  BY <1>1, <1>4, Views, ViewKept
<1>6. QED BY <1>1, <1>2, <1>5

\* A client connects: the message arrives.
LEMMA ArriveMaps ==
  ASSUME TcpInv, NEW c \in Conns, NEW p \in Ports, NEW s \in Peers,
         NEW d \in Destinations \cup {None}, ClientConnects(c, p, s, d)
  PROVE  TcpGateStep
<1> DEFINE k == [conns[c] EXCEPT !.pc = "queued", !.port = p, !.from = s, !.to = d]
<1>1. /\ conns[c] \in Conn /\ conns[c].pc = "idle" /\ running /\ UNCHANGED actorVars
      /\ Become(c, k)
  BY ConnFacts DEF ClientConnects
<1>2. k \in Conn /\ k.pc = "queued" /\ k.by = conns[c].by
  BY <1>1 DEF Conn
<1> HIDE DEF k
<1>3. /\ GatePlace' = [GatePlace EXCEPT ![c] = "waiting"]
      /\ GatePassed' = GatePassed /\ GateJudged' = GateJudged /\ GateSince' = GateSince
  BY <1>1, <1>2, WaitingViews
<1>4. GatePlace[c] = "new"
  BY <1>1, ConnView DEF Place
<1>5. running' = running /\ tcp' = tcp
  BY <1>1 DEF actorVars, ctlVars
<1>6. TcpGate!Arrive(c)
  BY <1>1, <1>3, <1>4, <1>5 DEF TcpGate!Arrive
<1>7. QED BY <1>6, ConnSteps

\* The server actor takes a connection, which goes on waiting, or closes it.
LEMMA ConnectMaps ==
  ASSUME TcpInv, NEW c \in Conns, TcpConnect(c)
  PROVE  TcpGateStep
<1>1. /\ conns[c] \in Conn /\ conns[c].pc = "queued" /\ running /\ UNCHANGED actorVars
  BY ConnFacts DEF TcpConnect
<1>2. CASE Close(c)
  BY <1>1, <1>2, ClosedMaps
<1>3. CASE Become(c, [conns[c] EXCEPT !.pc = "policy"])
  <2> DEFINE k == [conns[c] EXCEPT !.pc = "policy"]
  <2>1. k \in Conn /\ k.pc = "policy" /\ k.by = conns[c].by /\ Become(c, k)
    BY <1>1, <1>3 DEF Conn
  <2> HIDE DEF k
  <2>2. /\ GatePlace' = [GatePlace EXCEPT ![c] = "waiting"]
        /\ GatePassed' = GatePassed /\ GateJudged' = GateJudged /\ GateSince' = GateSince
    BY <1>1, <2>1, WaitingViews
  <2>3. GatePlace[c] = "waiting"
    BY <1>1, ConnView DEF Place
  <2>4. GatePlace' = GatePlace
    BY <2>2, <2>3, Views, ViewKept
  <2>5. running' = running /\ tcp' = tcp
    BY <1>1 DEF actorVars, ctlVars
  <2>6. QED BY <2>2, <2>4, <2>5 DEF TcpGateStep, TcpGate!vars
<1>4. QED BY <1>2, <1>3 DEF TcpConnect

\* An unreachable!() of the actor shuts the gate.
LEMMA PanicMaps == ASSUME TcpInv, running, Panic PROVE TcpGateStep
<1>1. running' = FALSE /\ tcp' = tcp /\ conns' = conns /\ running = TRUE
  BY DEF Panic, TcpInv, ActorInv, ActorTypeOK
<1>2. /\ GatePlace' = GatePlace /\ GatePassed' = GatePassed
      /\ GateJudged' = GateJudged /\ GateSince' = GateSince
  BY <1>1 DEF GatePlace, GatePassed, GateJudged, GateSince
<1>3. QED BY <1>1, <1>2 DEF TcpGateStep, TcpGate!Next, TcpGate!Stop

\* The actor's answer: the message meets the policy in force.
LEMMA GetTcpPolicyMaps ==
  ASSUME TcpInv, NEW c \in Conns, GetTcpPolicy(c)
  PROVE  TcpGateStep
<1>1. /\ conns[c] \in Conn /\ conns[c].pc = "policy" /\ running /\ conns[c].by = Deny
      /\ conns[c].from \in Peers /\ conns[c].to \in Destinations
  BY ConnFacts DEF GetTcpPolicy, Ready, ConnInv, Admitted
<1>2. /\ tcp.connect = fn_get(tcp.policy, "allow_tcp_connection")
      /\ tcp.policy \in TcpInstalled
  BY DEF TcpInv, ActorInv, ActorTypeOK, PolicyViewsAgree, TcpInstalled
<1>3. /\ GatePlace[c] = "waiting" /\ GatePassed[c] = 0 /\ GateJudged[c] = {}
  <2>1. Place(conns[c]) = "waiting"
    BY <1>1 DEF Place
  <2>2. ConnPassed(conns[c]) = 0 /\ ConnJudged(conns[c]) = {}
    BY <1>1 DEF ConnPassed, ConnJudged, Admitted, Deny
  <2>3. QED BY <2>1, <2>2, ConnView
<1>4. CASE GetTcpPolicyAllow(c)
  <2> DEFINE k == [conns[c] EXCEPT !.pc = "connect", !.by = Allow]
  <2>1. k \in Conn /\ k.pc = "connect" /\ k.by = Allow
    BY <1>1, DenyIsPolicy DEF Conn
  <2>2. Become(c, k) /\ running' = running /\ tcp' = tcp /\ tcp.connect = Allow
    BY <1>4 DEF GetTcpPolicyAllow, ctlVars
  <2>3. /\ GatePlace' = [GatePlace EXCEPT ![c] = Place(k)]
        /\ GatePassed' = [GatePassed EXCEPT ![c] = ConnPassed(k)]
        /\ GateJudged' = [GateJudged EXCEPT ![c] = ConnJudged(k)]
        /\ GateSince' = [GateSince EXCEPT ![c] = ConnSince(k)]
    BY <2>1, <2>2, ConnFrame
  <2>4. /\ Place(k) = "inside" /\ ConnPassed(k) = 1 /\ ConnJudged(k) = {}
        /\ ConnSince(k) = {}
    BY <2>1 DEF Place, ConnPassed, ConnJudged, ConnSince, Admitted, Allow
  <2>5. TcpAnswer(tcp.policy, 1) = "allow"
    BY <1>2, <2>2 DEF TcpAnswer, Allow, Deny
  <2>6. GateJudged' = GateJudged
    BY <1>3, <2>3, <2>4 DEF GateJudged
  <2>7. GatePassed[c] + 1 = 1
    BY <1>3
  <2>8. TcpGate!Grant(c, {tcp.policy})
    BY <2>3, <2>4, <2>5, <2>6, <2>7 DEF TcpGate!Grant
  <2>9. GatePassed'[c] = 1
    BY <2>3, <2>4 DEF GatePassed
  <2>10. GateSince' = [GateSince EXCEPT ![c] = IF GatePassed'[c] < 1 THEN {tcp.policy} ELSE {}]
    <3>1. (IF GatePassed'[c] < 1 THEN {tcp.policy} ELSE {}) = ConnSince(k)
      BY <2>4, <2>9
    <3>2. QED BY <2>3, <3>1
  <2>11. TcpGate!Admit(c)
    BY <1>1, <1>3, <2>2, <2>3, <2>4, <2>8, <2>10 DEF TcpGate!Admit
  <2>12. QED BY <2>11, ConnSteps
<1>5. CASE GetTcpPolicyDeny(c)
  BY <1>1, <1>5, ClosedMaps DEF GetTcpPolicyDeny
<1>6. CASE GetTcpPolicyEval(c)
  <2>1. PICK d1 \in DnsAnswer, d2 \in DnsAnswer :
          Become(c, [conns[c] EXCEPT !.pc = "judge", !.env = tcp.policy,
                       !.connection = Connection(conns[c].from, conns[c].to, d1, d2)])
    BY <1>6 DEF GetTcpPolicyEval
  <2> DEFINE v == Connection(conns[c].from, conns[c].to, d1, d2)
             k == [conns[c] EXCEPT !.pc = "judge", !.env = tcp.policy, !.connection = v]
  <2>2. conns[c].from \in ID /\ conns[c].to \in ID
    BY <1>1, TcpConstants DEF ID
  <2>3. v \in DPConnection
    BY <2>2, ConnectionValue DEF TcpInv, ActorInv, ActorTypeOK
  <2>4. k \in Conn /\ k.pc = "judge" /\ k.by = Deny /\ k.env = tcp.policy
    BY <1>1, <1>2, <2>3 DEF Conn, TcpInstalled
  <2>5. running' = running /\ tcp' = tcp
    BY <1>6 DEF GetTcpPolicyEval, ctlVars
  <2>6. /\ GatePlace' = [GatePlace EXCEPT ![c] = Place(k)]
        /\ GatePassed' = [GatePassed EXCEPT ![c] = ConnPassed(k)]
        /\ GateJudged' = [GateJudged EXCEPT ![c] = ConnJudged(k)]
        /\ GateSince' = [GateSince EXCEPT ![c] = ConnSince(k)]
    BY <2>1, <2>4, ConnFrame
  <2>7. /\ Place(k) = "inside" /\ ConnPassed(k) = 0 /\ ConnJudged(k) = {}
        /\ ConnSince(k) = {tcp.policy}
    BY <2>4 DEF Place, ConnPassed, ConnJudged, ConnSince, Admitted, Deny
  <2>8. GatePassed' = GatePassed /\ GateJudged' = GateJudged
    BY <1>3, <2>6, <2>7 DEF GatePassed, GateJudged
  <2>9. GateSince' = [GateSince EXCEPT ![c] = IF GatePassed'[c] < 1 THEN {tcp.policy} ELSE {}]
    <3>1. (IF GatePassed'[c] < 1 THEN {tcp.policy} ELSE {}) = ConnSince(k)
      BY <1>3, <2>7, <2>8
    <3>2. QED BY <2>6, <3>1
  <2>10. TcpGate!Admit(c)
    BY <1>1, <1>3, <2>5, <2>6, <2>7, <2>8, <2>9 DEF TcpGate!Admit
  <2>11. QED BY <2>10, ConnSteps
<1>7. CASE GetTcpPolicyPanic(c)
  BY <1>1, <1>7, PanicMaps DEF GetTcpPolicyPanic
<1>8. QED BY <1>4, <1>5, <1>6, <1>7 DEF GetTcpPolicy

\* The verdict of the policy that evaluates the connection, and of no other.
LEMMA TcpVerdictMaps ==
  ASSUME TcpInv, NEW c \in Conns, TcpVerdict(c)
  PROVE  TcpGateStep
<1> DEFINE q == [conns[c] EXCEPT !.env = None]
           k == [q EXCEPT !.pc = "connect", !.stats = TRUE, !.by = Args(1)]
<1>1. /\ conns[c] \in Conn /\ conns[c].pc = "judge" /\ running /\ conns[c].by = Deny
      /\ fn_get(conns[c].env, "allow_tcp_connection") = Args(1) /\ UNCHANGED actorVars
  BY ConnFacts DEF TcpVerdict, ConnInv, Admitted
<1>2. CASE Close(c)
  BY <1>1, <1>2, ClosedMaps
<1>3. CASE Become(c, k)
  <2>1. k \in Conn /\ k.pc = "connect" /\ k.by = Args(1)
    BY <1>1, DenyIsPolicy DEF Conn
  <2>2. /\ GatePlace' = [GatePlace EXCEPT ![c] = Place(k)]
        /\ GatePassed' = [GatePassed EXCEPT ![c] = ConnPassed(k)]
        /\ GateJudged' = [GateJudged EXCEPT ![c] = ConnJudged(k)]
        /\ GateSince' = [GateSince EXCEPT ![c] = ConnSince(k)]
    BY <1>3, <2>1, ConnFrame
  <2>3. /\ Place(k) = "inside" /\ ConnPassed(k) = 1 /\ ConnJudged(k) = {1}
        /\ ConnSince(k) = {}
    BY <2>1 DEF Place, ConnPassed, ConnJudged, ConnSince, Admitted, Args
  <2>4. /\ GatePlace[c] = "inside" /\ GatePassed[c] = 0 /\ GateJudged[c] = {}
        /\ GateSince[c] = {conns[c].env}
    <3>1. Place(conns[c]) = "inside" /\ ConnSince(conns[c]) = {conns[c].env}
      BY <1>1 DEF Place, ConnSince
    <3>2. ConnPassed(conns[c]) = 0 /\ ConnJudged(conns[c]) = {}
      BY <1>1 DEF ConnPassed, ConnJudged, Admitted, Deny
    <3>3. QED BY <3>1, <3>2, ConnView
  <2>5. TcpAnswer(conns[c].env, 1) = "judge"
    BY <1>1 DEF TcpAnswer, Args, Allow, Deny
  <2>6. TcpGate!Held(c)
    BY <2>4 DEF TcpGate!Held
  <2>7. GatePassed[c] + 1 = 1 /\ GateJudged[c] \cup {1} = {1}
    BY <2>4
  <2>8. TcpGate!Grant(c, GateSince[c])
    <3>1. GatePassed' = [GatePassed EXCEPT ![c] = GatePassed[c] + 1]
      BY <2>2, <2>3, <2>7
    <3>2. GateJudged' = [GateJudged EXCEPT ![c] = GateJudged[c] \cup {GatePassed[c] + 1}]
      BY <2>2, <2>3, <2>7
    <3>3. \E p \in GateSince[c] : TcpAnswer(p, GatePassed[c] + 1) = "judge"
      BY <2>4, <2>5, <2>7
    <3>4. QED BY <3>1, <3>2, <3>3 DEF TcpGate!Grant
  <2>9. GatePlace' = GatePlace
    BY <2>2, <2>3, <2>4 DEF GatePlace
  <2>10. GatePassed'[c] = 1
    BY <2>2, <2>3 DEF GatePassed
  <2>11. GateSince' = [GateSince EXCEPT ![c] = IF GatePassed'[c] < 1 THEN GateSince[c] ELSE {}]
    <3>1. (IF GatePassed'[c] < 1 THEN GateSince[c] ELSE {}) = ConnSince(k)
      BY <2>3, <2>10
    <3>2. QED BY <2>2, <3>1
  <2>12. running' = running /\ tcp' = tcp
    BY <1>1 DEF actorVars, ctlVars
  <2>13. TcpGate!Pass(c)
    BY <1>1, <2>6, <2>8, <2>9, <2>11, <2>12 DEF TcpGate!Pass
  <2>14. QED BY <2>13, ConnSteps
<1>4. QED BY <1>2, <1>3 DEF TcpVerdict

\* Connecting, relaying and reporting pass no check.
LEMMA RelayMaps ==
  ASSUME TcpInv, TcpInv', NEW c \in Conns, ConnectServer(c) \/ Relay(c) \/ Disconnect(c)
  PROVE  TcpGateStep
<1>1. conns[c] \in Conn /\ conns'[c] \in Conn
  BY DEF TcpInv
<1>2. ASSUME NEW k, Become(c, k), UNCHANGED actorVars, running, conns[c].pc \in Admitted,
             k.by = conns[c].by, k.pc \in Admitted
      PROVE  TcpGateStep
  <2>1. k \in Conn
    BY <1>1, <1>2 DEF Become, TcpInv
  <2>2. QED BY <1>2, <2>1, StutterMaps
<1>3. ASSUME NEW pc \in Admitted, Become(c, [conns[c] EXCEPT !.pc = pc]),
             UNCHANGED actorVars, running, conns[c].pc \in Admitted
      PROVE  TcpGateStep
  <2> DEFINE k == [conns[c] EXCEPT !.pc = pc]
  <2>1. k.pc = pc /\ k.by = conns[c].by
    BY <1>1 DEF Conn
  <2>2. QED BY <1>2, <1>3, <2>1
<1>4. CASE ConnectServer(c)
  BY <1>3, <1>4, ClosedMaps DEF ConnectServer, Admitted
<1>5. CASE Disconnect(c)
  BY <1>3, <1>5, PanicMaps DEF Disconnect, Admitted, Ready
<1>6. CASE Relay(c)
  <2>1. UNCHANGED actorVars /\ running /\ conns[c].pc = "open"
    BY <1>6 DEF Relay, ClientBytes, ServerBytes, FlushServer, FlushClient, Heartbeat, Finished
  <2>2. CASE Become(c, [conns[c] EXCEPT !.pc = "ended"])
    BY <1>3, <2>1, <2>2 DEF Admitted
  <2>3. ASSUME NEW len \in ChunkSizes, ClientBytes(c, len), ~TooFast(conns[c])
        PROVE  TcpGateStep
    <3> DEFINE k == [Count(conns[c]) EXCEPT
                       !.sent = IF conns[c].stats THEN @ + len ELSE @,
                       !.server_writer = @ + len]
    <3>1. Become(c, k)
      BY <2>3 DEF ClientBytes
    <3>2. k.pc = conns[c].pc /\ k.by = conns[c].by
      BY <1>1 DEF Conn, Count
    <3>3. QED BY <1>2, <2>1, <3>1, <3>2 DEF Admitted
  <2>4. ASSUME NEW len \in ChunkSizes, ServerBytes(c, len), ~TooFast(conns[c])
        PROVE  TcpGateStep
    <3> DEFINE k == [Count(conns[c]) EXCEPT
                       !.received = IF conns[c].stats THEN @ + len ELSE @,
                       !.client_writer = @ + len]
    <3>1. Become(c, k)
      BY <2>4 DEF ServerBytes
    <3>2. k.pc = conns[c].pc /\ k.by = conns[c].by
      BY <1>1 DEF Conn, Count
    <3>3. QED BY <1>2, <2>1, <3>1, <3>2 DEF Admitted
  <2>5. CASE Heartbeat(c)
    <3> DEFINE k == [conns[c] EXCEPT !.counter = 0]
    <3>1. k.pc = conns[c].pc /\ k.by = conns[c].by
      BY <1>1 DEF Conn
    <3>2. QED BY <1>2, <2>1, <2>5, <3>1 DEF Heartbeat, Admitted
  <2>6. CASE FlushServer(c)
    <3>1. PICK n \in 1..conns[c].server_writer :
            Become(c, [conns[c] EXCEPT !.server_writer = @ - n, !.up = @ + n])
      BY <2>6 DEF FlushServer
    <3> DEFINE k == [conns[c] EXCEPT !.server_writer = @ - n, !.up = @ + n]
    <3>2. k.pc = conns[c].pc /\ k.by = conns[c].by
      BY <1>1 DEF Conn
    <3>3. QED BY <1>2, <2>1, <3>1, <3>2 DEF Admitted
  <2>7. CASE FlushClient(c)
    <3>1. PICK n \in 1..conns[c].client_writer :
            Become(c, [conns[c] EXCEPT !.client_writer = @ - n, !.down = @ + n])
      BY <2>7 DEF FlushClient
    <3> DEFINE k == [conns[c] EXCEPT !.client_writer = @ - n, !.down = @ + n]
    <3>2. k.pc = conns[c].pc /\ k.by = conns[c].by
      BY <1>1 DEF Conn
    <3>3. QED BY <1>2, <2>1, <3>1, <3>2 DEF Admitted
  <2>8. QED
    BY <1>6, <2>2, <2>3, <2>4, <2>5, <2>6, <2>7 DEF Relay, ClientBytes, ServerBytes, Finished
<1>7. QED BY <1>4, <1>5, <1>6

-----------------------------------------------------------------------------
\* Requests of the host, servers that stop, and new policies, on which no
\* connection comes to rely.
LEMMA TcpControlMaps ==
  ASSUME TcpInv, TcpInv', Control \/ InstallPolicy \/ \E p \in Ports : ServerStops(p)
  PROVE  TcpGateStep
<1>1. conns' = conns
  BY DEF Control, InstallPolicy, ServerStops
<1>2. /\ GatePlace' = GatePlace /\ GatePassed' = GatePassed
      /\ GateJudged' = GateJudged /\ GateSince' = GateSince
  BY <1>1 DEF GatePlace, GatePassed, GateJudged, GateSince
<1>3. CASE Control
  <2>1. /\ tcp'.policy = tcp.policy
        /\ running' = running \/ (running = TRUE /\ running' = FALSE)
    BY <1>3, ControlKeepsPolicy DEF TcpInv, Control
  <2>2. CASE running' = running
    BY <1>2, <2>1, <2>2 DEF TcpGateStep, TcpGate!vars
  <2>3. CASE running = TRUE /\ running' = FALSE
    BY <1>2, <2>1, <2>3 DEF TcpGateStep, TcpGate!Next, TcpGate!Stop
  <2>4. QED BY <2>1, <2>2, <2>3
<1>4. CASE InstallPolicy
  <2>1. running /\ running' = running
    BY <1>4 DEF InstallPolicy, SetPolicy, HostRequest, Ready
  <2>2. tcp'.policy \in Installed(TcpFns, TcpPolicies)
    BY DEF TcpInv, ActorInv, ActorTypeOK
  <2>3. GateSince' = [c \in Conns |-> IF c \in {} THEN GateSince[c] \cup {tcp'.policy}
                                      ELSE GateSince[c]]
    BY <1>2 DEF GateSince
  <2>4. TcpGate!Install(tcp'.policy)
    <3>1. {} \in SUBSET {c \in Conns : TcpGate!Held(c)}
      OBVIOUS
    <3>2. \E M \in SUBSET {c \in Conns : TcpGate!Held(c)} :
            GateSince' = [c \in Conns |-> IF c \in M THEN GateSince[c] \cup {tcp'.policy}
                                         ELSE GateSince[c]]
      BY <2>3, <3>1, Zenon
    <3>3. QED BY <1>2, <2>1, <3>2 DEF TcpGate!Install
  <2>5. QED BY <2>2, <2>4 DEF TcpGateStep, TcpGate!Next
<1>5. CASE \E p \in Ports : ServerStops(p)
  <2>1. running' = running /\ tcp' = tcp
    BY <1>5 DEF ServerStops, actorVars, ctlVars
  <2>2. QED BY <1>2, <2>1 DEF TcpGateStep, TcpGate!vars
<1>6. QED BY <1>3, <1>4, <1>5

\* A proxy that has just started is a gate that has just opened.
LEMMA TcpInitMaps == TcpInit => TcpGate!Init
<1> SUFFICES ASSUME TcpInit PROVE TcpGate!Init
  OBVIOUS
<1>1. \A c \in Conns : conns[c] = IdleConn
  BY DEF TcpInit
<1>2. GatePlace = [c \in Conns |-> "new"]
  BY <1>1 DEF GatePlace, Place, IdleConn
<1>3. GatePassed = [c \in Conns |-> 0]
  BY <1>1 DEF GatePassed, IdleConn
<1>4. GateJudged = [c \in Conns |-> {}]
  BY <1>1 DEF GateJudged, IdleConn, Deny
<1>5. GateSince = [c \in Conns |-> {}]
  BY <1>1 DEF GateSince, IdleConn
<1>6. running = TRUE /\ tcp.policy \in Installed(TcpFns, TcpPolicies)
  BY ActorInitInv DEF TcpInit, ActorInit, ActorInv, ActorTypeOK
<1>7. QED BY <1>2, <1>3, <1>4, <1>5, <1>6 DEF TcpGate!Init

\* Every step of the proxy is a step of the gate or leaves it as it is.
LEMMA TcpStepMaps == ASSUME TcpInv, TcpInv', [TcpNext]_tcpVars PROVE TcpGateStep
<1>1. CASE Control \/ InstallPolicy \/ \E p \in Ports : ServerStops(p)
  BY <1>1, TcpControlMaps
<1>2. ASSUME NEW c \in Conns, NEW p \in Ports, NEW s \in Peers,
             NEW d \in Destinations \cup {None}, ClientConnects(c, p, s, d)
      PROVE  TcpGateStep
  BY <1>2, ArriveMaps
<1>3. ASSUME NEW c \in Conns,
             \/ TcpConnect(c) \/ GetTcpPolicy(c) \/ TcpVerdict(c) \/ ConnectServer(c)
             \/ Relay(c) \/ Disconnect(c)
      PROVE  TcpGateStep
  BY <1>3, ConnectMaps, GetTcpPolicyMaps, TcpVerdictMaps, RelayMaps
<1>4. CASE UNCHANGED tcpVars
  BY <1>4 DEF tcpVars, actorVars, ctlVars, TcpGateStep, TcpGate!vars, GatePlace, GatePassed,
              GateJudged, GateSince
<1>5. QED BY <1>1, <1>2, <1>3, <1>4 DEF TcpNext

(***************************************************************************)
(* The TCP proxy implements Gate.  For every set of connections and        *)
(* policies, a connection is relayed only on account of the policy in      *)
(* force when the actor took its request: because that policy allows       *)
(* connections, or because it evaluated this one to true, whatever was     *)
(* installed before the verdict came.                                      *)
(***************************************************************************)
THEOREM TcpMediatesAll == TcpSpec => TcpMediates
<1>1. TcpInit => TcpGate!Init
  BY TcpInitMaps
<1>2. TcpInv /\ TcpInv' /\ [TcpNext]_tcpVars => [TcpGate!Next]_(TcpGate!vars)
  BY TcpStepMaps DEF TcpGateStep
<1>3. QED BY <1>1, <1>2, TcpInvariant, PTL DEF TcpSpec, TcpMediates, TcpGate!Safe
=============================================================================

---------------------------- MODULE IdentityProofs ----------------------------
(***************************************************************************)
(* Proofs about Identity, for every set of hosts, addresses and labels,    *)
(* and whatever DNS answers.                                               *)
(***************************************************************************)
EXTENDS Identity, TLAPS

\* The labels the tables give to names and addresses are labels.
LEMMA LabelsOfType ==
  ASSUME IdTypeOK, NEW hs \in SUBSET Hosts, NEW is \in SUBSET Ips
  PROVE  LabelsOf(hs, is) \in SUBSET Labels
BY DEF IdTypeOK, LabelsOf

\* A newly resolved identity is well formed and carries the labels of the tables.
LEMMA NewIds ==
  ASSUME IdTypeOK, NEW dns \in DnsAnswer, NEW p \in Ports \cup {None}
  PROVE  /\ \A h \in Hosts : /\ NewHostId(h, p, dns) \in DPID
                             /\ NewHostId(h, p, dns).hosts = {h}
                             /\ NewHostId(h, p, dns).labels
                                  = LabelsOf({h}, NewHostId(h, p, dns).ips)
         /\ \A i \in Ips : /\ NewIpId(i, p, dns) \in DPID
                           /\ NewIpId(i, p, dns).labels
                                = LabelsOf(NewIpId(i, p, dns).hosts, NewIpId(i, p, dns).ips)
<1>1. ASSUME NEW h \in Hosts
      PROVE  LabelsOf({h}, dns.ips \cap IPv4) \in SUBSET Labels
  BY LabelsOfType, IPv4Assumption DEF DnsAnswer
<1>2. ASSUME NEW i \in Ips
      PROVE  LabelsOf({dns.name} \ {None}, {i} \cap IPv4) \in SUBSET Labels
  BY LabelsOfType, IPv4Assumption DEF DnsAnswer
<1>3. QED
  BY <1>1, <1>2, IPv4Assumption DEF NewHostId, NewIpId, DPID, DnsAnswer

\* Both cache updates of one resolved end keep the caches well formed.
LEMMA CacheTypes ==
  ASSUME IdTypeOK, NEW x \in ID, NEW dns \in DnsAnswer,
         NEW hc \in [Hosts -> DPID \cup {None}], NEW ic \in [Ips -> DPID \cup {None}]
  PROVE  /\ HostCacheAfter(hc, x, dns) \in [Hosts -> DPID \cup {None}]
         /\ IpCacheAfter(ic, x, dns) \in [Ips -> DPID \cup {None}]
<1>1. x.kind = "Uri" /\ x.host # None => x.host \in Hosts /\ x.port \in Ports \cup {None}
  BY DEF ID, Anonymous, Uri, SocketAddr
<1>2. x.kind = "SocketAddr" => x.ip \in Ips /\ x.port \in Ports \cup {None}
  BY DEF ID, Anonymous, Uri, SocketAddr
<1>3. x.kind = "Uri" /\ x.host # None => UriId(hc, x, dns) \in DPID
  BY <1>1, NewIds DEF UriId
<1>4. QED
  BY <1>1, <1>2, <1>3, NewIds DEF HostCacheAfter, IpCacheAfter

\* What CacheCoherent says of one pair of caches.
Coherent(hc, ic) ==
  /\ \A h \in Hosts : hc[h] # None =>
       /\ hc[h].hosts = {h}
       /\ hc[h].labels = LabelsOf({h}, hc[h].ips)
  /\ \A i \in Ips : ic[i] # None =>
       ic[i].labels = LabelsOf(ic[i].hosts, ic[i].ips)

\* Resolving one end keeps the caches coherent with the tables.
LEMMA CacheUpdateCoherent ==
  ASSUME IdTypeOK, NEW x \in ID, NEW dns \in DnsAnswer,
         NEW hc \in [Hosts -> DPID \cup {None}], NEW ic \in [Ips -> DPID \cup {None}],
         Coherent(hc, ic)
  PROVE  Coherent(HostCacheAfter(hc, x, dns), IpCacheAfter(ic, x, dns))
<1>1. x.kind = "Uri" /\ x.host # None => x.host \in Hosts /\ x.port \in Ports \cup {None}
  BY DEF ID, Anonymous, Uri, SocketAddr
<1>2. x.kind = "SocketAddr" => x.ip \in Ips /\ x.port \in Ports \cup {None}
  BY DEF ID, Anonymous, Uri, SocketAddr
<1>3. ASSUME NEW h \in Hosts, HostCacheAfter(hc, x, dns)[h] # None
      PROVE  /\ HostCacheAfter(hc, x, dns)[h].hosts = {h}
             /\ HostCacheAfter(hc, x, dns)[h].labels
                  = LabelsOf({h}, HostCacheAfter(hc, x, dns)[h].ips)
  <2>1. CASE x.kind = "Uri" /\ x.host = h /\ hc[h] = None
    <3>1. HostCacheAfter(hc, x, dns)[h] = NewHostId(h, x.port, dns)
      BY <2>1, NoneAssumption DEF HostCacheAfter, UriId
    <3>2. x.port \in Ports \cup {None}
      BY <1>1, <2>1, NoneAssumption
    <3>3. /\ NewHostId(h, x.port, dns).hosts = {h}
          /\ NewHostId(h, x.port, dns).labels
               = LabelsOf({h}, NewHostId(h, x.port, dns).ips)
      BY <3>2, NewIds
    <3>4. QED BY <3>1, <3>3
  <2>2. CASE ~(x.kind = "Uri" /\ x.host = h /\ hc[h] = None)
    <3>1. HostCacheAfter(hc, x, dns)[h] = hc[h]
      BY <2>2, <1>1, NoneAssumption DEF HostCacheAfter, UriId
    <3>2. QED BY <3>1, <1>3 DEF Coherent
  <2>3. QED BY <2>1, <2>2
<1>4. ASSUME NEW i \in Ips, IpCacheAfter(ic, x, dns)[i] # None
      PROVE  IpCacheAfter(ic, x, dns)[i].labels
               = LabelsOf(IpCacheAfter(ic, x, dns)[i].hosts, IpCacheAfter(ic, x, dns)[i].ips)
  <2>1. CASE x.kind = "SocketAddr" /\ x.ip = i /\ ic[i] = None
    <3>1. IpCacheAfter(ic, x, dns)[i] = NewIpId(i, x.port, dns)
      BY <2>1 DEF IpCacheAfter
    <3>2. QED BY <3>1, <1>2, <2>1, NewIds
  <2>2. CASE ~(x.kind = "SocketAddr" /\ x.ip = i /\ ic[i] = None)
    <3>1. IpCacheAfter(ic, x, dns)[i] = ic[i]
      BY <2>2, <1>2 DEF IpCacheAfter
    <3>2. QED BY <3>1, <1>4 DEF Coherent
  <2>3. QED BY <2>1, <2>2
<1>5. QED BY <1>3, <1>4 DEF Coherent

\* The identity of one end is well formed; that of a socket address has its port.
LEMMA IdentityOfEnd ==
  ASSUME IdTypeOK, NEW x \in ID, NEW dns \in DnsAnswer,
         NEW hc \in [Hosts -> DPID \cup {None}], NEW ic \in [Ips -> DPID \cup {None}]
  PROVE  /\ id(hc, ic, x, dns) \in DPID
         /\ x.kind = "SocketAddr" => id(hc, ic, x, dns).port = x.port
<1>1. DefaultDPID \in DPID
  BY DEF DefaultDPID, DPID
<1>2. CASE x = Anonymous
  BY <1>1, <1>2 DEF id, Anonymous
<1>3. ASSUME NEW h \in Hosts \cup {None}, NEW p \in Ports \cup {None}, x = Uri(h, p)
      PROVE  id(hc, ic, x, dns) \in DPID /\ x.kind # "SocketAddr"
  <2>1. x.kind = "Uri" /\ x.host = h /\ x.port = p
    BY <1>3 DEF Uri
  <2>2. id(hc, ic, x, dns) = UriId(hc, x, dns)
    BY <2>1 DEF id
  <2>3. SetPort(DefaultDPID, p) \in DPID
    BY DEF SetPort, DefaultDPID, DPID
  <2>4. h \in Hosts => NewHostId(h, p, dns) \in DPID
    BY NewIds
  <2>5. UriId(hc, x, dns) \in DPID
    BY <2>1, <2>3, <2>4, NoneAssumption DEF UriId
  <2>6. QED BY <2>1, <2>2, <2>5
<1>4. ASSUME NEW i \in Ips, NEW p \in Ports, x = SocketAddr(i, p)
      PROVE  id(hc, ic, x, dns) \in DPID /\ id(hc, ic, x, dns).port = x.port
  <2>1. x.kind = "SocketAddr" /\ x.ip = i /\ x.port = p
    BY <1>4 DEF SocketAddr
  <2>2. id(hc, ic, x, dns) = SocketId(ic, x, dns)
    BY <2>1 DEF id
  <2>3. ASSUME NEW d \in DPID PROVE SetPort(d, p) \in DPID /\ SetPort(d, p).port = p
    BY DEF SetPort, DPID
  <2>4. NewIpId(i, p, dns) \in DPID /\ NewIpId(i, p, dns).port = p
    BY NewIds DEF NewIpId
  <2>5. SocketId(ic, x, dns) \in DPID /\ SocketId(ic, x, dns).port = p
    BY <2>1, <2>3, <2>4 DEF SocketId
  <2>6. QED BY <2>1, <2>2, <2>5
<1>5. QED BY <1>2, <1>3, <1>4 DEF ID, Anonymous

\* What connection() hands out.
LEMMA ConnectionValue ==
  ASSUME IdTypeOK, NEW from \in ID, NEW to \in ID, NEW d1 \in DnsAnswer, NEW d2 \in DnsAnswer
  PROVE  LET k == Connection(from, to, d1, d2)
         IN  /\ k \in DPConnection
             /\ k.number = connection_number
             /\ from.kind = "SocketAddr" => k.from.port = from.port
             /\ to.kind = "SocketAddr" => k.to.port = to.port
<1> DEFINE hc == HostCacheAfter(host_cache, from, d1)
           ic == IpCacheAfter(ip_cache, from, d1)
<1>1. hc \in [Hosts -> DPID \cup {None}] /\ ic \in [Ips -> DPID \cup {None}]
  BY CacheTypes DEF IdTypeOK
<1>2. /\ id(hc, ic, to, d2) \in DPID
      /\ to.kind = "SocketAddr" => id(hc, ic, to, d2).port = to.port
  BY <1>1, IdentityOfEnd
<1>3. /\ id(host_cache, ip_cache, from, d1) \in DPID
      /\ from.kind = "SocketAddr" => id(host_cache, ip_cache, from, d1).port = from.port
  BY IdentityOfEnd DEF IdTypeOK
<1>4. connection_number \in Nat
  BY MaxConnectionsAssumption DEF IdTypeOK
<1>5. QED BY <1>2, <1>3, <1>4 DEF Connection, DPConnection

-----------------------------------------------------------------------------
\* A label operation keeps the tables well formed and empties both caches.
LEMMA LabelOpType ==
  ASSUME IdTypeOK, handle_label_op
  PROVE  /\ IdTypeOK'
         /\ host_cache' = EmptyHostCache
         /\ ip_cache' = EmptyIpCache
<1>1. ASSUME NEW h \in Hosts, NEW ls \in SUBSET Labels \ {{}}, add_uri(h, ls)
      PROVE  IdTypeOK' /\ host_cache' = EmptyHostCache /\ ip_cache' = EmptyIpCache
  BY <1>1 DEF IdTypeOK, add_uri, clear_caches, EmptyHostCache, EmptyIpCache
<1>2. ASSUME NEW i \in IPv4, NEW ls \in SUBSET Labels \ {{}}, add_ip(i, ls)
      PROVE  IdTypeOK' /\ host_cache' = EmptyHostCache /\ ip_cache' = EmptyIpCache
  BY <1>2, IPv4Assumption DEF IdTypeOK, add_ip, clear_caches, EmptyHostCache, EmptyIpCache
<1>3. ASSUME NEW h \in Hosts, NEW ls \in RemovedLabels, remove_uri(h, ls)
      PROVE  IdTypeOK' /\ host_cache' = EmptyHostCache /\ ip_cache' = EmptyIpCache
  BY <1>3 DEF IdTypeOK, remove_uri, clear_caches, EmptyHostCache, EmptyIpCache
<1>4. ASSUME NEW i \in IPv4, NEW ls \in RemovedLabels, remove_ip(i, ls)
      PROVE  IdTypeOK' /\ host_cache' = EmptyHostCache /\ ip_cache' = EmptyIpCache
  BY <1>4, IPv4Assumption DEF IdTypeOK, remove_ip, clear_caches, EmptyHostCache, EmptyIpCache
<1>5. CASE clear_labels
  BY <1>5 DEF IdTypeOK, clear_labels, clear_caches, EmptyHostCache, EmptyIpCache
<1>6. QED BY <1>1, <1>2, <1>3, <1>4, <1>5 DEF handle_label_op

\* Handing out a connection keeps the identity state well formed.
LEMMA ConnectionType ==
  ASSUME IdTypeOK, NEW from \in ID, NEW to \in ID, NEW d1 \in DnsAnswer, NEW d2 \in DnsAnswer,
         connection(from, to, d1, d2)
  PROVE  IdTypeOK'
<1>1. /\ HostCacheAfter(host_cache, from, d1) \in [Hosts -> DPID \cup {None}]
      /\ IpCacheAfter(ip_cache, from, d1) \in [Ips -> DPID \cup {None}]
  BY CacheTypes DEF IdTypeOK
<1>2. /\ host_cache' \in [Hosts -> DPID \cup {None}]
      /\ ip_cache' \in [Ips -> DPID \cup {None}]
  BY <1>1, CacheTypes DEF connection
<1>3. connection_number' \in 0..MaxConnections
  BY MaxConnectionsAssumption DEF connection, IdTypeOK
<1>4. QED BY <1>2, <1>3 DEF IdTypeOK, connection, tables

-----------------------------------------------------------------------------
IdInv == IdTypeOK /\ CacheCoherent

LEMMA IdInitInv == IdInit => IdInv
BY MaxConnectionsAssumption
   DEF IdInit, IdInv, IdTypeOK, CacheCoherent, EmptyHostCache, EmptyIpCache

\* Every label operation re-establishes coherence by emptying the caches.
LEMMA LabelOpInv ==
  ASSUME IdInv, handle_label_op PROVE IdInv'
BY LabelOpType DEF IdInv, CacheCoherent, EmptyHostCache, EmptyIpCache

\* Handing out a connection only adds entries that agree with the tables.
LEMMA ConnectionInv ==
  ASSUME IdInv, NEW from \in ID, NEW to \in ID, NEW d1 \in DnsAnswer, NEW d2 \in DnsAnswer,
         connection(from, to, d1, d2)
  PROVE  IdInv'
<1> DEFINE hc == HostCacheAfter(host_cache, from, d1)
           ic == IpCacheAfter(ip_cache, from, d1)
<1>1. IdTypeOK /\ IdTypeOK'
  BY ConnectionType DEF IdInv
<1>2. hc \in [Hosts -> DPID \cup {None}] /\ ic \in [Ips -> DPID \cup {None}]
  BY <1>1, CacheTypes DEF IdTypeOK
<1>3. Coherent(host_cache, ip_cache)
  BY DEF IdInv, CacheCoherent, Coherent
<1>4. Coherent(hc, ic)
  BY <1>1, <1>3, CacheUpdateCoherent DEF IdTypeOK
<1>5. Coherent(HostCacheAfter(hc, to, d2), IpCacheAfter(ic, to, d2))
  BY <1>1, <1>2, <1>4, CacheUpdateCoherent
<1>6. /\ host_cache' = HostCacheAfter(hc, to, d2)
      /\ ip_cache' = IpCacheAfter(ic, to, d2)
      /\ host_labels' = host_labels
      /\ ip_labels' = ip_labels
  BY DEF connection, tables
<1>7. CacheCoherent'
  BY <1>5, <1>6 DEF CacheCoherent, Coherent, LabelsOf
<1>8. QED BY <1>1, <1>7 DEF IdInv

(***************************************************************************)
(* The caches of the PolicyActor never hide a label change, whatever DNS   *)
(* answers and however label operations and lookups interleave.            *)
(***************************************************************************)
THEOREM IdentityCoherent == IdSpec => [](IdTypeOK /\ CacheCoherent)
<1>1. IdInit => IdInv
  BY IdInitInv
<1>2. IdInv /\ [IdNext]_idVars => IdInv'
  <2> SUFFICES ASSUME IdInv, [IdNext]_idVars PROVE IdInv'
    OBVIOUS
  <2>1. CASE handle_label_op
    BY <2>1, LabelOpInv
  <2>2. CASE \E from, to \in ID, d1, d2 \in DnsAnswer : connection(from, to, d1, d2)
    BY <2>2, ConnectionInv
  <2>3. CASE UNCHANGED idVars
    BY <2>3 DEF idVars, IdInv, IdTypeOK, CacheCoherent, LabelsOf
  <2>4. QED BY <2>1, <2>2, <2>3 DEF IdNext
<1>3. QED BY <1>1, <1>2, PTL DEF IdSpec, IdInv
=============================================================================

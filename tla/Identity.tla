------------------------------- MODULE Identity -------------------------------
(***************************************************************************)
(* Identity management of the proxy's PolicyActor                          *)
(* (armour-proxy/src/policy.rs): the tables that attach Armour labels to   *)
(* host names and IP addresses, the two caches of identities that were     *)
(* already resolved, and the connection counter.                           *)
(*                                                                         *)
(* DNS is external.  Its answer is an arbitrary value at every lookup, so  *)
(* nothing below relies on DNS being stable or on forward and reverse      *)
(* lookups agreeing.                                                       *)
(***************************************************************************)
EXTENDS Naturals, FiniteSets

CONSTANTS
  Hosts,           \* host names
  Ips,             \* IP addresses, IPv4 and IPv6
  IPv4,            \* the IPv4 addresses among them
  Labels,          \* Armour labels
  Ports,           \* port numbers
  None,            \* Rust's Option::None
  MaxConnections   \* bound on connection_number (a usize in the code)

ASSUME IPv4Assumption == IPv4 \subseteq Ips

ASSUME NoneAssumption == /\ None \notin Hosts
                         /\ None \notin Ips
                         /\ None \notin Ports
                         /\ None \notin Labels

ASSUME MaxConnectionsAssumption == MaxConnections \in Nat

(***************************************************************************)
(* literals::DPID, what a policy sees of one end of a connection.          *)
(***************************************************************************)
DPID == [hosts  : SUBSET Hosts,
         ips    : SUBSET Ips,
         port   : Ports \cup {None},
         labels : SUBSET Labels]

ASSUME NoneNotDPID == None \notin DPID

DefaultDPID == [hosts |-> {}, ips |-> {}, port |-> None, labels |-> {}]

DPConnection == [from : DPID, to : DPID, number : Nat]

(***************************************************************************)
(* policy::ID, how the proxies name one end of a connection.  The host of  *)
(* a Uri and its port may be missing.                                      *)
(***************************************************************************)
Anonymous == [kind |-> "Anonymous", host |-> None, ip |-> None, port |-> None]
Uri(h, p) == [kind |-> "Uri", host |-> h, ip |-> None, port |-> p]
SocketAddr(i, p) == [kind |-> "SocketAddr", host |-> None, ip |-> i, port |-> p]

ID == {Anonymous}
        \cup {Uri(h, p) : h \in Hosts \cup {None}, p \in Ports \cup {None}}
        \cup {SocketAddr(i, p) : i \in Ips, p \in Ports}

(***************************************************************************)
(* What dns_lookup may answer: lookup_host a set of addresses (none when   *)
(* it fails), lookup_addr a host name or an error.                         *)
(***************************************************************************)
DnsAnswer == [ips : SUBSET Ips, name : Hosts \cup {None}]

VARIABLES
  host_labels,        \* [Hosts -> SUBSET Labels], {} where the map has no key
  ip_labels,          \* [Ips -> SUBSET Labels], {} where the map has no key
  host_cache,         \* [Hosts -> DPID or None]
  ip_cache,           \* [Ips -> DPID or None]
  connection_number   \* number of the next connection

tables == <<host_labels, ip_labels>>
caches == <<host_cache, ip_cache>>
idVars == <<host_labels, ip_labels, host_cache, ip_cache, connection_number>>

EmptyHostCache == [h \in Hosts |-> None]
EmptyIpCache   == [i \in Ips |-> None]

IdInit ==
  /\ host_labels = [h \in Hosts |-> {}]
  /\ ip_labels = [i \in Ips |-> {}]
  /\ host_cache = EmptyHostCache
  /\ ip_cache = EmptyIpCache
  /\ connection_number = 0

-----------------------------------------------------------------------------
(***************************************************************************)
(* Label operations.  The code removes the key of a label set that becomes *)
(* empty and never inserts an empty one, so a total function whose value   *)
(* is {} outside the map's keys is the same table.  Adding a set of labels *)
(* is a loop over add_uri or add_ip inside one handler.                    *)
(***************************************************************************)
clear_caches ==
  /\ host_cache' = EmptyHostCache
  /\ ip_cache' = EmptyIpCache

add_uri(h, ls) ==
  /\ host_labels' = [host_labels EXCEPT ![h] = @ \cup ls]
  /\ clear_caches
  /\ UNCHANGED <<ip_labels, connection_number>>

\* Variant for sensitivity runs: add_ip drops the cache of addresses only.
add_ip_KeepsHostCache(i, ls) ==
  /\ ip_labels' = [ip_labels EXCEPT ![i] = @ \cup ls]
  /\ ip_cache' = EmptyIpCache
  /\ UNCHANGED <<host_labels, host_cache, connection_number>>

add_ip(i, ls) ==
  /\ ip_labels' = [ip_labels EXCEPT ![i] = @ \cup ls]
  /\ clear_caches
  /\ UNCHANGED <<host_labels, connection_number>>

\* ls is one label, or all of them when the request names none.
remove_uri(h, ls) ==
  /\ host_labels' = [host_labels EXCEPT ![h] = @ \ ls]
  /\ clear_caches
  /\ UNCHANGED <<ip_labels, connection_number>>

remove_ip(i, ls) ==
  /\ ip_labels' = [ip_labels EXCEPT ![i] = @ \ ls]
  /\ clear_caches
  /\ UNCHANGED <<host_labels, connection_number>>

clear_labels ==
  /\ host_labels' = [h \in Hosts |-> {}]
  /\ ip_labels' = [i \in Ips |-> {}]
  /\ clear_caches
  /\ UNCHANGED connection_number

RemovedLabels == {{l} : l \in Labels} \cup {Labels}

handle_label_op ==
  \/ \E h \in Hosts, ls \in SUBSET Labels \ {{}} : add_uri(h, ls)
  \/ \E i \in IPv4, ls \in SUBSET Labels \ {{}} : add_ip(i, ls)
  \/ \E h \in Hosts, ls \in RemovedLabels : remove_uri(h, ls)
  \/ \E i \in IPv4, ls \in RemovedLabels : remove_ip(i, ls)
  \/ clear_labels

-----------------------------------------------------------------------------
(***************************************************************************)
(* PolicyActor::id: the identity of one end of a connection, with the      *)
(* caches as the call leaves them.  A cached identity of a Uri is returned *)
(* as it stands, a cached one of a socket address gets the port asked for. *)
(***************************************************************************)
LabelsOf(hs, is) ==
  (UNION {host_labels[h] : h \in hs}) \cup (UNION {ip_labels[i] : i \in is})

SetPort(d, p) == [d EXCEPT !.port = p]

NewHostId(h, p, dns) ==
  LET v4 == dns.ips \cap IPv4
  IN  [hosts |-> {h}, ips |-> v4, port |-> p, labels |-> LabelsOf({h}, v4)]

\* Variant: the name is inserted although the reverse lookup failed.
NewIpId_Unnamed(i, p, dns) ==
  LET v4 == {i} \cap IPv4
  IN  [hosts |-> {dns.name}, ips |-> v4, port |-> p,
       labels |-> LabelsOf({dns.name} \ {None}, v4)]

NewIpId(i, p, dns) ==
  LET names == {dns.name} \ {None}
      v4 == {i} \cap IPv4
  IN  [hosts |-> names, ips |-> v4, port |-> p, labels |-> LabelsOf(names, v4)]

UriId(hc, x, dns) ==
  IF x.host = None THEN SetPort(DefaultDPID, x.port)
  ELSE IF hc[x.host] # None THEN hc[x.host]
  ELSE NewHostId(x.host, x.port, dns)

SocketId(ic, x, dns) ==
  IF ic[x.ip] # None THEN SetPort(ic[x.ip], x.port)
  ELSE NewIpId(x.ip, x.port, dns)

id(hc, ic, x, dns) ==
  CASE x.kind = "Anonymous"  -> DefaultDPID
    [] x.kind = "Uri"        -> UriId(hc, x, dns)
    [] x.kind = "SocketAddr" -> SocketId(ic, x, dns)

HostCacheAfter(hc, x, dns) ==
  IF x.kind = "Uri" /\ x.host # None
  THEN [hc EXCEPT ![x.host] = UriId(hc, x, dns)]
  ELSE hc

IpCacheAfter(ic, x, dns) ==
  IF x.kind = "SocketAddr" /\ ic[x.ip] = None
  THEN [ic EXCEPT ![x.ip] = NewIpId(x.ip, x.port, dns)]
  ELSE ic

(***************************************************************************)
(* PolicyActor::connection: takes the next number, resolves from and then, *)
(* with the caches that leaves, to.                                        *)
(***************************************************************************)
Connection(from, to, d1, d2) ==
  LET hc == HostCacheAfter(host_cache, from, d1)
      ic == IpCacheAfter(ip_cache, from, d1)
  IN  [from   |-> id(host_cache, ip_cache, from, d1),
       to     |-> id(hc, ic, to, d2),
       number |-> connection_number]

\* Variant: the number is read and not incremented.
connection_SameNumber(from, to, d1, d2) ==
  /\ connection_number < MaxConnections
  /\ host_cache' = HostCacheAfter(HostCacheAfter(host_cache, from, d1), to, d2)
  /\ ip_cache' = IpCacheAfter(IpCacheAfter(ip_cache, from, d1), to, d2)
  /\ UNCHANGED <<tables, connection_number>>

connection(from, to, d1, d2) ==
  /\ connection_number < MaxConnections
  /\ connection_number' = connection_number + 1
  /\ host_cache' = HostCacheAfter(HostCacheAfter(host_cache, from, d1), to, d2)
  /\ ip_cache' = IpCacheAfter(IpCacheAfter(ip_cache, from, d1), to, d2)
  /\ UNCHANGED tables

IdNext ==
  \/ handle_label_op
  \/ \E from, to \in ID, d1, d2 \in DnsAnswer : connection(from, to, d1, d2)

IdSpec == IdInit /\ [][IdNext]_idVars

-----------------------------------------------------------------------------
IdTypeOK ==
  /\ host_labels \in [Hosts -> SUBSET Labels]
  /\ ip_labels \in [Ips -> SUBSET Labels]
  /\ host_cache \in [Hosts -> DPID \cup {None}]
  /\ ip_cache \in [Ips -> DPID \cup {None}]
  /\ connection_number \in 0..MaxConnections

(***************************************************************************)
(* A cached identity never hides a label change: its labels are those the  *)
(* tables give now to the names and addresses recorded in it.  An entry of *)
(* either cache depends on both tables, so every label operation has to    *)
(* drop both caches (clear_caches in add_uri, add_ip, remove_uri,          *)
(* remove_ip and clear_labels).                                            *)
(***************************************************************************)
CacheCoherent ==
  /\ \A h \in Hosts : host_cache[h] # None =>
       /\ host_cache[h].hosts = {h}
       /\ host_cache[h].labels = LabelsOf({h}, host_cache[h].ips)
  /\ \A i \in Ips : ip_cache[i] # None =>
       ip_cache[i].labels = LabelsOf(ip_cache[i].hosts, ip_cache[i].ips)

=============================================================================

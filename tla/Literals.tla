------------------------------- MODULE Literals -------------------------------
(***************************************************************************)
(* The data that policies work on (armour-lang/src/literals.rs, meta.rs):  *)
(* identities, connections, requests and responses, lists used as sets,    *)
(* and the metadata that travels with a message.                           *)
(*                                                                         *)
(* A str or data value holds a sequence of atoms.  Where the code iterates *)
(* over an ordered set or map the model uses one fixed order.  Numbers are *)
(* i64 in policies; ports and status codes are cut down to u16, octets to  *)
(* u8.                                                                     *)
(***************************************************************************)
EXTENDS Types, Labels, SequencesExt

U16 == 65536
U8 == 256

StrV(s) == <<"str", s>>
DataV(d) == <<"data", d>>
LabelV(l) == <<"Label", l>>
IDV(id) == <<"ID", id>>
ConnV(c) == <<"Connection", c>>
OptionV(s) == IF s = {} THEN NoneV ELSE SomeV(CHOOSE v \in s : TRUE)

SeqMap(s, Op(_)) == [i \in DOMAIN s |-> Op(s[i])]
InOrder(S) == SetToSeq(S)
FirstOf(S, P(_)) ==
    LET s == SelectSeq(InOrder(S), P) IN IF s = <<>> THEN {} ELSE {s[1]}

-----------------------------------------------------------------------------
(***************************************************************************)
(* ID                                                                      *)
(***************************************************************************)
DefaultID == [hosts |-> {}, ips |-> {}, port |-> {}, labels |-> {}]

id_labels(id) == ListV(SeqMap(InOrder(id.labels), LabelV))
id_hosts(id) == ListV(SeqMap(InOrder(id.hosts), StrV))
id_ips(id) == ListV(SeqMap(InOrder(id.ips), LAMBDA ip : <<"IpAddr", ip>>))
port_lit(id) == OptionV({IntV(p) : p \in id.port})
add_label(id, l) == [id EXCEPT !.labels = @ \cup {l}]
add_host(id, h) == [id EXCEPT !.hosts = @ \cup {h}]
add_ip(id, ip) == [id EXCEPT !.ips = @ \cup {ip}]
set_port(id, p) == [id EXCEPT !.port = {p % U16}]
has_label(id, l) == \E x \in id.labels : matches_with(l, x)
find_label(id, l) == FirstOf(id.labels, LAMBDA x : matches_with(l, x))

(***************************************************************************)
(* Connection, HttpRequest and HttpResponse                                *)
(***************************************************************************)
DefaultConnection == [from |-> DefaultID, to |-> DefaultID, number |-> 0]
NewConnection(from, to, n) == [from |-> from, to |-> to, number |-> n]
from_to(c) == TupleV(<<IDV(c.from), IDV(c.to)>>)

NoHeaders == [k \in {} |-> <<>>]

\* A repeated header keeps all its values, in order.
set_header(h, k, v) == Extend(h, k, IF k \in DOMAIN h THEN Append(h[k], v) ELSE <<v>>)
HeadersFrom(pairs) == FoldLeft(LAMBDA h, p : set_header(h, p[1], p[2]), NoHeaders, pairs)

header(h, k) ==
    IF k \in DOMAIN h THEN SomeV(ListV(SeqMap(h[k], DataV))) ELSE NoneV
unique_header(h, k) ==
    IF k \in DOMAIN h /\ Len(h[k]) = 1 THEN SomeV(DataV(h[k][1])) ELSE NoneV
header_names(h) == ListV(SeqMap(InOrder(DOMAIN h), StrV))
header_pairs(h) ==
    ListV(FlattenSeq(SeqMap(InOrder(DOMAIN h),
        LAMBDA k : SeqMap(h[k], LAMBDA v : TupleV(<<StrV(k), DataV(v)>>)))))

DefaultRequest ==
    [method |-> <<"GET">>, version |-> <<"HTTP/1.1">>, path |-> <<>>, query |-> <<>>,
     headers |-> NoHeaders, connection |-> DefaultConnection]
RequestOf(method) == [DefaultRequest EXCEPT !.method = <<method>>]
DefaultResponse ==
    [version |-> <<"HTTP/1.1">>, status |-> 0, headers |-> NoHeaders, reason |-> {},
     connection |-> DefaultConnection]
ResponseOf(status) == [DefaultResponse EXCEPT !.status = status % U16]

\* PartialEq for literals: labels are equal when they match each other.
RECURSIVE LitEq(_, _)
LitEq(v, w) ==
    /\ v[1] = w[1]
    /\ CASE v[1] = "Label" -> LabelEq(v[2], w[2])
         [] ~IsFlat(v) -> /\ Len(v[2]) = Len(w[2])
                          /\ \A i \in DOMAIN v[2] : LitEq(v[2][i], w[2][i])
         [] OTHER -> v[2] = w[2]

(***************************************************************************)
(* VecSet: lists as sets                                                   *)
(***************************************************************************)
vec_contains(l, x) == \E i \in DOMAIN l : LitEq(x, l[i])
vec_is_subset(x, y) == \A i \in DOMAIN x : vec_contains(y, x[i])
vec_is_disjoint(x, y) == ~\E i \in DOMAIN x : vec_contains(y, x[i])
vec_difference(x, y) == SelectSeq(x, LAMBDA e : ~vec_contains(y, e))
vec_intersection(x, y) == SelectSeq(x, LAMBDA e : vec_contains(y, e))

-----------------------------------------------------------------------------
(***************************************************************************)
(* Metadata: what came in with the message and what goes out.              *)
(***************************************************************************)
NoMeta == [id |-> {}, data |-> <<>>, labels |-> {}]
IngressEgress(ingress, egress_id) ==
    [Ingress |-> ingress, Egress |-> NoMeta, egress_id |-> egress_id]

is_empty(m) == m.id = {} /\ m.data = <<>> /\ m.labels = {}
remove_label(m, l) == [m EXCEPT !.labels = {x \in @ : ~matches_with(l, x)}]

\* The handler of metadata calls for the side d ("Ingress" or "Egress"): the
\* new state and a result, {} being an error.  Nothing here keeps a policy
\* from changing the ingress side.
MetaCall(s, d, method, args) ==
    LET m == s[d]
        Upd(n) == <<[s EXCEPT ![d] = n], {UnitV}>>
        Get(v) == <<s, {v}>>
        One(tag) == Len(args) = 1 /\ args[1][1] = tag
        x == args[1][2]
    IN  CASE method = "id" /\ args = <<>> -> Get(OptionV({LabelV(l) : l \in m.id}))
          [] method = "data" /\ args = <<>> -> Get(ListV(SeqMap(m.data, DataV)))
          [] method = "set_id" /\ args = <<>> -> Upd([m EXCEPT !.id = {s.egress_id}])
          [] method = "push" /\ One("data") -> Upd([m EXCEPT !.data = Append(@, x)])
          [] method = "pop" /\ args = <<>> ->
                IF m.data = <<>> THEN Get(NoneV)
                ELSE <<[s EXCEPT ![d].data = Front(@)], {SomeV(DataV(Last(m.data)))}>>
          [] method = "add_label" /\ One("Label") -> Upd([m EXCEPT !.labels = @ \cup {x}])
          [] method = "remove_label" /\ One("Label") -> Upd(remove_label(m, x))
          [] method = "has_label" /\ One("Label") -> Get(BoolV(has_label(m, x)))
          [] method = "find_label" /\ One("Label") ->
                Get(OptionV({LabelV(l) : l \in find_label(m, x)}))
          [] method = "wipe" /\ args = <<>> -> Upd(NoMeta)
          [] OTHER -> <<s, {}>>

\* Handler<Egress>: what is sent on, {} being the error "empty egress"
egress(s) == IF is_empty(s.Egress) THEN {} ELSE {[s.Egress EXCEPT !.id = {s.egress_id}]}
=============================================================================

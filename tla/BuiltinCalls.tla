------------------------------ MODULE BuiltinCalls ------------------------------
(***************************************************************************)
(* What the interpreter does for operators and builtin functions on        *)
(* literals (the TInterpret implementations of                             *)
(* armour-lang/src/interpret.rs).  A result is a set with at most one      *)
(* literal; {} is None, which the interpreter reports as a type error.     *)
(***************************************************************************)
EXTENDS Builtins, Literals, TLC

\* Rust's division rounds towards zero; the remainder has the sign of i.
AbsInt(i) == IF i < 0 THEN -i ELSE i
Quotient(i, j) ==
    LET q == AbsInt(i) \div AbsInt(j) IN IF (i < 0) = (j < 0) THEN q ELSE -q
Remainder(i, j) == i - j * Quotient(i, j)

\* As in the code, the operand of ! is returned unchanged.
eval_prefix(op, v) ==
    CASE op = "!" /\ v[1] = "bool" -> {v}
      [] op = "-" /\ v[1] = "i64" -> {IntV(-v[2])}
      [] OTHER -> {}

FlatInfix(op, v, w) ==
    LET i == v[2]
        j == w[2]
        Both(tag) == v[1] = tag /\ w[1] = tag
    IN  CASE op = "==" -> {BoolV(LitEq(v, w))}
          [] op = "!=" -> {BoolV(~LitEq(v, w))}
          [] op = "+" /\ Both("i64") -> {IntV(i + j)}
          [] op = "-" /\ Both("i64") -> {IntV(i - j)}
          [] op = "*" /\ Both("i64") -> {IntV(i * j)}
          [] op = "/" /\ Both("i64") -> IF j = 0 THEN {} ELSE {IntV(Quotient(i, j))}
          [] op = "%" /\ Both("i64") -> IF j = 0 THEN {} ELSE {IntV(Remainder(i, j))}
          [] op = "<" /\ Both("i64") -> {BoolV(i < j)}
          [] op = "<=" /\ Both("i64") -> {BoolV(i <= j)}
          [] op = ">" /\ Both("i64") -> {BoolV(i > j)}
          [] op = ">=" /\ Both("i64") -> {BoolV(i >= j)}
          [] op = "&&" /\ Both("bool") -> {BoolV(i /\ j)}
          [] op = "||" /\ Both("bool") -> {BoolV(i \/ j)}
          [] op = "++" /\ Both("str") -> {StrV(i \o j)}
          [] OTHER -> {}

eval_infix(op, v, w) ==
    IF IsFlat(v) /\ IsFlat(w) THEN FlatInfix(op, v, w)
    ELSE IF op = "@" /\ v[1] = "List" /\ w[1] = "List" THEN {ListV(v[2] \o w[2])}
    ELSE IF op = "in" /\ w[1] = "List" THEN {BoolV(vec_contains(w[2], v))}
    ELSE {}

-----------------------------------------------------------------------------
(***************************************************************************)
(* Builtin functions, by the number of arguments.  {} is a type error.     *)
(***************************************************************************)
HttpMethods == {"GET", "POST", "PUT", "DELETE", "HEAD", "OPTIONS", "CONNECT", "PATCH", "TRACE"}
Request(r) == <<"HttpRequest", r>>
Response(r) == <<"HttpResponse", r>>
ReqV(S) == {Request(r) : r \in S}
ResV(S) == {Response(r) : r \in S}

\* The clock and the name service, seen from a policy.
CONSTANTS Now, Resolves(_)

eval_call0(f) ==
    CASE f[1] = "HttpRequest" /\ f[2] \in HttpMethods -> {Request(RequestOf(f[2]))}
      [] f = <<"ID", "default">> -> {IDV(DefaultID)}
      [] f = <<"Connection", "default">> -> {ConnV(DefaultConnection)}
      [] f = <<"IpAddr", "localhost">> -> {<<"IpAddr", <<127, 0, 0, 1>>>>}
      [] f = <<"System", "getCurrentTime">> -> {IntV(Now)}
      [] OTHER -> {}

Int1(f, i) ==
    CASE f = <<"i64", "abs">> -> {IntV(AbsInt(i))}
      [] f = <<"i64", "to_str">> -> {StrV(<<ToString(i)>>)}
      [] f = <<"HttpResponse", "new">> -> {Response(ResponseOf(i))}
      [] OTHER -> {}

\* What a conversion of a string gives is only told apart by its argument.
Str1(f, s) ==
    CASE f = <<"str", "len">> -> {IntV(Len(s))}
      [] f[1] = "str" /\ f[2] \in {"to_lowercase", "to_uppercase", "trim_start", "trim_end",
                                    "to_base64"} -> {StrV(<<f[2]>> \o s)}
      [] f = <<"str", "as_bytes">> -> {DataV(s)}
      [] f = <<"IpAddr", "lookup">> -> {OptionV({ListV(ips) : ips \in Resolves(s)})}
      [] OTHER -> {}

Data1(f, d) ==
    CASE f = <<"str", "from_utf8">> -> {StrV(d)}
      [] f = <<"data", "to_base64">> -> {StrV(<<"to_base64">> \o d)}
      [] f = <<"data", "len">> -> {IntV(Len(d))}
      [] OTHER -> {}

\* The getters that requests and responses share.
Message1(g, r) ==
    CASE g = "connection" -> {ConnV(r.connection)}
      [] g = "from" -> {IDV(r.connection.from)}
      [] g = "to" -> {IDV(r.connection.to)}
      [] g = "from_to" -> {from_to(r.connection)}
      [] g = "version" -> {StrV(r.version)}
      [] g = "header_pairs" -> {header_pairs(r.headers)}
      [] g = "headers" -> {header_names(r.headers)}
      [] OTHER -> {}

\* query_pairs and route split a string; the model keeps it in one piece.
Request1(g, r) ==
    CASE g = "method" -> {StrV(r.method)}
      [] g = "path" -> {StrV(r.path)}
      [] g = "query" -> {StrV(r.query)}
      [] g = "route" -> {ListV(<<StrV(r.path)>>)}
      [] g = "query_pairs" ->
            {ListV(IF r.query = <<>> THEN <<>> ELSE <<TupleV(<<StrV(r.query), StrV(<<>>)>>)>>)}
      [] OTHER -> Message1(g, r)

Response1(g, r) ==
    CASE g = "status" -> {IntV(r.status)}
      [] g = "reason" -> {OptionV({StrV(s) : s \in r.reason})}
      [] OTHER -> Message1(g, r)

ID1(g, id) ==
    CASE g = "labels" -> {id_labels(id)}
      [] g = "hosts" -> {id_hosts(id)}
      [] g = "ips" -> {id_ips(id)}
      [] g = "port" -> {port_lit(id)}
      [] OTHER -> {}

Connection1(g, c) ==
    CASE g = "from_to" -> {from_to(c)}
      [] g = "from" -> {IDV(c.from)}
      [] g = "to" -> {IDV(c.to)}
      [] g = "number" -> {IntV(c.number)}
      [] OTHER -> {}

FlatCall1(f, v) ==
    LET x == v[2]
        own == f[1] = v[1]
    IN  CASE f = <<"option", "Some">> -> {SomeV(v)}
          [] v[1] = "i64" -> Int1(f, x)
          [] v[1] = "str" -> Str1(f, x)
          [] v[1] = "data" -> Data1(f, x)
          [] v[1] = "HttpRequest" /\ own -> Request1(f[2], x)
          [] v[1] = "HttpResponse" /\ own -> Response1(f[2], x)
          [] v[1] = "ID" /\ own -> ID1(f[2], x)
          [] v[1] = "Connection" /\ own -> Connection1(f[2], x)
          [] f = <<"IpAddr", "octets">> /\ v[1] = "IpAddr" -> {TupleV(SeqMap(x, IntV))}
          [] f = <<"Label", "parts">> /\ v[1] = "Label" ->
                {OptionV({ListV(SeqMap(ps, LAMBDA p : StrV(<<p>>))) : ps \in parts(x)})}
          [] OTHER -> {}

eval_call1(f, v) ==
    LET x == v[2]
        i == IndexOf(f)
    IN  CASE IsFlat(v) -> FlatCall1(f, v)
          [] f = <<"option", "is_none">> /\ v[1] = "Tuple" -> {BoolV(x = <<>>)}
          [] f = <<"option", "is_some">> /\ v[1] = "Tuple" -> {BoolV(Len(x) = 1)}
          [] f = <<"list", "len">> /\ v[1] = "List" -> {IntV(Len(x))}
          [] f = <<"list", "reduce">> /\ v[1] = "List" ->
                {IF x # <<>> /\ \A k \in DOMAIN x : LitEq(x[1], x[k]) THEN SomeV(x[1]) ELSE NoneV}
          [] v[1] = "Tuple" /\ i >= 0 -> IF i < Len(x) THEN {x[i + 1]} ELSE {}
          [] OTHER -> {}

Pow(i, j) == IF j = 0 THEN 1 ELSE i * FoldLeft(LAMBDA a, k : a * i, 1, [k \in 1..(j - 1) |-> k])

Int2(f, i, j) ==
    CASE f = <<"i64", "pow">> -> {IntV(Pow(i, j))}
      [] f = <<"i64", "min">> -> {IntV(IF i < j THEN i ELSE j)}
      [] f = <<"i64", "max">> -> {IntV(IF i < j THEN j ELSE i)}
      [] OTHER -> {}

Str2(f, s, t) ==
    CASE f = <<"str", "starts_with">> -> {BoolV(IsPrefix(t, s))}
      [] f = <<"str", "ends_with">> -> {BoolV(IsSuffix(t, s))}
      [] f = <<"str", "contains">> ->
            {BoolV(\E i \in 1..(Len(s) + 1) : IsPrefix(t, SubSeq(s, i, Len(s))))}
      [] OTHER -> {}

\* Setters and header look-ups of requests and responses.
Message2(g, r, w) ==
    LET conn == r.connection
    IN  CASE g = "set_connection" /\ w[1] = "Connection" -> {[r EXCEPT !.connection = w[2]]}
          [] g = "set_from" /\ w[1] = "ID" -> {[r EXCEPT !.connection.from = w[2]]}
          [] g = "set_to" /\ w[1] = "ID" -> {[r EXCEPT !.connection.to = w[2]]}
          [] OTHER -> {}

Request2(g, r, w) ==
    CASE g = "set_path" /\ w[1] = "str" -> {[r EXCEPT !.path = w[2]]}
      [] g = "set_query" /\ w[1] = "str" -> {[r EXCEPT !.query = w[2]]}
      [] OTHER -> Message2(g, r, w)

Response2(g, r, w) ==
    CASE g = "set_reason" /\ w[1] = "str" -> {[r EXCEPT !.reason = {w[2]}]}
      [] OTHER -> Message2(g, r, w)

HeaderOf(g, r, w) ==
    CASE g = "header" /\ w[1] = "str" -> {header(r.headers, w[2])}
      [] g = "unique_header" /\ w[1] = "str" -> {unique_header(r.headers, w[2])}
      [] OTHER -> {}

ID2(g, id, w) ==
    LET x == w[2]
    IN  CASE g = "find_label" /\ w[1] = "Label" -> {OptionV({LabelV(l) : l \in find_label(id, x)})}
          [] g = "has_label" /\ w[1] = "Label" -> {BoolV(has_label(id, x))}
          [] g = "add_label" /\ w[1] = "Label" -> {IDV(add_label(id, x))}
          [] g = "has_host" /\ w[1] = "str" -> {BoolV(x \in id.hosts)}
          [] g = "add_host" /\ w[1] = "str" -> {IDV(add_host(id, x))}
          [] g = "has_ip" /\ w[1] = "IpAddr" -> {BoolV(x \in id.ips)}
          [] g = "add_ip" /\ w[1] = "IpAddr" -> {IDV(add_ip(id, x))}
          [] g = "set_port" /\ w[1] = "i64" -> {IDV(set_port(id, x))}
          [] OTHER -> {}

Connection2(g, c, w) ==
    CASE g = "set_from" /\ w[1] = "ID" -> {ConnV([c EXCEPT !.from = w[2]])}
      [] g = "set_to" /\ w[1] = "ID" -> {ConnV([c EXCEPT !.to = w[2]])}
      [] g = "set_number" /\ w[1] = "i64" -> {ConnV([c EXCEPT !.number = w[2]])}
      [] OTHER -> {}

\* The strings that the variables of a label pattern stand for.
CapturedStr(nodes) == StrV(SeqMap(nodes, LAMBDA n : n[2]))

Label2(g, l, m) ==
    CASE g = "captures" ->
            {OptionV({ListV(SeqMap(InOrder(DOMAIN b),
                         LAMBDA x : TupleV(<<StrV(<<x>>), CapturedStr(b[x])>>))) :
                       b \in match_with(l, m)})}
      [] g = "concat" -> {LabelV(concat(l, m))}
      [] g = "is_match" -> {BoolV(matches_with(l, m))}
      [] OTHER -> {}

FlatCall2(f, v, w) ==
    LET x == v[2]
        y == w[2]
        own == f[1] = v[1]
        Both(tag) == v[1] = tag /\ w[1] = tag
    IN  CASE Both("i64") -> Int2(f, x, y)
          [] Both("str") -> Str2(f, x, y)
          [] f = <<"str", "is_match">> /\ v[1] = "str" /\ w[1] = "regex" -> {BoolV(x \in y.lang)}
          [] f = <<"regex", "is_match">> /\ v[1] = "regex" /\ w[1] = "str" -> {BoolV(y \in x.lang)}
          [] v[1] = "HttpRequest" /\ own -> ReqV(Request2(f[2], x, w)) \cup HeaderOf(f[2], x, w)
          [] v[1] = "HttpResponse" /\ own -> ResV(Response2(f[2], x, w)) \cup HeaderOf(f[2], x, w)
          [] v[1] = "ID" /\ own -> ID2(f[2], x, w)
          [] v[1] = "Connection" /\ own -> Connection2(f[2], x, w)
          [] Both("Label") /\ own -> Label2(f[2], x, y)
          [] OTHER -> {}

eval_call2(f, v, w) ==
    IF IsFlat(v) /\ IsFlat(w) THEN FlatCall2(f, v, w)
    ELSE IF v[1] # "List" \/ w[1] # "List" THEN {}
    ELSE CASE f = <<"list", "is_subset">> -> {BoolV(vec_is_subset(v[2], w[2]))}
           [] f = <<"list", "is_disjoint">> -> {BoolV(vec_is_disjoint(v[2], w[2]))}
           [] f = <<"list", "difference">> -> {ListV(vec_difference(v[2], w[2]))}
           [] f = <<"list", "intersection">> -> {ListV(vec_intersection(v[2], w[2]))}
           [] OTHER -> {}

SetHeader(r, k, v) == [r EXCEPT !.headers = set_header(@, k, v)]

eval_call3(f, u, v, w) ==
    LET tags == <<u[1], v[1], w[1]>>
    IN  CASE f = <<"HttpRequest", "set_header">> /\ tags = <<"HttpRequest", "str", "data">> ->
                {Request(SetHeader(u[2], v[2], w[2]))}
          [] f = <<"HttpResponse", "set_header">> /\ tags = <<"HttpResponse", "str", "data">> ->
                {Response(SetHeader(u[2], v[2], w[2]))}
          [] f = <<"Connection", "new">> /\ tags = <<"ID", "ID", "i64">> ->
                {ConnV(NewConnection(u[2], v[2], w[2]))}
          [] OTHER -> {}

eval_call4(f, vs) ==
    IF f = <<"IpAddr", "from">> /\ \A i \in 1..4 : vs[i][1] = "i64"
    THEN {<<"IpAddr", [i \in 1..4 |-> vs[i][2] % U8]>>} ELSE {}

eval_call(f, vs) ==
    CASE Len(vs) = 0 -> eval_call0(f)
      [] Len(vs) = 1 -> eval_call1(f, vs[1])
      [] Len(vs) = 2 -> eval_call2(f, vs[1], vs[2])
      [] Len(vs) = 3 -> eval_call3(f, vs[1], vs[2], vs[3])
      [] Len(vs) = 4 -> eval_call4(f, vs)
      [] OTHER -> {}
=============================================================================

------------------------------- MODULE Builtins -------------------------------
(***************************************************************************)
(* The functions a policy may call: the signatures that type checking uses *)
(* (armour-lang/src/headers.rs) and, written down separately, the cases    *)
(* that the interpreters implement (armour-lang/src/interpret.rs and       *)
(* armour-control/src/interpret.rs).  The two tables live in different     *)
(* files of the program and nothing but care keeps them in step.           *)
(*                                                                         *)
(* A function name module::method is the pair <<module, method>>, a plain  *)
(* name is <<name>>, and e.method() is called as <<".", method>>.          *)
(***************************************************************************)
EXTENDS Types

\* A row of a table: name, argument types, result.
FlatRow(m, f, args, r) == <<<<m, f>>, [i \in DOMAIN args |-> Flat(args[i])], Flat(r)>>

StrRows ==
    {FlatRow("str", f, <<"str">>, "str") :
        f \in {"to_lowercase", "to_uppercase", "trim_start", "trim_end", "to_base64"}}
    \cup {FlatRow("str", f, <<"str", "str">>, "bool") :
        f \in {"starts_with", "ends_with", "contains"}}
    \cup {FlatRow("str", "len", <<"str">>, "i64"),
          FlatRow("str", "as_bytes", <<"str">>, "data"),
          FlatRow("str", "from_utf8", <<"data">>, "str"),
          FlatRow("str", "is_match", <<"str", "regex">>, "bool"),
          FlatRow("regex", "is_match", <<"regex", "str">>, "bool"),
          FlatRow("data", "to_base64", <<"data">>, "str"),
          FlatRow("data", "len", <<"data">>, "i64"),
          FlatRow("i64", "abs", <<"i64">>, "i64"),
          FlatRow("i64", "to_str", <<"i64">>, "str")}
    \cup {FlatRow("i64", f, <<"i64", "i64">>, "i64") : f \in {"pow", "min", "max"}}

MethodRows ==
    {FlatRow("HttpRequest", f, <<>>, "HttpRequest") :
        f \in {"GET", "POST", "PUT", "DELETE", "HEAD", "OPTIONS", "CONNECT", "PATCH", "TRACE"}}

\* connection, from, to and their setters exist for both kinds of message.
MessageRows(m) ==
    {FlatRow(m, "connection", <<m>>, "Connection"),
     FlatRow(m, "from", <<m>>, "ID"), FlatRow(m, "to", <<m>>, "ID"),
     FlatRow(m, "set_from", <<m, "ID">>, m), FlatRow(m, "set_to", <<m, "ID">>, m),
     FlatRow(m, "set_header", <<m, "str", "data">>, m),
     FlatRow(m, "set_connection", <<m, "Connection">>, m),
     FlatRow(m, "version", <<m>>, "str")}

RequestRows ==
    {FlatRow("HttpRequest", f, <<"HttpRequest">>, "str") : f \in {"method", "path", "query"}}
    \cup {FlatRow("HttpRequest", f, <<"HttpRequest", "str">>, "HttpRequest") :
            f \in {"set_path", "set_query"}}

ResponseRows ==
    {FlatRow("HttpResponse", "new", <<"i64">>, "HttpResponse"),
     FlatRow("HttpResponse", "status", <<"HttpResponse">>, "i64"),
     FlatRow("HttpResponse", "set_reason", <<"HttpResponse", "str">>, "HttpResponse")}

IDRows ==
    {FlatRow("ID", "default", <<>>, "ID"),
     FlatRow("ID", "add_label", <<"ID", "Label">>, "ID"),
     FlatRow("ID", "add_host", <<"ID", "str">>, "ID"),
     FlatRow("ID", "add_ip", <<"ID", "IpAddr">>, "ID"),
     FlatRow("ID", "set_port", <<"ID", "i64">>, "ID"),
     FlatRow("ID", "has_label", <<"ID", "Label">>, "bool"),
     FlatRow("ID", "has_host", <<"ID", "str">>, "bool"),
     FlatRow("ID", "has_ip", <<"ID", "IpAddr">>, "bool"),
     FlatRow("IpAddr", "localhost", <<>>, "IpAddr"),
     FlatRow("IpAddr", "from", <<"i64", "i64", "i64", "i64">>, "IpAddr"),
     FlatRow("Label", "is_match", <<"Label", "Label">>, "bool"),
     FlatRow("System", "getCurrentTime", <<>>, "i64")}

ConnectionRows ==
    {FlatRow("Connection", "default", <<>>, "Connection"),
     FlatRow("Connection", "new", <<"ID", "ID", "i64">>, "Connection"),
     FlatRow("Connection", "from", <<"Connection">>, "ID"),
     FlatRow("Connection", "to", <<"Connection">>, "ID"),
     FlatRow("Connection", "number", <<"Connection">>, "i64"),
     FlatRow("Connection", "set_from", <<"Connection", "ID">>, "Connection"),
     FlatRow("Connection", "set_to", <<"Connection", "ID">>, "Connection"),
     FlatRow("Connection", "set_number", <<"Connection", "i64">>, "Connection")}

\* <FlatTyp as TBuiltin>::builtins.  option::Some is typed by the checker.
FlatBuiltins ==
    StrRows \cup MethodRows \cup MessageRows("HttpRequest") \cup MessageRows("HttpResponse")
    \cup RequestRows \cup ResponseRows \cup IDRows \cup ConnectionRows
    \cup {<<<<"option", "Some">>, <<RReturn>>, RReturn>>}

AnyList == ListTyp(RReturn)
PairsOf(s, t) == ListTyp(TupleTyp(<<Flat(s), Flat(t)>>))

\* <Typ as TBuiltin>::builtins: what takes or gives composite types
CompositeBuiltins ==
    {<<<<"option", f>>, <<AnyOption>>, TBool>> : f \in {"is_none", "is_some"}}
    \cup {<<<<"list", "len">>, <<AnyList>>, TInt>>,
          <<<<"list", "reduce">>, <<AnyList>>, OptionTyp(RReturn)>>}
    \cup {<<<<"list", f>>, <<AnyList, AnyList>>, TBool>> : f \in {"is_subset", "is_disjoint"}}
    \cup {<<<<"list", f>>, <<AnyList, AnyList>>, AnyList>> : f \in {"difference", "intersection"}}
    \cup UNION {{<<<<m, "from_to">>, <<Flat(m)>>, TupleTyp(<<Flat("ID"), Flat("ID")>>)>>,
                 <<<<m, "header">>, <<Flat(m), TStr>>, OptionTyp(ListTyp(Flat("data")))>>,
                 <<<<m, "unique_header">>, <<Flat(m), TStr>>, OptionTyp(Flat("data"))>>,
                 <<<<m, "header_pairs">>, <<Flat(m)>>, PairsOf("str", "data")>>} :
                   m \in {"HttpRequest", "HttpResponse"}}
    \cup {<<<<"HttpRequest", "query_pairs">>, <<Flat("HttpRequest")>>, PairsOf("str", "str")>>,
          <<<<"HttpResponse", "reason">>, <<Flat("HttpResponse")>>, OptionTyp(TStr)>>,
          <<<<"HttpResponse", "headers">>, <<Flat("HttpResponse")>>, ListTyp(TStr)>>,
          <<<<"IpAddr", "lookup">>, <<TStr>>, OptionTyp(ListTyp(Flat("IpAddr")))>>,
          <<<<"IpAddr", "octets">>, <<Flat("IpAddr")>>, TupleTyp(<<TInt, TInt, TInt, TInt>>)>>,
          <<<<"ID", "find_label">>, <<Flat("ID"), Flat("Label")>>, OptionTyp(Flat("Label"))>>,
          <<<<"ID", "labels">>, <<Flat("ID")>>, ListTyp(Flat("Label"))>>,
          <<<<"ID", "hosts">>, <<Flat("ID")>>, ListTyp(TStr)>>,
          <<<<"ID", "ips">>, <<Flat("ID")>>, ListTyp(Flat("IpAddr"))>>,
          <<<<"ID", "port">>, <<Flat("ID")>>, OptionTyp(TInt)>>,
          <<<<"Label", "captures">>, <<Flat("Label"), Flat("Label")>>, OptionTyp(PairsOf("str", "str"))>>,
          <<<<"Label", "concat">>, <<Flat("Label"), Flat("Label")>>, Flat("Label")>>,
          <<<<"Label", "parts">>, <<Flat("Label")>>, OptionTyp(ListTyp(TStr))>>}

\* <CPFlatTyp as TBuiltin>::builtins: what only the control plane has
Compile(f) == <<<<f>>, <<Flat("Primitive"), Flat("ID")>>, Flat("Policy")>>

CPBuiltins ==
    {<<<<f>>, <<>>, Flat("Policy")>> :
        f \in {"allow_egress", "allow_ingress", "deny_egress", "deny_ingress"}}
    \cup {Compile("compile_egress"), Compile("compile_ingress")}
    \cup {FlatRow("Primitive", f, <<>>, "Primitive") :
        f \in {"allow_rest_request", "allow_rest_response", "allow_tcp_connection",
               "on_tcp_disconnect"}}
    \cup {FlatRow("ControlPlane", "onboard", <<"ID">>, "bool"),
          <<<<"ControlPlane", "onboarded">>, <<Flat("OnboardingData")>>, OptionTyp(Flat("ID"))>>,
          FlatRow("ControlPlane", "newID", <<"OnboardingData">>, "ID"),
          FlatRow("ControlPlane", "verify_credentials", <<"OnboardingData", "Label">>, "bool"),
          FlatRow("Label", "new", <<"str">>, "Label"),
          FlatRow("Label", "login_time", <<"i64">>, "Label"),
          <<<<"OnboardingData", "proposed_labels">>, <<Flat("OnboardingData")>>, ListTyp(Flat("Label"))>>,
          FlatRow("OnboardingData", "has_proposed_label", <<"OnboardingData", "Label">>, "bool"),
          FlatRow("OnboardingData", "has_ip", <<"OnboardingData", "IpAddr">>, "bool"),
          FlatRow("OnboardingData", "host", <<"OnboardingData">>, "Label"),
          FlatRow("OnboardingData", "service", <<"OnboardingData">>, "Label"),
          FlatRow("OnboardingResult", "Ok", <<"ID", "Policy", "Policy">>, "OnboardingResult"),
          FlatRow("OnboardingResult", "Err", <<"str", "ID", "Policy", "Policy">>, "OnboardingResult"),
          FlatRow("OnboardingResult", "ErrID", <<"str", "ID">>, "OnboardingResult"),
          FlatRow("OnboardingResult", "ErrStr", <<"str">>, "OnboardingResult")}

DPRows == FlatBuiltins \cup CompositeBuiltins
CPRows == DPRows \cup CPBuiltins

\* internal_service: reading and writing the metadata of a message
ReadRows(m) ==
    {<<<<m, "has_label">>, <<Flat("Label")>>, TBool>>,
     <<<<m, "find_label">>, <<Flat("Label")>>, OptionTyp(Flat("Label"))>>,
     <<<<m, "id">>, <<>>, OptionTyp(Flat("Label"))>>,
     <<<<m, "data">>, <<>>, ListTyp(Flat("data"))>>}
WriteRows(m) ==
    {<<<<m, "set_id">>, <<>>, TUnit>>,
     <<<<m, "push">>, <<Flat("data")>>, TUnit>>,
     <<<<m, "pop">>, <<>>, OptionTyp(Flat("data"))>>,
     <<<<m, "add_label">>, <<Flat("Label")>>, TUnit>>,
     <<<<m, "remove_label">>, <<Flat("Label")>>, TUnit>>,
     <<<<m, "wipe">>, <<>>, TUnit>>}

\* Both sides in the same way.
InternalRows_Symmetric ==
    UNION {ReadRows(m) \cup WriteRows(m) : m \in {"Ingress", "Egress"}}

InternalRows == ReadRows("Ingress") \cup ReadRows("Egress") \cup WriteRows("Egress")

Named(rows, f) == {row \in rows : row[1] = f}

\* The functions that select an element of a tuple: names that are numbers.
IndexOf(f) == CASE f = <<"0">> -> 0 [] f = <<"1">> -> 1 [] f = <<"2">> -> 2 [] OTHER -> -1

is_builtin(rows, f) == Named(rows, f) # {} \/ IndexOf(f) >= 0

is_internal(rows, f) == is_builtin(rows, f) \/ Named(InternalRows, f) # {}

\* Headers::typ: builtins first, then metadata, then the program's own.
\* headers maps the names of functions to rows.
typ_of(rows, headers, f) ==
    IF Named(rows, f) # {} THEN Named(rows, f)
    ELSE IF Named(InternalRows, f) # {} THEN Named(InternalRows, f)
    ELSE Named(headers, f)

\* Headers::resolve: the dot notation picks the module of the first argument.
resolve(rows, f, types) ==
    IF f[1] # "." THEN f
    ELSE LET ms == {m \in intrinsic(types[1]) : is_builtin(rows, <<m, f[2]>>)}
         IN  IF ms = {} THEN <<f[2]>> ELSE <<CHOOSE m \in ms : TRUE, f[2]>>
=============================================================================

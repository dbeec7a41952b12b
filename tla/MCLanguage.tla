------------------------------ MODULE MCLanguage ------------------------------
(***************************************************************************)
(* Small programs for the language: every binder around every combination  *)
(* of a few expressions, well typed or not; every builtin function; every  *)
(* short label pattern; call graphs of three functions; metadata and       *)
(* external services.                                                      *)
(***************************************************************************)
EXTENDS Specialization

Atom(t) == <<"atom", t>>
TypCons(c, t) == <<"cons", c, t>>
RECURSIVE TypExpr(_)
TypExpr(t) ==
    CASE t = TUnit -> <<"tuple", <<>>>>
      [] t = RReturn -> Atom("i64")
      [] IsList(t) -> TypCons("List", TypExpr(t[2][1]))
      [] t = AnyOption -> TypCons("Option", Atom("i64"))
      [] IsTuple(t) /\ Len(t[2]) = 1 -> TypCons("Option", TypExpr(t[2][1]))
      [] IsTuple(t) -> <<"tuple", SeqMap(t[2], TypExpr)>>
      [] OTHER -> Atom(t[1])

Plus(e1, e2) == InfixE("+", e1, e2)
Num(i) == Lit(IntV(i))
Some(e) == CallS(<<"option", "Some">>, <<e>>)
Blk(e) == BlockS(<<ExprS(e)>>)
X == Ident("x")
Y == Ident("y")
B == Ident("b")

-----------------------------------------------------------------------------
(***************************************************************************)
(* Binders: y is bound to a value made from x and b, and used in a scope   *)
(* where x may be bound again.                                             *)
(***************************************************************************)
ReturnIf == IfS(<<B, BlockS(<<RetS(X)>>), Blk(Num(2))>>)

Bound == {X, Plus(X, Num(1)), CallS(<<"g">>, <<X>>), B, TupleS(<<X, B>>), ReturnIf,
          Some(X), Some(TupleS(<<X, B>>)), Lit(NoneV), ListS(<<X, Num(1)>>), ListS(<<>>),
          IfS(<<B, Blk(X), Blk(Num(5))>>)}

Scopes == {Y, X, Plus(Y, X), InfixE("==", Y, X), InfixE("<", Y, Num(2)), CallS(<<"g">>, <<Y>>),
           BlockS(<<LetS(<<"x">>, Plus(Y, Num(1))), ExprS(Plus(X, Y))>>),
           Plus(BlockS(<<LetS(<<"y">>, X), ExprS(Y)>>), Y),
           IterS("map", <<"x">>, "", <<ListS(<<Y, X>>), Plus(X, Y)>>),
           IfS(<<B, Blk(Y), BlockS(<<RetS(X)>>)>>),
           IfSomeS("x", <<Some(Y), Blk(Plus(X, Y)), Blk(X)>>),
           InfixE("&&", B, InfixE("<", X, Y)),
           Some(Y), PrefixE("-", Y), InfixE("in", Y, ListS(<<X, Num(2)>>)),
           IterS("fold", <<"b">>, "x", <<ListS(<<X, Y>>), Plus(Ident("b"), Plus(X, Y)), Y>>),
           CallS(<<"1">>, <<TupleS(<<Y, X>>)>>),
           InfixE("!=", Y, Y), Some(TupleS(<<Y, X>>)), BlockS(<<RetS(X)>>),
           InfixE("/", X, InfixE("-", Y, X)), InfixE("%", X, InfixE("-", Y, X))}

IterOps == {"map", "filter", "filter_map", "all", "any", "foreach"}

Binders ==
    {BlockS(<<LetS(<<"y">>, e), ExprS(f)>>) : e \in Bound, f \in Scopes}
    \cup {BlockS(<<LetS(<<"y", "b">>, e), ExprS(f)>>) : e \in Bound, f \in Scopes}
    \cup {Blk(IterS(op, <<"y">>, "", <<e, Blk(f)>>)) :
            op \in IterOps, e \in {ListS(<<X, Num(1)>>), ListS(<<>>), X}, f \in Scopes}
    \cup {Blk(IterS("fold", <<"y">>, "x", <<e, Blk(f), X>>)) :
            e \in {ListS(<<X, Num(1)>>), ListS(<<>>)}, f \in Scopes}
    \cup {Blk(IfSomeS("y", <<e, Blk(f), Blk(X)>>)) : e \in Bound, f \in Scopes}
    \cup {BlockS(<<LetS(<<"y">>, X), LetS(<<"x">>, e), ExprS(f)>>) : e \in Scopes, f \in Scopes}

Results == {Atom("i64"), Atom("bool"), TypCons("List", Atom("i64"))}

GDecl == FnDecl(<<"g">>, <<<<"y", Atom("i64")>>>>, Atom("i64"), Blk(Plus(Y, Num(1))))

\* Bodies whose type the checker takes for another.
MistypedBodies ==
    {BlockS(<<RetS(X)>>), Blk(IfS(<<B, BlockS(<<RetS(X)>>), BlockS(<<RetS(Num(2))>>)>>)),
     BlockS(<<SemiS(X)>>), BlockS(<<LetS(<<"y">>, X), SemiS(Plus(X, Y))>>)}

Main(ty, body) ==
    <<GDecl, FnDecl(<<"main">>, <<<<"x", Atom("i64")>>, <<"b", Atom("bool")>>>>, ty, body)>>

BinderSources ==
    {Main(ty, body) : ty \in Results, body \in Binders}
    \cup {Main(ty, body) : ty \in Results \cup {<<"tuple", <<>>>>}, body \in MistypedBodies}

\* A filter_map whose body has the type !.
MCPanicSources ==
    {Main(TypCons("List", Atom("i64")), Blk(IterS("filter_map", <<"y">>, "", <<e, Blk(f)>>))) :
        e \in {ListS(<<X, Num(1)>>), ListS(<<>>)}, f \in {Y, Some(Y), BlockS(<<RetS(X)>>)}}

-----------------------------------------------------------------------------
(* One program for each builtin function, with arguments of its types. *)
ParamNames == <<"p1", "p2", "p3", "p4">>

BuiltinSource(row) ==
    LET n == Len(row[2])
        ps == [i \in 1..n |-> <<ParamNames[i], TypExpr(row[2][i])>>]
    IN  <<FnDecl(<<"main">>, ps, TypExpr(CallTyp(row[1], [i \in 1..n |-> IF row[2][i] = AnyList THEN ListTyp(TInt) ELSE row[2][i]], row[3])),
                 Blk(CallS(row[1], [i \in 1..n |-> Ident(ParamNames[i])])))>>

BuiltinSources == {BuiltinSource(row) : row \in Rows \ Named(Rows, <<"option", "Some">>)}

-----------------------------------------------------------------------------
(* Label patterns: each is matched against every short label. *)
PatternNodes == {NodeStr("u"), NodeAny(""), NodeAny("v"), NodeAny("w"), NodeRec(""), NodeRec("v")}
Patterns == {p \in UNION {[1..n -> PatternNodes] : n \in 1..3} : WellFormed(p)}

CapturedExpr(p) ==
    LET vs == SetToSeq(vars_of(p))
    IN  ListS([i \in 1..Len(vs) |-> Ident(vs[i])])

NoCapture == ListS(<<Lit(StrV(<<"no match">>))>>)

LabelSources ==
    {<<FnDecl(<<"main">>, <<<<"x", Atom("Label")>>>>, TypCons("List", Atom("str")),
              Blk(IfMatchS(<<<<"label", p>>>>, <<X, Blk(CapturedExpr(p)), Blk(NoCapture)>>)))>> :
        p \in Patterns}

GroundLabels == UNION {[1..n -> {NodeStr("u"), NodeStr("v")}] : n \in 1..3}

-----------------------------------------------------------------------------
(***************************************************************************)
(* Call graphs: two policy functions and two helpers, each calling any two *)
(* of the others or itself; a call of a function that is not declared.     *)
(***************************************************************************)
Request0 == <<"allow_rest_request">>
Connection0 == <<"allow_tcp_connection">>
Callees == {Request0, <<"g">>, <<"h">>, <<"k">>}
True == Lit(BoolV(TRUE))
Calling(fs) == Blk(FoldLeft(LAMBDA e, f : InfixE("&&", e, CallS(f, <<>>)), True, SetToSeq(fs)))
Fn0(f, fs) == FnDecl(f, <<>>, Atom("bool"), Calling(fs))

GraphSources ==
    {<<Fn0(Request0, S), Fn0(Connection0, {<<"h">>}), Fn0(<<"g">>, T), Fn0(<<"h">>, U)>> :
        S, T, U \in {V \in SUBSET Callees : Cardinality(V) <= 2}}

-----------------------------------------------------------------------------
(***************************************************************************)
(* Policies for requests and disconnections that read and write metadata   *)
(* and ask external services, in branches and loops and after returns.     *)
(***************************************************************************)
OtherLabel == <<NodeStr("u")>>
LabelU == Lit(LabelV(OtherLabel))
Data(d) == Lit(DataV(<<d>>))
Ask == CallS(<<"svc", "ask">>, <<X>>)
Tell(e) == CallS(<<"svc", "tell">>, <<e>>)

MetaStmts ==
    {SemiS(CallS(<<"Egress", "push">>, <<Data("d")>>)),
     SemiS(CallS(<<"Egress", "add_label">>, <<LabelU>>)),
     SemiS(CallS(<<"Egress", "remove_label">>, <<LabelU>>)),
     SemiS(CallS(<<"Egress", "set_id">>, <<>>)),
     SemiS(CallS(<<"Egress", "wipe">>, <<>>)),
     SemiS(CallS(<<"Ingress", "push">>, <<Data("d")>>)),
     SemiS(CallS(<<"Ingress", "pop">>, <<>>)),
     SemiS(CallS(<<"Ingress", "wipe">>, <<>>)),
     SemiS(CallS(<<"Egress", "pop">>, <<>>)),
     SemiS(Tell(Data("t"))),
     SemiS(IterS("foreach", <<"y">>, "", <<CallS(<<"Ingress", "data">>, <<>>), Tell(Y)>>)),
     LetS(<<"x">>, CallS(<<"HttpRequest", "set_path">>, <<X, Lit(StrV(<<"path">>))>>)),
     SemiS(IfS(<<CallS(<<"Ingress", "has_label">>, <<LabelU>>), BlockS(<<RetS(Ask)>>)>>))}

MetaResults ==
    {Ask, InfixE("||", CallS(<<"Ingress", "has_label">>, <<LabelU>>), Ask),
     CallS(<<".", "is_some">>, <<CallS(<<"Egress", "pop">>, <<>>)>>),
     IfSomeS("x", <<CallS(<<"Ingress", "find_label">>, <<LabelU>>),
                    Blk(CallS(<<".", "is_match">>, <<X, LabelU>>)), Blk(Ask)>>)}

Service ==
    ExternalDecl("svc", <<<<"ask", <<Atom("HttpRequest")>>, Atom("bool")>>,
                          <<"tell", Open, <<"tuple", <<>>>>>>>>)

\* A service with the name of the metadata.
IngressDecl ==
    ExternalDecl("Ingress", <<<<"push", <<Atom("data")>>, <<"tuple", <<>>>>>>,
                              <<"wipe", <<>>, <<"tuple", <<>>>>>>>>)

MCIngressSources ==
    {<<IngressDecl,
       FnDecl(Request0, <<<<"x", Atom("HttpRequest")>>>>, Atom("bool"), BlockS(<<s, ExprS(e)>>))>> :
        s \in MetaStmts, e \in {True, CallS(<<"Ingress", "has_label">>, <<LabelU>>)}}

MetaSources ==
    MCIngressSources \cup
    {<<Service,
       FnDecl(Request0, <<<<"x", Atom("HttpRequest")>>>>, Atom("bool"), BlockS(<<s, t, ExprS(e)>>)),
       FnDecl(<<"on_tcp_disconnect">>, <<<<"x", Atom("Connection")>>>>, <<"tuple", <<>>>>,
              Blk(CallS(<<"svc", "tell">>, <<CallS(<<".", "number">>, <<X>>)>>)))>> :
        s, t \in MetaStmts, e \in MetaResults}

-----------------------------------------------------------------------------
(* Policy functions of any number of arguments, with permitted types or not. *)
HeaderParams ==
    {<<>>, <<<<"x", Atom("HttpRequest")>>>>, <<<<"x", Atom("HttpRequest")>>, <<"y", Atom("data")>>>>,
     <<<<"x", Atom("ID")>>, <<"z", Atom("ID")>>, <<"r", Atom("HttpRequest")>>, <<"y", Atom("data")>>>>,
     <<<<"x", Atom("data")>>>>, <<<<"x", Atom("Connection")>>, <<"y", Atom("i64")>>, <<"z", Atom("i64")>>>>,
     <<<<"x", Atom("Connection")>>>>}

HeaderSources ==
    {<<FnDecl(<<f>>, ps, ty, Blk(e))>> :
        f \in {"allow_rest_request", "allow_tcp_connection", "on_tcp_disconnect"},
        ps \in HeaderParams, ty \in {Atom("bool"), Atom("i64"), <<"tuple", <<>>>>},
        e \in {Lit(BoolV(FALSE)), Num(1), Lit(UnitV), InfixE("==", InfixE("/", Num(1), Num(0)), Num(1))}}

-----------------------------------------------------------------------------
(***************************************************************************)
(* Global policies: tests of the identities, of the request and of the     *)
(* metadata, combined by operators and conditionals, with early returns,   *)
(* bindings, a helper function, loops and effects on the metadata.  Left   *)
(* out are the constructs that specialization is known to get wrong.       *)
(***************************************************************************)
From == Ident("from")
To == Ident("to")
Req == Ident("req")
Payload == Ident("payload")
HasU(e) == CallS(<<".", "has_label">>, <<e, LabelU>>)
IsGet == InfixE("==", CallS(<<".", "method">>, <<Req>>), Lit(StrV(<<"GET">>)))
IngressU == CallS(<<"Ingress", "has_label">>, <<LabelU>>)
Helper(e) == CallS(<<"g">>, <<e, Req>>)
AnyPayload == IterS("any", <<"y">>, "", <<CallS(<<"Ingress", "data">>, <<>>), Blk(InfixE("==", Y, Payload))>>)

Tests == {HasU(From), HasU(To), IsGet, IngressU, Helper(From), Helper(To), AnyPayload, True}
LocalTests == {IsGet, IngressU, AnyPayload}

Push == SemiS(CallS(<<"Egress", "push">>, <<Payload>>))
AddU == SemiS(CallS(<<"Egress", "add_label">>, <<LabelU>>))

GlobalStmts ==
    {<<>>, <<AddU>>}
    \cup {<<SemiS(IfS(<<c, BlockS(<<RetS(d)>>)>>))>> : c \in Tests, d \in {HasU(To), Lit(BoolV(FALSE))}}
    \cup {<<SemiS(IfS(<<c, BlockS(<<Push>>)>>)), AddU>> : c \in Tests}
    \cup {<<SemiS(IterS("foreach", <<"y">>, "", <<CallS(<<".", "labels">>, <<c>>),
              CallS(<<"Egress", "add_label">>, <<Y>>)>>))>> : c \in {From, To}}

GlobalResults ==
    {InfixE("&&", c, d) : c, d \in Tests}
    \cup {IfS(<<c, Blk(d), Blk(InfixE("||", d, HasU(From)))>>) : c \in Tests, d \in Tests \ {True}}

\* Bindings of something known or not, with tests of the message in scope.
ScopeResults ==
    {BlockS(<<LetS(<<"x">>, c), ExprS(InfixE(op, X, d))>>) :
        op \in {"&&", "||"}, c \in Tests, d \in LocalTests}
    \cup {IfSomeS("x", <<CallS(<<".", "find_label">>, <<c, LabelU>>),
                         Blk(InfixE("&&", CallS(<<".", "is_match">>, <<X, LabelU>>), d)), Blk(HasU(To))>>) :
            c \in {From, To}, d \in LocalTests}

GlobalParams(t) ==
    <<<<"from", Atom("ID")>>, <<"to", Atom("ID")>>, <<"req", Atom(t)>>, <<"payload", Atom("data")>>>>

HelperDecl ==
    FnDecl(<<"g">>, <<<<"y", Atom("ID")>>, <<"x", Atom("HttpRequest")>>>>, Atom("bool"),
           Blk(InfixE("||", HasU(Y), InfixE("==", CallS(<<".", "path">>, <<X>>), Lit(StrV(<<>>))))))

GlobalRequest(stmts, e) ==
    <<HelperDecl, FnDecl(Request0, GlobalParams("HttpRequest"), Atom("bool"), BlockS(stmts \o <<ExprS(e)>>))>>

GlobalConnection(e, n) ==
    <<FnDecl(Connection0, <<<<"from", Atom("ID")>>, <<"to", Atom("ID")>>, <<"conn", Atom("Connection")>>>>,
             Atom("bool"), Blk(InfixE("||", e, InfixE("==", CallS(<<".", "number">>, <<Ident("conn")>>), n)))),
      FnDecl(<<"on_tcp_disconnect">>, <<<<"x", Atom("Connection")>>>>, <<"tuple", <<>>>>, Blk(Lit(UnitV)))>>

MCGlobalSources ==
    {GlobalRequest(s, e) : s \in GlobalStmts, e \in GlobalResults \cup ScopeResults}
    \cup {GlobalConnection(e, n) : e \in {HasU(From), HasU(To), True}, n \in {Num(0), Num(1)}}

\* A comparison that can only be made at run time.
NotGet == InfixE("!=", CallS(<<".", "method">>, <<Req>>), Lit(StrV(<<"GET">>)))
MCDefectSources == {GlobalRequest(<<>>, e) : e \in {NotGet, InfixE("&&", IngressU, NotGet)}}
NoSources == {}

-----------------------------------------------------------------------------
MCSources == BinderSources \cup BuiltinSources \cup LabelSources \cup GraphSources \cup MetaSources
             \cup HeaderSources

MCNameOrder == <<Request0, Connection0, <<"g">>, <<"h">>, <<"main">>, <<"on_tcp_disconnect">>,
                 <<"svc", "ask">>, <<"svc", "tell">>>>

Ask1 == <<"svc", "ask">>
Tell1 == <<"svc", "tell">>
MCAnswers == {(Ask1 :> {BoolV(TRUE)}) @@ (Tell1 :> {UnitV}),
              (Ask1 :> {}) @@ (Tell1 :> {UnitV})}

MCIngresses == {[id |-> {OwnLabel}, data |-> <<<<"d">>, <<"e">>>>, labels |-> {OtherLabel}]}
MCOwnLabel == <<NodeStr("own")>>

SomeID == [hosts |-> {<<"s">>}, ips |-> {<<1, 2, 3, 4>>}, port |-> {80}, labels |-> {OtherLabel}]
SomeConnection == NewConnection(SomeID, DefaultID, 1)
SomeHeaders == HeadersFrom(<<<<<<"s">>, <<"d">>>>, <<<<"s">>, <<"e">>>>>>)

MCServices == {SomeID, DefaultID}

RECURSIVE MCValuesOf(_)
MCValuesOf(t) ==
    CASE t = TBool -> {BoolV(TRUE), BoolV(FALSE)}
      [] t = TInt -> {IntV(1), IntV(2)}
      [] t = TUnit -> {UnitV}
      [] t = TStr -> {StrV(<<>>), StrV(<<"s">>)}
      [] t = Flat("data") -> {DataV(<<"d">>)}
      [] t = Flat("Label") -> {LabelV(l) : l \in GroundLabels}
      [] t = Flat("ID") -> {IDV(SomeID)}
      [] t = Flat("IpAddr") -> {<<"IpAddr", <<1, 2, 3, 4>>>>}
      [] t = Flat("Connection") -> {ConnV(SomeConnection)}
      [] t = Flat("HttpRequest") ->
            {Request([DefaultRequest EXCEPT !.headers = SomeHeaders, !.connection = SomeConnection]),
             Request([RequestOf("POST") EXCEPT !.path = <<"p">>])}
      [] t = Flat("HttpResponse") -> {Response([DefaultResponse EXCEPT !.headers = SomeHeaders])}
      [] t = Flat("regex") -> {<<"regex", [lang |-> {<<"s">>}, vars |-> <<>>]>>}
      [] IsList(t) -> {ListV(<<>>), ListV(<<CHOOSE v \in MCValuesOf(t[2][1]) : TRUE>>),
                       ListV(SetToSeq(MCValuesOf(t[2][1])))}
      [] IsTuple(t) -> {NoneV} \cup {SomeV(v) : v \in MCValuesOf(t[2][1])}

MCResolves(s) == IF s = <<>> THEN {} ELSE {<<<<"IpAddr", <<1, 2, 3, 4>>>>>>}
=============================================================================

----------------------------- MODULE PolicyFiles -----------------------------
(***************************************************************************)
(* Policies made from programs (armour-lang/src/policies.rs): for each     *)
(* protocol the part of the program that its functions need, checked       *)
(* against the signatures the protocol permits.                            *)
(*                                                                         *)
(* A policy is [program, fns], fns being the map of module Policies; a     *)
(* Policies value is a function on some of the protocols.  Optional        *)
(* results are sets with at most one element.                              *)
(***************************************************************************)
EXTENDS Programs, Policies

Protocols == {"http", "tcp"}
functions(proto) == IF proto = "http" THEN HttpFns ELSE TcpFns

IDs2 == <<Flat("ID"), Flat("ID")>>
MessageSigs(t) == {IDs2 \o <<Flat(t), Flat("data")>>, <<Flat(t), Flat("data")>>, <<Flat(t)>>, <<>>}

\* http_policy() and tcp_policy(): argument types and result
Permitted(f) ==
    CASE f = "allow_rest_request" -> [args |-> MessageSigs("HttpRequest"), typ |-> TBool]
      [] f = "allow_rest_response" -> [args |-> MessageSigs("HttpResponse"), typ |-> TBool]
      [] f = "allow_tcp_connection" ->
            [args |-> {IDs2 \o <<Flat("Connection")>>, <<Flat("Connection")>>, <<>>}, typ |-> TBool]
      [] f = "on_tcp_disconnect" ->
            [args |-> {IDs2 \o <<Flat("Connection"), TInt, TInt>>,
                       <<Flat("Connection"), TInt, TInt>>, <<Flat("Connection")>>, <<>>},
             typ |-> TUnit]

\* Only the arguments are compared.
SigFits_AnyResult(row, args, typ) == row[2] = AnyArgs \/ type_check(row[2], args)

\* Policy::type_check of a header against one permitted signature.
SigFits(row, args, typ) ==
    can_unify(row[3], typ) /\ (row[2] = AnyArgs \/ type_check(row[2], args))

\* Policy::from_program
PolicyFrom(prog, proto, rows) ==
    LET Sig(f) == typ_of(rows, prog.headers, <<f>>)
        defined == {f \in functions(proto) : Sig(f) # {}}
        bad == {f \in defined : \A row \in Sig(f) : \A a \in Permitted(f).args :
                                   ~SigFits(row, a, Permitted(f).typ)}
    IN  IF bad # {} THEN {}
        ELSE {[program |-> prog,
               fns |-> from_program([f \in defined |-> Len((CHOOSE row \in Sig(f) : TRUE)[2])],
                                    functions(proto))]}

\* Policies::inner_from: a protocol none of whose functions is defined has no
\* policy; {} when a function has a type the protocol does not permit.
inner_from(M, rows) ==
    LET Prog(proto) == program(M, {<<f>> : f \in functions(proto)})
        present == {proto \in Protocols : DOMAIN Prog(proto).code # {}}
    IN  IF M.st # "ok" \/ \E proto \in present : PolicyFrom(Prog(proto), proto, rows) = {} THEN {}
        ELSE {[proto \in present |-> CHOOSE p \in PolicyFrom(Prog(proto), proto, rows) : TRUE]}

\* OnboardingPolicy::inner_from and check_header
OnboardingFn == <<"onboarding_policy">>
onboarding_from(M) ==
    LET prog == program(M, {OnboardingFn})
    IN  IF \E row \in Named(prog.headers, OnboardingFn) :
              SigFits(row, <<Flat("OnboardingData")>>, Flat("OnboardingResult"))
        THEN {prog} ELSE {}

\* Map::extend: the entries of n replace those of m.
Override(m, n) == [f \in DOMAIN m \cup DOMAIN n |-> IF f \in DOMAIN n THEN n[f] ELSE m[f]]

\* Policy::merge and Policies::merge: what both define is taken from ps.
merge_policy(p, q) == [program |-> merge(p.program, q.program), fns |-> Override(p.fns, q.fns)]
merge_policies(ps, qs) ==
    [proto \in DOMAIN ps \cup DOMAIN qs |->
        IF proto \notin DOMAIN qs THEN ps[proto]
        ELSE IF proto \notin DOMAIN ps THEN qs[proto]
        ELSE merge_policy(qs[proto], ps[proto])]

\* From<CPExpr> for DPExpr: {} is the panic on a literal that only the
\* control plane has.
RECURSIVE DPLiteral(_)
DPLiteral(v) ==
    IF IsFlat(v) THEN v[1] \notin CPFlatTypNames ELSE \A i \in DOMAIN v[2] : DPLiteral(v[2][i])
RECURSIVE DPExpr(_)
DPExpr(e) ==
    /\ Kind(e) = "lit" => DPLiteral(Attr(e))
    /\ \A i \in DOMAIN Subs(e) : DPExpr(Subs(e)[i])
RECURSIVE DPTyp(_)
DPTyp(t) == t[1] \notin CPFlatTypNames /\ \A i \in DOMAIN t[2] : DPTyp(t[2][i])

to_dp(p) ==
    IF /\ \A f \in DOMAIN p.program.code : DPExpr(p.program.code[f])
       /\ \A row \in p.program.headers :
            DPTyp(row[3]) /\ \A i \in DOMAIN row[2] : DPTyp(row[2][i])
    THEN {p} ELSE {}
=============================================================================

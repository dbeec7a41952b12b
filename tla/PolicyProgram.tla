----------------------------- MODULE PolicyProgram -----------------------------
(***************************************************************************)
(* The life of a policy program: its source is read, checked and           *)
(* translated (PreProgram::from_buf), cut into the policies of the two     *)
(* protocols (Policies::from_buf), and its functions are evaluated, by the *)
(* read-eval-print loop or by a proxy for a message.                       *)
(*                                                                         *)
(* Sources are the programs considered, Answers what external services may *)
(* answer ({} is a failure or a time-out), Ingresses the metadata that may *)
(* come with a message and ValuesOf(t) some values of the type t.          *)
(***************************************************************************)
EXTENDS Reference

CONSTANTS Sources, Answers, Ingresses, OwnLabel, ValuesOf(_), None

ASSUME SourceNames ==
    \A d \in Sources : \A i \in DOMAIN d :
        IsFn(d[i]) => \E k \in DOMAIN NameOrder : NameOrder[k] = d[i][2]

VARIABLES source, pre, policies, call

vars == <<source, pre, policies, call>>

Rows == DPRows
Env(p, ext) == [rows |-> Rows, code |-> p.code, ext |-> ext]
Message(ingress) == [meta |-> IngressEgress(ingress, OwnLabel), log |-> <<>>]

Init == source = <<>> /\ pre = None /\ policies = None /\ call = None

\* Programs are read once; a proxy that gets another policy starts afresh.
ReadSource ==
    /\ pre = None
    /\ \E d \in Sources : source' = d /\ pre' = from_buf(d, Rows)
    /\ UNCHANGED <<policies, call>>

MakePolicies ==
    /\ pre # None /\ pre.st = "ok" /\ policies = None
    /\ policies' = inner_from(pre, Rows)
    /\ call' = None
    /\ UNCHANGED <<source, pre>>

\* Argument lists of the types ts.
ArgsFor(ts) ==
    FoldLeft(LAMBDA S, t : {Append(vs, v) : vs \in S, v \in ValuesOf(t)}, {<<>>}, ts)

Result(p, f, vs, s, ext) == evaluate(Call(f, FALSE, SeqMap(vs, Lit)), s, Env(p, ext))

Evaluated(where, p, f, vs, ext, ingress) ==
    [where |-> where, f |-> f, vs |-> vs, ext |-> ext, ingress |-> ingress,
     result |-> Result(p, f, vs, Message(ingress), ext)]

\* A function of the whole program.
EvaluateFunction ==
    /\ pre # None /\ pre.st = "ok" /\ policies = None /\ call = None
    /\ \E f \in DOMAIN pre.p.code, ext \in Answers, ingress \in Ingresses :
         \E row \in Named(pre.p.headers, f) : \E vs \in ArgsFor(row[2]) :
           call' = Evaluated("program", pre.p, f, vs, ext, ingress)
    /\ UNCHANGED <<source, pre, policies>>

\* A function of an installed policy, called with as many arguments as its
\* FnPolicy says (evaluate of the HTTP and TCP policies).
EvaluatePolicy ==
    /\ policies \notin {None, {}} /\ call = None
    /\ \E ps \in policies : \E proto \in DOMAIN ps : \E f \in DOMAIN ps[proto].fns :
         /\ ps[proto].fns[f].kind = "Args"
         /\ \E args \in Permitted(f).args, ext \in Answers, ingress \in Ingresses :
              /\ Len(args) = ps[proto].fns[f].n
              /\ \E vs \in ArgsFor(args) :
                   call' = Evaluated(proto, ps[proto].program, <<f>>, vs, ext, ingress)
    /\ UNCHANGED <<source, pre, policies>>

Next == ReadSource \/ MakePolicies \/ EvaluateFunction \/ EvaluatePolicy

Spec == Init /\ [][Next]_vars

-----------------------------------------------------------------------------
(***************************************************************************)
(* Properties                                                              *)
(***************************************************************************)
Accepted == pre # None /\ pre.st = "ok"

\* An external service failed or timed out.
ServiceFailed(c) ==
    \E i \in DOMAIN c.result.s.log : c.ext[c.result.s.log[i][1]] = {}

\* Operations that the checker accepts and that have no result: division and
\* remainder by zero; and, because only flat literals are compared and wrapped,
\* (in)equality with, and option::Some of, a list or a tuple, which the types
\* and the documents allow.
NoResult(why) ==
    /\ why # <<>>
    /\ \/ why[1] \in {<<"/">>, <<"%">>} /\ why[2][2] = IntV(0)
       \/ why[1] \in {<<"==">>, <<"!=">>} /\ \E i \in 1..2 : ~IsFlat(why[2][i])
       \/ why[1] = <<"option", "Some">> /\ ~IsFlat(why[2][1])

\* Bodies whose value has another type than the checker says: one that always
\* returns, since the type ! fits any declared type, and one that ends in e;,
\* which is checked as unit and evaluates to e.
RECURSIVE AlwaysReturns(_)
AlwaysReturns(e) ==
    CASE Kind(e) = "block" ->
           \E i \in DOMAIN Subs(e) :
               Kind(Subs(e)[i]) = "ret" \/ AlwaysReturns(Subs(Subs(e)[i])[1])
      [] Kind(e) \in {"if", "ifsome"} /\ Len(Subs(e)) = 3 ->
           AlwaysReturns(Subs(e)[2]) /\ AlwaysReturns(Subs(e)[3])
      [] OTHER -> FALSE

EndsInSemi(e) ==
    Subs(e) # <<>> /\ LET stmt == Last(Subs(e)) IN Kind(stmt) = "expr" /\ Attr(stmt)[2]

Mistyped(d) ==
    \E i \in DOMAIN d : IsFn(d[i]) /\ (AlwaysReturns(d[i][5]) \/ EndsInSemi(d[i][5]))

\* Reading a program ends with a program, an error or a panic of the checker;
\* what is accepted has code for every declared function, its call graph is that
\* of the code, and evaluating it does not panic.
ProgramTypeOK ==
    /\ pre # None => pre.st \in {"ok", "error", "panic"}
    /\ Accepted =>
         LET code == pre.p.code
         IN  /\ DOMAIN code = {source[i][2] : i \in {j \in DOMAIN source : IsFn(source[j])}}
             /\ Mirrors(pre.g, [f \in DOMAIN code |->
                                  {h \in CallsOf(code[f]) : ~is_internal(Rows, h)}])
    /\ call # None => call.result.st \in {"ok", "err"}

\* "type check above will ensure unwrap is successful" (expressions.rs:1202): the
\* checker does not panic on any program.
CheckerNeverPanics == pre # None => pre.st # "panic"

\* Type soundness with its exceptions: a function of an accepted program, called
\* with arguments of its declared types, evaluates to a value of its declared
\* type.  It fails only when a service fails or one of the operations of NoResult
\* is met, and its value has another type only if a body is Mistyped.  The
\* checker of expressions.rs and headers.rs and the cases of interpret.rs are
\* separate tables that have to agree on everything else.
TypeSound ==
    call # None /\ call.where = "program" /\ ~ServiceFailed(call) =>
        \/ /\ call.result.st = "ok"
           /\ \A row \in Named(pre.p.headers, call.f) : HasTyp(Attr(call.result.e), row[3])
        \/ call.result.st = "err" /\ NoResult(call.result.e)
        \/ Mistyped(source)

\* The result r of the interpreter is the reference's ref.
SameResult(r, ref) ==
    /\ r.st = ref.st
    /\ r.s = ref.s
    /\ r.st = "ok" => LitEq(Attr(r.e), ref.v)

\* The translation to De Bruijn closures and the substitutions of the
\* interpreter keep the meaning of names: the result, the metadata and the
\* calls of external services are those of the source, in the same order.
MeaningKept ==
    call # None =>
        SameResult(call.result,
                   RefResult(call.f, call.vs, Message(call.ingress),
                             [decls |-> source, rows |-> Rows, ext |-> call.ext]))

\* No accepted program can call a function from itself, directly or through
\* others, so that evaluating a policy always ends.  Said of the code, where
\* the check is made on the call graph that add_decl builds.
NoRecursion ==
    Accepted =>
        LET code == pre.p.code
            Step(S) == S \cup UNION {CallsOf(code[f]) : f \in S \cap DOMAIN code}
            All(S) == FoldLeft(LAMBDA T, f : Step(T), S, source)
        IN  \A f \in DOMAIN code : f \notin All(CallsOf(code[f]))

\* Cutting a program down to the functions of a protocol changes nothing
\* for these functions: a policy does what the whole program would do.
CutKeepsMeaning ==
    call # None /\ call.where # "program" =>
        call.result = Result(pre.p, call.f, call.vs, Message(call.ingress), call.ext)

\* A policy function that a proxy calls with the number of arguments in its
\* FnPolicy decides: it gives a Boolean, or unit for on_tcp_disconnect, unless an
\* external service fails, the function divides by zero or the like (NoResult),
\* or it is Mistyped.
PolicyDecides ==
    call # None /\ call.where # "program" /\ ~ServiceFailed(call) =>
        \/ /\ call.result.st = "ok"
           /\ HasTyp(Attr(call.result.e), Permitted(call.f[1]).typ)
        \/ call.result.st = "err" /\ NoResult(call.result.e)
        \/ Mistyped(source)

\* "type checking prevents mutatation of "ingress" metadata" (meta.rs:149): what
\* came in with a message is there unchanged after any evaluation.
IngressKept ==
    call # None => call.result.s.meta.Ingress = call.ingress

\* Ingress metadata is changed by no program but one that declares Ingress to be
\* an external service, which the checker takes for the signature and the
\* interpreter for the metadata.
IngressGuarded ==
    (\A i \in DOMAIN source : IsFn(source[i]) \/ source[i][2] # "Ingress")
        => IngressKept
=============================================================================

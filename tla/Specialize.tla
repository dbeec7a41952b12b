------------------------------ MODULE Specialize ------------------------------
(***************************************************************************)
(* Specialization of the global policy for one service: partial evaluation *)
(* once the identity of the service is known, and the data-plane policy    *)
(* made of what is left (armour-control/src/specialize.rs).                *)
(*                                                                         *)
(* Partial evaluation of an expression gives [st, b, e]: b says that e is  *)
(* known, a literal or the return of one.  st is "ok", "err" or "panic".   *)
(* env has the builtins (rows) and the functions of the program (code).    *)
(***************************************************************************)
EXTENDS PolicyFiles

P(b, e) == [st |-> "ok", b |-> b, e |-> e]
PStop(st) == [st |-> st, b |-> FALSE, e |-> <<>>]
POption(S) == IF S = {} THEN PStop("err") ELSE P(TRUE, Lit(CHOOSE v \in S : TRUE))

\* PartialEq for expressions: the equality of literals inside.
RECURSIVE ExprEq(_, _)
ExprEq(e, f) ==
    /\ Kind(e) = Kind(f) /\ Len(Subs(e)) = Len(Subs(f))
    /\ IF IsLit(e) THEN LitEq(Attr(e), Attr(f)) ELSE Attr(e) = Attr(f)
    /\ \A i \in DOMAIN Subs(e) : ExprEq(Subs(e)[i], Subs(f)[i])

(***************************************************************************)
(* ring_simplification: the operators plus have a neutral element zero;    *)
(* for mult, one is neutral and zero absorbs.  A return stands for the     *)
(* whole.  {} says that nothing applies.                                   *)
(***************************************************************************)
Ring(op, plus, mult, zero, one, r1, r2) ==
    LET neutral == Lit(IF op \in plus THEN zero ELSE one)
        Decides(e) == is_return(e) \/ (op \in mult /\ e = Lit(zero))
    IN  IF op \notin plus \cup mult THEN {}
        ELSE IF Decides(r1.e) THEN {r1}
        ELSE IF r1.e = neutral THEN {r2}
        ELSE IF Decides(r2.e) THEN {r2}
        ELSE IF r2.e = neutral THEN {r1}
        ELSE {}

\* The ring of floats is left out: the operators take integers only.
Rings(op, r1, r2) ==
    LET either == Ring(op, {"||"}, {"&&"}, BoolV(FALSE), BoolV(TRUE), r1, r2)
        both == Ring(op, {"&&"}, {"||"}, BoolV(TRUE), BoolV(FALSE), r1, r2)
        int == Ring(op, {"+", "-"}, {"*", "/"}, IntV(0), IntV(1), r1, r2)
    IN  IF either # {} THEN either ELSE IF both # {} THEN both ELSE int

simplify(op, r1, r2) ==
    LET b == r1.b /\ r2.b
        known == Rings(op, r1, r2)
    IN  IF op = "/" /\ r2.e = Lit(IntV(0)) THEN PStop("err")
        ELSE IF op = "==" /\ ExprEq(r1.e, r2.e) THEN P(b, Lit(BoolV(TRUE)))
        ELSE IF op = "!=" /\ ~ExprEq(r1.e, r2.e) THEN P(b, Lit(BoolV(TRUE)))
        ELSE IF known # {} THEN CHOOSE r \in known : TRUE
        ELSE P(b, InfixE(op, r1.e, r2.e))

(***************************************************************************)
(* peval.  With only (simplification_only) no builtin is called, because   *)
(* the statement before could not be evaluated.                            *)
(***************************************************************************)
RECURSIVE peval(_, _, _)

PStripped(r) == IF r.st = "ok" THEN P(r.b, strip_return(r.e)) ELSE r
pevaluate(e, only, env) == PStripped(peval(e, only, env))

PevalEach(es, only, env) ==
    FoldLeft(LAMBDA a, e : IF a.st # "ok" THEN a
                           ELSE LET r == peval(e, only, env)
                                IN  [st |-> r.st, b |-> a.b /\ r.b, es |-> Append(a.es, r.e)],
             [st |-> "ok", b |-> TRUE, es |-> <<>>], es)

PevalFirst(S, only, env) == IF S = {} THEN PStop("err") ELSE peval(CHOOSE e \in S : TRUE, only, env)

AllLits(es) == \A i \in DOMAIN es : IsLit(es[i])

\* A closure whose variable is not used any more disappears.
PevalClosure(e, only, env) ==
    LET r == peval(Subs(e)[1], only, env)
    IN  IF r.st # "ok" THEN r
        ELSE IF is_free(r.e, 0) THEN P(TRUE, r.e)
        ELSE P(FALSE, Closure(Attr(e), r.e))

PevalReturn(e, only, env) ==
    LET r == peval(Subs(e)[1], only, env) IN IF r.st = "ok" THEN P(r.b, Return(r.e)) ELSE r

PevalPrefix(e, only, env) ==
    LET r == peval(Subs(e)[1], only, env)
    IN  IF r.st # "ok" THEN r
        ELSE IF ~r.b THEN P(FALSE, PrefixE(Attr(e), r.e))
        ELSE IF is_return(r.e) THEN r
        ELSE IF IsLit(r.e) THEN POption(eval_prefix(Attr(e), Attr(r.e)))
        ELSE PStop("err")

PevalInfix(e, only, env) ==
    LET r1 == peval(Subs(e)[1], only, env)
        r2 == peval(Subs(e)[2], only, env)
    IN  IF r1.st # "ok" THEN r1
        ELSE IF r2.st # "ok" THEN r2
        ELSE IF ~r1.b \/ ~r2.b THEN simplify(Attr(e), r1, r2)
        ELSE IF is_return(r1.e) THEN r1
        ELSE IF is_return(r2.e) THEN r2
        ELSE IF AllLits(<<r1.e, r2.e>>) THEN POption(eval_infix(Attr(e), Attr(r1.e), Attr(r2.e)))
        ELSE PStop("err")

\* A statement that is known has no effect and is dropped.  After one that
\* is not known the others are only simplified.
PevalStmts(e, only, env) ==
    LET r == peval(Subs(e)[1], only, env)
        more == BlockE("Block", Tail(Subs(e)))
        q == peval(more, TRUE, env)
        rest == IF Kind(q.e) = "block" THEN Subs(q.e) ELSE <<q.e>>
    IN  IF r.st # "ok" \/ is_return(r.e) \/ Len(Subs(e)) = 1 THEN r
        ELSE IF r.b THEN peval(more, only, env)
        ELSE IF q.st # "ok" THEN q
        ELSE P(FALSE, BlockE("Block", <<r.e>> \o rest))

PevalBlock(e, only, env) ==
    LET a == PevalEach(Subs(e), only, env)
    IN  IF Subs(e) = <<>> THEN P(TRUE, Lit(IF Attr(e) = "List" THEN ListV(<<>>) ELSE UnitV))
        ELSE IF Attr(e) = "Block" THEN PevalStmts(e, only, env)
        ELSE IF a.st # "ok" THEN PStop(a.st)
        ELSE IF Returns(a.es) # <<>> THEN P(a.b, Returns(a.es)[1])
        ELSE IF AllLits(a.es) THEN P(a.b, Lit(<<Attr(e), Values(a.es)>>))
        ELSE PStop("err")

\* When the body does not use the variables, the bound expression is dropped.
PevalLet(e, only, env) ==
    LET xs == Attr(e)
        body == Subs(e)[2]
        unused == \A b \in at_depth(body, Len(xs)) : \A u \in 0..(Len(xs) - 1) : is_free(b, u)
        r == peval(Subs(e)[1], only, env)
        q == peval(body, only, env)
    IN  IF at_depth(body, Len(xs)) = {} THEN PStop("panic")
        ELSE IF unused THEN PevalFirst(ApplyAll(body, SeqMap(xs, LAMBDA x : Lit(UnitV))), only, env)
        ELSE IF r.st # "ok" \/ is_return(r.e) THEN r
        ELSE IF r.b
        THEN IF IsLit(r.e) THEN PevalFirst(Bind(body, xs, Attr(r.e)), only, env) ELSE PStop("err")
        ELSE IF q.st = "ok" THEN P(FALSE, LetE(xs, r.e, q.e)) ELSE q

(***************************************************************************)
(* Iteration over a known list.  The values of the body are searched for a *)
(* return; the search consumes them, and the result of every operator but  *)
(* fold is made from what is left of them.                                 *)
(***************************************************************************)
PevalElements(e, r, r0, only, env) ==
    LET op == Attr(e)[1]
        lits == Attr(r.e)[2]
        Step(a, v) ==
            IF a.st # "ok" THEN a
            ELSE LET q == PevalFirst(IterBody(Subs(e)[2], Attr(e)[2], a.acc, v), only, env)
                 IN  [st |-> q.st, b |-> a.b /\ q.b, last |-> q, es |-> Append(a.es, q.e),
                      acc |-> IF a.acc = <<>> THEN <<>> ELSE <<q.e>>]
        a == FoldLeft(Step, [st |-> "ok", b |-> TRUE, last |-> r0, es |-> <<>>,
                             acc |-> IF Len(Subs(e)) = 3 THEN <<r0.e>> ELSE <<>>], lits)
    IN  IF a.st # "ok" THEN PStop(a.st)
        ELSE IF Returns(a.es) # <<>> THEN P(a.b, Returns(a.es)[1])
        ELSE IF op = "fold" THEN a.last
        ELSE IF a.b THEN P(TRUE, IterResult(op, lits, <<>>, 0).e)
        ELSE P(FALSE, Rebuild(e, <<r.e, Subs(e)[2]>>))

PevalIter(e, only, env) ==
    LET r == peval(Subs(e)[1], only, env)
        a == PevalEach(Tail(Subs(e)), only, env)
        r0 == IF Len(Subs(e)) = 3 THEN peval(Subs(e)[3], only, env) ELSE r
    IN  IF r.st # "ok" THEN r
        ELSE IF is_return(r.e) THEN P(TRUE, r.e)
        ELSE IF ~r.b
        THEN IF a.st = "ok" THEN P(FALSE, Rebuild(e, <<r.e>> \o a.es)) ELSE PStop(a.st)
        ELSE IF ~IsLit(r.e) \/ Attr(r.e)[1] # "List" THEN PStop("err")
        ELSE IF r0.st # "ok" THEN r0
        ELSE IF ~r0.b THEN P(FALSE, Rebuild(e, <<r.e, Subs(e)[2], r0.e>>))
        ELSE PevalElements(e, r, r0, only, env)

\* The alternative at position i, or unit when there is none.
PevalElse(e, i, only, env) ==
    IF i <= Len(Subs(e)) THEN peval(Subs(e)[i], only, env) ELSE P(TRUE, Lit(UnitV))

\* Two branches that are the same make the condition superfluous.
PevalIf(e, only, env) ==
    LET r == peval(Subs(e)[1], only, env)
        a == PevalEach(Tail(Subs(e)), only, env)
        q == peval(Subs(e)[2], only, env)
    IN  IF r.st # "ok" \/ is_return(r.e) THEN r
        ELSE IF r.b
        THEN IF ~IsLit(r.e) \/ ~IsBool(Attr(r.e)) THEN PStop("err")
             ELSE IF Attr(r.e)[2] THEN q ELSE PevalElse(e, 3, only, env)
        ELSE IF a.st # "ok" THEN PStop(a.st)
        ELSE IF Len(a.es) = 2 /\ ExprEq(a.es[1], a.es[2]) THEN q
        ELSE P(FALSE, IfE(<<r.e>> \o a.es))

PevalIfSome(e, only, env) ==
    LET r == peval(Subs(e)[1], only, env)
        v == Attr(r.e)
        c == Subs(e)[2]
        q == peval(Subs(c)[1], only, env)
        t == PevalElse(e, 3, only, env)
    IN  IF r.st # "ok" \/ is_return(r.e) THEN r
        ELSE IF r.b
        THEN IF ~IsLit(r.e) \/ v[1] # "Tuple" THEN PStop("err")
             ELSE IF Len(v[2]) = 1 THEN PevalFirst(apply(c, Lit(v[2][1])), only, env) ELSE t
        ELSE IF Kind(c) # "closure" THEN PStop("panic")
        ELSE IF q.st # "ok" THEN q
        ELSE IF Len(Subs(e)) = 2 THEN P(FALSE, IfSomeE(<<r.e, Closure(Attr(c), q.e)>>))
        ELSE IF t.st # "ok" THEN t
        ELSE IF is_free(q.e, 0) /\ ExprEq(subst(q.e, 0, Lit(UnitV), TRUE), t.e) THEN t
        ELSE P(FALSE, IfSomeE(<<r.e, Closure(Attr(c), q.e), t.e>>))

\* Something that is not known cannot be matched, which is an error.
PevalIfMatch(e, only, env) ==
    LET pats == Attr(e)[2]
        n == Len(pats)
        Matchable(f, p) == is_return(f) \/ (IsLit(f) /\ perform_match(Attr(f), p) # {})
        a == FoldLeft(LAMBDA b, i :
                        IF b.st # "ok" THEN b
                        ELSE LET r == peval(Subs(e)[i], only, env)
                             IN  [st |-> IF r.st = "ok" /\ ~Matchable(r.e, pats[i]) THEN "err" ELSE r.st,
                                  b |-> b.b /\ r.b, es |-> Append(b.es, r.e)],
                      [st |-> "ok", b |-> TRUE, es |-> <<>>], [i \in 1..n |-> i])
        caps == Captures(e, Values(a.es))
        q == IF \E i \in 1..n : caps[i] = {} THEN PevalElse(e, n + 2, only, env)
             ELSE PevalFirst(Consequence(e, caps), only, env)
    IN  IF a.st # "ok" THEN PStop(a.st)
        ELSE IF ~a.b THEN P(FALSE, e)
        ELSE IF Returns(a.es) # <<>> THEN P(TRUE, Returns(a.es)[1])
        ELSE IF q.st = "ok" /\ ~is_return(q.e) /\ ~IsLit(q.e) THEN PStop("err")
        ELSE q

\* Functions of the program are unfolded.  A service or the metadata of the
\* message is called at run time, with the arguments as they were.
PevalCall(e, only, env) ==
    LET f == Attr(e)[1]
        a == PevalEach(Subs(e), only, env)
        bodies == ApplyAll(env.code[f], a.es)
        r == pevaluate(CHOOSE b \in bodies : TRUE, only, env)
        now == a.b /\ ~only
    IN  IF a.st # "ok" THEN PStop(a.st)
        ELSE IF Returns(a.es) # <<>> THEN P(a.b, Returns(a.es)[1])
        ELSE IF f \in DOMAIN env.code
        THEN IF bodies = {} THEN PStop("err")
             ELSE IF r.st = "ok" THEN P(now /\ r.b, r.e) ELSE r
        ELSE IF ~now THEN P(FALSE, Rebuild(e, a.es))
        ELSE IF is_builtin(env.rows, f)
        THEN IF AllLits(a.es) THEN POption(eval_call(f, Values(a.es))) ELSE PStop("err")
        ELSE IF Len(f) = 2 THEN P(FALSE, e)
        ELSE PStop("err")

peval(e, only, env) ==
    CASE Kind(e) \in {"var", "bvar"} -> P(FALSE, e)
      [] Kind(e) = "lit" -> P(TRUE, e)
      [] Kind(e) = "closure" -> PevalClosure(e, only, env)
      [] Kind(e) = "return" -> PevalReturn(e, only, env)
      [] Kind(e) = "prefix" -> PevalPrefix(e, only, env)
      [] Kind(e) = "infix" -> PevalInfix(e, only, env)
      [] Kind(e) = "block" -> PevalBlock(e, only, env)
      [] Kind(e) = "let" -> PevalLet(e, only, env)
      [] Kind(e) = "iter" -> PevalIter(e, only, env)
      [] Kind(e) = "if" -> PevalIf(e, only, env)
      [] Kind(e) = "ifsome" -> PevalIfSome(e, only, env)
      [] Kind(e) = "ifmatch" -> PevalIfMatch(e, only, env)
      [] Kind(e) = "call" -> PevalCall(e, only, env)

-----------------------------------------------------------------------------
(***************************************************************************)
(* Compiling a function of the global policy.                              *)
(***************************************************************************)
\* The message arguments that are left when the identities are gone.
MessageArgs(f) ==
    CASE f = "allow_rest_request" -> <<Flat("HttpRequest"), Flat("data")>>
      [] f = "allow_rest_response" -> <<Flat("HttpResponse"), Flat("data")>>
      [] f = "allow_tcp_connection" -> <<Flat("Connection")>>
      [] f = "on_tcp_disconnect" -> <<Flat("Connection"), TInt, TInt>>

\* The global function has to take everything and give a Boolean.
check_header(pol, f) ==
    \E row \in Named(pol.program.headers, <<f>>) : row[2] = IDs2 \o MessageArgs(f) /\ row[3] = TBool

\* The service's own end.
OtherEnd_Swapped(f, f_egress, i) ==
    Call(<<MessageArgs(f)[1][1], IF f_egress THEN "from" ELSE "to">>, FALSE, <<BVar("message", i)>>)

\* The other end of the connection, taken from the message at index i.
OtherEnd(f, f_egress, i) ==
    Call(<<MessageArgs(f)[1][1], IF f_egress THEN "to" ELSE "from">>, FALSE, <<BVar("message", i)>>)

\* The other identity is left in.
Close_KeepsIdentity(f, f_egress, e) ==
    FoldRight(LAMBDA x, c : Closure(x, c), SubSeq(<<"message", "i", "j">>, 1, Len(MessageArgs(f))), e)

\* The other identity, at index m, becomes a call, and the message arguments
\* are closed over.  (on_tcp_disconnect is closed twice over.)
Close(f, f_egress, e) ==
    LET m == Len(MessageArgs(f))
        Closed(b, xs) == FoldRight(LAMBDA x, c : Closure(x, c), xs, b)
        inner == IF f = "on_tcp_disconnect" THEN Closed(e, <<"other", "req", "i", "j">>) ELSE e
    IN  Closed(subst(inner, m, OtherEnd(f, f_egress, m - 1), FALSE),
               SubSeq(<<"message", "i", "j">>, 1, m))

\* The new policy has this one function, and no external service.
compile_helper(f, e, typ, rows) ==
    LET prog == [code |-> <<f>> :> e, headers |-> {<<<<f>>, MessageArgs(f), typ>>}, ext |-> {}]
        D == deadcode_elim(prog, {<<f>>}, rows)
    IN  [st |-> D.st, program |-> D.p, fns |-> f :> Args(Len(MessageArgs(f)))]

\* A policy of what is left of the body after partial evaluation.
CompileBody(f, f_egress, r, rows) ==
    IF r.st # "ok" THEN [st |-> r.st]
    ELSE compile_helper(f, Close(f, f_egress, r.e), TBool, rows)

\* One protocol's part of the global policy.
CompileFn(pol, f, f_egress, id, rows) ==
    LET n == Len(MessageArgs(f)) + 2
        fexpr == propagate_subst(pol.program.code[<<f>>], IF f_egress THEN n - 1 ELSE n - 2,
                                 IF f_egress THEN 0 ELSE 1, Lit(IDV(id)))
        body == at_depth(fexpr, n - 1)
        env == [rows |-> rows, code |-> pol.program.code]
    IN  IF ~check_header(pol, f) THEN [st |-> "err"]
        ELSE IF body = {} THEN [st |-> "panic"]
        ELSE CompileBody(f, f_egress, pevaluate(CHOOSE b \in body : TRUE, FALSE, env), rows)

\* The compiled policies, by protocol, have to be data-plane policies.
ForProxy(made) ==
    LET bad == {made[proto].st : proto \in DOMAIN made} \ {"ok"}
    IN  IF bad # {} THEN [st |-> CHOOSE st \in bad : TRUE]
        ELSE IF \E proto \in DOMAIN made : to_dp(made[proto]) = {} THEN [st |-> "panic"]
        ELSE [st |-> "ok", policies |-> made]

\* gps is the global policy; what is made has the protocols that define f.
compile_egress_ingress(gps, f, f_egress, id, rows) ==
    LET defining == {proto \in DOMAIN gps : <<f>> \in DOMAIN gps[proto].program.code}
    IN  ForProxy([proto \in defining |-> CompileFn(gps[proto], f, f_egress, id, rows)])
=============================================================================

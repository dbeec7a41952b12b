------------------------------- MODULE Reference -------------------------------
(***************************************************************************)
(* The meaning of parsed policies, said directly: variables are names and  *)
(* an environment rho gives their values.  There is no translation, no     *)
(* index and no substitution.  It is the reference for the type checker,   *)
(* the translation and the interpreter together.                           *)
(*                                                                         *)
(* A result is [st, v, ret, s]: ret says that v is being returned from the *)
(* function.  D.decls are the declarations, D.rows the builtins, D.ext the *)
(* answers of the external services.                                       *)
(***************************************************************************)
EXTENDS PolicyFiles

RefVal(v, s) == [st |-> "ok", v |-> v, ret |-> FALSE, s |-> s]
RefFail(s) == [st |-> "err", v |-> UnitV, ret |-> FALSE, s |-> s]
RefOption(S, s) == IF S = {} THEN RefFail(s) ELSE RefVal(CHOOSE v \in S : TRUE, s)
RefLeaves(r) == r.st # "ok" \/ r.ret

\* The names xs for the value v, element by element if there are several.
RefBind(rho, xs, v) ==
    FoldLeft(LAMBDA h, i : IF xs[i] = "_" THEN h
                           ELSE Extend(h, xs[i], IF Len(xs) = 1 THEN v ELSE v[2][i]),
             rho, [i \in DOMAIN xs |-> i])

RECURSIVE RefEval(_, _, _, _)

\* All of es from left to right, whatever they return.
RefAll(es, rho, s, D) ==
    FoldLeft(LAMBDA a, e : IF a.st # "ok" THEN a
                           ELSE LET r == RefEval(e, rho, a.s, D)
                                IN  [st |-> r.st, s |-> r.s, rs |-> Append(a.rs, r)],
             [st |-> "ok", s |-> s, rs |-> <<>>], es)

RefThen(a, Build(_)) ==
    LET rets == SelectSeq(a.rs, LAMBDA r : r.ret)
    IN  IF a.st # "ok" THEN RefFail(a.s)
        ELSE IF rets # <<>> THEN [rets[1] EXCEPT !.s = a.s]
        ELSE Build(SeqMap(a.rs, LAMBDA r : r.v))

RefBlock(stmts, rho, s, D) ==
    LET stmt == Head(stmts)
        r == RefEval(Subs(stmt)[1], rho, s, D)
        more == BlockS(Tail(stmts))
    IN  IF stmts = <<>> THEN RefVal(UnitV, s)
        ELSE IF RefLeaves(r) THEN r
        ELSE CASE Kind(stmt) = "ret" -> [r EXCEPT !.ret = TRUE]
               [] Kind(stmt) = "bind" -> RefEval(more, RefBind(rho, Attr(stmt), r.v), r.s, D)
               [] Kind(stmt) = "expr" /\ Len(stmts) = 1 -> r
               [] OTHER -> RefEval(more, rho, r.s, D)

RefElse(e, i, rho, s, D) ==
    IF i <= Len(Subs(e)) THEN RefEval(Subs(e)[i], rho, s, D) ELSE RefVal(UnitV, s)

RefIter(e, rho, s, D) ==
    LET op == Attr(e)[1]
        xs == Attr(e)[2]
        acc == Attr(e)[3]
        r == RefEval(Subs(e)[1], rho, s, D)
        r0 == IF acc = "" THEN r ELSE RefEval(Subs(e)[3], rho, r.s, D)
        Elem(a, v) ==
            IF a.st # "ok" THEN a
            ELSE LET outer == IF acc = "" THEN rho ELSE Extend(rho, acc, a.acc)
                     q == RefEval(Subs(e)[2], RefBind(outer, xs, v), a.s, D)
                 IN  [st |-> q.st, s |-> q.s, acc |-> q.v, rs |-> Append(a.rs, q)]
        a == FoldLeft(Elem, [st |-> r0.st, s |-> r0.s, acc |-> r0.v, rs |-> <<>>], r.v[2])
        Result(vs) ==
            LET kept == {i \in DOMAIN vs : vs[i] = BoolV(TRUE)}
                Pick(I) == SeqMap(SetToSortSeq(I, LAMBDA i, j : i < j), LAMBDA i : r.v[2][i])
            IN  CASE op = "map" -> ListV(vs)
                  [] op = "foreach" -> UnitV
                  [] op = "fold" -> a.acc
                  [] op = "all" -> BoolV(kept = DOMAIN vs)
                  [] op = "any" -> BoolV(kept # {})
                  [] op = "filter" -> ListV(Pick(kept))
                  [] op = "filter_map" ->
                        ListV(SeqMap(SelectSeq(vs, LAMBDA v : v[2] # <<>>), LAMBDA v : v[2][1]))
    IN  IF RefLeaves(r) THEN r ELSE RefThen(a, LAMBDA vs : RefVal(Result(vs), a.s))

\* A pattern matches by the definition of a match, not by the loop.
RefCaptures(p, v) ==
    IF p[1] = "label"
    THEN {[x \in DOMAIN b |-> CapturedStr(b[x])] : b \in ReferenceMatch(p[2], v[2])}
    ELSE UNION perform_regex_match(v, p[2])

RefIfMatch(e, rho, s, D) ==
    LET pats == Attr(e)
        n == Len(pats)
        a == RefAll(SubSeq(Subs(e), 1, n), rho, s, D)
        Match(vs) ==
            LET bound == FoldLeft(LAMBDA H, i : {Override(h, b) : h \in H, b \in RefCaptures(pats[i], vs[i])},
                                  {rho}, [i \in 1..n |-> i])
            IN  IF bound = {} THEN RefElse(e, n + 2, rho, a.s, D)
                ELSE RefEval(Subs(e)[n + 1], CHOOSE h \in bound : TRUE, a.s, D)
    IN  RefThen(a, Match)

\* e.f(): the module is that of the value
RefName(f, vs, rows) ==
    IF f[1] # "." THEN f
    ELSE LET m == CASE vs[1][1] = "List" -> "list"
                    [] vs[1][1] = "Tuple" -> "option"
                    [] OTHER -> vs[1][1]
         IN  IF is_builtin(rows, <<m, f[2]>>) THEN <<m, f[2]>> ELSE <<f[2]>>

RefCall(e, rho, s, D) ==
    LET a == RefAll(Subs(e), rho, s, D)
        Invoke(vs) ==
            LET f == RefName(Attr(e), vs, D.rows)
                own == SelectSeq(D.decls, LAMBDA d : IsFn(d) /\ d[2] = f)
                m == MetaCall(a.s.meta, f[1], f[2], vs)
                logged == [a.s EXCEPT !.log = Append(@, <<f, vs>>)]
            IN  IF own # <<>>
                THEN [RefEval(own[1][5],
                              RefBind(NoVars, SeqMap(own[1][3], LAMBDA p : p[1]),
                                      IF Len(vs) = 1 THEN vs[1] ELSE TupleV(vs)), a.s, D)
                        EXCEPT !.ret = FALSE]
                ELSE IF is_builtin(D.rows, f) THEN RefOption(eval_call(f, vs), a.s)
                ELSE IF f[1] \in {"Ingress", "Egress"}
                THEN RefOption(m[2], [a.s EXCEPT !.meta = m[1]])
                ELSE RefOption(D.ext[f], logged)
    IN  RefThen(a, Invoke)

RefEval(e, rho, s, D) ==
    LET Sub(i) == RefEval(Subs(e)[i], rho, s, D)
        a == RefAll(Subs(e), rho, s, D)
    IN  CASE Kind(e) = "ident" -> RefVal(rho[Attr(e)], s)
          [] Kind(e) = "lit" -> RefVal(Attr(e), s)
          [] Kind(e) \in {"list", "tuple"} ->
                RefThen(a, LAMBDA vs : RefVal(IF Kind(e) = "list" THEN ListV(vs) ELSE TupleV(vs), a.s))
          [] Kind(e) = "prefix" ->
                RefThen(a, LAMBDA vs : RefOption(eval_prefix(Attr(e), vs[1]), a.s))
          [] Kind(e) = "infix" /\ Attr(e) \in {"&&", "||"} ->
                LET r == Sub(1)
                IN  IF RefLeaves(r) \/ r.v[2] # (Attr(e) = "&&") THEN r
                    ELSE RefEval(Subs(e)[2], rho, r.s, D)
          [] Kind(e) = "infix" ->
                RefThen(a, LAMBDA vs : RefOption(eval_infix(Attr(e), vs[1], vs[2]), a.s))
          [] Kind(e) = "block" -> RefBlock(Subs(e), rho, s, D)
          [] Kind(e) = "if" ->
                LET r == Sub(1)
                IN  IF RefLeaves(r) THEN r
                    ELSE IF r.v[2] THEN RefEval(Subs(e)[2], rho, r.s, D)
                    ELSE RefElse(e, 3, rho, r.s, D)
          [] Kind(e) = "ifsome" ->
                LET r == Sub(1)
                IN  IF RefLeaves(r) THEN r
                    ELSE IF r.v[2] = <<>> THEN RefElse(e, 3, rho, r.s, D)
                    ELSE RefEval(Subs(e)[2], RefBind(rho, <<Attr(e)>>, r.v[2][1]), r.s, D)
          [] Kind(e) = "ifmatch" -> RefIfMatch(e, rho, s, D)
          [] Kind(e) = "iter" -> RefIter(e, rho, s, D)
          [] Kind(e) = "call" -> RefCall(e, rho, s, D)

\* What calling the function f with the values vs means.
RefResult(f, vs, s, D) == RefEval(CallS(f, SeqMap(vs, Lit)), NoVars, s, D)
=============================================================================

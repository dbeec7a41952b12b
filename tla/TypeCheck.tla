------------------------------- MODULE TypeCheck -------------------------------
(***************************************************************************)
(* Type checking of parsed policies and their translation into core        *)
(* expressions (from_loc_expr, from_block_stmt and from_decl of            *)
(* armour-lang/src/expressions.rs).                                        *)
(*                                                                         *)
(* Parsed expressions have the shape of core expressions,                  *)
(* <<kind, attribute, parts>>, with the kinds "ident", "lit", "list",      *)
(* "tuple", "prefix", "infix", "if", "ifsome" (the variable), "ifmatch"    *)
(* (the patterns), "iter" (<<op, names, accumulator>>), "call" (the name), *)
(* "block" (its async tag) and, in a block, "ret", "expr" (<<async, semi>>)*)
(* and "bind" (the names).                                                 *)
(*                                                                         *)
(* A pattern is <<"label", label>> or <<"regex", r>> with r.vars the       *)
(* sequence of <<variable, "str" | "i64" | "data">>.                       *)
(*                                                                         *)
(* H gives the functions in scope: H.rows the builtins, H.fns the headers  *)
(* of the program.  ctx is the Context; ret is the ReturnType, a set of at *)
(* most one type, which the checker updates as it meets return statements. *)
(***************************************************************************)
EXTENDS Expressions, Builtins, Labels

Ident(x) == <<"ident", x, <<>>>>
ListS(es) == <<"list", "", es>>
TupleS(es) == <<"tuple", "", es>>
CallS(f, es) == <<"call", f, es>>
BlockS(stmts) == <<"block", FALSE, stmts>>
AsyncBlockS(stmts) == <<"block", TRUE, stmts>>
RetS(e) == <<"ret", "", <<e>>>>
ExprS(e) == <<"expr", <<FALSE, FALSE>>, <<e>>>>
SemiS(e) == <<"expr", <<FALSE, TRUE>>, <<e>>>>
LetS(xs, e) == <<"bind", xs, <<e>>>>
IfS(es) == <<"if", "", es>>
IfSomeS(x, es) == <<"ifsome", x, es>>
IfMatchS(pats, es) == <<"ifmatch", pats, es>>
IterS(op, xs, acc, es) == <<"iter", <<op, xs, acc>>, es>>

NoVars == [x \in {} |-> RReturn]
add_var(ctx, x, t) == [ctx EXCEPT !.vars = Extend(@, x, t)]
AddVars(ctx, xs, ts) ==
    FoldLeft(LAMBDA c, i : add_var(c, xs[i], ts[i]), ctx, [i \in DOMAIN xs |-> i])
update_async_tag(ctx, b) == [ctx EXCEPT !.async = @ \/ b]

(***************************************************************************)
(* The checker works through the parts of an expression from left to right *)
(* and stops at the first error.  A chain c holds what it has so far: the  *)
(* translations, types and calls of the parts and the return type.         *)
(***************************************************************************)
Start(ret) == [st |-> "ok", es |-> <<>>, ts |-> <<>>, calls |-> {}, ret |-> ret]
Stop(c, st) == [c EXCEPT !.st = st]
Require(c, cond) == IF c.st = "ok" /\ ~cond THEN Stop(c, "error") ELSE c

\* The result for the whole expression; its type is <<>> after an error.
Conclude(c, e, t) ==
    IF c.st = "ok" THEN [st |-> "ok", e |-> e, t |-> t, calls |-> c.calls, ret |-> c.ret]
    ELSE [st |-> c.st, e |-> <<>>, t |-> <<>>, calls |-> {}, ret |-> c.ret]

RECURSIVE Check(_, _, _, _)

Then(c, e, H, ctx) ==
    IF c.st # "ok" THEN c
    ELSE LET r == Check(e, H, ctx, c.ret)
         IN  IF r.st # "ok" THEN Stop(c, r.st)
             ELSE [c EXCEPT !.es = Append(@, r.e), !.ts = Append(@, r.t),
                            !.calls = @ \cup r.calls, !.ret = r.ret]

ThenAll(c, es, H, ctx) == FoldLeft(LAMBDA d, e : Then(d, e, H, ctx), c, es)

\* Literal::typ of the literals that can be written in a program
LitTyp(v) == IF v = NoneV THEN AnyOption ELSE Flat(v[1])

CheckIdent(x, ctx, ret) ==
    LET c == Require(Start(ret), x \in DOMAIN ctx.vars)
    IN  Conclude(c, Var(x), ctx.vars[x])

\* The elements of a list are unified from left to right.
CheckList(es, H, ctx, ret) ==
    LET Elem(c, e) ==
            LET d == Then(c, e, H, ctx)
                n == Len(d.ts)
            IN  IF d.st # "ok" \/ n = 1 THEN d
                ELSE [Require(d, can_unify(d.ts[n], d.ts[n - 1])) EXCEPT
                        !.ts[n] = unify(d.ts[n - 1], d.ts[n])]
        c == FoldLeft(Elem, Start(ret), es)
    IN  Conclude(c, BlockE("List", c.es), ListTyp(IF es = <<>> THEN RReturn ELSE Last(c.ts)))

CheckTuple(es, H, ctx, ret) ==
    LET c == ThenAll(Start(ret), es, H, ctx)
    IN  Conclude(c, BlockE("Tuple", c.es), TupleTyp(c.ts))

CheckPrefix(e, H, ctx, ret) ==
    LET c == Then(Start(ret), Subs(e)[1], H, ctx)
        sig == PrefixTyp(Attr(e))
    IN  Conclude(Require(c, can_unify(c.ts[1], sig[1])), PrefixE(Attr(e), c.es[1]), sig[2])

CheckInfix(e, H, ctx, ret) ==
    LET c == ThenAll(Start(ret), Subs(e), H, ctx)
        sig == InfixTyp(Attr(e))
        fits == IF sig[1] # RReturn
                THEN can_unify(c.ts[1], sig[1]) /\ can_unify(c.ts[2], sig[2])
                ELSE IF sig[2] = RReturn THEN can_unify(c.ts[1], c.ts[2])
                ELSE can_unify(ListTyp(c.ts[1]), c.ts[2])
    IN  Conclude(Require(c, fits), InfixE(Attr(e), c.es[1], c.es[2]), sig[3])

\* The branches are not compared.
Branches_First(ts) == IF Len(ts) = 1 THEN can_unify(ts[1], TUnit) ELSE TRUE

\* The type of a conditional: unit without an alternative.
Branches(ts) == IF Len(ts) = 1 THEN can_unify(ts[1], TUnit) ELSE can_unify(ts[1], ts[2])
BranchTyp(ts) == IF Len(ts) = 1 THEN TUnit ELSE unify(ts[1], ts[2])

CheckIf(e, H, ctx, ret) ==
    LET c == ThenAll(Start(ret), Subs(e), H, ctx)
    IN  Conclude(Require(c, can_unify(c.ts[1], TBool) /\ Branches(Tail(c.ts))),
                 IfE(c.es), BranchTyp(Tail(c.ts)))

CheckIfSome(e, H, ctx, ret) ==
    LET x == Attr(e)
        c1 == Then(Start(ret), Subs(e)[1], H, ctx)
        c2 == Require(c1, dest_option(c1.ts[1]) # {})
        some == CHOOSE t \in dest_option(c1.ts[1]) : TRUE
        c3 == Then(c2, Subs(e)[2], H, add_var(ctx, x, some))
        c == ThenAll(c3, SubSeq(Subs(e), 3, Len(Subs(e))), H, ctx)
    IN  Conclude(Require(c, Branches(Tail(c.ts))),
                 IfSomeE([c.es EXCEPT ![2] = closure_expr(@, x)]), BranchTyp(Tail(c.ts)))

\* The variables of the patterns with their types, in one order.
PatternTyp(p) == IF p[1] = "label" THEN Flat("Label") ELSE TStr
PatternVars(p) ==
    IF p[1] = "label" THEN SetToSeq({<<x, "str">> : x \in vars_of(p[2])}) ELSE p[2].vars

CheckIfMatch(e, H, ctx, ret) ==
    LET pats == Attr(e)
        n == Len(pats)
        vars == FlattenSeq([i \in 1..n |-> PatternVars(pats[i])])
        xs == [i \in DOMAIN vars |-> vars[i][1]]
        c1 == ThenAll(Start(ret), SubSeq(Subs(e), 1, n), H, ctx)
        c2 == Require(c1, /\ \A i \in 1..n : can_unify(c1.ts[i], PatternTyp(pats[i]))
                          /\ IsInjective(xs))
        c3 == Then(c2, Subs(e)[n + 1], H, AddVars(ctx, xs, [i \in DOMAIN vars |-> Flat(vars[i][2])]))
        c == ThenAll(c3, SubSeq(Subs(e), n + 2, Len(Subs(e))), H, ctx)
        ts == SubSeq(c.ts, n + 1, Len(c.ts))
    IN  Conclude(Require(c, Branches(ts)),
                 IfMatchE(xs, pats, [c.es EXCEPT ![n + 1] = Closures(@, xs)]), BranchTyp(ts))

(***************************************************************************)
(* Iteration.  The accumulator is checked twice, before and after the body.*)
(* The type of a filter_map is unwrapped from the type of its body, which  *)
(* panics when the body always returns.                                    *)
(***************************************************************************)
IterVarTyps(xs, t) ==
    IF ~IsList(t) THEN {}
    ELSE IF Len(xs) = 1 THEN {<<t[2][1]>>}
    ELSE IF IsTuple(t[2][1]) /\ Len(t[2][1][2]) = Len(xs) THEN {t[2][1][2]}
    ELSE {}

\* The result of a predicate is taken for a Boolean.
BodyFits_NoBool(op, t) == op = "filter_map" => can_unify(t, AnyOption)

BodyFits(op, t) ==
    /\ op = "filter_map" => can_unify(t, AnyOption)
    /\ op \in {"all", "any", "filter"} => can_unify(t, TBool)

IterTyp(op, t1, t2) ==
    CASE op \in {"all", "any"} -> TBool
      [] op = "filter" -> t1
      [] op = "filter_map" -> ListTyp(CHOOSE t \in dest_option(t2) : TRUE)
      [] op = "foreach" -> TUnit
      [] op = "map" -> ListTyp(t2)

CheckIter(e, H, ctx, ret) ==
    LET op == Attr(e)[1]
        xs == Attr(e)[2]
        acc == Attr(e)[3]
        c1 == Then(Start(ret), Subs(e)[1], H, ctx)
        c2 == Require(c1, IterVarTyps(xs, c1.ts[1]) # {})
        inner == AddVars(ctx, xs, CHOOSE ts \in IterVarTyps(xs, c1.ts[1]) : TRUE)
    IN  IF acc = "" \/ op # "fold"
        THEN LET c3 == Then(c2, Subs(e)[2], H, inner)
                 c4 == Require(c3, BodyFits(op, c3.ts[2]))
                 c == IF c4.st = "ok" /\ acc = "" /\ op = "filter_map" /\ dest_option(c4.ts[2]) = {}
                      THEN Stop(c4, "panic")
                      ELSE Require(c4, op # "fold" /\ acc = "")
             IN  Conclude(c, iter_expr(c.es[2], op, xs, c.es[1], <<>>),
                          IterTyp(op, c.ts[1], c.ts[2]))
        ELSE LET init == Subs(e)[3]
                 c3 == Then(c2, init, H, ctx)
                 c4 == Then(c3, Subs(e)[2], H, add_var(inner, acc, c3.ts[2]))
                 c5 == Then(c4, init, H, ctx)
                 c == Require(c5, can_unify(c5.ts[3], c5.ts[4]))
             IN  Conclude(c, iter_expr(c.es[3], op, xs, c.es[1], <<acc, c.es[4]>>), c.ts[4])

(***************************************************************************)
(* Calls.  The header of an external may leave its arguments open.         *)
(***************************************************************************)
AnyArgs == <<Flat("..")>>

\* list::reduce and the set operations have the type of their first argument.
CallTyp(f, ts, t) ==
    CASE f = <<"list", "reduce">> -> OptionTyp(ts[1][2][1])
      [] f \in {<<"list", "difference">>, <<"list", "intersection">>} -> ts[1]
      [] OTHER -> t

CheckCall(e, H, ctx, ret) ==
    LET c == ThenAll(Start(ret), Subs(e), H, ctx)
        f == IF c.st = "ok" THEN resolve(H.rows, Attr(e), c.ts) ELSE Attr(e)
        sigs == typ_of(H.rows, H.fns, f)
        sig == CHOOSE s \in sigs : TRUE
        t == CallTyp(f, c.ts, sig[3])
        i == IndexOf(f)
    IN  IF Attr(e) = <<"option", "Some">> /\ Len(Subs(e)) = 1
        THEN Conclude(c, Call(f, FALSE, c.es), OptionTyp(c.ts[1]))
        ELSE IF sigs # {}
        THEN LET d == Require(c, sig[2] = AnyArgs \/ type_check(c.ts, sig[2]))
                 p == IF d.st = "ok" /\ f = <<"list", "reduce">> /\ ~IsList(d.ts[1])
                      THEN Stop(d, "panic") ELSE d
             IN  Conclude([p EXCEPT !.calls = @ \cup {f}],
                          Call(f, t = TUnit /\ ctx.async, c.es), t)
        ELSE IF i >= 0
        THEN Conclude(Require(c, Len(c.ts) = 1 /\ IsTuple(c.ts[1]) /\ i < Len(c.ts[1][2])),
                      Call(f, FALSE, c.es), c.ts[1][2][i + 1])
        ELSE Conclude(Require(c, FALSE), <<>>, <<>>)

(***************************************************************************)
(* Statements.                                                             *)
(***************************************************************************)
\* The first return statement met fixes the type of the others.
CheckReturn(stmt, last, H, ctx, ret) ==
    LET c1 == Then(Require(Start(ret), last), Subs(stmt)[1], H, ctx)
        c2 == Require(c1, \A t \in c1.ret : can_unify(c1.ts[1], t))
        c == IF c2.st = "ok" /\ c2.ret = {} THEN [c2 EXCEPT !.ret = {c2.ts[1]}] ELSE c2
    IN  Conclude(c, BlockE("Block", <<Return(c.es[1])>>), RReturn)

CheckExprStmt(stmt, rest, H, ctx, ret) ==
    LET semi == Attr(stmt)[2]
        c1 == Then(Start(ret), Subs(stmt)[1], H, update_async_tag(ctx, Attr(stmt)[1]))
        c == Then(Require(c1, semi), rest, H, ctx)
        tail == IF Kind(c.es[2]) = "block" /\ Attr(c.es[2]) = "Block"
                THEN Subs(c.es[2]) ELSE <<c.es[2]>>
    IN  IF Subs(rest) = <<>>
        THEN Conclude(c1, c1.es[1], IF semi THEN TUnit ELSE c1.ts[1])
        ELSE Conclude(c, BlockE("Block", <<c.es[1]>> \o tail), c.ts[2])

CheckLet(stmt, rest, H, ctx, ret) ==
    LET xs == Attr(stmt)
        c1 == Then(Start(ret), Subs(stmt)[1], H, ctx)
        t == c1.ts[1]
        c2 == Require(c1, Len(xs) = 1 \/ (IsTuple(t) /\ Len(t[2]) = Len(xs)))
        c == Then(c2, rest, H, AddVars(ctx, xs, IF Len(xs) = 1 THEN <<t>> ELSE t[2]))
    IN  Conclude(c, let_expr(c.es[2], xs, c.es[1]), c.ts[2])

from_block_stmt(e, H, ctx0, ret) ==
    LET ctx == update_async_tag(ctx0, Attr(e))
        stmt == Head(Subs(e))
        rest == Rebuild(e, Tail(Subs(e)))
    IN  IF Subs(e) = <<>> THEN Conclude(Start(ret), BlockE("Block", <<>>), TUnit)
        ELSE CASE Kind(stmt) = "ret" -> CheckReturn(stmt, Subs(rest) = <<>>, H, ctx, ret)
               [] Kind(stmt) = "expr" -> CheckExprStmt(stmt, rest, H, ctx, ret)
               [] Kind(stmt) = "bind" -> CheckLet(stmt, rest, H, ctx, ret)

Check(e, H, ctx, ret) ==
    CASE Kind(e) = "ident" -> CheckIdent(Attr(e), ctx, ret)
      [] Kind(e) = "lit" -> Conclude(Start(ret), e, LitTyp(Attr(e)))
      [] Kind(e) = "list" -> CheckList(Subs(e), H, ctx, ret)
      [] Kind(e) = "tuple" -> CheckTuple(Subs(e), H, ctx, ret)
      [] Kind(e) = "prefix" -> CheckPrefix(e, H, ctx, ret)
      [] Kind(e) = "infix" -> CheckInfix(e, H, ctx, ret)
      [] Kind(e) = "if" -> CheckIf(e, H, ctx, ret)
      [] Kind(e) = "ifsome" -> CheckIfSome(e, H, ctx, ret)
      [] Kind(e) = "ifmatch" -> CheckIfMatch(e, H, ctx, ret)
      [] Kind(e) = "iter" -> CheckIter(e, H, ctx, ret)
      [] Kind(e) = "call" -> CheckCall(e, H, ctx, ret)
      [] Kind(e) = "block" -> from_block_stmt(e, H, ctx, ret)

\* A body against its own return statements and its declared type, {} in the
\* read-eval-print loop.
CheckResult(r, declared) ==
    IF r.st = "ok" /\ \E t \in r.ret \cup declared : ~can_unify(r.t, t)
    THEN [r EXCEPT !.st = "error"] ELSE r
check_from_block_stmt(body, H, ctx, declared) == CheckResult(Check(body, H, ctx, {}), declared)

\* params is a sequence of <<name, type>>.  The header that typ_of finds for
\* the name gives the declared type.
from_decl(f, params, body, H) ==
    LET xs == [i \in DOMAIN params |-> params[i][1]]
        ts == [i \in DOMAIN params |-> params[i][2]]
        ctx == AddVars([vars |-> NoVars, async |-> FALSE], Reverse(xs), Reverse(ts))
        declared == {sig[3] : sig \in typ_of(H.rows, H.fns, f)}
    IN  [check_from_block_stmt(body, H, ctx, declared) EXCEPT
           !.e = IF @ = <<>> THEN @ ELSE Closures(@, xs)]
=============================================================================

------------------------------ MODULE Expressions ------------------------------
(***************************************************************************)
(* Core expressions of the policy language, with bound variables as        *)
(* De Bruijn indices (armour-lang/src/expressions.rs).  An expression is   *)
(* <<kind, attribute, subexpressions>>:                                    *)
(*                                                                         *)
(*   "var" name      "bvar" <<name, index>>   "lit" value     "return"     *)
(*   "prefix" op     "infix" op    "block" "List" | "Tuple" | "Block"      *)
(*   "let" names               <<e1, e2>>                                  *)
(*   "iter" <<op, names, accumulator>>   <<e1, e2>> or <<e1, e2, acc>>     *)
(*   "closure" name            <<e>>                                       *)
(*   "if", "ifsome"            <<c, e>> or <<c, e, alternative>>           *)
(*   "ifmatch" <<variables, patterns>>   the matched expressions, then the *)
(*                             consequence and perhaps an alternative      *)
(*   "call" <<function, is_async>>       arguments                         *)
(*                                                                         *)
(* Only a closure binds, so shifting, substituting and abstracting descend *)
(* in the same way through everything else.                                *)
(***************************************************************************)
EXTENDS Types, SequencesExt

Var(x) == <<"var", x, <<>>>>
BVar(x, i) == <<"bvar", <<x, i>>, <<>>>>
Lit(v) == <<"lit", v, <<>>>>
Return(e) == <<"return", "", <<e>>>>
PrefixE(op, e) == <<"prefix", op, <<e>>>>
InfixE(op, e1, e2) == <<"infix", op, <<e1, e2>>>>
BlockE(b, es) == <<"block", b, es>>
LetE(vs, e1, e2) == <<"let", vs, <<e1, e2>>>>
IterE(op, vs, acc, es) == <<"iter", <<op, vs, acc>>, es>>
Closure(x, e) == <<"closure", x, <<e>>>>
IfE(es) == <<"if", "", es>>
IfSomeE(es) == <<"ifsome", "", es>>
IfMatchE(vs, pats, es) == <<"ifmatch", <<vs, pats>>, es>>
Call(f, async, args) == <<"call", <<f, async>>, args>>

Kind(e) == e[1]
Attr(e) == e[2]
Subs(e) == e[3]
IsLit(e) == Kind(e) = "lit"
is_return(e) == Kind(e) = "return"

\* The depth of the subexpressions of an expression at depth d.
Inside(e, d) == IF Kind(e) = "closure" THEN d + 1 ELSE d
Rebuild(e, es) == <<Kind(e), Attr(e), es>>

\* Bound variable u does not occur.
RECURSIVE is_free(_, _)
is_free(e, u) ==
    IF Kind(e) = "bvar" THEN Attr(e)[2] # u
    ELSE \A i \in DOMAIN Subs(e) : is_free(Subs(e)[i], Inside(e, u))

\* The index of a variable from depth d on goes up by one, whatever i # 0 is.
RECURSIVE shift(_, _, _)
shift(e, i, d) ==
    IF i = 0 THEN e
    ELSE IF Kind(e) = "bvar"
    THEN IF Attr(e)[2] >= d THEN BVar(Attr(e)[1], Attr(e)[2] + 1) ELSE e
    ELSE Rebuild(e, [k \in DOMAIN Subs(e) |-> shift(Subs(e)[k], i, Inside(e, d))])

\* u for variable i; the variables above i lose the binder when downgrade.
RECURSIVE subst(_, _, _, _)
subst(e, i, u, downgrade) ==
    IF Kind(e) = "bvar"
    THEN LET j == Attr(e)[2]
         IN  IF j < i THEN e
             ELSE IF j = i THEN (IF downgrade THEN shift(u, i, 0) ELSE u)
             ELSE BVar(Attr(e)[1], IF downgrade THEN j - 1 ELSE j)
    ELSE Rebuild(e, [k \in DOMAIN Subs(e) |->
                       subst(Subs(e)[k], Inside(e, i), u, downgrade)])

\* Leading closures are stripped without counting them.
RECURSIVE psubst(_, _, _)
psubst(e, i, u) ==
    IF Kind(e) = "closure" THEN Closure(Attr(e), psubst(Subs(e)[1], i, u))
    ELSE subst(e, i, u, TRUE)

\* Substitution for the j-th of several leading closures.
RECURSIVE propagate_subst(_, _, _, _)
propagate_subst(e, i, j, u) ==
    IF Kind(e) # "closure" THEN psubst(e, i, u)
    ELSE IF j = 0 THEN psubst(Subs(e)[1], i, u)
    ELSE Closure(Attr(e), propagate_subst(Subs(e)[1], i, j - 1, u))

\* The body under i closures, {} when there are fewer or more of them.
RECURSIVE at_depth(_, _)
at_depth(e, i) ==
    IF Kind(e) = "closure" THEN (IF i = 0 THEN {} ELSE at_depth(Subs(e)[1], i - 1))
    ELSE IF i = 0 THEN {e} ELSE {}

\* {} is the error "expression is not a closure".
apply(e, u) ==
    IF Kind(e) = "closure" THEN {subst(Subs(e)[1], 0, u, TRUE)} ELSE {}

\* Application to several arguments, one closure each.
RECURSIVE ApplyAll(_, _)
ApplyAll(e, us) ==
    IF us = <<>> THEN {e}
    ELSE UNION {ApplyAll(f, Tail(us)) : f \in apply(e, Head(us))}

\* A variable that loses its binders: an abstraction that forgets the depth.
RECURSIVE AbsFlat(_, _, _)
AbsFlat(e, i, x) ==
    IF Kind(e) = "var" THEN (IF Attr(e) = x THEN BVar(x, i) ELSE e)
    ELSE Rebuild(e, [k \in DOMAIN Subs(e) |-> AbsFlat(Subs(e)[k], i, x)])

RECURSIVE AbsAt(_, _, _)
AbsAt(e, i, x) ==
    IF Kind(e) = "var" THEN (IF Attr(e) = x THEN BVar(x, i) ELSE e)
    ELSE Rebuild(e, [k \in DOMAIN Subs(e) |-> AbsAt(Subs(e)[k], Inside(e, i), x)])

abs(e, i, x) == AbsAt(e, i, x)

closure_expr(e, x) == IF x = "_" THEN e ELSE Closure(x, abs(e, 0, x))

\* Closures for the variables xs, the first one outermost.
Closures(e, xs) == FoldRight(LAMBDA x, c : closure_expr(c, x), xs, e)

let_expr(body, xs, e) ==
    IF xs = <<"_">> THEN BlockE("Block", <<e, body>>)
    ELSE LetE(xs, e, Closures(body, xs))

\* acc is <<>> or <<name, initial value>>
iter_expr(body, op, xs, e, acc) ==
    IF acc = <<>> THEN IterE(op, xs, "", <<e, Closures(body, xs)>>)
    ELSE IterE(op, xs, acc[1], <<e, closure_expr(Closures(body, xs), acc[1]), acc[2]>>)
=============================================================================

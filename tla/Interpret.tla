------------------------------- MODULE Interpret -------------------------------
(***************************************************************************)
(* Evaluation of core expressions (TExprInterpreter of                     *)
(* armour-lang/src/interpret.rs).                                          *)
(*                                                                         *)
(* Evaluating an expression in the state s and the environment env gives   *)
(* [st, e, s]: st is "ok", "err" or "panic"; e is a literal, or a return   *)
(* that is on its way out of the function; s is the state afterwards.  The *)
(* e of an error is the operation that has no result, with its operands.   *)
(* The state holds the metadata of the message (s.meta) and the calls made *)
(* to external services (s.log).  env.rows are the builtins, env.code maps *)
(* functions to expressions and env.ext the names of externals to what the *)
(* service answers, {} being a failure or a time-out.                      *)
(***************************************************************************)
EXTENDS TypeCheck, BuiltinCalls

Done(e, s) == [st |-> "ok", e |-> e, s |-> s]
Fail(s) == [st |-> "err", e |-> <<>>, s |-> s]
PanicAt(s) == [st |-> "panic", e |-> <<>>, s |-> s]
FromOption(S, op, vs, s) ==
    IF S = {} THEN [st |-> "err", e |-> <<op, vs>>, s |-> s]
    ELSE Done(Lit(CHOOSE v \in S : TRUE), s)

\* An error, or a return that passes through.
Leaves(r) == r.st # "ok" \/ is_return(r.e)

strip_return(e) == IF is_return(e) THEN Subs(e)[1] ELSE e

\* Every expression is evaluated, even after one that returns.
RECURSIVE Eval(_, _, _)
EvalEach(es, s, env) ==
    FoldLeft(LAMBDA a, e : IF a.st # "ok" THEN a
                           ELSE LET r == Eval(e, a.s, env)
                                IN  [st |-> r.st, es |-> Append(a.es, r.e), s |-> r.s],
             [st |-> "ok", es |-> <<>>, s |-> s], es)

Returns(es) == SelectSeq(es, is_return)
Values(es) == SeqMap(es, Attr)

\* What made the last of es fail.
Failed(st, es, s) == [st |-> st, e |-> IF es = <<>> THEN <<>> ELSE Last(es), s |-> s]

\* The common end of lists, tuples and arguments: the first return wins.
Collect(a, Build(_)) ==
    IF a.st # "ok" THEN Failed(a.st, a.es, a.s)
    ELSE IF Returns(a.es) # <<>> THEN Done(Returns(a.es)[1], a.s)
    ELSE Build(Values(a.es))

EvalPrefix(e, s, env) ==
    LET r == Eval(Subs(e)[1], s, env)
    IN  IF Leaves(r) THEN r ELSE FromOption(eval_prefix(Attr(e), Attr(r.e)), <<Attr(e)>>, <<Attr(r.e)>>, r.s)

\* && and || evaluate their second operand only when it decides.
EvalShortCircuit(e, s, env) ==
    LET r1 == Eval(Subs(e)[1], s, env)
        r2 == Eval(Subs(e)[2], r1.s, env)
    IN  IF Leaves(r1) THEN r1
        ELSE IF ~IsBool(Attr(r1.e)) THEN Fail(r1.s)
        ELSE IF Attr(r1.e)[2] # (Attr(e) = "&&") THEN r1
        ELSE IF Leaves(r2) \/ IsBool(Attr(r2.e)) THEN r2
        ELSE Fail(r2.s)

EvalInfix(e, s, env) ==
    LET a == EvalEach(Subs(e), s, env)
    IN  Collect(a, LAMBDA vs : FromOption(eval_infix(Attr(e), vs[1], vs[2]), <<Attr(e)>>, vs, a.s))

EvalBlock(e, s, env) ==
    LET es == Subs(e)
        r == Eval(es[1], s, env)
        a == EvalEach(es, s, env)
    IN  IF es = <<>> THEN Done(Lit(IF Attr(e) = "List" THEN ListV(<<>>) ELSE UnitV), s)
        ELSE IF Attr(e) = "Block"
        THEN IF Leaves(r) \/ Len(es) = 1 THEN r
             ELSE Eval(BlockE("Block", Tail(es)), r.s, env)
        ELSE Collect(a, LAMBDA vs : Done(Lit(<<Attr(e), vs>>), a.s))

\* The body e with the variables xs applied to a value: each to an element
\* of a tuple, or one to the whole; {} when that does not fit.
Bind(e, xs, v) ==
    IF Len(xs) = 1 THEN apply(e, Lit(v))
    ELSE IF v[1] = "Tuple" /\ Len(v[2]) = Len(xs) /\ Len(xs) > 1
    THEN LET kept == SelectSeq([i \in DOMAIN xs |-> i], LAMBDA i : xs[i] # "_")
         IN  ApplyAll(e, [k \in DOMAIN kept |-> Lit(v[2][kept[k]])])
    ELSE {}

EvalFirst(S, s, env) == IF S = {} THEN Fail(s) ELSE Eval(CHOOSE e \in S : TRUE, s, env)

EvalLet(e, s, env) ==
    LET r == Eval(Subs(e)[1], s, env)
    IN  IF Leaves(r) THEN r ELSE EvalFirst(Bind(Subs(e)[2], Attr(e), Attr(r.e)), r.s, env)

(***************************************************************************)
(* Iteration.  The body is evaluated for every element, also after one     *)
(* that returns; the first return is the result.                           *)
(***************************************************************************)
\* The body for the element v: a single variable "_" has no closure.
IterBody(body, xs, acc, v) ==
    UNION {IF xs = <<"_">> THEN {b} ELSE Bind(b, xs, v) :
             b \in IF acc = <<>> THEN {body} ELSE apply(body, acc[1])}

IterStep(a, v, body, xs, env) ==
    IF a.st # "ok" THEN a
    ELSE LET r == EvalFirst(IterBody(body, xs, a.acc, v), a.s, env)
         IN  [st |-> r.st, s |-> r.s, res |-> Append(a.res, r.e),
              acc |-> IF a.acc = <<>> THEN <<>> ELSE <<r.e>>]

\* What is made of the values vs of the body for the elements lits; taking
\* the Boolean out of anything else panics.
IterResult(op, lits, vs, s) ==
    LET bools == \A i \in DOMAIN vs : IsBool(vs[i])
        True(i) == vs[i][2]
        all == [i \in DOMAIN vs |-> i]
    IN  CASE op = "map" -> Done(Lit(ListV(vs)), s)
          [] op = "foreach" -> Done(Lit(UnitV), s)
          [] op = "filter_map" ->
                Done(Lit(ListV(FlattenSeq(SeqMap(vs,
                    LAMBDA v : SetToSeq(dest_some(v)))))), s)
          [] ~bools -> PanicAt(s)
          [] op = "filter" ->
                Done(Lit(ListV(SeqMap(SelectSeq(all, True), LAMBDA i : lits[i]))), s)
          [] op = "all" -> Done(Lit(BoolV(\A i \in DOMAIN vs : True(i))), s)
          [] op = "any" -> Done(Lit(BoolV(\E i \in DOMAIN vs : True(i))), s)

EvalIter(e, s, env) ==
    LET op == Attr(e)[1]
        r == Eval(Subs(e)[1], s, env)
        lits == Attr(r.e)[2]
        r0 == IF Len(Subs(e)) = 3 THEN Eval(Subs(e)[3], r.s, env) ELSE r
        a == FoldLeft(LAMBDA b, v : IterStep(b, v, Subs(e)[2], Attr(e)[2], env),
                      [st |-> r0.st, s |-> r0.s, res |-> <<>>,
                       acc |-> IF Len(Subs(e)) = 3 THEN <<r0.e>> ELSE <<>>],
                      lits)
    IN  IF Leaves(r) THEN r
        ELSE IF Attr(r.e)[1] # "List" THEN Fail(r.s)
        ELSE IF a.st # "ok" THEN Failed(a.st, a.res, a.s)
        ELSE IF Returns(a.res) # <<>> THEN Done(Returns(a.res)[1], a.s)
        ELSE IF op = "fold" THEN (IF IsLit(a.acc[1]) THEN Done(a.acc[1], a.s) ELSE Fail(a.s))
        ELSE IterResult(op, lits, Values(a.res), a.s)

\* The alternative at position i, or unit when there is none.
EvalElse(e, i, s, env) ==
    IF i <= Len(Subs(e)) THEN Eval(Subs(e)[i], s, env) ELSE Done(Lit(UnitV), s)

EvalIf(e, s, env) ==
    LET r == Eval(Subs(e)[1], s, env)
    IN  IF Leaves(r) THEN r
        ELSE IF ~IsBool(Attr(r.e)) THEN Fail(r.s)
        ELSE IF Attr(r.e)[2] THEN Eval(Subs(e)[2], r.s, env)
        ELSE EvalElse(e, 3, r.s, env)

EvalIfSome(e, s, env) ==
    LET r == Eval(Subs(e)[1], s, env)
        v == Attr(r.e)
    IN  IF Leaves(r) THEN r
        ELSE IF v[1] # "Tuple" THEN Fail(r.s)
        ELSE IF Len(v[2]) = 1 THEN EvalFirst(apply(Subs(e)[2], Lit(v[2][1])), r.s, env)
        ELSE EvalElse(e, 3, r.s, env)

(***************************************************************************)
(* Patterns.  The result is {} for a type error; otherwise the set of      *)
(* captures, empty when the pattern does not match.                        *)
(***************************************************************************)
perform_label_match(v, l) ==
    IF v[1] # "Label" THEN {}
    ELSE {{[x \in DOMAIN b |-> CapturedStr(b[x])] : b \in match_with(l, v[2])}}

\* parse::<i64> and base64::decode; {} when the string is not of that form
Converted(as, s) ==
    CASE as = "i64" -> {IntV(i) : i \in {n \in 0..9 : s = <<ToString(n)>>}}
      [] as = "data" -> IF s # <<>> /\ s[1] = "to_base64" THEN {DataV(Tail(s))} ELSE {}
      [] OTHER -> {StrV(s)}

\* A capture that does not convert makes the match fail.
perform_regex_match(v, re) ==
    IF v[1] # "str" THEN {}
    ELSE LET s == v[2]
             ok == /\ s \in re.lang
                   /\ \A i \in DOMAIN re.vars : Converted(re.vars[i][2], s) # {}
             Captured(x) == LET i == CHOOSE i \in DOMAIN re.vars : re.vars[i][1] = x
                            IN  CHOOSE w \in Converted(re.vars[i][2], s) : TRUE
         IN  {IF ok THEN {[x \in {re.vars[i][1] : i \in DOMAIN re.vars} |-> Captured(x)]} ELSE {}}

perform_match(v, p) ==
    IF p[1] = "label" THEN perform_label_match(v, p[2]) ELSE perform_regex_match(v, p[2])

\* What the patterns of e capture in the values vs, pattern by pattern.
Captures(e, vs) ==
    LET pats == Attr(e)[2]
    IN  [i \in DOMAIN pats |-> CHOOSE c \in perform_match(vs[i], pats[i]) : TRUE]

\* The consequence of e with the captures caps for its variables.
Consequence(e, caps) ==
    LET Value(x) == LET i == CHOOSE i \in DOMAIN caps : \E c \in caps[i] : x \in DOMAIN c
                    IN  (CHOOSE c \in caps[i] : TRUE)[x]
    IN  ApplyAll(Subs(e)[Len(caps) + 1], SeqMap(Attr(e)[1], LAMBDA x : Lit(Value(x))))

EvalIfMatch(e, s, env) ==
    LET pats == Attr(e)[2]
        n == Len(pats)
        a == FoldLeft(LAMBDA b, i :
                        IF b.st # "ok" THEN b
                        ELSE LET r == Eval(Subs(e)[i], b.s, env)
                             IN  IF r.st = "ok" /\ IsLit(r.e) /\ perform_match(Attr(r.e), pats[i]) = {}
                                 THEN [st |-> "err", es |-> Append(b.es, <<>>), s |-> r.s]
                                 ELSE [st |-> r.st, es |-> Append(b.es, r.e), s |-> r.s],
                      [st |-> "ok", es |-> <<>>, s |-> s], [i \in 1..n |-> i])
        Match(vs) ==
            LET caps == Captures(e, vs)
            IN  IF \E i \in 1..n : caps[i] = {} THEN EvalElse(e, n + 2, a.s, env)
                ELSE EvalFirst(Consequence(e, caps), a.s, env)
    IN  Collect(a, Match)

(***************************************************************************)
(* Calls: a function of the program before a builtin, then metadata and    *)
(* external services.                                                      *)
(***************************************************************************)
Stripped(r) == IF r.st = "ok" THEN Done(strip_return(r.e), r.s) ELSE r
evaluate(e, s, env) == Stripped(Eval(e, s, env))

ExternalCall(f, async, vs, s, env) ==
    LET logged == [s EXCEPT !.log = Append(@, <<f, vs>>)]
    IN  IF async THEN Done(Lit(UnitV), logged)
        ELSE IF f \in DOMAIN env.ext THEN FromOption(env.ext[f], f, vs, logged)
        ELSE Fail(s)

EvalCall(e, s, env) ==
    LET f == Attr(e)[1]
        a == EvalEach(Subs(e), s, env)
        Invoke(vs) ==
            IF f \in DOMAIN env.code
            THEN LET bodies == ApplyAll(env.code[f], SeqMap(vs, Lit))
                 IN  IF bodies = {} THEN Fail(a.s)
                     ELSE evaluate(CHOOSE b \in bodies : TRUE, a.s, env)
            ELSE IF is_builtin(env.rows, f) THEN FromOption(eval_call(f, vs), f, vs, a.s)
            ELSE IF Len(f) # 2 THEN Fail(a.s)
            ELSE IF f[1] \in {"Ingress", "Egress"}
            THEN LET m == MetaCall(a.s.meta, f[1], f[2], vs)
                 IN  FromOption(m[2], f, vs, [a.s EXCEPT !.meta = m[1]])
            ELSE ExternalCall(f, Attr(e)[2], vs, a.s, env)
    IN  Collect(a, Invoke)

Eval(e, s, env) ==
    CASE Kind(e) = "lit" -> Done(e, s)
      [] Kind(e) \in {"var", "bvar", "closure"} -> Fail(s)
      [] Kind(e) = "return" ->
            LET r == Eval(Subs(e)[1], s, env) IN IF r.st = "ok" THEN Done(Return(r.e), r.s) ELSE r
      [] Kind(e) = "prefix" -> EvalPrefix(e, s, env)
      [] Kind(e) = "infix" /\ Attr(e) \in {"&&", "||"} -> EvalShortCircuit(e, s, env)
      [] Kind(e) = "infix" -> EvalInfix(e, s, env)
      [] Kind(e) = "block" -> EvalBlock(e, s, env)
      [] Kind(e) = "let" -> EvalLet(e, s, env)
      [] Kind(e) = "iter" -> EvalIter(e, s, env)
      [] Kind(e) = "if" -> EvalIf(e, s, env)
      [] Kind(e) = "ifsome" -> EvalIfSome(e, s, env)
      [] Kind(e) = "ifmatch" -> EvalIfMatch(e, s, env)
      [] Kind(e) = "call" -> EvalCall(e, s, env)
=============================================================================

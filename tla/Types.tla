-------------------------------- MODULE Types --------------------------------
(***************************************************************************)
(* The types of the policy language (armour-lang/src/types.rs) and what    *)
(* values have them.  A type is a constructor and its arguments; "!" is    *)
(* FlatTyp::Return, the type of an expression that does not come back,     *)
(* which the checker also uses for "any type".  Tuples of length 0 and 1   *)
(* are options.                                                            *)
(*                                                                         *)
(* A value is a tag and its content.  The tag of a flat literal is the     *)
(* name of its type; what a literal holds is abstract, except where the    *)
(* control of the language depends on it.                                  *)
(***************************************************************************)
EXTENDS Integers, Sequences, FiniteSets

Flat(n) == <<n, <<>>>>
RReturn == Flat("!")
TUnit == Flat("unit")
TBool == Flat("bool")
TInt == Flat("i64")
TStr == Flat("str")
ListTyp(t) == <<"List", <<t>>>>
TupleTyp(ts) == <<"Tuple", ts>>
OptionTyp(t) == TupleTyp(<<t>>)
AnyOption == TupleTyp(<<>>)

IsList(t) == t[1] = "List"
IsTuple(t) == t[1] = "Tuple"

\* The types a declaration may name; those of the second set exist on the
\* control plane only.
FlatTypNames ==
    {"bool", "Connection", "data", "f64", "HttpRequest", "HttpResponse", "i64",
     "ID", "IpAddr", "Label", "regex", "str", "unit"}
CPFlatTypNames ==
    {"Credentials", "OnboardingData", "OnboardingResult", "Policy", "Primitive"}

RECURSIVE can_unify(_, _)
can_unify(t, u) ==
    \/ t = RReturn \/ u = RReturn
    \/ IsList(t) /\ IsList(u) /\ can_unify(t[2][1], u[2][1])
    \/ /\ IsTuple(t) /\ IsTuple(u)
       /\ \/ /\ Len(t[2]) = Len(u[2])
             /\ \A i \in DOMAIN t[2] : can_unify(t[2][i], u[2][i])
          \/ {Len(t[2]), Len(u[2])} = {0, 1}
    \/ ~IsList(t) /\ ~IsTuple(t) /\ t = u

RECURSIVE unify(_, _)
unify(t, u) ==
    IF t = RReturn THEN u
    ELSE IF u = RReturn THEN t
    ELSE IF IsList(t) /\ IsList(u) THEN ListTyp(unify(t[2][1], u[2][1]))
    ELSE IF IsTuple(t) /\ IsTuple(u)
    THEN IF Len(t[2]) = 0 THEN u
         ELSE IF Len(u[2]) = 0 THEN t
         ELSE TupleTyp([i \in 1..(IF Len(t[2]) < Len(u[2]) THEN Len(t[2]) ELSE Len(u[2]))
                         |-> unify(t[2][i], u[2][i])])
    ELSE t

\* type_check on a list of actual and a list of expected types
type_check(ts, us) == Len(ts) = Len(us) /\ \A i \in DOMAIN ts : can_unify(ts[i], us[i])

\* {} is the error "expecting Option<..> type"
dest_option(t) ==
    IF IsTuple(t) /\ Len(t[2]) <= 1
    THEN {IF t[2] = <<>> THEN RReturn ELSE t[2][1]}
    ELSE {}

\* The module that the dot notation e.f() selects for an e of type t.
intrinsic(t) ==
    IF t = RReturn THEN {}
    ELSE IF IsList(t) THEN {"list"}
    ELSE IF IsTuple(t) THEN (IF Len(t[2]) < 2 THEN {"option"} ELSE {})
    ELSE {t[1]}

\* Type expressions of a declaration: <<"atom", name>>, <<"cons", name, t>>
\* and <<"tuple", ts>>; {} is an error.
RECURSIVE from_parse(_)
from_parse(ty) ==
    CASE ty[1] = "atom" -> IF ty[2] \in FlatTypNames THEN {Flat(ty[2])} ELSE {}
      [] ty[1] = "cons" ->
            IF ty[2] = "List" THEN {ListTyp(t) : t \in from_parse(ty[3])}
            ELSE IF ty[2] = "Option" THEN {OptionTyp(t) : t \in from_parse(ty[3])}
            ELSE {}
      [] ty[1] = "tuple" ->
            IF Len(ty[2]) = 0 THEN {TUnit}
            ELSE IF Len(ty[2]) = 1 THEN from_parse(ty[2][1])
            ELSE IF \E i \in DOMAIN ty[2] : from_parse(ty[2][i]) = {} THEN {}
            ELSE {TupleTyp([i \in DOMAIN ty[2] |->
                             CHOOSE t \in from_parse(ty[2][i]) : TRUE])}

\* Prefix::typ and Infix::typ: operand types and result
PrefixTyp(op) == IF op = "!" THEN <<TBool, TBool>> ELSE <<TInt, TInt>>

InfixTyp(op) ==
    CASE op = "@" -> <<ListTyp(RReturn), ListTyp(RReturn), ListTyp(RReturn)>>
      [] op = "++" -> <<TStr, TStr, TStr>>
      [] op \in {"==", "!="} -> <<RReturn, RReturn, TBool>>
      [] op = "in" -> <<RReturn, ListTyp(RReturn), TBool>>
      [] op \in {"&&", "||"} -> <<TBool, TBool, TBool>>
      [] op \in {"+", "-", "*", "/", "%"} -> <<TInt, TInt, TInt>>
      [] op \in {"<", "<=", ">", ">="} -> <<TInt, TInt, TBool>>

-----------------------------------------------------------------------------
(***************************************************************************)
(* Values (Literal and FlatLiteral of armour-lang/src/literals.rs).        *)
(***************************************************************************)
BoolV(b) == <<"bool", b>>
IntV(i) == <<"i64", i>>
UnitV == <<"unit", 0>>
ListV(vs) == <<"List", vs>>
TupleV(vs) == <<"Tuple", vs>>
SomeV(v) == TupleV(<<v>>)
NoneV == TupleV(<<>>)

IsBool(v) == v[1] = "bool"
IsFlat(v) == v[1] \notin {"List", "Tuple"}

\* dest_some: the elements that filter_map keeps
dest_some(v) == IF v[1] = "Tuple" /\ Len(v[2]) = 1 THEN {v[2][1]} ELSE {}

\* What it means for a value to have a type.  (Literal::typ gives a list the
\* type of its first element; only flat literals are ever asked for it.)
RECURSIVE HasTyp(_, _)
HasTyp(v, t) ==
    \/ t = RReturn
    \/ v[1] = "List" /\ IsList(t) /\ \A i \in DOMAIN v[2] : HasTyp(v[2][i], t[2][1])
    \/ /\ v[1] = "Tuple" /\ IsTuple(t)
       /\ \/ v[2] = <<>> /\ Len(t[2]) <= 1
          \/ Len(v[2]) = 1 /\ t[2] = <<>>
          \/ Len(v[2]) = Len(t[2]) /\ \A i \in DOMAIN v[2] : HasTyp(v[2][i], t[2][i])
    \/ IsFlat(v) /\ t = Flat(v[1])
=============================================================================

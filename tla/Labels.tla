------------------------------- MODULE Labels -------------------------------
(***************************************************************************)
(* Labels (armour-lang/src/labels.rs): sequences of nodes.  A node is a    *)
(* name, a wildcard for one node (Any) or a wildcard for the rest of the   *)
(* label (RecAny); a wildcard may carry a variable, "" being none.         *)
(*                                                                         *)
(* Optional results are sets with at most one element, {} being None.      *)
(***************************************************************************)
EXTENDS Integers, Sequences, FiniteSets

NodeStr(s) == <<"str", s>>
NodeAny(x) == <<"any", x>>
NodeRec(x) == <<"rec", x>>

IsStr(n) == n[1] = "str"
IsRec(n) == n[1] = "rec"
HasVar(n) == n[1] # "str" /\ n[2] # ""

Extend(f, k, v) == [x \in DOMAIN f \cup {k} |-> IF x = k THEN v ELSE f[x]]
NoBindings == [x \in {} |-> <<>>]

(***************************************************************************)
(* Node matching: only a name can mismatch.                                *)
(***************************************************************************)
NodeMatches(p, n) == IsStr(p) => p = n

\* Two one-node labels are equal when each matches the other.
SameNode(n1, n2) == NodeMatches(n1, n2) /\ NodeMatches(n2, n1)

\* One turn of the loop of match_with: a variable of Any must be bound to
\* equal nodes, a variable of RecAny collects the nodes.
MatchNode(m, p, n) ==
    IF m = {} \/ ~NodeMatches(p, n) THEN {}
    ELSE LET b == CHOOSE b \in m : TRUE
             x == p[2]
         IN  IF ~HasVar(p) THEN m
             ELSE IF IsRec(p)
             THEN {Extend(b, x, IF x \in DOMAIN b THEN Append(b[x], n) ELSE <<n>>)}
             ELSE IF x \in DOMAIN b /\ ~(Len(b[x]) = 1 /\ SameNode(b[x][1], n)) THEN {}
             ELSE {Extend(b, x, <<n>>)}

\* A trailing RecAny is repeated until the pattern is as long as the label.
Pad(p, n) ==
    IF p # <<>> /\ IsRec(p[Len(p)])
    THEN p \o [i \in 1..(IF n > Len(p) THEN n - Len(p) ELSE 0) |-> p[Len(p)]]
    ELSE p

match_with(p, l) ==
    LET q == Pad(p, Len(l))
        m[k \in 0..Len(l)] ==
            IF k = 0 THEN {NoBindings} ELSE MatchNode(m[k - 1], q[k], l[k])
    IN  IF Len(q) # Len(l) THEN {} ELSE m[Len(l)]

matches_with(p, l) == match_with(p, l) # {}

\* PartialEq for Label
LabelEq(l1, l2) == matches_with(l1, l2) /\ matches_with(l2, l1)

concat(l1, l2) == l1 \o l2

vars_of(l) == {l[i][2] : i \in {j \in DOMAIN l : HasVar(l[j])}}

parts(l) == IF \A i \in DOMAIN l : IsStr(l[i]) THEN {[i \in DOMAIN l |-> l[i][2]]} ELSE {}

-----------------------------------------------------------------------------
(***************************************************************************)
(* The reference: a match is a substitution of the variables that turns    *)
(* the pattern into the label.                                             *)
(***************************************************************************)
Ground(l) == \A i \in DOMAIN l : IsStr(l[i])

\* RecAny only at the end, as the comment in match_with demands, and each
\* variable at one position, as the checker demands of "if match".
WellFormed(p) ==
    /\ \A i \in DOMAIN p : IsRec(p[i]) => i = Len(p)
    /\ \A i, j \in DOMAIN p : HasVar(p[i]) /\ HasVar(p[j]) /\ p[i][2] = p[j][2] => i = j

\* The nodes of l that position i of pattern p stands for.
Segment(p, i, l) ==
    IF IsRec(p[i]) THEN SubSeq(l, i, Len(l)) ELSE SubSeq(l, i, i)

Covers(p, l) ==
    IF p # <<>> /\ IsRec(p[Len(p)]) THEN Len(p) <= Len(l) ELSE Len(p) = Len(l)

ReferenceMatch(p, l) ==
    IF Covers(p, l) /\ \A i \in DOMAIN p : IsStr(p[i]) => l[i] = p[i]
    THEN {[x \in vars_of(p) |->
             LET i == CHOOSE i \in DOMAIN p : HasVar(p[i]) /\ p[i][2] = x
             IN  Segment(p, i, l)]}
    ELSE {}
=============================================================================

---------------------------- MODULE LanguageProofs ----------------------------
(***************************************************************************)
(* Proofs about two parts of the policy language that do not evaluate      *)
(* expressions: the call graph of a program and the matching of labels,    *)
(* for programs of any size and labels of any length.                      *)
(*                                                                         *)
(* Both are computed by recursive functions on the natural numbers.  What  *)
(* such a function computes is proved with a closed form for it: the form  *)
(* satisfies the equations of the function, and Induction shows that       *)
(* nothing else does.                                                      *)
(***************************************************************************)
EXTENDS Labels, CallGraph, FiniteSetTheorems, WellFoundedInduction, TLAPS

\* A set of natural numbers has a least element.
LEMMA LeastNat ==
  ASSUME NEW T, T \subseteq Nat, T # {}
  PROVE  \E x \in T : \A y \in T : x <= y
<1> DEFINE R == OpToRel(<, Nat)
<1>1. IsWellFoundedOn(R, Nat)
  BY NatLessThanWellFounded
<1>2. \A x, y \in Nat : y < x => <<y, x>> \in R
  BY DEF OpToRel
<1> HIDE DEF R
<1>3. PICK x \in T : \A y \in T : <<y, x>> \notin R
  BY <1>1, WFMin
<1>4. ASSUME NEW y \in T PROVE x <= y
  <2>1. x \in Nat /\ y \in Nat
    OBVIOUS
  <2>2. ~(y < x)
    BY <1>2, <1>3, <2>1
  <2>3. QED  BY <2>1, <2>2
<1>5. QED  BY <1>4

\* Induction on the natural numbers, for a set instead of an operator.
LEMMA Induction ==
  ASSUME NEW T, 0 \in T, \A n \in Nat : n \in T => n + 1 \in T
  PROVE  Nat \subseteq T
<1>1. SUFFICES ASSUME Nat \ T # {} PROVE FALSE
  OBVIOUS
<1>2. PICK x \in Nat \ T : \A y \in Nat \ T : x <= y
  <2>1. Nat \ T \subseteq Nat
    OBVIOUS
  <2>2. QED  BY <1>1, <2>1, LeastNat
<1>3. x # 0
  OBVIOUS
<1>4. x - 1 \in Nat /\ ~(x <= x - 1)
  BY <1>3
<1>5. x - 1 \in T
  BY <1>2, <1>4
<1>6. (x - 1) + 1 \in T
  BY <1>4, <1>5
<1>7. (x - 1) + 1 = x
  OBVIOUS
<1>8. QED  BY <1>6, <1>7

LEMMA IntervalSize ==
  ASSUME NEW n \in Nat
  PROVE  IsFiniteSet(1..n) /\ Cardinality(1..n) = n
<1>1. IsFiniteSet(1..n) /\ Cardinality(1..n) = IF 1 > n THEN 0 ELSE (n - 1) + 1
  BY FS_Interval
<1>2. (IF 1 > n THEN 0 ELSE (n - 1) + 1) = n
  OBVIOUS
<1>3. QED  BY <1>1, <1>2

-----------------------------------------------------------------------------
(***************************************************************************)
(* The call graph                                                          *)
(***************************************************************************)
\* A chain of calls: each node calls the next one.
Chain(g, p) ==
    /\ p \in Seq(Nodes(g))
    /\ p # <<>>
    /\ \A k \in 1..(Len(p) - 1) : <<p[k], p[k + 1]>> \in g.edges

\* Chains of n + 1 nodes from i to j
Joins(g, n, i, j) ==
    \E p : Chain(g, p) /\ Len(p) = n + 1 /\ p[1] = i /\ p[Len(p)] = j

\* The nodes a chain of 2 to k + 2 nodes leads to from i
Reach(g, i, k) == {j \in Nodes(g) : \E n \in 1..(k + 1) : Joins(g, n, i, j)}

LEMMA JoinsOne ==
  ASSUME NEW g, GraphOK(g), NEW i, NEW j
  PROVE  Joins(g, 1, i, j) <=> <<i, j>> \in g.edges
<1>1. ASSUME Joins(g, 1, i, j) PROVE <<i, j>> \in g.edges
  <2>1. PICK p : Chain(g, p) /\ Len(p) = 2 /\ p[1] = i /\ p[Len(p)] = j
    BY <1>1 DEF Joins
  <2>2. 1 \in 1..(Len(p) - 1)
    BY <2>1
  <2>3. <<p[1], p[1 + 1]>> \in g.edges
    BY <2>1, <2>2 DEF Chain
  <2>4. QED  BY <2>1, <2>3
<1>2. ASSUME <<i, j>> \in g.edges PROVE Joins(g, 1, i, j)
  <2>1. i \in Nodes(g) /\ j \in Nodes(g)
    BY <1>2 DEF GraphOK
  <2> DEFINE p == <<i, j>>
  <2>2. p \in Seq(Nodes(g)) /\ Len(p) = 2 /\ p # <<>>
    BY <2>1
  <2>3. p[1] = i /\ p[2] = j
    OBVIOUS
  <2> HIDE DEF p
  <2>4. Chain(g, p)
    <3>1. \A k \in 1..(Len(p) - 1) : k = 1 /\ k + 1 = 2
      BY <2>2
    <3>2. \A k \in 1..(Len(p) - 1) : <<p[k], p[k + 1]>> \in g.edges
      BY <1>2, <2>3, <3>1
    <3>3. QED  BY <2>2, <3>2 DEF Chain
  <2>5. QED  BY <2>2, <2>3, <2>4 DEF Joins
<1>3. QED  BY <1>1, <1>2

LEMMA JoinsExtend ==
  ASSUME NEW g, GraphOK(g), NEW n \in Nat, NEW i, NEW h, NEW j,
         Joins(g, n, i, h), <<h, j>> \in g.edges
  PROVE  Joins(g, n + 1, i, j)
<1>1. PICK p : Chain(g, p) /\ Len(p) = n + 1 /\ p[1] = i /\ p[Len(p)] = h
  BY DEF Joins
<1>2. j \in Nodes(g)
  BY DEF GraphOK
<1>3. p \in Seq(Nodes(g))
  BY <1>1 DEF Chain
<1> DEFINE q == Append(p, j)
<1>4. /\ q \in Seq(Nodes(g)) /\ Len(q) = (n + 1) + 1 /\ q # <<>>
      /\ \A k \in 1..Len(p) : q[k] = p[k]
      /\ q[Len(p) + 1] = j
  BY <1>1, <1>2, <1>3
<1>5. ASSUME NEW k \in 1..(Len(q) - 1) PROVE <<q[k], q[k + 1]>> \in g.edges
  <2>1. CASE k = Len(p)
    <3>1. k \in 1..Len(p)
      BY <1>1, <2>1
    <3>2. q[k] = h /\ q[k + 1] = j
      BY <1>1, <1>4, <2>1, <3>1
    <3>3. QED  BY <3>2
  <2>2. CASE k # Len(p)
    <3>1. k \in 1..(Len(p) - 1) /\ k \in 1..Len(p) /\ k + 1 \in 1..Len(p)
      BY <1>1, <1>4, <2>2
    <3>2. <<p[k], p[k + 1]>> \in g.edges
      BY <1>1, <3>1 DEF Chain
    <3>3. q[k] = p[k] /\ q[k + 1] = p[k + 1]
      BY <1>4, <3>1
    <3>4. QED  BY <3>2, <3>3
  <2>3. QED  BY <2>1, <2>2
<1>6. q[1] = i /\ q[Len(q)] = j
  BY <1>1, <1>4
<1> HIDE DEF q
<1>7. Chain(g, q)
  BY <1>4, <1>5 DEF Chain
<1>8. QED  BY <1>4, <1>6, <1>7 DEF Joins

LEMMA JoinsPrefix ==
  ASSUME NEW g, GraphOK(g), NEW n \in Nat, NEW i, NEW j, n >= 1,
         Joins(g, n + 1, i, j)
  PROVE  \E h \in Nodes(g) : Joins(g, n, i, h) /\ <<h, j>> \in g.edges
<1>1. PICK p : Chain(g, p) /\ Len(p) = (n + 1) + 1 /\ p[1] = i /\ p[Len(p)] = j
  BY DEF Joins
<1>2. p \in Seq(Nodes(g))
  BY <1>1 DEF Chain
<1> DEFINE q == SubSeq(p, 1, n + 1)
<1>3. /\ q \in Seq(Nodes(g)) /\ Len(q) = n + 1 /\ q # <<>>
      /\ \A k \in 1..(n + 1) : q[k] = p[k]
  BY <1>1, <1>2
<1> HIDE DEF q
<1>4. ASSUME NEW k \in 1..(Len(q) - 1) PROVE <<q[k], q[k + 1]>> \in g.edges
  <2>1. k \in 1..(Len(p) - 1) /\ k \in 1..(n + 1) /\ k + 1 \in 1..(n + 1)
    BY <1>1, <1>3
  <2>2. <<p[k], p[k + 1]>> \in g.edges
    BY <1>1, <2>1 DEF Chain
  <2>3. q[k] = p[k] /\ q[k + 1] = p[k + 1]
    BY <1>3, <2>1
  <2>4. QED  BY <2>2, <2>3
<1>5. Chain(g, q)
  BY <1>3, <1>4 DEF Chain
<1>6. q[1] = i /\ q[Len(q)] = p[n + 1]
  BY <1>1, <1>3
<1>7. Joins(g, n, i, p[n + 1])
  BY <1>3, <1>5, <1>6 DEF Joins
<1>8. <<p[n + 1], j>> \in g.edges
  <2>1. n + 1 \in 1..(Len(p) - 1)
    BY <1>1
  <2>2. <<p[n + 1], p[(n + 1) + 1]>> \in g.edges
    BY <1>1, <2>1 DEF Chain
  <2>3. QED  BY <1>1, <2>2
<1>9. p[n + 1] \in Nodes(g)
  BY <1>8 DEF GraphOK
<1>10. QED  BY <1>7, <1>8, <1>9

LEMMA ReachStart ==
  ASSUME NEW g, GraphOK(g), NEW i
  PROVE  Reach(g, i, 0) = Successors(g, {i})
<1>1. ASSUME NEW j PROVE j \in Successors(g, {i}) <=> <<i, j>> \in g.edges
  <2>1. ASSUME j \in Successors(g, {i}) PROVE <<i, j>> \in g.edges
    <3>1. PICK e \in g.edges : e[1] = i /\ e[2] = j
      BY <2>1 DEF Successors
    <3>2. e = <<e[1], e[2]>>
      BY DEF GraphOK
    <3>3. QED  BY <3>1, <3>2
  <2>2. ASSUME <<i, j>> \in g.edges PROVE j \in Successors(g, {i})
    <3>1. <<i, j>>[1] = i /\ <<i, j>>[2] = j
      OBVIOUS
    <3>2. QED  BY <2>2, <3>1 DEF Successors
  <2>3. QED  BY <2>1, <2>2
<1>2. ASSUME NEW j PROVE j \in Reach(g, i, 0) <=> <<i, j>> \in g.edges
  <2>1. 1..(0 + 1) = {1}
    OBVIOUS
  <2>2. j \in Reach(g, i, 0) <=> j \in Nodes(g) /\ Joins(g, 1, i, j)
    BY <2>1 DEF Reach
  <2>3. <<i, j>> \in g.edges => j \in Nodes(g)
    BY DEF GraphOK
  <2>4. QED  BY <2>2, <2>3, JoinsOne
<1>3. QED  BY <1>1, <1>2

LEMMA ReachStep ==
  ASSUME NEW g, GraphOK(g), NEW i, NEW k \in Nat
  PROVE  Reach(g, i, k + 1) = Grow(g, Reach(g, i, k))
<1>1. Reach(g, i, k) \subseteq Reach(g, i, k + 1)
  <2>1. \A n \in 1..(k + 1) : n \in 1..((k + 1) + 1)
    OBVIOUS
  <2>2. QED  BY <2>1 DEF Reach
<1>2. Successors(g, Reach(g, i, k)) \subseteq Reach(g, i, k + 1)
  <2>1. SUFFICES ASSUME NEW j \in Successors(g, Reach(g, i, k))
                 PROVE  j \in Reach(g, i, k + 1)
    OBVIOUS
  <2>2. PICK e \in g.edges : e[1] \in Reach(g, i, k) /\ e[2] = j
    BY <2>1 DEF Successors
  <2>3. e = <<e[1], e[2]>> /\ j \in Nodes(g)
    BY <2>2 DEF GraphOK
  <2>4. PICK n \in 1..(k + 1) : Joins(g, n, i, e[1])
    BY <2>2 DEF Reach
  <2>5. Joins(g, n + 1, i, j)
    <3>1. n \in Nat /\ <<e[1], j>> \in g.edges
      BY <2>2, <2>3
    <3>2. QED  BY <2>4, <3>1, JoinsExtend
  <2>6. n + 1 \in 1..((k + 1) + 1)
    OBVIOUS
  <2>7. QED  BY <2>3, <2>5, <2>6 DEF Reach
<1>3. Reach(g, i, k + 1) \subseteq Grow(g, Reach(g, i, k))
  <2>1. SUFFICES ASSUME NEW j \in Reach(g, i, k + 1), j \notin Reach(g, i, k)
                 PROVE  j \in Successors(g, Reach(g, i, k))
    BY DEF Grow
  <2>2. PICK n \in 1..((k + 1) + 1) : Joins(g, n, i, j)
    BY <2>1 DEF Reach
  <2>3. j \in Nodes(g)
    BY <2>1 DEF Reach
  <2>4. n = (k + 1) + 1
    <3>1. n \notin 1..(k + 1)
      BY <2>1, <2>2, <2>3 DEF Reach
    <3>2. QED  BY <3>1
  <2>5. PICK h \in Nodes(g) : Joins(g, k + 1, i, h) /\ <<h, j>> \in g.edges
    <3>1. k + 1 \in Nat /\ k + 1 >= 1
      OBVIOUS
    <3>2. Joins(g, (k + 1) + 1, i, j)
      BY <2>2, <2>4
    <3>3. QED  BY <3>1, <3>2, JoinsPrefix
  <2>6. h \in Reach(g, i, k)
    <3>1. k + 1 \in 1..(k + 1)
      OBVIOUS
    <3>2. QED  BY <2>5, <3>1 DEF Reach
  <2>7. <<h, j>>[1] = h /\ <<h, j>>[2] = j
    OBVIOUS
  <2>8. QED  BY <2>5, <2>6, <2>7 DEF Successors
<1>4. QED  BY <1>1, <1>2, <1>3 DEF Grow

LEMMA AfterIsReach ==
  ASSUME NEW g, GraphOK(g), NEW i
  PROVE  After(g, i) = Reach(g, i, g.size)
<1> DEFINE Eq(r) == r = [k \in 0..g.size |-> IF k = 0 THEN Successors(g, {i})
                                              ELSE Grow(g, r[k - 1])]
           a == [k \in 0..g.size |-> Reach(g, i, k)]
           c == CHOOSE r : Eq(r)
<1>1. g.size \in Nat
  BY DEF GraphOK
<1>2. Eq(a)
  <2>1. ASSUME NEW k \in 0..g.size
        PROVE  a[k] = IF k = 0 THEN Successors(g, {i}) ELSE Grow(g, a[k - 1])
    <3>1. CASE k = 0
      BY <3>1, ReachStart
    <3>2. CASE k # 0
      <4>1. k - 1 \in Nat /\ k - 1 \in 0..g.size /\ (k - 1) + 1 = k
        BY <1>1, <3>2
      <4>2. Reach(g, i, (k - 1) + 1) = Grow(g, Reach(g, i, k - 1))
        BY <4>1, ReachStep
      <4>3. QED  BY <3>2, <4>1, <4>2
    <3>3. QED  BY <3>1, <3>2
  <2>2. QED  BY <2>1
<1>3. Eq(c)
  BY <1>2
<1>4. After(g, i) = c[g.size]
  BY DEF After
<1> HIDE DEF c
<1> DEFINE T == {n \in Nat : n <= g.size => c[n] = Reach(g, i, n)}
<1>5. 0 \in T
  <2>1. 0 \in 0..g.size
    BY <1>1
  <2>2. c[0] = Successors(g, {i})
    BY <1>3, <2>1
  <2>3. QED  BY <2>2, ReachStart
<1>6. ASSUME NEW n \in Nat, n \in T PROVE n + 1 \in T
  <2>1. SUFFICES ASSUME n + 1 <= g.size PROVE c[n + 1] = Reach(g, i, n + 1)
    OBVIOUS
  <2>2. n + 1 \in 0..g.size /\ n + 1 # 0 /\ (n + 1) - 1 = n /\ n <= g.size
    BY <1>1, <2>1
  <2>3. c[n + 1] = Grow(g, c[n])
    BY <1>3, <2>2
  <2>4. c[n] = Reach(g, i, n)
    BY <1>6, <2>2
  <2>5. QED  BY <2>3, <2>4, ReachStep
<1>7. g.size \in T
  <2> HIDE DEF T
  <2>1. Nat \subseteq T
    BY <1>5, <1>6, Induction
  <2>2. QED  BY <1>1, <2>1
<1>8. c[g.size] = Reach(g, i, g.size)
  BY <1>1, <1>7
<1>9. QED  BY <1>4, <1>8

\* A chain may be as long as it likes: size steps find all it can reach.
\* Until nothing is added, each step adds a node, and there are size nodes.
LEMMA ReachSaturates ==
  ASSUME NEW g, GraphOK(g), NEW i
  PROVE  Grow(g, Reach(g, i, g.size)) = Reach(g, i, g.size)
<1> DEFINE A(k) == Reach(g, i, k)
           T == {n \in Nat : Grow(g, A(n)) = A(n) \/ Cardinality(A(n)) >= n + 1}
<1>1. g.size \in Nat
  BY DEF GraphOK
<1>2. IsFiniteSet(Nodes(g)) /\ Cardinality(Nodes(g)) = g.size
  BY <1>1, IntervalSize DEF Nodes
<1>3. ASSUME NEW k \in Nat
      PROVE  IsFiniteSet(A(k)) /\ Cardinality(A(k)) \in Nat /\ Cardinality(A(k)) <= g.size
  <2>1. A(k) \subseteq Nodes(g)
    BY DEF Reach
  <2>2. IsFiniteSet(A(k)) /\ Cardinality(A(k)) <= Cardinality(Nodes(g))
    BY <1>2, <2>1, FS_Subset
  <2>3. QED  BY <1>2, <2>2, FS_CardinalityType
<1>4. \A k \in Nat : A(k + 1) = Grow(g, A(k))
  BY ReachStep
<1> HIDE DEF A
<1>5. ASSUME NEW k \in Nat, Grow(g, A(k)) # A(k)
      PROVE  Cardinality(A(k + 1)) >= Cardinality(A(k)) + 1
  <2>1. A(k) \subseteq A(k + 1) /\ A(k) # A(k + 1)
    BY <1>4, <1>5 DEF Grow
  <2>2. IsFiniteSet(A(k + 1)) /\ Cardinality(A(k)) \in Nat /\ Cardinality(A(k + 1)) \in Nat
    BY <1>3
  <2>3. Cardinality(A(k)) <= Cardinality(A(k + 1))
        /\ (Cardinality(A(k + 1)) = Cardinality(A(k)) => A(k + 1) = A(k))
    BY <2>1, <2>2, FS_Subset
  <2>4. QED  BY <2>1, <2>2, <2>3
<1>6. 0 \in T
  <2>1. CASE A(0) = {}
    <3>1. Grow(g, {}) = {}
      BY DEF Grow, Successors
    <3>2. QED  BY <2>1, <3>1
  <2>2. CASE A(0) # {}
    <3>1. IsFiniteSet(A(0)) /\ Cardinality(A(0)) \in Nat
      BY <1>3
    <3>2. Cardinality(A(0)) # 0
      BY <2>2, <3>1, FS_EmptySet
    <3>3. Cardinality(A(0)) >= 0 + 1
      BY <3>1, <3>2
    <3>4. QED  BY <3>3
  <2>3. QED  BY <2>1, <2>2
<1>7. ASSUME NEW n \in Nat, n \in T PROVE n + 1 \in T
  <2>1. CASE Grow(g, A(n)) = A(n)
    <3>1. A(n + 1) = A(n)
      BY <1>4, <2>1
    <3>2. QED  BY <2>1, <3>1
  <2>2. CASE Grow(g, A(n)) # A(n)
    <3>1. Cardinality(A(n)) >= n + 1
      BY <1>7, <2>2
    <3>2. Cardinality(A(n)) \in Nat /\ Cardinality(A(n + 1)) \in Nat
      BY <1>3
    <3>3. Cardinality(A(n + 1)) >= (n + 1) + 1
      BY <1>5, <2>2, <3>1, <3>2
    <3>4. QED  BY <3>3
  <2>3. QED  BY <2>1, <2>2
<1>8. g.size \in T
  <2> HIDE DEF T
  <2>1. Nat \subseteq T
    BY <1>6, <1>7, Induction
  <2>2. QED  BY <1>1, <2>1
<1>9. ~(Cardinality(A(g.size)) >= g.size + 1)
  <2>1. Cardinality(A(g.size)) \in Nat /\ Cardinality(A(g.size)) <= g.size
    BY <1>1, <1>3
  <2>2. QED  BY <1>1, <2>1
<1>10. Grow(g, A(g.size)) = A(g.size)
  BY <1>8, <1>9
<1>11. QED  BY <1>10 DEF A

LEMMA ReachComplete ==
  ASSUME NEW g, GraphOK(g), NEW i, NEW n \in Nat, NEW j \in Nodes(g), n >= 1,
         Joins(g, n, i, j)
  PROVE  j \in Reach(g, i, g.size)
<1> DEFINE A == Reach(g, i, g.size)
           T == {m \in Nat : \A h \in Nodes(g) : Joins(g, m + 1, i, h) => h \in A}
<1>1. g.size \in Nat
  BY DEF GraphOK
<1>2. Grow(g, A) = A
  BY ReachSaturates
<1>3. 0 \in T
  <2>1. 1 \in 1..(g.size + 1) /\ 0 + 1 = 1
    BY <1>1
  <2>2. \A h \in Nodes(g) : Joins(g, 0 + 1, i, h) => h \in A
    BY <2>1 DEF Reach
  <2>3. QED  BY <2>2
<1> HIDE DEF A
<1>4. ASSUME NEW m \in Nat, m \in T PROVE m + 1 \in T
  <2>1. SUFFICES ASSUME NEW h \in Nodes(g), Joins(g, (m + 1) + 1, i, h) PROVE h \in A
    OBVIOUS
  <2>2. PICK b \in Nodes(g) : Joins(g, m + 1, i, b) /\ <<b, h>> \in g.edges
    <3>1. m + 1 \in Nat /\ m + 1 >= 1
      OBVIOUS
    <3>2. QED  BY <2>1, <3>1, JoinsPrefix
  <2>3. b \in A
    BY <1>4, <2>2
  <2>4. h \in Successors(g, A)
    <3>1. <<b, h>>[1] = b /\ <<b, h>>[2] = h
      OBVIOUS
    <3>2. QED  BY <2>2, <2>3, <3>1 DEF Successors
  <2>5. QED  BY <1>2, <2>4 DEF Grow
<1>5. n - 1 \in T
  <2> HIDE DEF T
  <2>1. Nat \subseteq T
    BY <1>3, <1>4, Induction
  <2>2. n - 1 \in Nat
    OBVIOUS
  <2>3. QED  BY <2>1, <2>2
<1>6. (n - 1) + 1 = n
  OBVIOUS
<1>7. Joins(g, (n - 1) + 1, i, j)
  BY <1>6
<1>8. j \in A
  BY <1>5, <1>7
<1>9. QED  BY <1>8 DEF A

(***************************************************************************)
(* After computes what its name says: the nodes that a chain of one call   *)
(* or more leads to, however long the chain is.                            *)
(***************************************************************************)
THEOREM AfterIsReachable ==
  ASSUME NEW g, GraphOK(g), NEW i
  PROVE  After(g, i) = {j \in Nodes(g) : \E n \in Nat \ {0} : Joins(g, n, i, j)}
<1>1. After(g, i) = Reach(g, i, g.size)
  BY AfterIsReach
<1>2. ASSUME NEW j \in Nodes(g)
      PROVE  j \in Reach(g, i, g.size) <=> \E n \in Nat \ {0} : Joins(g, n, i, j)
  <2>1. ASSUME j \in Reach(g, i, g.size) PROVE \E n \in Nat \ {0} : Joins(g, n, i, j)
    <3>1. PICK n \in 1..(g.size + 1) : Joins(g, n, i, j)
      BY <2>1 DEF Reach
    <3>2. n \in Nat \ {0}
      BY DEF GraphOK
    <3>3. QED  BY <3>1, <3>2
  <2>2. ASSUME NEW n \in Nat \ {0}, Joins(g, n, i, j) PROVE j \in Reach(g, i, g.size)
    <3>1. n \in Nat /\ n >= 1
      OBVIOUS
    <3>2. QED  BY <2>2, <3>1, ReachComplete
  <2>3. QED  BY <2>1, <2>2
<1>3. Reach(g, i, g.size) \subseteq Nodes(g)
  BY DEF Reach
<1>4. QED  BY <1>1, <1>2, <1>3

(***************************************************************************)
(* check_for_cycles accepts a graph exactly when no function can call      *)
(* itself, directly or through others.                                     *)
(***************************************************************************)
THEOREM CyclesFound ==
  ASSUME NEW g, GraphOK(g)
  PROVE  check_for_cycles(g) <=> \A i \in Nodes(g), n \in Nat \ {0} : ~Joins(g, n, i, i)
<1>1. ASSUME NEW i \in Nodes(g)
      PROVE  i \in After(g, i) <=> \E n \in Nat \ {0} : Joins(g, n, i, i)
  BY AfterIsReachable
<1>2. QED  BY <1>1 DEF check_for_cycles, Nodes

LEMMA ChainPart ==
  ASSUME NEW g, GraphOK(g), NEW p, Chain(g, p),
         NEW a \in 1..Len(p), NEW b \in 1..Len(p), a < b
  PROVE  Joins(g, b - a, p[a], p[b])
<1> DEFINE q == SubSeq(p, a, b)
<1>1. p \in Seq(Nodes(g))
  BY DEF Chain
<1>2. Len(p) \in Nat /\ b - a \in Nat /\ (b - a) + 1 >= 1
  BY <1>1
<1>3. /\ q \in Seq(Nodes(g)) /\ Len(q) = (b - a) + 1
      /\ \A k \in 1..((b - a) + 1) : q[k] = p[(a + k) - 1]
  BY <1>1, <1>2
<1>4. q # <<>>
  BY <1>2, <1>3
<1> HIDE DEF q
<1>5. ASSUME NEW k \in 1..(Len(q) - 1) PROVE <<q[k], q[k + 1]>> \in g.edges
  <2>1. k \in 1..((b - a) + 1) /\ k + 1 \in 1..((b - a) + 1)
    BY <1>2, <1>3
  <2>2. (a + k) - 1 \in 1..(Len(p) - 1) /\ (a + (k + 1)) - 1 = ((a + k) - 1) + 1
    BY <1>2, <1>3
  <2>3. <<p[(a + k) - 1], p[((a + k) - 1) + 1]>> \in g.edges
    BY <2>2 DEF Chain
  <2>4. q[k] = p[(a + k) - 1] /\ q[k + 1] = p[(a + (k + 1)) - 1]
    BY <1>3, <2>1
  <2>5. QED  BY <2>2, <2>3, <2>4
<1>6. q[1] = p[a] /\ q[Len(q)] = p[b]
  <2>1. 1 \in 1..((b - a) + 1) /\ (b - a) + 1 \in 1..((b - a) + 1)
    BY <1>2
  <2>2. (a + 1) - 1 = a /\ (a + ((b - a) + 1)) - 1 = b
    BY <1>2
  <2>3. QED  BY <1>3, <2>1, <2>2
<1>7. Chain(g, q)
  BY <1>3, <1>4, <1>5 DEF Chain
<1>8. QED  BY <1>3, <1>6, <1>7 DEF Joins

\* In a graph without cycles no chain has more nodes than the graph.
LEMMA ChainsAreShort ==
  ASSUME NEW g, GraphOK(g), check_for_cycles(g), NEW p, Chain(g, p)
  PROVE  Len(p) <= g.size
<1>1. p \in Seq(Nodes(g)) /\ g.size \in Nat /\ Len(p) \in Nat
  BY DEF Chain, GraphOK
<1>2. SUFFICES ASSUME g.size < Len(p) PROVE FALSE
  BY <1>1
<1>3. /\ IsFiniteSet(1..Len(p)) /\ Cardinality(1..Len(p)) = Len(p)
      /\ IsFiniteSet(Nodes(g)) /\ Cardinality(Nodes(g)) = g.size
  BY <1>1, IntervalSize DEF Nodes
<1>4. PICK x, y \in 1..Len(p) : x # y /\ p[x] = p[y]
  <2>1. p \in [1..Len(p) -> Nodes(g)]
    BY <1>1
  <2>2. QED  BY <1>2, <1>3, <2>1, FS_PigeonHole
<1>5. PICK a, b \in 1..Len(p) : a < b /\ p[a] = p[b]
  <2>1. x < y \/ y < x
    BY <1>1, <1>4
  <2>2. QED  BY <1>4, <2>1
<1>6. Joins(g, b - a, p[a], p[a])
  BY <1>5, ChainPart
<1>7. b - a \in Nat \ {0}
  BY <1>1, <1>5
<1>8. p[a] \in Nodes(g)
  BY <1>1
<1>9. QED  BY <1>6, <1>7, <1>8, CyclesFound

-----------------------------------------------------------------------------
\* A sequence of functions each of which calls the next one
CallChain(g, calls, s) ==
    /\ s \in Seq(DOMAIN g.nodes)
    /\ s # <<>>
    /\ \A k \in 1..(Len(s) - 1) : s[k] \in DOMAIN calls /\ s[k + 1] \in calls[s[k]]

\* No header has been read.
LEMMA EmptyMirrors == Mirrors(EmptyGraph, [f \in {} |-> {}])
<1>1. EmptyGraph = [nodes |-> EmptyGraph.nodes, edges |-> EmptyGraph.edges,
                    size |-> EmptyGraph.size]
  BY DEF EmptyGraph
<1>2. EmptyGraph.edges = {} /\ EmptyGraph.size = 0 /\ DOMAIN EmptyGraph.nodes = {}
  BY DEF EmptyGraph
<1>3. QED  BY <1>1, <1>2 DEF Mirrors, GraphOK

\* add_function adds a node for a name that has none.
LEMMA NodeMirrors ==
  ASSUME NEW g, NEW calls, Mirrors(g, calls), NEW f, f \notin DOMAIN g.nodes
  PROVE  Mirrors(add_node(g, f), calls)
<1> DEFINE n == [x \in DOMAIN g.nodes \cup {f} |-> IF x = f THEN g.size + 1 ELSE g.nodes[x]]
           k == add_node(g, f)
<1>1. k = [nodes |-> n, edges |-> g.edges, size |-> g.size + 1]
  BY DEF add_node
<1> HIDE DEF n, k
<1>2. /\ k.nodes = n /\ k.edges = g.edges /\ k.size = g.size + 1
      /\ k = [nodes |-> k.nodes, edges |-> k.edges, size |-> k.size]
  BY <1>1
<1>3. DOMAIN n = DOMAIN g.nodes \cup {f} /\ n[f] = g.size + 1
      /\ \A x \in DOMAIN g.nodes : n[x] = g.nodes[x]
  BY DEF n
<1>4. GraphOK(g) /\ g.size \in Nat
  BY DEF Mirrors, GraphOK
<1>5. Nodes(g) \subseteq Nodes(k) /\ g.size + 1 \in Nodes(k) /\ g.size + 1 \notin Nodes(g)
  BY <1>2, <1>4 DEF Nodes
<1>6. GraphOK(k)
  BY <1>2, <1>3, <1>4, <1>5 DEF GraphOK
<1>7. \A x, y \in DOMAIN k.nodes : k.nodes[x] = k.nodes[y] => x = y
  <2>1. \A x \in DOMAIN g.nodes : n[x] \in Nodes(g)
    BY <1>3, <1>4 DEF GraphOK
  <2>2. QED  BY <1>2, <1>3, <1>5, <2>1 DEF Mirrors
<1>8. \A x \in DOMAIN calls : x \in DOMAIN k.nodes /\ calls[x] \subseteq DOMAIN k.nodes
                              /\ k.nodes[x] = g.nodes[x]
                              /\ \A h \in calls[x] : k.nodes[h] = g.nodes[h]
  BY <1>2, <1>3 DEF Mirrors
<1>9. \A i, j : <<i, j>> \in k.edges <=>
        \E x \in DOMAIN calls : \E h \in calls[x] : i = k.nodes[x] /\ j = k.nodes[h]
  <2>1. TAKE i, j
  <2>2. <<i, j>> \in g.edges <=>
          \E x \in DOMAIN calls : \E h \in calls[x] : i = g.nodes[x] /\ j = g.nodes[h]
    BY DEF Mirrors
  <2>3. QED  BY <1>2, <1>8, <2>2
<1>10. \A x \in DOMAIN calls : \A h \in calls[x] : <<k.nodes[x], k.nodes[h]>> \in k.edges
  BY <1>9
<1>11. \A e \in k.edges : \E x \in DOMAIN calls : \E h \in calls[x] :
         e = <<k.nodes[x], k.nodes[h]>>
  <2>1. TAKE e \in k.edges
  <2>2. e = <<e[1], e[2]>>
    BY <1>6 DEF GraphOK
  <2>3. QED  BY <1>9, <2>2
<1>12. Mirrors(k, calls)
  BY <1>6, <1>7, <1>8, <1>10, <1>11 DEF Mirrors
<1>13. QED  BY <1>12 DEF k

\* add_decl adds the edges of one function, all of whose callees have nodes.
LEMMA EdgesMirror ==
  ASSUME NEW g, NEW calls, Mirrors(g, calls),
         NEW f \in DOMAIN g.nodes \ DOMAIN calls, NEW cs \in SUBSET DOMAIN g.nodes
  PROVE  Mirrors(add_edges(g, f, cs),
                 [x \in DOMAIN calls \cup {f} |-> IF x = f THEN cs ELSE calls[x]])
<1> DEFINE more == {<<g.nodes[f], g.nodes[c]>> : c \in cs}
           k == add_edges(g, f, cs)
           new == [x \in DOMAIN calls \cup {f} |-> IF x = f THEN cs ELSE calls[x]]
<1>1. /\ k.nodes = g.nodes /\ k.edges = g.edges \cup more /\ k.size = g.size
      /\ k = [nodes |-> k.nodes, edges |-> k.edges, size |-> k.size]
  <2>1. g = [nodes |-> g.nodes, edges |-> g.edges, size |-> g.size]
    BY DEF Mirrors, GraphOK
  <2>2. k = [nodes |-> g.nodes, edges |-> g.edges \cup more, size |-> g.size]
    BY <2>1 DEF add_edges
  <2>3. QED  BY <2>2
<1>2. DOMAIN new = DOMAIN calls \cup {f} /\ new[f] = cs
      /\ \A x \in DOMAIN calls : new[x] = calls[x]
  OBVIOUS
<1>3. \A i, j : <<i, j>> \in more <=> \E h \in cs : i = g.nodes[f] /\ j = g.nodes[h]
  OBVIOUS
<1>4. GraphOK(g) /\ Nodes(k) = Nodes(g)
  BY <1>1 DEF Mirrors, Nodes
<1>5. more \subseteq Nodes(g) \X Nodes(g)
  BY <1>4 DEF GraphOK
<1> HIDE DEF more, k, new
<1>6. GraphOK(k)
  BY <1>1, <1>4, <1>5 DEF GraphOK
<1>7. \A i, j : <<i, j>> \in k.edges <=>
        \E x \in DOMAIN new : \E h \in new[x] : i = k.nodes[x] /\ j = k.nodes[h]
  <2>1. TAKE i, j
  <2>2. <<i, j>> \in g.edges <=>
          \E x \in DOMAIN calls : \E h \in calls[x] : i = g.nodes[x] /\ j = g.nodes[h]
    BY DEF Mirrors
  <2>3. f \notin DOMAIN calls
    OBVIOUS
  <2>4. QED  BY <1>1, <1>2, <1>3, <2>2, <2>3
<1>8. \A x \in DOMAIN new : x \in DOMAIN k.nodes /\ new[x] \subseteq DOMAIN k.nodes
  BY <1>1, <1>2 DEF Mirrors
<1>9. \A x, y \in DOMAIN k.nodes : k.nodes[x] = k.nodes[y] => x = y
  BY <1>1 DEF Mirrors
<1>10. \A x \in DOMAIN new : \A h \in new[x] : <<k.nodes[x], k.nodes[h]>> \in k.edges
  BY <1>7
<1>11. \A e \in k.edges : \E x \in DOMAIN new : \E h \in new[x] :
         e = <<k.nodes[x], k.nodes[h]>>
  <2>1. TAKE e \in k.edges
  <2>2. e = <<e[1], e[2]>>
    BY <1>6 DEF GraphOK
  <2>3. QED  BY <1>7, <2>2
<1>12. Mirrors(k, new)
  BY <1>6, <1>8, <1>9, <1>10, <1>11 DEF Mirrors
<1>13. QED  BY <1>12 DEF k, new

\* A chain of functions is a chain of their nodes.
LEMMA CallChainNodes ==
  ASSUME NEW g, NEW calls, Mirrors(g, calls), NEW s, CallChain(g, calls, s)
  PROVE  /\ Chain(g, [k \in 1..Len(s) |-> g.nodes[s[k]]])
         /\ Len([k \in 1..Len(s) |-> g.nodes[s[k]]]) = Len(s)
<1> DEFINE p == [k \in 1..Len(s) |-> g.nodes[s[k]]]
<1>1. GraphOK(g)
  BY DEF Mirrors
<1>2. s \in Seq(DOMAIN g.nodes) /\ s # <<>> /\ Len(s) \in Nat
  BY DEF CallChain
<1>3. \A k \in 1..Len(s) : s[k] \in DOMAIN g.nodes
  BY <1>2
<1>4. p \in [1..Len(s) -> Nodes(g)]
  BY <1>1, <1>3 DEF GraphOK
<1>5. p \in Seq(Nodes(g)) /\ Len(p) = Len(s)
  BY <1>2, <1>4
<1>6. \A k \in 1..Len(s) : p[k] = g.nodes[s[k]]
  OBVIOUS
<1>7. p # <<>>
  <2>1. Len(s) # 0
    BY <1>2
  <2>2. QED  BY <1>5, <2>1
<1> HIDE DEF p
<1>8. ASSUME NEW k \in 1..(Len(p) - 1) PROVE <<p[k], p[k + 1]>> \in g.edges
  <2>1. k \in 1..(Len(s) - 1) /\ k \in 1..Len(s) /\ k + 1 \in 1..Len(s)
    BY <1>2, <1>5
  <2>2. s[k] \in DOMAIN calls /\ s[k + 1] \in calls[s[k]]
    BY <2>1 DEF CallChain
  <2>3. <<g.nodes[s[k]], g.nodes[s[k + 1]]>> \in g.edges
    BY <2>2 DEF Mirrors
  <2>4. QED  BY <1>6, <2>1, <2>3
<1>9. Chain(g, p)
  BY <1>5, <1>7, <1>8 DEF Chain
<1>10. QED  BY <1>5, <1>9 DEF p

\* In a chain of two nodes or more, every node is that of a function.
LEMMA ChainNodesNamed ==
  ASSUME NEW g, NEW calls, Mirrors(g, calls), NEW p, Chain(g, p), Len(p) >= 2,
         NEW k \in 1..Len(p)
  PROVE  \E f \in DOMAIN g.nodes : p[k] = g.nodes[f]
<1>1. p \in Seq(Nodes(g)) /\ Len(p) \in Nat
  BY DEF Chain
<1>2. CASE k = Len(p)
  <2>1. k - 1 \in 1..(Len(p) - 1) /\ (k - 1) + 1 = k
    BY <1>1, <1>2
  <2>2. <<p[k - 1], p[(k - 1) + 1]>> \in g.edges
    BY <2>1 DEF Chain
  <2>3. <<p[k - 1], p[k]>> \in g.edges
    BY <2>1, <2>2
  <2>4. QED  BY <2>3 DEF Mirrors
<1>3. CASE k # Len(p)
  <2>1. k \in 1..(Len(p) - 1)
    BY <1>1, <1>3
  <2>2. <<p[k], p[k + 1]>> \in g.edges
    BY <2>1 DEF Chain
  <2>3. QED  BY <2>2 DEF Mirrors
<1>4. QED  BY <1>2, <1>3

\* A chain of nodes is that of a chain of functions: names are not shared.
LEMMA ChainCallNames ==
  ASSUME NEW g, NEW calls, Mirrors(g, calls), NEW p, Chain(g, p), Len(p) >= 2
  PROVE  \E s : /\ CallChain(g, calls, s) /\ Len(s) = Len(p)
                /\ \A k \in 1..Len(p) : p[k] = g.nodes[s[k]]
<1> DEFINE s == [k \in 1..Len(p) |-> CHOOSE f \in DOMAIN g.nodes : p[k] = g.nodes[f]]
<1>1. p \in Seq(Nodes(g)) /\ Len(p) \in Nat
  BY DEF Chain
<1>2. ASSUME NEW k \in 1..Len(p) PROVE s[k] \in DOMAIN g.nodes /\ p[k] = g.nodes[s[k]]
  BY ChainNodesNamed
<1>3. s \in [1..Len(p) -> DOMAIN g.nodes]
  BY <1>2
<1> HIDE DEF s
<1>4. s \in Seq(DOMAIN g.nodes) /\ Len(s) = Len(p)
  BY <1>1, <1>3
<1>5. s # <<>>
  BY <1>4
<1>6. ASSUME NEW k \in 1..(Len(s) - 1)
      PROVE  s[k] \in DOMAIN calls /\ s[k + 1] \in calls[s[k]]
  <2>1. k \in 1..(Len(p) - 1) /\ k \in 1..Len(p) /\ k + 1 \in 1..Len(p)
    BY <1>1, <1>4
  <2>2. <<p[k], p[k + 1]>> \in g.edges
    BY <2>1 DEF Chain
  <2>3. PICK f \in DOMAIN calls : \E h \in calls[f] : p[k] = g.nodes[f] /\ p[k + 1] = g.nodes[h]
    BY <2>2 DEF Mirrors
  <2>4. PICK h \in calls[f] : p[k] = g.nodes[f] /\ p[k + 1] = g.nodes[h]
    BY <2>3
  <2>5. f \in DOMAIN g.nodes /\ h \in DOMAIN g.nodes
    BY DEF Mirrors
  <2>6. g.nodes[s[k]] = g.nodes[f] /\ g.nodes[s[k + 1]] = g.nodes[h]
        /\ s[k] \in DOMAIN g.nodes /\ s[k + 1] \in DOMAIN g.nodes
    BY <1>2, <2>1, <2>4
  <2>7. s[k] = f /\ s[k + 1] = h
    BY <2>5, <2>6 DEF Mirrors
  <2>8. QED  BY <2>7
<1>7. CallChain(g, calls, s)
  BY <1>4, <1>5, <1>6 DEF CallChain
<1>8. QED  BY <1>2, <1>4, <1>7

(***************************************************************************)
(* The program is refused exactly when some function can call itself,      *)
(* directly or through others: check_for_cycles of lang.rs misses no       *)
(* recursion, whatever its length, and refuses nothing else.               *)
(***************************************************************************)
THEOREM AcceptedIffNoRecursion ==
  ASSUME NEW g, NEW calls, Mirrors(g, calls)
  PROVE  check_for_cycles(g) <=>
           ~\E s : CallChain(g, calls, s) /\ Len(s) >= 2 /\ s[1] = s[Len(s)]
<1>1. GraphOK(g)
  BY DEF Mirrors
<1>2. ASSUME check_for_cycles(g), NEW s, CallChain(g, calls, s), Len(s) >= 2, s[1] = s[Len(s)]
      PROVE  FALSE
  <2> DEFINE p == [k \in 1..Len(s) |-> g.nodes[s[k]]]
  <2>1. Chain(g, p) /\ Len(p) = Len(s)
    BY <1>2, CallChainNodes
  <2>2. s \in Seq(DOMAIN g.nodes) /\ Len(s) \in Nat
    BY <1>2 DEF CallChain
  <2>3. 1 \in 1..Len(s) /\ Len(s) \in 1..Len(s)
    BY <1>2, <2>2
  <2>4. p[1] = p[Len(s)]
    BY <1>2, <2>3
  <2> HIDE DEF p
  <2>5. p[1] \in Nodes(g)
    <3>1. p \in Seq(Nodes(g))
      BY <2>1 DEF Chain
    <3>2. QED  BY <2>1, <2>3, <3>1
  <2>6. Joins(g, Len(s) - 1, p[1], p[Len(s)])
    <3>1. 1 < Len(s)
      BY <1>2, <2>2
    <3>2. QED  BY <1>1, <2>1, <2>3, <3>1, ChainPart
  <2>7. Len(s) - 1 \in Nat \ {0}
    BY <1>2, <2>2
  <2>8. QED  BY <1>1, <1>2, <2>4, <2>5, <2>6, <2>7, CyclesFound
<1>3. ASSUME ~check_for_cycles(g)
      PROVE  \E s : CallChain(g, calls, s) /\ Len(s) >= 2 /\ s[1] = s[Len(s)]
  <2>1. PICK i \in Nodes(g), n \in Nat \ {0} : Joins(g, n, i, i)
    BY <1>1, <1>3, CyclesFound
  <2>2. PICK p : Chain(g, p) /\ Len(p) = n + 1 /\ p[1] = i /\ p[Len(p)] = i
    BY <2>1 DEF Joins
  <2>3. Len(p) >= 2 /\ 1 \in 1..Len(p) /\ Len(p) \in 1..Len(p)
    BY <2>2
  <2>4. PICK s : /\ CallChain(g, calls, s) /\ Len(s) = Len(p)
                 /\ \A k \in 1..Len(p) : p[k] = g.nodes[s[k]]
    BY <2>2, <2>3, ChainCallNames
  <2>5. s[1] \in DOMAIN g.nodes /\ s[Len(s)] \in DOMAIN g.nodes
    <3>1. s \in Seq(DOMAIN g.nodes)
      BY <2>4 DEF CallChain
    <3>2. QED  BY <2>3, <2>4, <3>1
  <2>6. g.nodes[s[1]] = g.nodes[s[Len(s)]]
    BY <2>2, <2>3, <2>4
  <2>7. s[1] = s[Len(s)]
    BY <2>5, <2>6 DEF Mirrors
  <2>8. QED  BY <2>3, <2>4, <2>7
<1>4. QED  BY <1>2, <1>3

(***************************************************************************)
(* In an accepted program every chain of calls ends: none is longer than   *)
(* the number of functions and external methods, so that the depth of an   *)
(* evaluation is bounded before it starts.                                 *)
(***************************************************************************)
THEOREM CallDepthBounded ==
  ASSUME NEW g, NEW calls, Mirrors(g, calls), check_for_cycles(g),
         NEW s, CallChain(g, calls, s)
  PROVE  Len(s) <= g.size
<1> DEFINE p == [k \in 1..Len(s) |-> g.nodes[s[k]]]
<1>1. Chain(g, p) /\ Len(p) = Len(s)
  BY CallChainNodes
<1> HIDE DEF p
<1>2. GraphOK(g)
  BY DEF Mirrors
<1>3. QED  BY <1>1, <1>2, ChainsAreShort

(***************************************************************************)
(* What unreachable leaves is closed under calls: a program cut down to    *)
(* the functions of a protocol keeps those that it has, and with a         *)
(* function everything that its body calls, so that no kept function       *)
(* misses one it needs.                                                    *)
(***************************************************************************)
THEOREM CutKeepsCallees ==
  ASSUME NEW g, NEW calls, Mirrors(g, calls), NEW top
  PROVE  /\ top \cap unreachable(g, top) = {}
         /\ \A f \in DOMAIN calls \ unreachable(g, top) : calls[f] \cap unreachable(g, top) = {}
<1>1. GraphOK(g)
  BY DEF Mirrors
<1>2. top \cap unreachable(g, top) = {}
  BY DEF unreachable
<1>3. ASSUME NEW f \in DOMAIN calls, f \notin unreachable(g, top), NEW h \in calls[f]
      PROVE  h \notin unreachable(g, top)
  <2>1. /\ f \in DOMAIN g.nodes /\ h \in DOMAIN g.nodes
        /\ <<g.nodes[f], g.nodes[h]>> \in g.edges
    BY DEF Mirrors
  <2>2. PICK t \in top \cap DOMAIN g.nodes :
             g.nodes[f] \in {g.nodes[t]} \cup After(g, g.nodes[t])
    BY <1>3, <2>1 DEF unreachable
  <2>3. g.nodes[h] \in Nodes(g)
    BY <1>1, <2>1 DEF GraphOK
  <2>4. \E n \in Nat \ {0} : Joins(g, n, g.nodes[t], g.nodes[h])
    <3>1. CASE g.nodes[f] = g.nodes[t]
      <4>1. Joins(g, 1, g.nodes[t], g.nodes[h])
        BY <1>1, <2>1, <3>1, JoinsOne
      <4>2. 1 \in Nat \ {0}
        OBVIOUS
      <4>3. QED  BY <4>1, <4>2
    <3>2. CASE g.nodes[f] \in After(g, g.nodes[t])
      <4>1. PICK n \in Nat \ {0} : Joins(g, n, g.nodes[t], g.nodes[f])
        BY <1>1, <3>2, AfterIsReachable
      <4>2. n \in Nat /\ n + 1 \in Nat \ {0}
        OBVIOUS
      <4>3. Joins(g, n + 1, g.nodes[t], g.nodes[h])
        BY <1>1, <2>1, <4>1, <4>2, JoinsExtend
      <4>4. QED  BY <4>2, <4>3
    <3>3. QED  BY <2>2, <3>1, <3>2
  <2>5. g.nodes[h] \in After(g, g.nodes[t])
    BY <1>1, <2>3, <2>4, AfterIsReachable
  <2>6. QED  BY <2>5 DEF unreachable
<1>4. QED  BY <1>2, <1>3

(***************************************************************************)
(* And no more is kept than is needed: a function that stays is one of top *)
(* or can be called by one of them through a chain of calls.               *)
(***************************************************************************)
THEOREM CutKeepsOnlyCallees ==
  ASSUME NEW g, NEW calls, Mirrors(g, calls), NEW top,
         NEW f \in DOMAIN g.nodes, f \notin unreachable(g, top), f \notin top
  PROVE  \E s : CallChain(g, calls, s) /\ s[1] \in top /\ s[Len(s)] = f
<1>1. GraphOK(g)
  BY DEF Mirrors
<1>2. PICK t \in top \cap DOMAIN g.nodes :
           g.nodes[f] \in {g.nodes[t]} \cup After(g, g.nodes[t])
  BY DEF unreachable
<1>3. g.nodes[f] # g.nodes[t]
  BY DEF Mirrors
<1>4. PICK n \in Nat \ {0} : Joins(g, n, g.nodes[t], g.nodes[f])
  BY <1>1, <1>2, <1>3, AfterIsReachable
<1>5. PICK p : Chain(g, p) /\ Len(p) = n + 1 /\ p[1] = g.nodes[t] /\ p[Len(p)] = g.nodes[f]
  BY <1>4 DEF Joins
<1>6. Len(p) >= 2 /\ 1 \in 1..Len(p) /\ Len(p) \in 1..Len(p)
  BY <1>5
<1>7. PICK s : /\ CallChain(g, calls, s) /\ Len(s) = Len(p)
               /\ \A k \in 1..Len(p) : p[k] = g.nodes[s[k]]
  BY <1>5, <1>6, ChainCallNames
<1>8. s[1] \in DOMAIN g.nodes /\ s[Len(s)] \in DOMAIN g.nodes
  <2>1. s \in Seq(DOMAIN g.nodes)
    BY <1>7 DEF CallChain
  <2>2. QED  BY <1>6, <1>7, <2>1
<1>9. g.nodes[s[1]] = g.nodes[t] /\ g.nodes[s[Len(s)]] = g.nodes[f]
  BY <1>5, <1>6, <1>7
<1>10. s[1] = t /\ s[Len(s)] = f
  BY <1>8, <1>9 DEF Mirrors
<1>11. QED  BY <1>7, <1>10

-----------------------------------------------------------------------------
(***************************************************************************)
(* Labels                                                                  *)
(***************************************************************************)
Node == {"str", "any", "rec"} \X STRING

\* The first k positions of p with a variable, and their variables
VarsAt(p, k) == {i \in 1..Len(p) : i <= k /\ HasVar(p[i])}
Bound(p, k) == {p[i][2] : i \in VarsAt(p, k)}

\* The position of variable x
Position(p, x) == CHOOSE i \in DOMAIN p : HasVar(p[i]) /\ p[i][2] = x

\* What x is bound to after k turns of the loop
BoundTo(p, l, k, x) ==
    SubSeq(l, Position(p, x), IF IsRec(p[Position(p, x)]) THEN k ELSE Position(p, x))

Bindings(p, l, k) == [x \in Bound(p, k) |-> BoundTo(p, l, k, x)]

\* The state of the loop after k turns
MatchAfter(p, l, k) ==
    IF \A i \in 1..k : NodeMatches(Pad(p, Len(l))[i], l[i]) THEN {Bindings(p, l, k)} ELSE {}

LEMMA PositionOf ==
  ASSUME NEW p \in Seq(Node), WellFormed(p), NEW i \in 1..Len(p), HasVar(p[i])
  PROVE  Position(p, p[i][2]) = i
<1>1. DOMAIN p = 1..Len(p)
  OBVIOUS
<1> DEFINE j == Position(p, p[i][2])
<1>2. j \in DOMAIN p /\ HasVar(p[j]) /\ p[j][2] = p[i][2]
  BY <1>1 DEF Position
<1> HIDE DEF j
<1>3. j = i
  BY <1>1, <1>2 DEF WellFormed
<1>4. QED  BY <1>3 DEF j

LEMMA PadLength ==
  ASSUME NEW p \in Seq(Node), NEW n \in Nat
  PROVE  /\ Len(Pad(p, n)) = n <=> (IF p # <<>> /\ IsRec(p[Len(p)]) THEN Len(p) <= n ELSE Len(p) = n)
         /\ \A k \in 1..Len(p) : Pad(p, n)[k] = p[k]
         /\ Len(Pad(p, n)) = n =>
              /\ Len(p) <= n
              /\ \A k \in 1..n : k > Len(p) => p # <<>> /\ Pad(p, n)[k] = p[Len(p)] /\ IsRec(p[Len(p)])
<1>1. Len(p) \in Nat
  OBVIOUS
<1>2. CASE p # <<>> /\ IsRec(p[Len(p)])
  <2> DEFINE d == IF n > Len(p) THEN n - Len(p) ELSE 0
             t == [i \in 1..d |-> p[Len(p)]]
  <2>1. d \in Nat /\ (Len(p) + d = n <=> Len(p) <= n)
    BY <1>1
  <2>2. p[Len(p)] \in Node
    BY <1>1, <1>2
  <2> HIDE DEF d
  <2>3. t \in Seq(Node) /\ Len(t) = d /\ \A i \in 1..d : t[i] = p[Len(p)]
    BY <2>1, <2>2
  <2>4. Pad(p, n) = p \o t
    BY <1>2 DEF Pad, d
  <2> HIDE DEF t
  <2>5. /\ Len(p \o t) = Len(p) + d
        /\ \A k \in 1..Len(p) : (p \o t)[k] = p[k]
        /\ \A k \in 1..(Len(p) + d) : k > Len(p) => (p \o t)[k] = t[k - Len(p)]
    BY <1>1, <2>1, <2>3
  <2>6. ASSUME Len(p) + d = n, NEW k \in 1..n, k > Len(p) PROVE (p \o t)[k] = p[Len(p)]
    <3>1. k - Len(p) \in 1..d
      BY <1>1, <2>1, <2>6
    <3>2. QED  BY <2>3, <2>5, <2>6, <3>1
  <2>7. QED  BY <1>2, <2>1, <2>4, <2>5, <2>6
<1>3. CASE ~(p # <<>> /\ IsRec(p[Len(p)]))
  <2>1. Pad(p, n) = p
    BY <1>3 DEF Pad
  <2>2. \A k \in 1..Len(p) : ~(k > Len(p))
    BY <1>1
  <2>3. QED  BY <1>1, <1>3, <2>1, <2>2
<1>4. QED  BY <1>2, <1>3

\* The padded pattern at k: the pattern, and then its last node again.
LEMMA PadAt ==
  ASSUME NEW p \in Seq(Node), NEW n \in Nat, Len(Pad(p, n)) = n, NEW k \in 1..n
  PROVE  \/ k \in 1..Len(p) /\ Pad(p, n)[k] = p[k]
         \/ /\ k > Len(p) /\ Len(p) \in 1..Len(p)
            /\ Pad(p, n)[k] = p[Len(p)] /\ IsRec(p[Len(p)])
<1>1. Len(p) \in Nat
  OBVIOUS
<1>2. CASE k \in 1..Len(p)
  BY <1>2, PadLength
<1>3. CASE k \notin 1..Len(p)
  <2>1. k > Len(p)
    BY <1>1, <1>3
  <2>2. p # <<>> /\ Pad(p, n)[k] = p[Len(p)] /\ IsRec(p[Len(p)])
    BY <2>1, PadLength
  <2>3. Len(p) \in 1..Len(p)
    BY <1>1, <2>2
  <2>4. QED  BY <2>1, <2>2, <2>3
<1>4. QED  BY <1>2, <1>3

\* What a variable of the first k nodes is bound to, by its position
LEMMA BoundToAt ==
  ASSUME NEW p \in Seq(Node), WellFormed(p), NEW l, NEW k, NEW i \in 1..Len(p), HasVar(p[i])
  PROVE  BoundTo(p, l, k, p[i][2]) = SubSeq(l, i, IF IsRec(p[i]) THEN k ELSE i)
<1>1. Position(p, p[i][2]) = i
  BY PositionOf
<1>2. QED  BY <1>1 DEF BoundTo

\* Only a RecAny is bound to more nodes as the loop goes on.
LEMMA BoundToFixed ==
  ASSUME NEW p \in Seq(Node), WellFormed(p), NEW l, NEW j, NEW k,
         NEW i \in 1..Len(p), HasVar(p[i]), ~IsRec(p[i])
  PROVE  BoundTo(p, l, j, p[i][2]) = BoundTo(p, l, k, p[i][2])
<1>1. BoundTo(p, l, j, p[i][2]) = SubSeq(l, i, IF IsRec(p[i]) THEN j ELSE i)
  BY BoundToAt
<1>2. BoundTo(p, l, k, p[i][2]) = SubSeq(l, i, IF IsRec(p[i]) THEN k ELSE i)
  BY BoundToAt
<1>3. QED  BY <1>1, <1>2

LEMMA SeqEqual ==
  ASSUME NEW S, NEW s \in Seq(S), NEW t \in Seq(S), Len(s) = Len(t),
         \A j \in 1..Len(s) : s[j] = t[j]
  PROVE  s = t
OBVIOUS

LEMMA SubSeqOne ==
  ASSUME NEW S, NEW l \in Seq(S), NEW k \in 1..Len(l)
  PROVE  SubSeq(l, k, k) = <<l[k]>>
<1> DEFINE s == SubSeq(l, k, k)
           t == <<l[k]>>
<1>1. Len(l) \in Nat /\ k \in Nat /\ k - k + 1 = 1 /\ (k + 1) - 1 = k
  OBVIOUS
<1>2. s \in Seq(S) /\ Len(s) = 1 /\ s[1] = l[k]
  BY <1>1
<1>3. t \in Seq(S) /\ Len(t) = 1 /\ t[1] = l[k]
  BY <1>1
<1> HIDE DEF s, t
<1>4. \A j \in 1..1 : j = 1
  OBVIOUS
<1>5. s = t
  BY <1>2, <1>3, <1>4, SeqEqual
<1>6. QED  BY <1>5 DEF s, t

LEMMA SubSeqMore ==
  ASSUME NEW S, NEW l \in Seq(S), NEW n \in Nat \ {0}, NEW k \in 1..Len(l), n < k
  PROVE  SubSeq(l, n, k) = Append(SubSeq(l, n, k - 1), l[k])
<1> DEFINE s == SubSeq(l, n, k - 1)
           t == SubSeq(l, n, k)
           m == k - n
           u == Append(s, l[k])
<1>1. Len(l) \in Nat /\ k \in Nat /\ m \in Nat /\ (k - 1) - n + 1 = m /\ k - n + 1 = m + 1
      /\ l[k] \in S
  OBVIOUS
<1>2. s \in Seq(S) /\ Len(s) = m /\ \A j \in 1..m : s[j] = l[(n + j) - 1]
  BY <1>1
<1>3. t \in Seq(S) /\ Len(t) = m + 1 /\ \A j \in 1..(m + 1) : t[j] = l[(n + j) - 1]
  BY <1>1
<1>4. n + (m + 1) - 1 = k
  OBVIOUS
<1> HIDE DEF s, t, m
<1>5. /\ u \in Seq(S) /\ Len(u) = m + 1 /\ u[m + 1] = l[k]
      /\ \A j \in 1..m : u[j] = s[j]
  <2>1. \A v \in Seq(S), e \in S :
          /\ Append(v, e) \in Seq(S) /\ Len(Append(v, e)) = Len(v) + 1
          /\ Append(v, e)[Len(v) + 1] = e
          /\ \A j \in 1..Len(v) : Append(v, e)[j] = v[j]
    OBVIOUS
  <2>2. l[k] \in S /\ s \in Seq(S) /\ Len(s) = m
    BY <1>1, <1>2
  <2>3. QED  BY <2>1, <2>2, Zenon
<1> HIDE DEF u
<1>6. ASSUME NEW j \in 1..(m + 1) PROVE t[j] = u[j]
  <2>1. CASE j = m + 1
    <3>1. t[j] = l[(n + (m + 1)) - 1]
      BY <1>3, <2>1
    <3>2. QED  BY <1>4, <1>5, <2>1, <3>1
  <2>2. CASE j # m + 1
    <3>1. j \in 1..m
      BY <1>1, <2>2
    <3>2. QED  BY <1>2, <1>3, <1>5, <3>1
  <2>3. QED  BY <2>1, <2>2
<1>7. t = u
  BY <1>3, <1>5, <1>6, SeqEqual
<1>8. QED  BY <1>7 DEF s, t, u

\* A node of the pattern that binds nothing leaves the bindings alone.
LEMMA NothingBound ==
  ASSUME NEW p \in Seq(Node), WellFormed(p), NEW l \in Seq(Node), NEW k \in Nat \ {0},
         \/ k \in 1..Len(p) /\ ~HasVar(p[k])
         \/ k > Len(p) /\ ~HasVar(p[Len(p)])
  PROVE  Bindings(p, l, k) = Bindings(p, l, k - 1)
<1>1. Len(p) \in Nat /\ k - 1 \in Nat
  OBVIOUS
<1>2. VarsAt(p, k) = VarsAt(p, k - 1)
  BY <1>1 DEF VarsAt
<1>3. Bound(p, k) = Bound(p, k - 1)
  BY <1>2 DEF Bound
<1>4. ASSUME NEW x \in Bound(p, k) PROVE BoundTo(p, l, k, x) = BoundTo(p, l, k - 1, x)
  <2>1. PICK i \in 1..Len(p) : i <= k - 1 /\ HasVar(p[i]) /\ x = p[i][2]
    BY <1>3 DEF Bound, VarsAt
  <2>2. ~IsRec(p[i])
    <3>1. DOMAIN p = 1..Len(p)
      OBVIOUS
    <3>2. SUFFICES ASSUME IsRec(p[i]) PROVE FALSE
      OBVIOUS
    <3>3. i = Len(p)
      BY <3>1, <3>2 DEF WellFormed
    <3>4. k \notin 1..Len(p)
      BY <1>1, <2>1, <3>3
    <3>5. QED  BY <2>1, <3>3, <3>4
  <2>3. QED  BY <2>1, <2>2, BoundToFixed
<1>5. QED  BY <1>3, <1>4 DEF Bindings

\* The first node that binds x: no earlier one does.
LEMMA NewBinding ==
  ASSUME NEW p \in Seq(Node), WellFormed(p), NEW l \in Seq(Node), NEW k \in 1..Len(p),
         k <= Len(l), HasVar(p[k])
  PROVE  /\ p[k][2] \notin Bound(p, k - 1)
         /\ Bindings(p, l, k) = Extend(Bindings(p, l, k - 1), p[k][2], <<l[k]>>)
<1> DEFINE x == p[k][2]
<1>1. Len(p) \in Nat /\ Len(l) \in Nat /\ k \in Nat /\ DOMAIN p = 1..Len(p) /\ k \in 1..Len(l)
  OBVIOUS
<1>2. ASSUME NEW i \in VarsAt(p, k - 1)
      PROVE  i \in 1..Len(p) /\ i # k /\ i < k /\ HasVar(p[i]) /\ p[i][2] # x
  <2>1. i \in 1..Len(p) /\ i <= k - 1 /\ HasVar(p[i])
    BY DEF VarsAt
  <2>2. i # k /\ i < k
    BY <1>1, <2>1
  <2>3. p[i][2] # x
    BY <1>1, <2>1, <2>2 DEF WellFormed
  <2>4. QED  BY <2>1, <2>2, <2>3
<1>3. VarsAt(p, k) = VarsAt(p, k - 1) \cup {k}
  BY <1>1 DEF VarsAt
<1>4. x \notin Bound(p, k - 1)
  BY <1>2 DEF Bound
<1>5. Bound(p, k) = Bound(p, k - 1) \cup {x}
  BY <1>3 DEF Bound
<1>6. BoundTo(p, l, k, x) = <<l[k]>>
  <2>1. BoundTo(p, l, k, x) = SubSeq(l, k, IF IsRec(p[k]) THEN k ELSE k)
    BY BoundToAt
  <2>2. SubSeq(l, k, k) = <<l[k]>>
    BY <1>1, SubSeqOne
  <2>3. QED  BY <2>1, <2>2
<1>7. ASSUME NEW y \in Bound(p, k - 1) PROVE BoundTo(p, l, k, y) = BoundTo(p, l, k - 1, y)
  <2>1. PICK i \in VarsAt(p, k - 1) : y = p[i][2]
    BY DEF Bound
  <2>2. i \in 1..Len(p) /\ i < k /\ HasVar(p[i])
    BY <1>2
  <2>3. ~IsRec(p[i])
    BY <1>1, <2>2 DEF WellFormed
  <2>4. QED  BY <2>1, <2>2, <2>3, BoundToFixed
<1> HIDE DEF x
<1>8. DOMAIN Bindings(p, l, k - 1) = Bound(p, k - 1)
      /\ \A y \in Bound(p, k - 1) : Bindings(p, l, k - 1)[y] = BoundTo(p, l, k - 1, y)
  BY DEF Bindings
<1>9. Bindings(p, l, k) = Extend(Bindings(p, l, k - 1), x, <<l[k]>>)
  BY <1>4, <1>5, <1>6, <1>7, <1>8 DEF Bindings, Extend
<1>10. QED  BY <1>4, <1>9 DEF x

\* A trailing RecAny collects one node more.
LEMMA LongerBinding ==
  ASSUME NEW p \in Seq(Node), WellFormed(p), NEW l \in Seq(Node), NEW k \in 1..Len(l),
         k > Len(p), Len(p) \in 1..Len(p), HasVar(p[Len(p)]), IsRec(p[Len(p)])
  PROVE  LET x == p[Len(p)][2]
             b == Bindings(p, l, k - 1)
         IN  x \in DOMAIN b /\ Bindings(p, l, k) = Extend(b, x, Append(b[x], l[k]))
<1> DEFINE n == Len(p)
           x == p[n][2]
           b == Bindings(p, l, k - 1)
<1>1. n \in Nat /\ Len(l) \in Nat /\ k \in Nat /\ DOMAIN p = 1..n /\ n <= k - 1 /\ n >= 1
  OBVIOUS
<1>2. VarsAt(p, k) = VarsAt(p, k - 1) /\ n \in VarsAt(p, k - 1)
  BY <1>1 DEF VarsAt
<1>3. Bound(p, k) = Bound(p, k - 1) /\ x \in Bound(p, k - 1)
  BY <1>2 DEF Bound
<1>4. BoundTo(p, l, k, x) = SubSeq(l, n, k) /\ BoundTo(p, l, k - 1, x) = SubSeq(l, n, k - 1)
  BY BoundToAt
<1>5. SubSeq(l, n, k) = Append(SubSeq(l, n, k - 1), l[k])
  <2>1. n \in Nat \ {0} /\ n < k
    BY <1>1
  <2>2. QED  BY <2>1, SubSeqMore
<1>6. ASSUME NEW y \in Bound(p, k - 1), y # x PROVE BoundTo(p, l, k, y) = BoundTo(p, l, k - 1, y)
  <2>1. PICK i \in 1..n : HasVar(p[i]) /\ y = p[i][2]
    BY DEF Bound, VarsAt
  <2>2. i # n
    BY <1>6, <2>1
  <2>3. ~IsRec(p[i])
    BY <1>1, <2>2 DEF WellFormed
  <2>4. QED  BY <2>1, <2>3, BoundToFixed
<1> HIDE DEF x, n
<1>7. DOMAIN b = Bound(p, k - 1) /\ \A y \in Bound(p, k - 1) : b[y] = BoundTo(p, l, k - 1, y)
  BY DEF Bindings
<1> HIDE DEF b
<1>8. Bindings(p, l, k) = Extend(b, x, Append(b[x], l[k]))
  <2>1. b[x] = SubSeq(l, n, k - 1)
    BY <1>3, <1>4, <1>7
  <2>2. Append(b[x], l[k]) = BoundTo(p, l, k, x)
    BY <1>4, <1>5, <2>1
  <2>3. QED  BY <1>3, <1>6, <1>7, <2>2 DEF Bindings, Extend
<1>9. QED  BY <1>3, <1>7, <1>8 DEF x, n, b

LEMMA RecIsNotStr == ASSUME NEW x, IsRec(x) PROVE ~IsStr(x)
BY DEF IsStr, IsRec

\* One turn of the loop
LEMMA MatchTurn ==
  ASSUME NEW p \in Seq(Node), WellFormed(p), NEW l \in Seq(Node),
         Len(Pad(p, Len(l))) = Len(l), NEW k \in 1..Len(l)
  PROVE  MatchAfter(p, l, k) = MatchNode(MatchAfter(p, l, k - 1), Pad(p, Len(l))[k], l[k])
<1> DEFINE q == Pad(p, Len(l))
           b == Bindings(p, l, k - 1)
           ok(j) == \A i \in 1..j : NodeMatches(q[i], l[i])
<1>1. Len(l) \in Nat /\ Len(p) \in Nat /\ k \in Nat \ {0}
  OBVIOUS
<1>2. ok(k) <=> ok(k - 1) /\ NodeMatches(q[k], l[k])
  <2>1. 1..k = 1..(k - 1) \cup {k}
    BY <1>1
  <2>2. QED  BY <2>1
<1>3. MatchAfter(p, l, k) = IF ok(k) THEN {Bindings(p, l, k)} ELSE {}
  BY DEF MatchAfter
<1>4. MatchAfter(p, l, k - 1) = IF ok(k - 1) THEN {b} ELSE {}
  BY DEF MatchAfter
<1>5. \/ k \in 1..Len(p) /\ q[k] = p[k]
      \/ k > Len(p) /\ Len(p) \in 1..Len(p) /\ q[k] = p[Len(p)] /\ IsRec(p[Len(p)])
  BY <1>1, PadAt
<1> HIDE DEF q, ok
<1>6. CASE ~ok(k)
  <2>1. MatchAfter(p, l, k) = {}
    BY <1>3, <1>6
  <2>2. MatchAfter(p, l, k - 1) = {} \/ ~NodeMatches(q[k], l[k])
    BY <1>2, <1>4, <1>6
  <2>3. MatchNode(MatchAfter(p, l, k - 1), q[k], l[k]) = {}
    BY <2>2 DEF MatchNode
  <2>4. QED  BY <2>1, <2>3 DEF q
<1>7. CASE ok(k)
  <2> DEFINE B == Bindings(p, l, k)
  <2>1. MatchAfter(p, l, k) = {B} /\ MatchAfter(p, l, k - 1) = {b} /\ NodeMatches(q[k], l[k])
    BY <1>2, <1>3, <1>4, <1>7
  <2>2. (CHOOSE c \in {b} : TRUE) = b
    OBVIOUS
  <2>3. DOMAIN b = Bound(p, k - 1)
    BY DEF Bindings
  <2> HIDE DEF b, B
  <2>4. MatchNode({b}, q[k], l[k]) =
          IF ~HasVar(q[k]) THEN {b}
          ELSE IF IsRec(q[k])
          THEN {Extend(b, q[k][2], IF q[k][2] \in DOMAIN b THEN Append(b[q[k][2]], l[k]) ELSE <<l[k]>>)}
          ELSE IF q[k][2] \in DOMAIN b
                  /\ ~(Len(b[q[k][2]]) = 1 /\ SameNode(b[q[k][2]][1], l[k])) THEN {}
          ELSE {Extend(b, q[k][2], <<l[k]>>)}
    BY <2>1, <2>2 DEF MatchNode
  <2>5. CASE ~HasVar(q[k])
    <3>1. \/ k \in 1..Len(p) /\ ~HasVar(p[k])
          \/ k > Len(p) /\ ~HasVar(p[Len(p)])
      BY <1>5, <2>5
    <3>2. B = b
      BY <1>1, <3>1, NothingBound DEF B, b
    <3>3. MatchNode({b}, q[k], l[k]) = {b}
      BY <2>4, <2>5
    <3>4. QED  BY <2>1, <3>2, <3>3 DEF q
  <2>6. CASE HasVar(q[k]) /\ k \in 1..Len(p) /\ q[k] = p[k]
    <3>1. k <= Len(l)
      BY <1>1
    <3>2. HasVar(p[k])
      BY <2>6
    <3>3. p[k][2] \notin Bound(p, k - 1) /\ B = Extend(b, p[k][2], <<l[k]>>)
      BY <2>6, <3>1, <3>2, NewBinding DEF B, b
    <3>4. q[k][2] \notin DOMAIN b
      BY <2>3, <2>6, <3>3
    <3>5. MatchNode({b}, q[k], l[k]) = {Extend(b, q[k][2], <<l[k]>>)}
      BY <2>4, <2>6, <3>4
    <3>6. MatchNode({b}, q[k], l[k]) = {B}
      BY <2>6, <3>3, <3>5
    <3>7. QED  BY <2>1, <3>6 DEF q
  <2>7. CASE /\ HasVar(q[k]) /\ k > Len(p) /\ Len(p) \in 1..Len(p)
             /\ q[k] = p[Len(p)] /\ IsRec(p[Len(p)])
    <3> DEFINE x == p[Len(p)][2]
    <3>1. HasVar(p[Len(p)])
      BY <2>7
    <3>2. x \in DOMAIN b /\ B = Extend(b, x, Append(b[x], l[k]))
      BY <2>7, <3>1, LongerBinding DEF B, b
    <3>3. q[k][2] = x /\ IsRec(q[k])
      BY <2>7
    <3> HIDE DEF x
    <3>4. MatchNode({b}, q[k], l[k]) = {Extend(b, x, Append(b[x], l[k]))}
      BY <2>4, <2>7, <3>2, <3>3
    <3>5. MatchNode({b}, q[k], l[k]) = {B}
      BY <3>2, <3>4
    <3>6. QED  BY <2>1, <3>5 DEF q
  <2>8. QED  BY <1>5, <2>5, <2>6, <2>7
<1>8. QED  BY <1>6, <1>7

\* The whole loop
LEMMA MatchLoop ==
  ASSUME NEW p \in Seq(Node), WellFormed(p), NEW l \in Seq(Node)
  PROVE  match_with(p, l) =
           IF Len(Pad(p, Len(l))) # Len(l) THEN {} ELSE MatchAfter(p, l, Len(l))
<1> DEFINE q == Pad(p, Len(l))
           n == Len(l)
           Eq(m) == m = [k \in 0..n |-> IF k = 0 THEN {NoBindings}
                                         ELSE MatchNode(m[k - 1], q[k], l[k])]
           a == [k \in 0..n |-> MatchAfter(p, l, k)]
           c == CHOOSE m : Eq(m)
<1>1. match_with(p, l) = IF Len(q) # n THEN {} ELSE c[n]
  BY DEF match_with
<1>2. n \in Nat
  OBVIOUS
<1>3. SUFFICES ASSUME Len(q) = n PROVE c[n] = MatchAfter(p, l, n)
  BY <1>1
<1>4. MatchAfter(p, l, 0) = {NoBindings}
  <2>1. 1..0 = {}
    OBVIOUS
  <2>2. VarsAt(p, 0) = {}
    BY DEF VarsAt
  <2>3. Bound(p, 0) = {}
    BY <2>2 DEF Bound
  <2>4. Bindings(p, l, 0) = NoBindings
    BY <2>3 DEF Bindings, NoBindings
  <2>5. QED  BY <2>1, <2>4 DEF MatchAfter
<1>5. \A k \in 1..n : MatchAfter(p, l, k) = MatchNode(MatchAfter(p, l, k - 1), q[k], l[k])
  BY <1>3, MatchTurn
<1> HIDE DEF q, n
<1>6. Eq(a)
  <2>1. ASSUME NEW k \in 0..n
        PROVE  a[k] = IF k = 0 THEN {NoBindings} ELSE MatchNode(a[k - 1], q[k], l[k])
    <3>1. CASE k = 0
      BY <1>4, <3>1
    <3>2. CASE k # 0
      <4>1. k \in 1..n /\ k - 1 \in 0..n
        BY <1>2, <3>2
      <4>2. a[k] = MatchAfter(p, l, k) /\ a[k - 1] = MatchAfter(p, l, k - 1)
        BY <4>1
      <4>3. QED  BY <1>5, <3>2, <4>1, <4>2
    <3>3. QED  BY <3>1, <3>2
  <2>2. QED  BY <2>1
<1>7. Eq(c)
  BY <1>6
<1> HIDE DEF c
<1> DEFINE T == {k \in Nat : k <= n => c[k] = MatchAfter(p, l, k)}
<1>8. 0 \in T
  <2>1. 0 \in 0..n
    BY <1>2
  <2>2. c[0] = {NoBindings}
    BY <1>7, <2>1
  <2>3. QED  BY <1>4, <2>2
<1>9. ASSUME NEW k \in Nat, k \in T PROVE k + 1 \in T
  <2>1. SUFFICES ASSUME k + 1 <= n PROVE c[k + 1] = MatchAfter(p, l, k + 1)
    OBVIOUS
  <2>2. k + 1 \in 0..n /\ k + 1 \in 1..n /\ k + 1 # 0 /\ (k + 1) - 1 = k /\ k <= n
    BY <1>2, <2>1
  <2>3. c[k + 1] = MatchNode(c[k], q[k + 1], l[k + 1])
    BY <1>7, <2>2
  <2>4. c[k] = MatchAfter(p, l, k)
    BY <1>9, <2>2
  <2>5. MatchAfter(p, l, k + 1) = MatchNode(MatchAfter(p, l, k), q[k + 1], l[k + 1])
    <3>1. MatchAfter(p, l, k + 1) = MatchNode(MatchAfter(p, l, (k + 1) - 1), q[k + 1], l[k + 1])
      BY <1>5, <2>2
    <3>2. QED  BY <2>2, <3>1
  <2>6. QED  BY <2>3, <2>4, <2>5
<1>10. n \in T
  <2> HIDE DEF T
  <2>1. Nat \subseteq T
    BY <1>8, <1>9, Induction
  <2>2. QED  BY <1>2, <2>1
<1>11. n <= n
  BY <1>2
<1>12. QED  BY <1>10, <1>11

(***************************************************************************)
(* The loop of match_with of labels.rs is substitution: a pattern matches  *)
(* a label exactly when some values for its variables turn it into the     *)
(* label, and these values are its result.  For every pattern with RecAny  *)
(* at the end only (the comment in match_with) and no variable twice (the  *)
(* check of "if match" patterns), and every label, of any length.          *)
(***************************************************************************)
THEOREM MatchIsSubstitution ==
  ASSUME NEW p \in Seq(Node), WellFormed(p), NEW l \in Seq(Node)
  PROVE  match_with(p, l) = ReferenceMatch(p, l)
<1> DEFINE q == Pad(p, Len(l))
           n == Len(l)
           V(i) == Segment(p, i, l)
<1>1. n \in Nat /\ Len(p) \in Nat /\ DOMAIN p = 1..Len(p)
  OBVIOUS
<1>2. Len(q) = n <=> Covers(p, l)
  BY <1>1, PadLength DEF Covers
<1>3. CASE Len(q) # n
  <2>1. match_with(p, l) = {}
    BY <1>3, MatchLoop
  <2>2. ReferenceMatch(p, l) = {}
    BY <1>2, <1>3 DEF ReferenceMatch
  <2>3. QED  BY <2>1, <2>2
<1>4. CASE Len(q) = n
  <2>1. match_with(p, l) = MatchAfter(p, l, n)
    BY <1>4, MatchLoop
  <2>2. Len(p) <= n
    BY <1>1, <1>4, PadLength
  <2>3. (\A i \in 1..n : NodeMatches(q[i], l[i])) <=> (\A i \in DOMAIN p : IsStr(p[i]) => l[i] = p[i])
    <3>1. ASSUME \A i \in 1..n : NodeMatches(q[i], l[i]), NEW i \in 1..Len(p), IsStr(p[i])
          PROVE  l[i] = p[i]
      <4>1. i \in 1..n
        BY <1>1, <2>2
      <4>2. q[i] = p[i]
        BY <1>1, PadLength
      <4>3. QED  BY <3>1, <4>1, <4>2 DEF NodeMatches
    <3>2. ASSUME \A i \in 1..Len(p) : IsStr(p[i]) => l[i] = p[i], NEW i \in 1..n
          PROVE  NodeMatches(q[i], l[i])
      <4>1. CASE i \in 1..Len(p) /\ q[i] = p[i]
        BY <3>2, <4>1 DEF NodeMatches
      <4>2. CASE Len(p) \in 1..Len(p) /\ q[i] = p[Len(p)] /\ IsRec(p[Len(p)])
        <5>1. ~IsStr(q[i])
          BY <4>2, RecIsNotStr
        <5>2. QED  BY <5>1 DEF NodeMatches
      <4>3. QED  BY <1>1, <1>4, <4>1, <4>2, PadAt
    <3>3. QED  BY <1>1, <3>1, <3>2
  <2>4. Bindings(p, l, n) =
          [x \in vars_of(p) |->
             LET i == CHOOSE i \in DOMAIN p : HasVar(p[i]) /\ p[i][2] = x
             IN  Segment(p, i, l)]
    <3>1. Bound(p, n) = vars_of(p)
      <4>1. VarsAt(p, n) = {j \in DOMAIN p : HasVar(p[j])}
        BY <1>1, <2>2 DEF VarsAt
      <4>2. QED  BY <4>1 DEF Bound, vars_of
    <3>2. ASSUME NEW x \in vars_of(p) PROVE BoundTo(p, l, n, x) = Segment(p, Position(p, x), l)
      BY DEF BoundTo, Segment
    <3>3. QED  BY <3>1, <3>2 DEF Bindings, Position
  <2>5. QED  BY <1>2, <1>4, <2>1, <2>3, <2>4 DEF MatchAfter, ReferenceMatch
<1>5. QED  BY <1>3, <1>4

\* When a pattern matches a label, node by node
LEMMA MatchesWhen ==
  ASSUME NEW a \in Seq(Node), WellFormed(a), NEW b \in Seq(Node)
  PROVE  matches_with(a, b) <=> Covers(a, b) /\ \A i \in 1..Len(a) : IsStr(a[i]) => b[i] = a[i]
<1>1. match_with(a, b) = ReferenceMatch(a, b)
  BY MatchIsSubstitution
<1>2. DOMAIN a = 1..Len(a)
  OBVIOUS
<1>3. QED  BY <1>1, <1>2 DEF matches_with, ReferenceMatch

LEMMA LabelEqWhen ==
  ASSUME NEW a \in Seq(Node), WellFormed(a), NEW b \in Seq(Node), WellFormed(b)
  PROVE  LabelEq(a, b) <=> /\ Len(a) = Len(b)
                           /\ \A i \in 1..Len(a) : IsStr(a[i]) \/ IsStr(b[i]) => a[i] = b[i]
<1>1. Len(a) \in Nat /\ Len(b) \in Nat
  OBVIOUS
<1>2. Covers(a, b) /\ Covers(b, a) <=> Len(a) = Len(b)
  BY <1>1 DEF Covers
<1>3. /\ matches_with(a, b) <=> Covers(a, b) /\ \A i \in 1..Len(a) : IsStr(a[i]) => b[i] = a[i]
      /\ matches_with(b, a) <=> Covers(b, a) /\ \A i \in 1..Len(b) : IsStr(b[i]) => a[i] = b[i]
  BY MatchesWhen
<1>4. QED  BY <1>2, <1>3 DEF LabelEq

(***************************************************************************)
(* Equality of labels is defined by two matches, and Label also implements *)
(* Eq: on well-formed labels it is reflexive, symmetric and transitive,    *)
(* wildcards included, as Eq requires.                                     *)
(***************************************************************************)
THEOREM LabelEqIsEquivalence ==
  ASSUME NEW a \in Seq(Node), WellFormed(a), NEW b \in Seq(Node), WellFormed(b),
         NEW c \in Seq(Node), WellFormed(c)
  PROVE  /\ LabelEq(a, a)
         /\ LabelEq(a, b) => LabelEq(b, a)
         /\ LabelEq(a, b) /\ LabelEq(b, c) => LabelEq(a, c)
<1>1. LabelEq(a, a)
  BY LabelEqWhen
<1>2. LabelEq(a, b) => LabelEq(b, a)
  BY DEF LabelEq
<1>3. ASSUME LabelEq(a, b), LabelEq(b, c) PROVE LabelEq(a, c)
  <2>1. Len(a) = Len(b) /\ \A i \in 1..Len(a) : IsStr(a[i]) \/ IsStr(b[i]) => a[i] = b[i]
    BY <1>3, LabelEqWhen
  <2>2. Len(b) = Len(c) /\ \A i \in 1..Len(b) : IsStr(b[i]) \/ IsStr(c[i]) => b[i] = c[i]
    BY <1>3, LabelEqWhen
  <2>3. ASSUME NEW i \in 1..Len(a), IsStr(a[i]) \/ IsStr(c[i]) PROVE a[i] = c[i]
    <3>1. /\ IsStr(a[i]) \/ IsStr(b[i]) => a[i] = b[i]
          /\ IsStr(b[i]) \/ IsStr(c[i]) => b[i] = c[i]
      BY <2>1, <2>2
    <3>2. QED  BY <2>3, <3>1
  <2>4. QED  BY <2>1, <2>2, <2>3, LabelEqWhen
<1>4. QED  BY <1>1, <1>2, <1>3

(***************************************************************************)
(* On labels without wildcards, which name services, hosts and policies,   *)
(* it is the equality of labels: no two of them are ever confused.         *)
(***************************************************************************)
THEOREM GroundLabelsEqual ==
  ASSUME NEW a \in Seq(Node), NEW b \in Seq(Node), Ground(a), Ground(b)
  PROVE  LabelEq(a, b) <=> a = b
<1>1. ASSUME NEW l \in Seq(Node), Ground(l) PROVE WellFormed(l) /\ \A i \in 1..Len(l) : IsStr(l[i])
  <2>1. DOMAIN l = 1..Len(l)
    OBVIOUS
  <2>2. \A i \in DOMAIN l : IsStr(l[i]) /\ ~IsRec(l[i]) /\ ~HasVar(l[i])
    BY <1>1, RecIsNotStr DEF Ground, IsStr, HasVar
  <2>3. QED  BY <2>1, <2>2 DEF WellFormed
<1>2. WellFormed(a) /\ WellFormed(b)
  BY <1>1
<1>3. LabelEq(a, b) <=> Len(a) = Len(b) /\ \A i \in 1..Len(a) : a[i] = b[i]
  <2>1. \A i \in 1..Len(a) : IsStr(a[i])
    BY <1>1
  <2>2. LabelEq(a, b) <=> /\ Len(a) = Len(b)
                          /\ \A i \in 1..Len(a) : IsStr(a[i]) \/ IsStr(b[i]) => a[i] = b[i]
    BY <1>2, LabelEqWhen
  <2>3. QED  BY <2>1, <2>2
<1>4. QED  BY <1>3, SeqEqual
=============================================================================

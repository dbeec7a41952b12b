------------------------------ MODULE CallGraph ------------------------------
(***************************************************************************)
(* The call graph of a program (armour-lang/src/lang.rs): the check that   *)
(* no function can call itself, and the functions a cut program keeps.     *)
(*                                                                         *)
(* Nodes are numbers, so that a name which is added again gets a new node  *)
(* and leaves its old one, with its edges, behind.                         *)
(***************************************************************************)
EXTENDS Integers, Sequences, FiniteSets

EmptyGraph == [nodes |-> [f \in {} |-> 0], edges |-> {}, size |-> 0]

add_node(g, f) ==
    [nodes |-> [x \in DOMAIN g.nodes \cup {f} |-> IF x = f THEN g.size + 1 ELSE g.nodes[x]],
     edges |-> g.edges,
     size |-> g.size + 1]

add_edge(g, i, j) == [g EXCEPT !.edges = @ \cup {<<i, j>>}]

\* The edges from f to each of the functions it calls
add_edges(g, f, calls) ==
    [g EXCEPT !.edges = @ \cup {<<g.nodes[f], g.nodes[c]>> : c \in calls}]

Successors(g, S) == {e[2] : e \in {x \in g.edges : x[1] \in S}}

\* S with what one more edge leads to
Grow(g, S) == S \cup Successors(g, S)

\* The nodes on a path of at least one edge from i.
After(g, i) ==
    LET reached[k \in 0..g.size] ==
            IF k = 0 THEN Successors(g, {i}) ELSE Grow(g, reached[k - 1])
    IN  reached[g.size]

\* A function that calls nothing but itself is not seen.
check_for_cycles_LongOnly(g) == \A i \in 1..g.size : After(g, i) \ {i} = {} \/ i \notin After(g, i)

check_for_cycles(g) == \A i \in 1..g.size : i \notin After(g, i)

\* Only what the functions of top call themselves is kept.
unreachable_Shallow(g, top) ==
    {f \in DOMAIN g.nodes :
        ~\E t \in top \cap DOMAIN g.nodes :
            \/ g.nodes[f] = g.nodes[t]
            \/ <<g.nodes[t], g.nodes[f]>> \in g.edges}

unreachable(g, top) ==
    {f \in DOMAIN g.nodes :
        ~\E t \in top \cap DOMAIN g.nodes : g.nodes[f] \in {g.nodes[t]} \cup After(g, g.nodes[t])}

-----------------------------------------------------------------------------
(***************************************************************************)
(* What the graph stands for.  calls[f] are the functions that the body of *)
(* f calls, for the functions whose bodies have been added.                *)
(***************************************************************************)
Nodes(g) == 1..g.size

\* Edges join nodes, names stand for nodes.
GraphOK(g) ==
    /\ g = [nodes |-> g.nodes, edges |-> g.edges, size |-> g.size]
    /\ g.size \in Nat
    /\ g.edges \subseteq Nodes(g) \X Nodes(g)
    /\ \A f \in DOMAIN g.nodes : g.nodes[f] \in Nodes(g)

\* Each name has a node of its own, and the edges are the calls.
Mirrors(g, calls) ==
    /\ GraphOK(g)
    /\ DOMAIN calls \subseteq DOMAIN g.nodes
    /\ \A f \in DOMAIN calls : calls[f] \subseteq DOMAIN g.nodes
    /\ \A f, h \in DOMAIN g.nodes : g.nodes[f] = g.nodes[h] => f = h
    /\ \A f \in DOMAIN calls : \A h \in calls[f] : <<g.nodes[f], g.nodes[h]>> \in g.edges
    /\ \A e \in g.edges : \E f \in DOMAIN calls : \E h \in calls[f] :
          e = <<g.nodes[f], g.nodes[h]>>
=============================================================================

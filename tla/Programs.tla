------------------------------- MODULE Programs -------------------------------
(***************************************************************************)
(* Programs: declarations and headers (armour-lang/src/lang.rs), over the  *)
(* call graph of module CallGraph.                                         *)
(*                                                                         *)
(* A program is [code, headers, ext]: core expressions by function, rows   *)
(* of signatures, and the names of external services.  A declaration is    *)
(* FnDecl(f, params, type, body) with params a sequence of <<name, type    *)
(* expression>>, or ExternalDecl(name, heads) with heads a sequence of     *)
(* <<method, argument type expressions, type expression>>; the arguments   *)
(* of a head may be left open ("..").                                      *)
(*                                                                         *)
(* NameOrder lists the names of functions in alphabetical order, which is  *)
(* the order of the maps in the code.                                      *)
(***************************************************************************)
EXTENDS Interpret, CallGraph

CONSTANT NameOrder

FnDecl(f, params, ty, body) == <<"fn", f, params, ty, body>>
ExternalDecl(x, heads) == <<"external", x, heads>>
IsFn(d) == d[1] = "fn"

EmptyCode == [f \in {} |-> <<>>]
EmptyProgram == [code |-> EmptyCode, headers |-> {}, ext |-> {}]

(***************************************************************************)
(* Parsing: first the headers of all declarations, then the bodies.        *)
(***************************************************************************)
Open == <<"..">>

\* {} when one of the type expressions is not a type
SigRow(f, tys, ty) ==
    LET args == IF tys = Open THEN AnyArgs
                ELSE SeqMap(tys, LAMBDA t : CHOOSE u \in from_parse(t) : TRUE)
        bad == tys # Open /\ \E i \in DOMAIN tys : from_parse(tys[i]) = {}
    IN  IF bad \/ from_parse(ty) = {} THEN {}
        ELSE {<<f, args, CHOOSE u \in from_parse(ty) : TRUE>>}

\* A module M is [st, g, p]: the PreProgram, or that an error was met.
add_function(M, f, rows) ==
    IF M.st # "ok" THEN M
    ELSE IF rows = {} \/ Named(M.p.headers, f) # {} THEN [M EXCEPT !.st = "error"]
    ELSE [M EXCEPT !.g = add_node(@, f), !.p.headers = @ \cup rows]

AddHeaders(M, d) ==
    IF IsFn(d)
    THEN add_function(M, d[2], SigRow(d[2], SeqMap(d[3], LAMBDA p : p[2]), d[4]))
    ELSE LET N == FoldLeft(LAMBDA m, h : add_function(m, <<d[2], h[1]>>,
                                             SigRow(<<d[2], h[1]>>, h[2], h[3])), M, d[3])
         IN  [N EXCEPT !.p.ext = @ \cup {d[2]}]

\* The edges of the call graph: a call of a function that is not internal
\* and has no node is an error.
AddEdges(M, f, calls) ==
    IF calls \subseteq DOMAIN M.g.nodes
    THEN [M EXCEPT !.g = add_edges(@, f, calls)]
    ELSE [M EXCEPT !.st = "error"]

\* The function f with its translation r
AddCode(M, f, r, rows) ==
    IF r.st # "ok" THEN [M EXCEPT !.st = r.st]
    ELSE [AddEdges(M, f, {g \in r.calls : ~is_internal(rows, g)}) EXCEPT !.p.code = Extend(@, f, r.e)]

add_decl(M, d, rows) ==
    LET params == SeqMap(d[3], LAMBDA p : <<p[1], CHOOSE u \in from_parse(p[2]) : TRUE>>)
    IN  IF M.st # "ok" \/ ~IsFn(d) THEN M
        ELSE AddCode(M, d[2], from_decl(d[2], params, d[5], [rows |-> rows, fns |-> M.p.headers]), rows)

from_str(decls, rows) ==
    LET M == FoldLeft(AddHeaders, [st |-> "ok", g |-> EmptyGraph, p |-> EmptyProgram], decls)
    IN  FoldLeft(LAMBDA m, d : add_decl(m, d, rows), M, decls)

Acyclic(M) == IF M.st = "ok" /\ ~check_for_cycles(M.g) THEN [M EXCEPT !.st = "error"] ELSE M
from_buf(decls, rows) == Acyclic(from_str(decls, rows))

(***************************************************************************)
(* Programs are cut down to what some functions need, and merged.          *)
(***************************************************************************)
cut(p, fs) ==
    [p EXCEPT !.headers = {row \in @ : row[1] \notin fs},
              !.code = [f \in DOMAIN @ \ fs |-> @[f]]]

program(M, top) == IF top = {} THEN M.p ELSE cut(M.p, unreachable(M.g, top))

merge(p, q) ==
    [code |-> [f \in DOMAIN p.code \cup DOMAIN q.code |->
                 IF f \in DOMAIN q.code THEN q.code[f] ELSE p.code[f]],
     headers |-> q.headers \cup {row \in p.headers : Named(q.headers, row[1]) = {}},
     ext |-> p.ext \cup q.ext]

(***************************************************************************)
(* Dead-code elimination rebuilds the call graph from the code.  It goes   *)
(* through the headers in alphabetical order; a function that is called    *)
(* before its turn gets a node, and another one when its turn comes.       *)
(***************************************************************************)
RECURSIVE CallsOf(_)
CallsOf(e) ==
    UNION {CallsOf(Subs(e)[i]) : i \in DOMAIN Subs(e)}
    \cup (IF Kind(e) = "call" THEN {Attr(e)[1]} ELSE {})

aux_deadcode_elim(g, e, own, rows) ==
    LET called == SetToSeq({f \in CallsOf(e) : ~is_internal(rows, f)})
    IN  FoldLeft(LAMBDA h, f : LET k == IF f \in DOMAIN h.nodes THEN h ELSE add_node(h, f)
                               IN  add_edge(k, own, k.nodes[f]),
                 g, called)

\* A header without code, which is that of an external, panics.
deadcode_elim(p, mains, rows) ==
    LET names == SelectSeq(NameOrder, LAMBDA f : Named(p.headers, f) # {})
        Declare(M, f) ==
            IF M.st # "ok" THEN M
            ELSE IF f \notin DOMAIN p.code THEN [M EXCEPT !.st = "panic"]
            ELSE LET g == add_node(M.g, f)
                 IN  [M EXCEPT !.g = aux_deadcode_elim(g, p.code[f], g.nodes[f], rows)]
        M == FoldLeft(Declare, [st |-> "ok", g |-> EmptyGraph, p |-> p], names)
    IN  [st |-> M.st, p |-> program(M, mains)]
=============================================================================

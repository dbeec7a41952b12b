---------------------------- MODULE Specialization ----------------------------
(***************************************************************************)
(* The life of a global policy on the control plane: it is read, it is     *)
(* compiled for one side of a service with a known identity when the       *)
(* service is on-boarded, and the proxy of the service decides with what   *)
(* was compiled (compile_ingress and compile_egress of                     *)
(* armour-control/src/interpret.rs and specialize.rs).                     *)
(*                                                                         *)
(* GlobalSources are the programs considered and Services the identities   *)
(* of the services.  Programs that are not global (module PolicyProgram)   *)
(* live beside them.                                                       *)
(***************************************************************************)
EXTENDS PolicyProgram, Specialize

CONSTANTS GlobalSources, Services

VARIABLES global, compiled, decision

allvars == <<source, pre, policies, call, global, compiled, decision>>

InitAll == Init /\ global = None /\ compiled = None /\ decision = None

\* The signatures of the control plane are in scope of the global policy.
UpdateGlobalPolicy ==
    /\ pre = None /\ global = None
    /\ \E d \in GlobalSources : \E gps \in inner_from(from_buf(d, CPRows), CPRows) :
         global' = [source |-> d, policies |-> gps]
    /\ UNCHANGED <<source, pre, policies, call, compiled, decision>>

\* compile_ingress(Primitive::f, id) or compile_egress(Primitive::f, id)
CompilePolicy ==
    /\ global # None /\ compiled = None
    /\ \E f \in HttpFns \cup TcpFns, f_egress \in BOOLEAN, id \in Services :
         compiled' = [f |-> f, egress |-> f_egress, id |-> id,
                      made |-> compile_egress_ingress(global.policies, f, f_egress, id, CPRows)]
    /\ UNCHANGED <<source, pre, policies, call, global, decision>>

\* The proxy of the service decides about a message.
NoExternals == [x \in {} |-> {}]
Decide ==
    /\ compiled # None /\ compiled.made.st = "ok" /\ decision = None
    /\ \E proto \in DOMAIN compiled.made.policies, ingress \in Ingresses :
         \E vs \in ArgsFor(MessageArgs(compiled.f)) :
           LET p == compiled.made.policies[proto].program
           IN  decision' = [vs |-> vs, ingress |-> ingress,
                            result |-> Result(p, <<compiled.f>>, vs, Message(ingress), NoExternals)]
    /\ UNCHANGED <<source, pre, policies, call, global, compiled>>

NextAll ==
    \/ global = None /\ Next /\ UNCHANGED <<global, compiled, decision>>
    \/ UpdateGlobalPolicy
    \/ CompilePolicy
    \/ Decide

SpecAll == InitAll /\ [][NextAll]_allvars

-----------------------------------------------------------------------------
(***************************************************************************)
(* Properties                                                              *)
(***************************************************************************)
\* The two ends of a message that the service sends or receives.
Ends(v) ==
    LET c == IF v[1] = "Connection" THEN v[2] ELSE v[2].connection
    IN  IF compiled.egress THEN <<IDV(compiled.id), IDV(c.to)>> ELSE <<IDV(c.from), IDV(compiled.id)>>

\* The proxy decides about a message, and changes its metadata, exactly as
\* the global policy says for the identity of the service and the other end
\* of the connection: partial evaluation (peval), the substitution of the
\* identities and dead-code elimination change nothing.
SpecializedAgrees ==
    decision # None =>
        SameResult(decision.result,
                   RefResult(<<compiled.f>>, Ends(decision.vs[1]) \o decision.vs,
                             Message(decision.ingress),
                             [decls |-> global.source, rows |-> DPRows, ext |-> NoExternals]))

\* Variables of e that are bound outside of it.
RECURSIVE Loose(_, _)
Loose(e, d) ==
    IF Kind(e) = "bvar" THEN Attr(e)[2] >= d
    ELSE \E i \in DOMAIN Subs(e) : Loose(Subs(e)[i], Inside(e, d))

\* Compiling never panics, and what it makes stands on its own at the proxy:
\* no variable has lost its binder and no function of the global program,
\* which the proxy does not get, is still called.
SelfContained ==
    compiled # None =>
        /\ compiled.made.st # "panic"
        /\ compiled.made.st = "ok" =>
             \A proto \in DOMAIN compiled.made.policies :
               LET e == compiled.made.policies[proto].program.code[<<compiled.f>>]
               IN  /\ ~Loose(e, 0)
                   /\ \A f \in CallsOf(e) : is_internal(DPRows, f)
=============================================================================

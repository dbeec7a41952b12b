------------------------------- MODULE Policies -------------------------------
(***************************************************************************)
(* Data-plane policies as the proxy uses them (armour-lang/src/policies.rs *)
(* and the status records of armour-proxy).  A policy is the map from the  *)
(* functions of its protocol to an FnPolicy; the program text is           *)
(* abstracted to the arity of the functions it defines, which is what      *)
(* FnPolicy::Args records.                                                 *)
(***************************************************************************)
EXTENDS Naturals

MaxArgs == 255                               \* FnPolicy::Args(u8)

Allow   == [kind |-> "Allow", n |-> 0]
Deny    == [kind |-> "Deny", n |-> 0]
Args(n) == [kind |-> "Args", n |-> n]

FnPolicy == {Allow, Deny} \cup {Args(n) : n \in 0..MaxArgs}

\* FnPolicy::default()
DefaultFnPolicy == Deny

HttpFns == {"allow_rest_request", "allow_rest_response"}
TcpFns  == {"allow_tcp_connection", "on_tcp_disconnect"}

is_ingress(f) == f \in {"allow_rest_request", "allow_tcp_connection"}
is_egress(f)  == f = "allow_rest_response"

\* The numbers of arguments http_policy() and tcp_policy() give a type for.
Arities(f) ==
  CASE f \in HttpFns                -> {0, 1, 2, 4}
    [] f = "allow_tcp_connection"   -> {0, 1, 3}
    [] f = "on_tcp_disconnect"      -> {0, 1, 3, 5}

\* Variant: a function the policy does not mention has no FnPolicy.
fn_get_NoDefault(fp, f) ==
  IF f \in DOMAIN fp THEN fp[f] ELSE [kind |-> "None", n |-> 0]

(***************************************************************************)
(* The fn_policies of a policy: a function on some of the protocol's       *)
(* functions.  fn_get is Policy::get with unwrap_or_default.               *)
(***************************************************************************)
fn_get(fp, f) == IF f \in DOMAIN fp THEN fp[f] ELSE DefaultFnPolicy

allow_all(fns)     == [f \in fns |-> Allow]
deny_all(fns)      == [f \in fns |-> Deny]
allow_egress(fns)  == [f \in {g \in fns : is_egress(g)} |-> Allow]
allow_ingress(fns) == [f \in {g \in fns : is_ingress(g)} |-> Allow]

(***************************************************************************)
(* Policy::from_program: headers gives the arity of each function the      *)
(* program defines.  A signature the protocol does not know is an error, a *)
(* function the program does not define is allowed.                        *)
(***************************************************************************)
program_ok(headers, fns) ==
  \A f \in DOMAIN headers \cap fns : headers[f] \in Arities(f)

from_program(headers, fns) ==
  [f \in fns |-> IF f \in DOMAIN headers THEN Args(headers[f]) ELSE Allow]

(***************************************************************************)
(* Evaluating function f with n arguments finds a function to apply, and   *)
(* applies it fully, only if the policy's program defines it with n        *)
(* parameters (CallExpr in armour-lang/src/interpret.rs); otherwise the    *)
(* evaluation is an error.                                                 *)
(***************************************************************************)
applies(fp, f, n) == fn_get(fp, f) = Args(n)

EvalOutcomes(fp, f, n) ==
  IF applies(fp, f, n) THEN {"true", "false", "error"} ELSE {"error"}
=============================================================================

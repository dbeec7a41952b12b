----------------------------- MODULE MCHttpProxy -----------------------------
(* The HTTP proxy with two requests, one host and one address. *)
EXTENDS HttpProxy, TLC

CONSTANTS h1, i4, la, p80, p1, r1, r2

MCHosts == {h1}
MCIps == {i4}
MCLabels == {la}
MCPorts == {p80, p1}
MCRequests == {r1, r2}
MCClients == {SocketAddr(i4, p1)}
MCTargets == {Uri(h1, None)}
MCIngress == MCTargets

\* Arities of the functions of programs that http_policy() accepts; 4 is meant
\* for global policies.
Programs == {[allow_rest_request |-> 1, allow_rest_response |-> 4],
             [allow_rest_request |-> 2, allow_rest_response |-> 1],
             [allow_rest_request |-> 4]}

ASSUME \A headers \in Programs : program_ok(headers, HttpFns)

MCHttpPolicies == {from_program(headers, HttpFns) : headers \in Programs}
                    \cup {allow_all(HttpFns)}

MCTcpPolicies == {}

=============================================================================

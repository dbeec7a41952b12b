----------------------------- MODULE MCTcpProxy -----------------------------
(* The TCP proxy with two connections between two addresses.  Names and labels *)
(* are left to MCHttpProxy: both proxies ask the same connection(). *)
EXTENDS TcpProxy, TLC

CONSTANTS i4, p1, p2, c1, c2

MCHosts == {}
MCIps == {i4}
MCLabels == {}
MCPorts == {p1, p2}
MCConns == {c1, c2}
MCOneConn == {c1}
MCPeers == {SocketAddr(i4, p2)}
MCDestinations == {SocketAddr(i4, p1)}
MCIngress == {}
MCChunkSizes == {1}

\* Arities of the functions of programs that tcp_policy() accepts, the ones that
\* the handlers do not expect included.
Programs == {[allow_tcp_connection |-> 1, on_tcp_disconnect |-> 3],
             [allow_tcp_connection |-> 0, on_tcp_disconnect |-> 1]}

ASSUME \A headers \in Programs : program_ok(headers, TcpFns)

MCTcpPolicies == {from_program(headers, TcpFns) : headers \in Programs}
                   \cup {allow_ingress(TcpFns)}

MCHttpPolicies == {}

=============================================================================

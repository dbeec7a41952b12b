---------------------------- MODULE MCControlPlane ----------------------------
(* One host with one service, or two services whose labels concatenate alike. *)
EXTENDS ControlPlane, TLC

CONSTANTS v0, v1, r1, r2

S1 == [host |-> <<"h">>, service |-> <<"a", "b">>]
S2 == [host |-> <<"h", "a">>, service |-> <<"b">>]

MCServices == {S1}
MCTwoServices == {S1, S2}
MCHosts == {s.host : s \in Services}
MCVersions == {v0, v1}
MCSlots == {r1, r2}
MCOneSlot == {r1}
Symm == Permutations(MCSlots)
=============================================================================

--------------------------------- MODULE Gate ---------------------------------
(***************************************************************************)
(* What a proxy promises, whatever its protocol: an abstract specification *)
(* that HttpProxy and TcpProxy are shown to implement.                     *)
(*                                                                         *)
(* Messages (HTTP requests, TCP connections) pass a fixed number of        *)
(* checks, one after the other, or leave.  The policy in force may be      *)
(* replaced at any moment, and the promise is about exactly that: a check  *)
(* is passed only because a policy that was in force while the message was *)
(* inside allows everything at that check, or has judged this very         *)
(* message.  A policy that the message did not meet never lets it through, *)
(* a verdict is never taken over from another policy or another message,   *)
(* and a message that left does not come back.  That nobody waits for ever *)
(* depends on the protocol and is stated by each proxy for itself.         *)
(***************************************************************************)
EXTENDS Naturals

CONSTANTS
  Messages,
  Checks,         \* the number of checks of a message
  Policies,
  Answer(_, _)    \* what a policy says at a check: "allow", "deny" or "judge"

VARIABLES
  up,       \* the gate works
  policy,   \* the policy in force
  place,    \* [Messages -> "new", "waiting", "inside" or "left"]
  passed,   \* [Messages -> number of checks passed]
  judged,   \* [Messages -> checks passed by a verdict]
  since     \* [Messages -> policies it relies on, in force since it was let inside]

vars == <<up, policy, place, passed, judged, since>>

Init ==
  /\ up = TRUE
  /\ policy \in Policies
  /\ place = [m \in Messages |-> "new"]
  /\ passed = [m \in Messages |-> 0]
  /\ judged = [m \in Messages |-> {}]
  /\ since = [m \in Messages |-> {}]

Held(m) == place[m] = "inside" /\ passed[m] < Checks

\* Another policy is put in force; the messages inside may rely on it or not.
Install(p) ==
  /\ up
  /\ policy' = p
  /\ \E M \in SUBSET {m \in Messages : Held(m)} :
       since' = [m \in Messages |-> IF m \in M THEN since[m] \cup {p} ELSE since[m]]
  /\ UNCHANGED <<up, place, passed, judged>>

Stop ==
  /\ up
  /\ up' = FALSE
  /\ UNCHANGED <<policy, place, passed, judged, since>>

Arrive(m) ==
  /\ up
  /\ place[m] = "new"
  /\ place' = [place EXCEPT ![m] = "waiting"]
  /\ UNCHANGED <<up, policy, passed, judged, since>>

\* The next check is passed on account of a policy of S, or by a verdict.
Grant(m, S) ==
  LET k == passed[m] + 1
  IN  /\ passed' = [passed EXCEPT ![m] = k]
      /\ \/ /\ \E p \in S : Answer(p, k) = "allow"
            /\ UNCHANGED judged
         \/ /\ \E p \in S : Answer(p, k) = "judge"
            /\ judged' = [judged EXCEPT ![m] = @ \cup {k}]

\* The message meets the policy in force, which may let it through at once.
Admit(m) ==
  /\ up
  /\ place[m] = "waiting"
  /\ place' = [place EXCEPT ![m] = "inside"]
  /\ \/ Grant(m, {policy})
     \/ UNCHANGED <<passed, judged>>
  /\ since' = [since EXCEPT ![m] = IF passed'[m] < Checks THEN {policy} ELSE {}]
  /\ UNCHANGED <<up, policy>>

\* The message passes a check; the last one may be the end of its way.
Pass(m) ==
  /\ up
  /\ Held(m)
  /\ Grant(m, since[m])
  /\ place' \in {place, [place EXCEPT ![m] = IF passed'[m] = Checks THEN "left" ELSE @]}
  /\ since' = [since EXCEPT ![m] = IF passed'[m] < Checks THEN @ ELSE {}]
  /\ UNCHANGED <<up, policy>>

\* The message is refused, fails, or is given up.
Leave(m) ==
  /\ up
  /\ place[m] # "left"
  /\ place' = [place EXCEPT ![m] = "left"]
  /\ since' = [since EXCEPT ![m] = {}]
  /\ UNCHANGED <<up, policy, passed, judged>>

Next ==
  \/ \E p \in Policies : Install(p)
  \/ Stop
  \/ \E m \in Messages : Arrive(m) \/ Admit(m) \/ Pass(m) \/ Leave(m)

Safe == Init /\ [][Next]_vars
===============================================================================

------------------------------ MODULE MCDataHost ------------------------------
(***************************************************************************)
(* The host with one proxy process, an on-board request and two commands.  *)
(* DataHostProofs has any number of each.                                  *)
(***************************************************************************)
EXTENDS DataHost

CONSTANTS q1, la, h0, h1, hx, t1

MCProcs == {q1}
MCLabels == {la}
MCHashes == {h0, h1, hx}
MCOversized == {hx}
MCTasks == {t1}
=============================================================================

----------------------------- MODULE AsyncRunsMC ----------------------------
(***************************************************************************)
(* Instances of AsyncRuns for TLC.                                         *)
(***************************************************************************)
EXTENDS AsyncRuns

CONSTANTS q1, q2

TwoRuns == {q1, q2}
AllFaults == FaultKinds
=============================================================================

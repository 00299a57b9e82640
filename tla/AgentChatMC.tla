----------------------------- MODULE AgentChatMC ----------------------------
(***************************************************************************)
(* Instances of AgentChat for TLC.                                         *)
(***************************************************************************)
EXTENDS AgentChat

CONSTANTS t1, t2, e1, auto, verified, same

TwoTurns == {t1, t2}
OneStream == {t1}
OneEdit == {e1}
AllFaults == FaultKinds
\* Turns that ask the same are the hard case for the context.
SameQuestion == {same}
TwoModes == {auto, verified}
\* One turn that takes the mode it finds, one that asks for a mode, and an edit.
OneOfEach ==
  {[s \in {t1, t2, e1} |-> CASE s = t1 -> None [] s = t2 -> verified [] s = e1 -> auto]}
=============================================================================

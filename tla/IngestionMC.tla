---------------------------- MODULE IngestionMC ----------------------------
(***************************************************************************)
(* Instances of Ingestion for TLC.                                         *)
(***************************************************************************)
EXTENDS IngestionRefinement, TLC

CONSTANTS u1, u2, r1, r2, readable, broken

NoFaults == {}
AllFaults == FaultKinds
\* The failures a supervised deployment recovers from by itself.
RecoverableFaults == {"storage", "provider", "vector", "crash"}

OneUpload == {u1}
TwoUploads == {u1, u2}
NoReindex == {}
OneReindex == {r1}
TwoReindexes == {r1, r2}
OneContent == {readable}
TwoContents == {readable, broken}
BrokenContent == {broken}
NoContent == {}

\* Uploads are interchangeable, and so are reindexes: no property names one.
Symmetry == Permutations(Uploads) \cup Permutations(Reindexes)
=============================================================================

--------------------------- MODULE QueryRefinement --------------------------
(***************************************************************************)
(* QueryExecution implements QueryContract: an execution as its caller     *)
(* sees it, with an answer graded passed or degraded only if it deserves   *)
(* the grade.                                                              *)
(***************************************************************************)
EXTENDS QueryExecution

Phase ==
  IF pc = "admit" THEN "idle"
  ELSE IF pc = "finalize" THEN "persisted"
  ELSE IF pc = "conflict" THEN "refused"
  ELSE IF pc = "crashed" THEN "lost"
  ELSE IF pc \in Final THEN pc
  ELSE "running"

Deserved == PassedMeansVerified /\ DegradedSaysWhy /\ CitesOwnEvidence

Grade ==
  IF trace = NoResponse THEN "none" ELSE IF Deserved THEN trace.status ELSE "undeserved"

Contract == INSTANCE QueryContract WITH
  Queries <- {"query"},
  phase <- [q \in {"query"} |-> Phase],
  answer <- [q \in {"query"} |-> Grade]

\* The execution of a query, with its retries, corrections and recoveries,
\* keeps its promise to the caller.
ImplementsContract == Contract!ContractSpec
=============================================================================

------------------------ MODULE IngestionRefinement ------------------------
(***************************************************************************)
(* Ingestion implements JobLifecycle: the statuses are the table's, a      *)
(* document with chunk rows is searchable, and a job has its document from *)
(* the moment its row exists.                                              *)
(***************************************************************************)
EXTENDS Ingestion

Lifecycle == INSTANCE JobLifecycle WITH
  Jobs <- Requests,
  Docs <- Uploads,
  NoDoc <- None,
  status <- jobStatus,
  docOf <- [j \in Requests |-> IF jobStatus[j] = "absent" THEN None ELSE JobDoc(j)],
  searchable <- Searchable

\* The ingestion system, with its duplicated messages, crashes and races, keeps
\* the promise of the jobs table.
ImplementsLifecycle == Lifecycle!LifecycleSpec
=============================================================================

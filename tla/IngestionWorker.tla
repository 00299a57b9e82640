-------------------------- MODULE IngestionWorker --------------------------
(***************************************************************************)
(* run_standard_ingestion_pipeline as the ARQ workers run it, one delivery *)
(* per message.  A delivery of message m works for job reply[m] on its     *)
(* document and moves along                                                *)
(*                                                                         *)
(*   queued -> extract -> chunk -> dense -> embed -> upsert                *)
(*          -> sparse -> write -> delete -> insert -> finalize -> refresh  *)
(*          -> done                                                        *)
(*                                                                         *)
(* or, from anywhere, to fail and done.  A database transaction that reads *)
(* and commits without waiting for anything else in between is one action. *)
(***************************************************************************)
EXTENDS IngestionState

\* The states of a delivery that has claimed its job and not given it up.
Processing ==
  {"extract", "chunk", "dense", "embed", "upsert", "sparse", "write", "delete",
   "insert", "finalize", "refresh"}
\* Those with mark_ingestion_job_failed ahead: in the pipeline's handler; in
\* run_ingestion_job's, and in the pipeline's only if that one raises; or in both,
\* because run_ingestion_job marks an unexpected error and raises it again.
Failing == {"fail", "failStage", "failTwice"}
RunStates == {"absent", "queued", "done"} \cup Processing \cup Failing

JobOf(m) == reply[m]
DocOf(m) == JobDoc(JobOf(m))

Goto(m, s) == run' = [run EXCEPT ![m] = s]
\* The open transaction of a delivery ends, by a rollback or a commit.
EndTransaction(m) == deleted' = [deleted EXCEPT ![m] = {}]

\* Variant for testing OneRunPerJob: the claim does not look at the status.
ClaimAnything(m) ==
  /\ run[m] = "queued"
  /\ jobStatus' = [jobStatus EXCEPT ![JobOf(m)] = "running"]
  /\ attempts' = [attempts EXCEPT ![JobOf(m)] = @ + 1]
  /\ docStatus' = [docStatus EXCEPT ![DocOf(m)] = "processing"]
  /\ Goto(m, "extract")
  /\ UNCHANGED <<requestVars, indexVars, seen, deleted, objects, faults>>

\* Variant for testing ImplementsLifecycle: a failed job can be claimed again.
ClaimFailedAgain(m) ==
  /\ run[m] = "queued"
  /\ jobStatus[JobOf(m)] \in {"queued", "failed"}
  /\ ClaimAnything(m)

\* claim_ingestion_job: the row is locked, only a queued job can be claimed.
Claim(m) ==
  /\ run[m] = "queued"
  /\ jobStatus[JobOf(m)] = "queued"
  /\ jobStatus' = [jobStatus EXCEPT ![JobOf(m)] = "running"]
  /\ attempts' = [attempts EXCEPT ![JobOf(m)] = @ + 1]
  /\ docStatus' = [docStatus EXCEPT ![DocOf(m)] = "processing"]
  /\ Goto(m, "extract")
  /\ UNCHANGED <<requestVars, indexVars, seen, deleted, objects, faults>>

\* The pipeline treats a refused claim, like any error, as a failure of the job.
ClaimFails(m) ==
  /\ run[m] = "queued"
  /\ \/ jobStatus[JobOf(m)] # "queued" /\ UNCHANGED faults
     \/ Fault("database")
  /\ Goto(m, "fail")
  /\ UNCHANGED <<requestVars, statusVars, indexVars, seen, deleted, objects>>

\* Download the source, extract its text, upload it, persist the metadata.
Extract(m) ==
  /\ run[m] = "extract"
  /\ <<DocOf(m), "source">> \in objects
  /\ content[DocOf(m)] \notin Unreadable
  /\ objects' = objects \cup {<<DocOf(m), "text">>}
  /\ Goto(m, "chunk")
  /\ UNCHANGED <<requestVars, statusVars, indexVars, seen, deleted, faults>>

\* Text that does not decode or is empty is an IngestionProcessorError, a file
\* the parser cannot read any other exception.  The commit of the metadata
\* fails after the text was uploaded.
ExtractFails(m) ==
  /\ run[m] = "extract"
  /\ \/ /\ content[DocOf(m)] \in Unreadable \/ <<DocOf(m), "source">> \notin objects
        /\ \E s \in {"failStage", "failTwice"} : Goto(m, s)
        /\ UNCHANGED <<objects, faults>>
     \/ /\ Fault("storage")
        /\ Goto(m, "failStage")
        /\ UNCHANGED objects
     \/ /\ Fault("database")
        /\ content[DocOf(m)] \notin Unreadable
        /\ objects' = objects \cup {<<DocOf(m), "text">>}
        /\ Goto(m, "failTwice")
  /\ UNCHANGED <<requestVars, statusVars, indexVars, seen, deleted>>

\* load_ingestion_job_context with allowed_statuses={RUNNING}.
StillRunning(m) == jobStatus[JobOf(m)] = "running"

StageRefused(m) ==
  /\ run[m] \in {"chunk", "dense", "sparse"}
  /\ ~StillRunning(m)
  /\ Goto(m, "fail")
  /\ UNCHANGED <<requestVars, statusVars, indexVars, seen, deleted, objects, faults>>

\* chunk_extracted_document; it writes nothing but the manifest, whose bytes
\* depend on the text alone, so the wait after the check needs no state.
Chunk(m) ==
  /\ run[m] = "chunk"
  /\ StillRunning(m)
  /\ objects' = objects \cup {<<DocOf(m), "manifest">>}
  /\ Goto(m, "dense")
  /\ UNCHANGED <<requestVars, statusVars, indexVars, seen, deleted, faults>>

\* The dense stage loads its context, then waits for the manifest and for the
\* embeddings.
LoadDense(m) ==
  /\ run[m] = "dense"
  /\ StillRunning(m)
  /\ Goto(m, "embed")
  /\ UNCHANGED <<requestVars, statusVars, indexVars, seen, deleted, objects, faults>>

\* delete_dense_points_for_document, which Qdrant refuses on a collection that
\* does not exist.
DeletePoints(m) ==
  /\ run[m] = "embed"
  /\ collection
  /\ points' = points \ {DocOf(m)}
  /\ Goto(m, "upsert")
  /\ UNCHANGED <<requestVars, statusVars, rows, collection, seen, deleted, objects, faults>>

\* Variant for testing SoleJobSearchable: a failing upsert is only logged.
UpsertPointsOrLog(m) ==
  /\ run[m] = "upsert"
  /\ \/ points' = points \cup {DocOf(m)} /\ collection' = TRUE /\ UNCHANGED faults
     \/ Fault("vector") /\ UNCHANGED <<points, collection>>
  /\ Goto(m, "sparse")
  /\ UNCHANGED <<requestVars, statusVars, rows, seen, deleted, objects>>

\* ensure_qdrant_collection and the upsert.
UpsertPoints(m) ==
  /\ run[m] = "upsert"
  /\ points' = points \cup {DocOf(m)}
  /\ collection' = TRUE
  /\ Goto(m, "sparse")
  /\ UNCHANGED <<requestVars, statusVars, rows, seen, deleted, objects, faults>>

\* The sparse stage loads its context, and with it the document, in the
\* session it will commit with, then waits for the manifest.
LoadSparse(m) ==
  /\ run[m] = "sparse"
  /\ StillRunning(m)
  /\ seen' = [seen EXCEPT ![m] = docStatus[DocOf(m)]]
  /\ Goto(m, "write")
  /\ UNCHANGED <<requestVars, statusVars, indexVars, deleted, objects, faults>>

\* The open transactions of other deliveries that hold row locks on the document.
Rivals(m) ==
  {n \in Requests \ {m} : run[n] \in {"insert", "finalize"} /\ DocOf(n) = DocOf(m)}

\* The DELETE starts and sees the rows committed by then (READ COMMITTED).
BeginDelete(m) ==
  /\ run[m] = "write"
  /\ deleted' = [deleted EXCEPT ![m] = Versions(DocOf(m))]
  /\ Goto(m, "delete")
  /\ UNCHANGED <<requestVars, statusVars, indexVars, seen, objects, faults>>

\* It waits for a rival that has deleted one of these rows and, if that one
\* committed, skips it; rows inserted since it started it does not see.
EndDelete(m) ==
  /\ run[m] = "delete"
  /\ \A n \in Rivals(m) : deleted[n] \cap deleted[m] = {}
  /\ deleted' = [deleted EXCEPT ![m] = @ \cap Versions(DocOf(m))]
  /\ Goto(m, "insert")
  /\ UNCHANGED <<requestVars, statusVars, indexVars, seen, objects, faults>>

\* Variant for testing RowsReplacedWhole: no unique constraint on the rows.
InsertUnchecked(m) ==
  /\ run[m] = "insert"
  /\ Goto(m, "finalize")
  /\ UNCHANGED <<requestVars, statusVars, indexVars, seen, deleted, objects, faults>>

\* The INSERT checks uq_document_chunks_tenant_doc_chunk_index: it waits for a
\* rival that has inserted rows of the document, or deleted those it meets, and
\* fails on any that are there and that its own transaction did not delete.
Insert(m) ==
  LET inTheWay == Versions(DocOf(m)) \ deleted[m]
  IN /\ run[m] = "insert"
     /\ \A n \in Rivals(m) : run[n] = "insert" /\ deleted[n] \cap inTheWay = {}
     /\ \/ /\ inTheWay = {}
           /\ Goto(m, "finalize")
           /\ UNCHANGED deleted
        \/ /\ inTheWay # {}
           /\ Goto(m, "fail")
           /\ EndTransaction(m)
     /\ UNCHANGED <<requestVars, statusVars, indexVars, seen, objects, faults>>

\* Variant for testing IInv: the job is marked in a session of its
\* own and the session of the rows is never committed.
FinalizeWithoutRows(m) ==
  /\ run[m] = "finalize"
  /\ jobStatus' = [jobStatus EXCEPT ![JobOf(m)] = "indexed"]
  /\ docStatus' = [docStatus EXCEPT ![DocOf(m)] = "indexed"]
  /\ EndTransaction(m)
  /\ Goto(m, "refresh")
  /\ UNCHANGED <<requestVars, attempts, indexVars, seen, objects, faults>>

\* mark_ingestion_job_indexed, whatever the job's status is by now, commits
\* the rows with both statuses.  A session that still holds the document as it
\* was loaded, indexed, emits no UPDATE for it; one that has dropped it from its
\* weak identity map reads it again.
Finalize(m) ==
  LET d == DocOf(m)
  IN /\ run[m] = "finalize"
     /\ rows' = (rows \ ({d} \X deleted[m])) \cup {<<d, m>>}
     /\ jobStatus' = [jobStatus EXCEPT ![JobOf(m)] = "indexed"]
     /\ \/ docStatus' = [docStatus EXCEPT ![d] = "indexed"]
        \/ seen[m] = "indexed" /\ UNCHANGED docStatus
     /\ EndTransaction(m)
     /\ Goto(m, "refresh")
     /\ UNCHANGED <<requestVars, attempts, points, collection, seen, objects, faults>>

\* session.refresh(job), and the assertion that the job is INDEXED.
Refresh(m) ==
  /\ run[m] = "refresh"
  /\ Goto(m, IF jobStatus[JobOf(m)] = "indexed" THEN "done" ELSE "fail")
  /\ UNCHANGED <<requestVars, statusVars, indexVars, seen, deleted, objects, faults>>

\* Variant for testing JobSettles: the error of a stage is only logged.
StageFailsQuietly(m) ==
  /\ run[m] \in {"chunk", "embed", "upsert", "write"}
  /\ Fault("storage")
  /\ Goto(m, "done")
  /\ UNCHANGED <<requestVars, statusVars, indexVars, seen, deleted, objects>>

\* An exception of a later stage: the object store, the embedding provider,
\* Qdrant (or its missing collection), or the database with its rollback.
StageFails(m) ==
  /\ \/ run[m] \in {"chunk", "embed", "write"} /\ Fault("storage")
     \/ run[m] = "embed" /\ Fault("provider")
     \/ run[m] = "embed" /\ ~collection /\ UNCHANGED faults
     \/ run[m] \in {"embed", "upsert"} /\ Fault("vector")
     \/ run[m] \in {"chunk", "dense", "sparse", "delete", "insert", "finalize",
                     "refresh"}
        /\ Fault("database")
  /\ Goto(m, "fail")
  /\ EndTransaction(m)
  /\ UNCHANGED <<requestVars, statusVars, indexVars, seen, objects>>

\* mark_ingestion_job_failed, whatever the job's status is by now.
MarkFailed(m) ==
  /\ run[m] \in Failing
  /\ jobStatus' = [jobStatus EXCEPT ![JobOf(m)] = "failed"]
  /\ docStatus' = [docStatus EXCEPT ![DocOf(m)] = "failed"]
  /\ Goto(m, IF run[m] = "failTwice" THEN "fail" ELSE "done")
  /\ UNCHANGED <<requestVars, attempts, indexVars, seen, deleted, objects, faults>>

\* Its own failure in run_ingestion_job reaches the pipeline's handler, and
\* there ARQ, which does not retry.
MarkFailedFails(m) ==
  /\ run[m] \in Failing
  /\ Fault("database")
  /\ Goto(m, IF run[m] = "fail" THEN "done" ELSE "fail")
  /\ UNCHANGED <<requestVars, statusVars, indexVars, seen, deleted, objects>>

\* The worker dies or is stopped in the middle of a delivery: its transactions
\* are rolled back and ARQ delivers the message again (at most max_tries = 5
\* times, more than the failures a behaviour contains).
Interrupt(m) ==
  /\ run[m] \in Processing \cup Failing
  /\ Fault("crash")
  /\ Goto(m, "queued")
  /\ EndTransaction(m)
  /\ UNCHANGED <<requestVars, statusVars, indexVars, seen, objects>>

\* job_timeout cancels the delivery at an await.  No except clause of the
\* pipeline catches CancelledError, and ARQ gives the message up.
\* delete_dense_points_for_document and the upsert have no await between them.
TimeOut(m) ==
  /\ run[m] \in (Processing \cup Failing) \ {"upsert"}
  /\ Fault("timeout")
  /\ Goto(m, "done")
  /\ EndTransaction(m)
  /\ UNCHANGED <<requestVars, statusVars, indexVars, seen, objects>>

\* What a live worker does with a delivery, handled errors included.
DeliveryStep(m) ==
  \/ Claim(m)
  \/ ClaimFails(m)
  \/ Extract(m)
  \/ ExtractFails(m)
  \/ StageRefused(m)
  \/ Chunk(m)
  \/ LoadDense(m)
  \/ DeletePoints(m)
  \/ UpsertPoints(m)
  \/ LoadSparse(m)
  \/ BeginDelete(m)
  \/ EndDelete(m)
  \/ Insert(m)
  \/ Finalize(m)
  \/ Refresh(m)
  \/ StageFails(m)
  \/ MarkFailed(m)
  \/ MarkFailedFails(m)
=============================================================================

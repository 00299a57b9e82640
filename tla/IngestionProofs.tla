-------------------------- MODULE IngestionProofs --------------------------
(***************************************************************************)
(* Proofs, for every set of requests and contents, every kind and number   *)
(* of failures, of the safety of Ingestion.                                *)
(***************************************************************************)
EXTENDS IngestionRefinement, FiniteSetTheorems, TLAPS

USE DEF Requests

\* The start of a transaction is a number.
LEMMA NowType == Now \in Nat
<1>1. IsFiniteSet(Requests)
  BY RequestsAssumption, FS_Union
<1>2. IsFiniteSet({r \in Requests : rpc[r] # "idle"})
  BY <1>1, FS_Subset
<1> QED
  BY <1>2, FS_CardinalityType DEF Now

\* The steps of the API keep the types.
LEMMA TypeDocuments ==
  ASSUME TypeOK, Wired, ApiStep
  PROVE  TypeOK'
<1> USE RequestsAssumption, FaultsAssumption DEF TypeOK, RequestStates, RunStates,
        ObjectKinds, DocStatuses, JobStatuses, requestVars, statusVars, indexVars, workerVars
<1>1. ASSUME NEW u \in Uploads, NEW c \in Contents, BeginUpload(u, c) PROVE TypeOK'
  BY <1>1, NowType DEF BeginUpload
<1>2. ASSUME NEW r \in Reindexes, NEW d \in Uploads, BeginReindex(r, d) PROVE TypeOK'
  BY <1>2, NowType DEF BeginReindex, StoredDocuments
<1>3. ASSUME NEW u \in Uploads, Lookup(u) PROVE TypeOK'
  BY <1>3 DEF Lookup, SameContent
<1>3a. ASSUME NEW u \in Uploads, AnswerExisting(u) PROVE TypeOK'
  BY <1>3a DEF AnswerExisting
<1>4. ASSUME NEW u \in Uploads, StoreSource(u) PROVE TypeOK'
  BY <1>4 DEF StoreSource, Fault
<1>5. ASSUME NEW u \in Uploads, CommitUpload(u) PROVE TypeOK'
  BY <1>5 DEF CommitUpload
<1>6. ASSUME NEW u \in Uploads, CommitUploadFails(u) PROVE TypeOK'
  BY <1>6 DEF CommitUploadFails, Fault
<1>7. ASSUME NEW u \in Uploads, DeleteSource(u) PROVE TypeOK'
  BY <1>7 DEF DeleteSource, Fault
<1>8. ASSUME NEW r \in Reindexes, CheckLatestJob(r) PROVE TypeOK'
  BY <1>8 DEF CheckLatestJob
<1>9. ASSUME NEW r \in Reindexes, CommitReindex(r) PROVE TypeOK'
  BY <1>9 DEF CommitReindex
<1>10. ASSUME NEW r \in Reindexes, CommitReindexFails(r) PROVE TypeOK'
  BY <1>10 DEF CommitReindexFails, Fault
<1>11. ASSUME NEW r \in Requests, EnqueueStep(r) PROVE TypeOK'
  BY <1>11 DEF EnqueueStep, Enqueue, EnqueueFails, Fault
<1> QED
  BY <1>1, <1>2, <1>3, <1>3a, <1>4, <1>5, <1>6, <1>7, <1>8, <1>9, <1>10, <1>11
  DEF ApiStep, Arrival, UploadStep, ReindexStep

\* The message of a delivery names a job whose document is stored.
LEMMA DeliveryWired ==
  ASSUME Wired, NEW m \in Requests, run[m] # "absent"
  PROVE  /\ JobOf(m) \in Requests
         /\ DocOf(m) \in Uploads
         /\ docStatus[DocOf(m)] # "absent"
         /\ jobStatus[JobOf(m)] # "absent"
  BY DEF Wired, JobOf, DocOf, StoredDocuments

\* The steps of the workers keep the types.
LEMMA TypeWorker ==
  ASSUME TypeOK, Wired,
         NEW m \in Requests, WorkerStep(m)
  PROVE  TypeOK'
<1> USE RequestsAssumption, FaultsAssumption DEF TypeOK, RunStates, Processing, Failing,
        ObjectKinds, DocStatuses, JobStatuses, requestVars, statusVars, indexVars,
        workerVars, Goto, EndTransaction
<1>0. run[m] # "absent" => JobOf(m) \in Requests /\ DocOf(m) \in Uploads
  BY DeliveryWired
<1>1. CASE Claim(m)
  BY <1>0, <1>1 DEF Claim
<1>2. CASE ClaimFails(m)
  BY <1>2 DEF ClaimFails, Fault
<1>3. CASE Extract(m)
  BY <1>0, <1>3 DEF Extract
<1>4. CASE ExtractFails(m)
  BY <1>0, <1>4 DEF ExtractFails, Fault
<1>5. CASE StageRefused(m)
  BY <1>5 DEF StageRefused
<1>6. CASE Chunk(m)
  BY <1>0, <1>6 DEF Chunk
<1>7. CASE LoadDense(m)
  BY <1>7 DEF LoadDense
<1>8. CASE DeletePoints(m)
  BY <1>8 DEF DeletePoints
<1>9. CASE UpsertPoints(m)
  BY <1>0, <1>9 DEF UpsertPoints
<1>10. CASE LoadSparse(m)
  BY <1>0, <1>10 DEF LoadSparse
<1>11a. CASE BeginDelete(m)
  BY <1>0, <1>11a DEF BeginDelete, Versions
<1>11b. CASE EndDelete(m)
  BY <1>0, <1>11b DEF EndDelete
<1>11c. CASE Insert(m)
  BY <1>0, <1>11c DEF Insert
<1>12. CASE Finalize(m)
  BY <1>0, <1>12 DEF Finalize
<1>13. CASE Refresh(m)
  BY <1>13 DEF Refresh
<1>14. CASE StageFails(m)
  BY <1>14 DEF StageFails, Fault
<1>15. CASE MarkFailed(m)
  BY <1>0, <1>15 DEF MarkFailed
<1>16. CASE MarkFailedFails(m)
  BY <1>16 DEF MarkFailedFails, Fault
<1>17. CASE Interrupt(m)
  BY <1>17 DEF Interrupt, Fault
<1>18. CASE TimeOut(m)
  BY <1>18 DEF TimeOut, Fault
<1> QED
  BY <1>1, <1>2, <1>3, <1>4, <1>5, <1>6, <1>7, <1>8, <1>9, <1>10, <1>11a, <1>11b,
     <1>11c, <1>12, <1>13, <1>14, <1>15, <1>16, <1>17, <1>18 DEF WorkerStep, DeliveryStep

\* The steps of the API keep requests, messages, jobs and documents wired.
LEMMA WiredDocuments ==
  ASSUME TypeOK, Wired, ApiStep
  PROVE  Wired'
<1> USE RequestsAssumption DEF TypeOK, Wired, StoredDocuments, JobDoc, requestVars, statusVars, indexVars, workerVars
<1>1. ASSUME NEW u \in Uploads, NEW c \in Contents, BeginUpload(u, c) PROVE Wired'
  BY <1>1 DEF BeginUpload
<1>2. ASSUME NEW r \in Reindexes, NEW d \in Uploads, BeginReindex(r, d) PROVE Wired'
  BY <1>2 DEF BeginReindex
<1>3. ASSUME NEW u \in Uploads, Lookup(u) PROVE Wired'
  BY <1>3 DEF Lookup, SameContent
<1>3a. ASSUME NEW u \in Uploads, AnswerExisting(u) PROVE Wired'
  BY <1>3a DEF AnswerExisting, IsLatestJob, JobsOf
<1>4. ASSUME NEW u \in Uploads, StoreSource(u) PROVE Wired'
  BY <1>4 DEF StoreSource
<1>5. ASSUME NEW u \in Uploads, CommitUpload(u) PROVE Wired'
  BY <1>5 DEF CommitUpload, SameContent
<1>6. ASSUME NEW u \in Uploads, CommitUploadFails(u) PROVE Wired'
  BY <1>6 DEF CommitUploadFails
<1>7. ASSUME NEW u \in Uploads, DeleteSource(u) PROVE Wired'
  BY <1>7 DEF DeleteSource
<1>8. ASSUME NEW r \in Reindexes, CheckLatestJob(r) PROVE Wired'
  BY <1>8 DEF CheckLatestJob, IsLatestJob, JobsOf
<1>9. ASSUME NEW r \in Reindexes, CommitReindex(r) PROVE Wired'
  BY <1>9 DEF CommitReindex
<1>10. ASSUME NEW r \in Reindexes, CommitReindexFails(r) PROVE Wired'
  BY <1>10 DEF CommitReindexFails
<1>11. ASSUME NEW r \in Requests, EnqueueStep(r) PROVE Wired'
  BY <1>11 DEF EnqueueStep, Enqueue, EnqueueFails
<1> QED
  BY <1>1, <1>2, <1>3, <1>3a, <1>4, <1>5, <1>6, <1>7, <1>8, <1>9, <1>10, <1>11
  DEF ApiStep, Arrival, UploadStep, ReindexStep

\* Only Finalize commits chunk rows.
LEMMA RowsStep ==
  ASSUME NEW m \in Requests, WorkerStep(m)
  PROVE  UNCHANGED rows \/ Finalize(m)
  BY DEF WorkerStep, DeliveryStep, Claim, ClaimFails, Extract, ExtractFails, StageRefused,
     Chunk, LoadDense, DeletePoints, UpsertPoints, LoadSparse, BeginDelete, EndDelete, Insert,
     Refresh, StageFails, MarkFailed, MarkFailedFails, Interrupt, TimeOut, indexVars

\* What is searchable is what has rows.
LEMMA RowsFrame ==
  UNCHANGED rows => Searchable' = Searchable /\ \A d : Versions(d)' = Versions(d)
  BY DEF Searchable, Versions

\* Finalize replaces the rows its transaction deleted, of its own document.
LEMMA RowsCommitted ==
  ASSUME TypeOK, Wired, NEW m \in Requests, Finalize(m)
  PROVE  /\ Versions(DocOf(m))' = (Versions(DocOf(m)) \ deleted[m]) \cup {m}
         /\ \A d \in Uploads : d # DocOf(m) => Versions(d)' = Versions(d)
         /\ Searchable' = Searchable \cup {DocOf(m)}
<1> DEFINE d0 == DocOf(m)
<1>1. d0 \in Uploads
  BY DeliveryWired DEF Finalize
<1>2. rows' = (rows \ ({d0} \X deleted[m])) \cup {<<d0, m>>}
  BY DEF Finalize
<1>3. deleted[m] \subseteq Requests
  BY DEF TypeOK
<1>4. {n \in Requests : <<d0, n>> \in rows'} = (Versions(d0) \ deleted[m]) \cup {m}
  BY <1>2, <1>3 DEF Versions
<1>5. \A d \in Uploads :
        d # d0 => {n \in Requests : <<d, n>> \in rows'} = Versions(d)
  BY <1>2, <1>3 DEF Versions
<1>6. d0' = d0
  BY DEF Finalize, requestVars, DocOf, JobOf, JobDoc
<1>7. /\ Versions(DocOf(m))' = (Versions(d0) \ deleted[m]) \cup {m}
      /\ \A d \in Uploads : d # d0 => Versions(d)' = Versions(d)
  BY <1>4, <1>5, <1>6 DEF Versions
<1>8. Searchable' = Searchable \cup {d0}
  BY <1>1, <1>4, <1>5 DEF Searchable, Versions
<1> QED
  BY <1>7, <1>8

\* A worker leaves the requests alone, creates and removes neither a document nor
\* a job, and only takes a message that is there.
LEMMA WorkerFrame ==
  ASSUME TypeOK, Wired,
         NEW m \in Requests, WorkerStep(m)
  PROVE  /\ UNCHANGED requestVars
         /\ StoredDocuments' = StoredDocuments
         /\ \A j \in Requests : jobStatus'[j] = "absent" <=> jobStatus[j] = "absent"
         /\ \A n \in Requests : run'[n] = "absent" <=> run[n] = "absent"
         /\ objects \subseteq objects' /\ Searchable \subseteq Searchable'
<1>00. Searchable \subseteq Searchable'
  BY RowsStep, RowsFrame, RowsCommitted
<1> USE <1>00, RequestsAssumption DEF TypeOK, StoredDocuments, Goto, Processing, Failing,
        requestVars, statusVars, indexVars, workerVars
<1>0. run[m] # "absent" => /\ JobOf(m) \in Requests
                          /\ DocOf(m) \in Uploads
                          /\ docStatus[DocOf(m)] # "absent"
                          /\ jobStatus[JobOf(m)] # "absent"
  BY DeliveryWired
<1>1. CASE Claim(m)
  BY <1>0, <1>1 DEF Claim
<1>2. CASE ClaimFails(m)
  BY <1>0, <1>2 DEF ClaimFails
<1>3. CASE Extract(m)
  BY <1>0, <1>3 DEF Extract
<1>4. CASE ExtractFails(m)
  BY <1>0, <1>4 DEF ExtractFails
<1>5. CASE StageRefused(m)
  BY <1>0, <1>5 DEF StageRefused
<1>6. CASE Chunk(m)
  BY <1>0, <1>6 DEF Chunk
<1>7. CASE LoadDense(m)
  BY <1>0, <1>7 DEF LoadDense
<1>8. CASE DeletePoints(m)
  BY <1>0, <1>8 DEF DeletePoints
<1>9. CASE UpsertPoints(m)
  BY <1>0, <1>9 DEF UpsertPoints
<1>10. CASE LoadSparse(m)
  BY <1>0, <1>10 DEF LoadSparse
<1>11a. CASE BeginDelete(m)
  BY <1>0, <1>11a DEF BeginDelete
<1>11b. CASE EndDelete(m)
  BY <1>0, <1>11b DEF EndDelete
<1>11c. CASE Insert(m)
  BY <1>0, <1>11c DEF Insert
<1>12. CASE Finalize(m)
  BY <1>0, <1>12 DEF Finalize
<1>13. CASE Refresh(m)
  BY <1>0, <1>13 DEF Refresh
<1>14. CASE StageFails(m)
  BY <1>0, <1>14 DEF StageFails
<1>15. CASE MarkFailed(m)
  BY <1>0, <1>15 DEF MarkFailed
<1>16. CASE MarkFailedFails(m)
  BY <1>0, <1>16 DEF MarkFailedFails
<1>17. CASE Interrupt(m)
  BY <1>0, <1>17 DEF Interrupt
<1>18. CASE TimeOut(m)
  BY <1>0, <1>18 DEF TimeOut
<1> QED
  BY <1>1, <1>2, <1>3, <1>4, <1>5, <1>6, <1>7, <1>8, <1>9, <1>10, <1>11a, <1>11b,
     <1>11c, <1>12, <1>13, <1>14, <1>15, <1>16, <1>17, <1>18 DEF WorkerStep, DeliveryStep

\* So do the steps of the workers.
LEMMA WiredWorker ==
  ASSUME TypeOK, Wired,
         NEW m \in Requests, WorkerStep(m)
  PROVE  Wired'
  BY WorkerFrame DEF Wired, JobDoc, StoredDocuments, requestVars

\* A request inserts jobs as queued and messages as queued, leaves every other job
\* and delivery alone, and does not touch what the workers write.
LEMMA ApiFrame ==
  ASSUME TypeOK, Wired, ApiStep
  PROVE  /\ UNCHANGED <<rows, points, deleted, attempts>>
         /\ \A j \in Requests :
              \/ jobStatus'[j] = jobStatus[j]
              \/ jobStatus[j] = "absent" /\ jobStatus'[j] = "queued"
         /\ \A n \in Requests :
              \/ run'[n] = run[n]
              \/ run[n] = "absent" /\ run'[n] = "queued"
         /\ \A n \in Requests :
              run[n] # "absent" => reply'[n] = reply[n] /\ seen'[n] = seen[n]
         /\ \A j \in Requests : jobStatus[j] # "absent" => JobDoc(j)' = JobDoc(j)
<1> DEFINE
      Frame == /\ UNCHANGED <<rows, points, deleted, attempts>>
               /\ \A j \in Requests :
                    \/ jobStatus'[j] = jobStatus[j]
                    \/ jobStatus[j] = "absent" /\ jobStatus'[j] = "queued"
               /\ \A n \in Requests :
                    \/ run'[n] = run[n]
                    \/ run[n] = "absent" /\ run'[n] = "queued"
               /\ \A n \in Requests :
                    run[n] # "absent" => reply'[n] = reply[n] /\ seen'[n] = seen[n]
               /\ \A j \in Requests : jobStatus[j] # "absent" => JobDoc(j)' = JobDoc(j)
<1> USE RequestsAssumption DEF TypeOK, Wired, StoredDocuments, JobDoc, requestVars, statusVars, indexVars, workerVars
<1>1. ASSUME NEW u \in Uploads, NEW c \in Contents, BeginUpload(u, c) PROVE Frame
  BY <1>1 DEF BeginUpload
<1>2. ASSUME NEW r \in Reindexes, NEW d \in Uploads, BeginReindex(r, d) PROVE Frame
  BY <1>2 DEF BeginReindex
<1>3. ASSUME NEW u \in Uploads, Lookup(u) PROVE Frame
  BY <1>3 DEF Lookup, SameContent
<1>3a. ASSUME NEW u \in Uploads, AnswerExisting(u) PROVE Frame
  BY <1>3a DEF AnswerExisting, IsLatestJob, JobsOf
<1>4. ASSUME NEW u \in Uploads, StoreSource(u) PROVE Frame
  BY <1>4 DEF StoreSource
<1>5. ASSUME NEW u \in Uploads, CommitUpload(u) PROVE Frame
  BY <1>5 DEF CommitUpload, SameContent
<1>6. ASSUME NEW u \in Uploads, CommitUploadFails(u) PROVE Frame
  BY <1>6 DEF CommitUploadFails
<1>7. ASSUME NEW u \in Uploads, DeleteSource(u) PROVE Frame
  BY <1>7 DEF DeleteSource
<1>8. ASSUME NEW r \in Reindexes, CheckLatestJob(r) PROVE Frame
  BY <1>8 DEF CheckLatestJob, IsLatestJob, JobsOf
<1>9. ASSUME NEW r \in Reindexes, CommitReindex(r) PROVE Frame
  BY <1>9 DEF CommitReindex
<1>10. ASSUME NEW r \in Reindexes, CommitReindexFails(r) PROVE Frame
  BY <1>10 DEF CommitReindexFails
<1>11. ASSUME NEW r \in Requests, EnqueueStep(r) PROVE Frame
  BY <1>11 DEF EnqueueStep, Enqueue, EnqueueFails
<1> QED
  BY <1>1, <1>2, <1>3, <1>3a, <1>4, <1>5, <1>6, <1>7, <1>8, <1>9, <1>10, <1>11
  DEF ApiStep, Arrival, UploadStep, ReindexStep

\* The steps of the API keep the sources of the stored documents and of the
\* uploads about to commit, and one document per content.
LEMMA SourceDocuments ==
  ASSUME TypeOK, Wired, SourceStored, SourceKept, OneDocumentPerContent, ApiStep
  PROVE  (SourceStored /\ SourceKept /\ OneDocumentPerContent)'
<1> DEFINE SourceInv == SourceStored /\ SourceKept /\ OneDocumentPerContent
<1> USE RequestsAssumption DEF TypeOK, Wired, SourceStored, SourceKept, OneDocumentPerContent,
        StoredDocuments, requestVars, statusVars, indexVars, workerVars
<1>1. ASSUME NEW u \in Uploads, NEW c \in Contents, BeginUpload(u, c) PROVE SourceInv'
  BY <1>1 DEF BeginUpload
<1>2. ASSUME NEW r \in Reindexes, NEW d \in Uploads, BeginReindex(r, d) PROVE SourceInv'
  BY <1>2 DEF BeginReindex
<1>3. ASSUME NEW u \in Uploads, Lookup(u) PROVE SourceInv'
  BY <1>3 DEF Lookup, SameContent
<1>3a. ASSUME NEW u \in Uploads, AnswerExisting(u) PROVE SourceInv'
  BY <1>3a DEF AnswerExisting, IsLatestJob, JobsOf
<1>4. ASSUME NEW u \in Uploads, StoreSource(u) PROVE SourceInv'
  BY <1>4 DEF StoreSource
<1>5. ASSUME NEW u \in Uploads, CommitUpload(u) PROVE SourceInv'
  BY <1>5 DEF CommitUpload, SameContent
<1>6. ASSUME NEW u \in Uploads, CommitUploadFails(u) PROVE SourceInv'
  BY <1>6 DEF CommitUploadFails
<1>7. ASSUME NEW u \in Uploads, DeleteSource(u) PROVE SourceInv'
  BY <1>7 DEF DeleteSource
<1>8. ASSUME NEW r \in Reindexes, CheckLatestJob(r) PROVE SourceInv'
  BY <1>8 DEF CheckLatestJob, IsLatestJob, JobsOf
<1>9. ASSUME NEW r \in Reindexes, CommitReindex(r) PROVE SourceInv'
  BY <1>9 DEF CommitReindex
<1>10. ASSUME NEW r \in Reindexes, CommitReindexFails(r) PROVE SourceInv'
  BY <1>10 DEF CommitReindexFails
<1>11. ASSUME NEW r \in Requests, EnqueueStep(r) PROVE SourceInv'
  BY <1>11 DEF EnqueueStep, Enqueue, EnqueueFails
<1> QED
  BY <1>1, <1>2, <1>3, <1>3a, <1>4, <1>5, <1>6, <1>7, <1>8, <1>9, <1>10, <1>11
  DEF ApiStep, Arrival, UploadStep, ReindexStep

\* The claim is a mutual exclusion: it needs a queued job, which nobody processes,
\* and leaves it running.
LEMMA RunWorker ==
  ASSUME TypeOK, Wired, ProcessingClaimed, OneRunPerJob, UnclaimedUnattempted, ClaimedOnce,
         NEW m \in Requests, WorkerStep(m)
  PROVE  (ProcessingClaimed /\ OneRunPerJob /\ UnclaimedUnattempted /\ ClaimedOnce)'
<1> USE RequestsAssumption DEF TypeOK, ProcessingClaimed, OneRunPerJob, UnclaimedUnattempted, ClaimedOnce,
        JobOf, Goto, Processing, Failing, requestVars, statusVars, indexVars, workerVars
<1>0. run[m] # "absent" => JobOf(m) \in Requests /\ jobStatus[JobOf(m)] # "absent"
  BY DeliveryWired DEF JobOf
<1>1. CASE Claim(m)
  BY <1>0, <1>1 DEF Claim
<1>2. CASE ClaimFails(m)
  BY <1>0, <1>2 DEF ClaimFails
<1>3. CASE Extract(m)
  BY <1>0, <1>3 DEF Extract
<1>4. CASE ExtractFails(m)
  BY <1>0, <1>4 DEF ExtractFails
<1>5. CASE StageRefused(m)
  BY <1>0, <1>5 DEF StageRefused
<1>6. CASE Chunk(m)
  BY <1>0, <1>6 DEF Chunk
<1>7. CASE LoadDense(m)
  BY <1>0, <1>7 DEF LoadDense
<1>8. CASE DeletePoints(m)
  BY <1>0, <1>8 DEF DeletePoints
<1>9. CASE UpsertPoints(m)
  BY <1>0, <1>9 DEF UpsertPoints
<1>10. CASE LoadSparse(m)
  BY <1>0, <1>10 DEF LoadSparse
<1>11a. CASE BeginDelete(m)
  BY <1>0, <1>11a DEF BeginDelete
<1>11b. CASE EndDelete(m)
  BY <1>0, <1>11b DEF EndDelete
<1>11c. CASE Insert(m)
  BY <1>0, <1>11c DEF Insert
<1>12. CASE Finalize(m)
  BY <1>0, <1>12 DEF Finalize
<1>13. CASE Refresh(m)
  BY <1>0, <1>13 DEF Refresh
<1>14. CASE StageFails(m)
  BY <1>0, <1>14 DEF StageFails
<1>15. CASE MarkFailed(m)
  BY <1>0, <1>15 DEF MarkFailed
<1>16. CASE MarkFailedFails(m)
  BY <1>0, <1>16 DEF MarkFailedFails
<1>17. CASE Interrupt(m)
  BY <1>0, <1>17 DEF Interrupt
<1>18. CASE TimeOut(m)
  BY <1>0, <1>18 DEF TimeOut
<1> QED
  BY <1>1, <1>2, <1>3, <1>4, <1>5, <1>6, <1>7, <1>8, <1>9, <1>10, <1>11a, <1>11b,
     <1>11c, <1>12, <1>13, <1>14, <1>15, <1>16, <1>17, <1>18 DEF WorkerStep, DeliveryStep

\* Only Finalize marks a job indexed, and it commits the rows with it.
LEMMA RowsWorker ==
  ASSUME TypeOK, Wired, IndexedJobHasRows,
         NEW m \in Requests, WorkerStep(m)
  PROVE  IndexedJobHasRows'
<1>00. Searchable \subseteq Searchable' /\ (Finalize(m) => DocOf(m) \in Searchable')
  BY WorkerFrame, RowsCommitted
<1> USE <1>00, RequestsAssumption DEF TypeOK, IndexedJobHasRows,
        JobOf, DocOf, JobDoc, Goto, Processing, Failing, requestVars, statusVars, indexVars, workerVars
<1>0. run[m] # "absent" => JobOf(m) \in Requests /\ DocOf(m) \in Uploads
  BY DeliveryWired DEF JobOf
<1>1. CASE Claim(m)
  BY <1>0, <1>1 DEF Claim
<1>2. CASE ClaimFails(m)
  BY <1>0, <1>2 DEF ClaimFails
<1>3. CASE Extract(m)
  BY <1>0, <1>3 DEF Extract
<1>4. CASE ExtractFails(m)
  BY <1>0, <1>4 DEF ExtractFails
<1>5. CASE StageRefused(m)
  BY <1>0, <1>5 DEF StageRefused
<1>6. CASE Chunk(m)
  BY <1>0, <1>6 DEF Chunk
<1>7. CASE LoadDense(m)
  BY <1>0, <1>7 DEF LoadDense
<1>8. CASE DeletePoints(m)
  BY <1>0, <1>8 DEF DeletePoints
<1>9. CASE UpsertPoints(m)
  BY <1>0, <1>9 DEF UpsertPoints
<1>10. CASE LoadSparse(m)
  BY <1>0, <1>10 DEF LoadSparse
<1>11a. CASE BeginDelete(m)
  BY <1>0, <1>11a DEF BeginDelete
<1>11b. CASE EndDelete(m)
  BY <1>0, <1>11b DEF EndDelete
<1>11c. CASE Insert(m)
  BY <1>0, <1>11c DEF Insert
<1>12. CASE Finalize(m)
  BY <1>0, <1>12 DEF Finalize
<1>13. CASE Refresh(m)
  BY <1>0, <1>13 DEF Refresh
<1>14. CASE StageFails(m)
  BY <1>0, <1>14 DEF StageFails
<1>15. CASE MarkFailed(m)
  BY <1>0, <1>15 DEF MarkFailed
<1>16. CASE MarkFailedFails(m)
  BY <1>0, <1>16 DEF MarkFailedFails
<1>17. CASE Interrupt(m)
  BY <1>0, <1>17 DEF Interrupt
<1>18. CASE TimeOut(m)
  BY <1>0, <1>18 DEF TimeOut
<1> QED
  BY <1>1, <1>2, <1>3, <1>4, <1>5, <1>6, <1>7, <1>8, <1>9, <1>10, <1>11a, <1>11b,
     <1>11c, <1>12, <1>13, <1>14, <1>15, <1>16, <1>17, <1>18 DEF WorkerStep, DeliveryStep

\* An insert waits for the rivals and fails on the rows it did not delete; no
\* commit but its own changes the rows it has inserted over.
LEMMA InsertedWorker ==
  ASSUME TypeOK, Wired, InsertedAlone,
         NEW m \in Requests, WorkerStep(m)
  PROVE  InsertedAlone'
<1> USE DEF InsertedAlone
<1> DEFINE Open(n) == run[n] = "finalize"
<1>1. \A n \in Requests : run[n] # "absent" => DocOf(n) \in Uploads /\ DocOf(n)' = DocOf(n)
  BY DeliveryWired, WorkerFrame DEF JobOf, DocOf, JobDoc, requestVars
<1>2. \A n \in Requests : run'[n] # "absent" => run[n] # "absent"
  BY WorkerFrame
<1>3. /\ \A n \in Requests \ {m} : run'[n] = run[n] /\ deleted'[n] = deleted[n]
      /\ Insert(m) \/ run'[m] # "finalize"
  <2> USE DEF TypeOK, Goto, EndTransaction, workerVars
  <2>1. CASE Claim(m) \/ ClaimFails(m) \/ Extract(m) \/ ExtractFails(m)
    BY <2>1 DEF Claim, ClaimFails, Extract, ExtractFails
  <2>2. CASE StageRefused(m) \/ Chunk(m) \/ LoadDense(m) \/ DeletePoints(m)
    BY <2>2 DEF StageRefused, Chunk, LoadDense, DeletePoints
  <2>3. CASE UpsertPoints(m) \/ LoadSparse(m) \/ BeginDelete(m) \/ EndDelete(m)
    BY <2>3 DEF UpsertPoints, LoadSparse, BeginDelete, EndDelete
  <2>4. CASE Insert(m) \/ Finalize(m) \/ Refresh(m) \/ StageFails(m)
    BY <2>4 DEF Insert, Finalize, Refresh, StageFails
  <2>5. CASE MarkFailed(m) \/ MarkFailedFails(m) \/ Interrupt(m) \/ TimeOut(m)
    BY <2>5 DEF MarkFailed, MarkFailedFails, Interrupt, TimeOut
  <2> QED
    BY <2>1, <2>2, <2>3, <2>4, <2>5 DEF WorkerStep, DeliveryStep
<1>4. CASE Finalize(m)
  <2>1. run[m] = "finalize" /\ run'[m] # "finalize"
    BY <1>4 DEF Finalize, Goto, TypeOK
  <2>2. \A n \in Requests : run'[n] = "finalize" => n # m /\ Open(n) /\ DocOf(n) # DocOf(m)
    BY <1>3, <2>1
  <2>3. \A n \in Requests : run'[n] = "finalize" => Versions(DocOf(n))' = Versions(DocOf(n))
    <3> SUFFICES ASSUME NEW n \in Requests, run'[n] = "finalize"
                 PROVE  Versions(DocOf(n))' = Versions(DocOf(n))
      OBVIOUS
    <3> DEFINE d == DocOf(n)
    <3>1. d \in Uploads /\ d' = d /\ d # DocOf(m)
      BY <1>1, <1>2, <2>2
    <3>2. {k \in Requests : <<d, k>> \in rows'} = {k \in Requests : <<d, k>> \in rows}
      BY <1>4, <3>1 DEF Finalize
    <3> QED
      BY <3>1, <3>2 DEF Versions
  <2> QED
    BY <1>1, <1>2, <1>3, <2>2, <2>3
<1>5. CASE ~Finalize(m)
  <2>1. \A n \in Requests : run'[n] # "absent" => Versions(DocOf(n))' = Versions(DocOf(n))
    BY <1>1, <1>2, <1>5, RowsStep DEF Versions
  <2>2. CASE Insert(m)
    <3>1. run'[m] = "finalize" =>
            /\ Versions(DocOf(m)) \subseteq deleted[m] /\ deleted'[m] = deleted[m]
            /\ \A n \in Requests \ {m} : ~(Open(n) /\ DocOf(n) = DocOf(m))
      BY <2>2 DEF Insert, Rivals, Goto, TypeOK
    <3> QED
      BY <1>1, <1>2, <1>3, <2>1, <3>1
  <2>3. CASE run'[m] # "finalize"
    BY <1>1, <1>2, <1>3, <2>1, <2>3
  <2> QED
    BY <1>3, <2>2, <2>3
<1> QED
  BY <1>4, <1>5

\* The commits of an upload and of a reindex are the only steps of a request that
\* write a status.
LEMMA SoleCases ==
  ASSUME TypeOK, Wired, ApiStep
  PROVE  \/ UNCHANGED <<docStatus, jobStatus>>
         \/ \E u \in Uploads : CommitUpload(u)
         \/ \E r \in Reindexes : CommitReindex(r)
<1> USE RequestsAssumption DEF requestVars, statusVars, indexVars, workerVars
<1>1. ASSUME NEW u \in Uploads, NEW c \in Contents, BeginUpload(u, c) PROVE UNCHANGED <<docStatus, jobStatus>>
  BY <1>1 DEF BeginUpload
<1>2. ASSUME NEW r \in Reindexes, NEW d \in Uploads, BeginReindex(r, d) PROVE UNCHANGED <<docStatus, jobStatus>>
  BY <1>2 DEF BeginReindex
<1>3. ASSUME NEW u \in Uploads, Lookup(u) PROVE UNCHANGED <<docStatus, jobStatus>>
  BY <1>3 DEF Lookup, SameContent
<1>3a. ASSUME NEW u \in Uploads, AnswerExisting(u) PROVE UNCHANGED <<docStatus, jobStatus>>
  BY <1>3a DEF AnswerExisting, IsLatestJob, JobsOf
<1>4. ASSUME NEW u \in Uploads, StoreSource(u) PROVE UNCHANGED <<docStatus, jobStatus>>
  BY <1>4 DEF StoreSource
<1>6. ASSUME NEW u \in Uploads, CommitUploadFails(u) PROVE UNCHANGED <<docStatus, jobStatus>>
  BY <1>6 DEF CommitUploadFails
<1>7. ASSUME NEW u \in Uploads, DeleteSource(u) PROVE UNCHANGED <<docStatus, jobStatus>>
  BY <1>7 DEF DeleteSource
<1>8. ASSUME NEW r \in Reindexes, CheckLatestJob(r) PROVE UNCHANGED <<docStatus, jobStatus>>
  BY <1>8 DEF CheckLatestJob, IsLatestJob, JobsOf
<1>10. ASSUME NEW r \in Reindexes, CommitReindexFails(r) PROVE UNCHANGED <<docStatus, jobStatus>>
  BY <1>10 DEF CommitReindexFails
<1>11. ASSUME NEW r \in Requests, EnqueueStep(r) PROVE UNCHANGED <<docStatus, jobStatus>>
  BY <1>11 DEF EnqueueStep, Enqueue, EnqueueFails
<1> QED
  BY <1>1, <1>2, <1>3, <1>3a, <1>4, <1>6, <1>7, <1>8, <1>10, <1>11
  DEF ApiStep, Arrival, UploadStep, ReindexStep

\* A first job comes with its document, uploaded and queued; a second one ends
\* what is said of documents with one job.
LEMMA SoleDocuments ==
  ASSUME TypeOK, Wired, IndexedJobHasRows, SoleRun, SoleJobAgrees, SoleJobSearchable, ApiStep
  PROVE  (SoleRun /\ SoleJobAgrees /\ SoleJobSearchable)'
<1> USE RequestsAssumption DEF TypeOK, SoleRun, SoleJobAgrees, SoleJobSearchable
<1>1. \A d : JobsOf(d) \subseteq JobsOf(d)'
  BY ApiFrame DEF JobsOf
<1>2. \A j \in Requests : jobStatus[j] # "absent" => JobDoc(j)' = JobDoc(j)
  BY ApiFrame
<1>3. \A m \in Requests : run[m] # "absent" =>
        JobOf(m)' = JobOf(m) /\ DocOf(m)' = DocOf(m) /\ DocOf(m) \in Uploads
        /\ JobOf(m) \in JobsOf(DocOf(m))
  BY ApiFrame, DeliveryWired DEF JobOf, DocOf, JobsOf
<1>4. SoleRun'
  <2> SUFFICES ASSUME NEW m \in Requests, run[m]' \in Processing,
                      JobsOf(DocOf(m))' = {JobOf(m)}'
               PROVE  JobsOf(DocOf(m)) = {JobOf(m)} /\ run'[m] = run[m]
    BY <1>3, ApiFrame DEF Processing
  <2>1. run'[m] = run[m]
    BY ApiFrame DEF Processing
  <2> QED
    BY <2>1, <1>1, <1>3 DEF Processing
<1>5. CASE UNCHANGED <<docStatus, jobStatus>>
  BY <1>1, <1>2, <1>4, <1>5, ApiFrame, RowsFrame DEF JobsOf
<1>6. ASSUME NEW u \in Uploads, CommitUpload(u)
      PROVE (SoleJobAgrees /\ SoleJobSearchable)'
  BY <1>1, <1>2, <1>6, ApiFrame, RowsFrame DEF CommitUpload, Wired, StoredDocuments, JobsOf, JobDoc
<1>7. ASSUME NEW r \in Reindexes, CommitReindex(r)
      PROVE (SoleJobAgrees /\ SoleJobSearchable)'
  BY <1>1, <1>2, <1>7, ApiFrame, RowsFrame DEF CommitReindex, Wired, StoredDocuments, JobsOf, JobDoc
<1> QED
  BY <1>4, <1>5, <1>6, <1>7, SoleCases

\* A worker writes the statuses of its own job and document, and when that job is
\* the only one the document has had, no other run interferes.
LEMMA SoleWorker ==
  ASSUME TypeOK, Wired, ProcessingClaimed, OneRunPerJob, IndexedJobHasRows,
         SoleRun, SoleJobAgrees, SoleJobSearchable,
         NEW m \in Requests, WorkerStep(m)
  PROVE  (SoleRun /\ SoleJobAgrees /\ SoleJobSearchable)'
<1> DEFINE Sole(j) == JobsOf(JobDoc(j)) = {j}
           SoleInv(j) ==
             Sole(j) =>
               /\ docStatus'[JobDoc(j)] =
                    CASE jobStatus'[j] = "queued" -> "uploaded"
                      [] jobStatus'[j] = "running" -> "processing"
                      [] OTHER -> jobStatus'[j]
               /\ docStatus'[JobDoc(j)] = "indexed" => JobDoc(j) \in Searchable' \cap points'
           SoleRunInv(n) ==
             Sole(JobOf(n)) =>
               /\ run'[n] \in {"write", "delete", "insert", "finalize"} => seen'[n] = "processing"
               /\ run'[n] \in {"sparse", "write", "delete", "insert", "finalize", "refresh"} =>
                    DocOf(n) \in points'
<1>1. UNCHANGED <<target, reply>>
  BY WorkerFrame DEF requestVars
<1>2. \A d : JobsOf(d)' = JobsOf(d)
  BY <1>1, WorkerFrame DEF JobsOf, JobDoc
<1>3. /\ \A j : JobDoc(j)' = JobDoc(j)
      /\ \A n \in Requests : JobOf(n)' = JobOf(n) /\ DocOf(n)' = DocOf(n)
  BY <1>1 DEF JobDoc, JobOf, DocOf
<1>4. run[m] # "absent" => /\ JobOf(m) \in Requests
                          /\ DocOf(m) \in Uploads
                          /\ JobOf(m) \in JobsOf(DocOf(m))
  BY DeliveryWired DEF JobsOf, DocOf
<1>5. \A j \in Requests :
        Sole(j) => /\ jobStatus[j] # "absent" /\ JobDoc(j) \in Uploads
                   /\ run[m] # "absent" /\ JobDoc(j) = DocOf(m) => j = JobOf(m)
  BY <1>4 DEF JobsOf, Wired, StoredDocuments
<1>6. \A n \in Requests :
        run[n] \in Processing /\ run[m] \in Processing /\ JobOf(n) = JobOf(m) => n = m
  BY DEF OneRunPerJob
<1>7. ASSUME \A j \in Requests : SoleInv(j),
             \A n \in Requests : SoleRunInv(n)
      PROVE  (SoleRun /\ SoleJobAgrees /\ SoleJobSearchable)'
  <2>1. SoleJobAgrees' /\ SoleJobSearchable'
    BY <1>2, <1>3, <1>7 DEF SoleJobAgrees, SoleJobSearchable
  <2>2. SoleRun'
    BY <1>2, <1>3, <1>7 DEF SoleRun, DocOf
  <2> QED
    BY <2>1, <2>2
<1>8. \A j \in Requests : Sole(j) =>
        /\ docStatus[JobDoc(j)] =
             CASE jobStatus[j] = "queued" -> "uploaded"
               [] jobStatus[j] = "running" -> "processing"
               [] OTHER -> jobStatus[j]
        /\ docStatus[JobDoc(j)] = "indexed" => JobDoc(j) \in Searchable \cap points
  BY DEF SoleJobAgrees, SoleJobSearchable
<1>9. \A n \in Requests : Sole(JobOf(n)) =>
        /\ run[n] \in {"write", "delete", "insert", "finalize"} => seen[n] = "processing"
        /\ run[n] \in {"sparse", "write", "delete", "insert", "finalize", "refresh"} =>
             DocOf(n) \in points
  BY DEF SoleRun, DocOf
<1>10. \A n \in Requests : run[n] # "absent" =>
         JobOf(n) \in Requests /\ DocOf(n) = JobDoc(JobOf(n))
  BY DeliveryWired DEF DocOf
<1>11. Searchable \subseteq Searchable' /\ (Finalize(m) => DocOf(m) \in Searchable')
  BY WorkerFrame, RowsCommitted
<1> HIDE DEF Sole
<1> USE <1>4, <1>5, <1>6, <1>8, <1>9, <1>10, <1>11
    DEF TypeOK, ProcessingClaimed, Goto, Processing, Failing, requestVars, statusVars,
        indexVars, workerVars
<1>21. CASE Claim(m)
  <2>1. \A j \in Requests : SoleInv(j)
    BY <1>21 DEF Claim
  <2>2. \A n \in Requests : SoleRunInv(n)
    BY <1>21 DEF Claim
  <2> QED
    BY <2>1, <2>2, <1>7
<1>22. CASE ClaimFails(m)
  <2>1. \A j \in Requests : SoleInv(j)
    BY <1>22 DEF ClaimFails
  <2>2. \A n \in Requests : SoleRunInv(n)
    BY <1>22 DEF ClaimFails
  <2> QED
    BY <2>1, <2>2, <1>7
<1>23. CASE Extract(m)
  <2>1. \A j \in Requests : SoleInv(j)
    BY <1>23 DEF Extract
  <2>2. \A n \in Requests : SoleRunInv(n)
    BY <1>23 DEF Extract
  <2> QED
    BY <2>1, <2>2, <1>7
<1>24. CASE ExtractFails(m)
  <2>1. \A j \in Requests : SoleInv(j)
    BY <1>24 DEF ExtractFails
  <2>2. \A n \in Requests : SoleRunInv(n)
    BY <1>24 DEF ExtractFails
  <2> QED
    BY <2>1, <2>2, <1>7
<1>25. CASE StageRefused(m)
  <2>1. \A j \in Requests : SoleInv(j)
    BY <1>25 DEF StageRefused
  <2>2. \A n \in Requests : SoleRunInv(n)
    BY <1>25 DEF StageRefused
  <2> QED
    BY <2>1, <2>2, <1>7
<1>26. CASE Chunk(m)
  <2>1. \A j \in Requests : SoleInv(j)
    BY <1>26 DEF Chunk
  <2>2. \A n \in Requests : SoleRunInv(n)
    BY <1>26 DEF Chunk
  <2> QED
    BY <2>1, <2>2, <1>7
<1>27. CASE LoadDense(m)
  <2>1. \A j \in Requests : SoleInv(j)
    BY <1>27 DEF LoadDense
  <2>2. \A n \in Requests : SoleRunInv(n)
    BY <1>27 DEF LoadDense
  <2> QED
    BY <2>1, <2>2, <1>7
<1>28. CASE DeletePoints(m)
  <2>1. \A j \in Requests : SoleInv(j)
    BY <1>28 DEF DeletePoints
  <2>2. \A n \in Requests : SoleRunInv(n)
    BY <1>28 DEF DeletePoints
  <2> QED
    BY <2>1, <2>2, <1>7
<1>29. CASE UpsertPoints(m)
  <2>1. \A j \in Requests : SoleInv(j)
    BY <1>29 DEF UpsertPoints
  <2>2. \A n \in Requests : SoleRunInv(n)
    BY <1>29 DEF UpsertPoints
  <2> QED
    BY <2>1, <2>2, <1>7
<1>30. CASE LoadSparse(m)
  <2>1. \A j \in Requests : SoleInv(j)
    BY <1>30 DEF LoadSparse
  <2>2. Sole(JobOf(m)) => docStatus[DocOf(m)] = "processing"
    BY <1>30 DEF LoadSparse, StillRunning
  <2>3. seen'[m] = docStatus[DocOf(m)] /\ \A n \in Requests : n # m => seen'[n] = seen[n]
    BY <1>30 DEF LoadSparse
  <2>4. \A n \in Requests : SoleRunInv(n)
    BY <1>30, <2>2, <2>3 DEF LoadSparse
  <2> QED
    BY <2>1, <2>4, <1>7
<1>31a. CASE BeginDelete(m)
  <2>1. \A j \in Requests : SoleInv(j)
    BY <1>31a DEF BeginDelete
  <2>2. \A n \in Requests : SoleRunInv(n)
    BY <1>31a DEF BeginDelete
  <2> QED
    BY <2>1, <2>2, <1>7
<1>31b. CASE EndDelete(m)
  <2>1. \A j \in Requests : SoleInv(j)
    BY <1>31b DEF EndDelete
  <2>2. \A n \in Requests : SoleRunInv(n)
    BY <1>31b DEF EndDelete
  <2> QED
    BY <2>1, <2>2, <1>7
<1>31c. CASE Insert(m)
  <2>1. \A j \in Requests : SoleInv(j)
    BY <1>31c DEF Insert
  <2>2. \A n \in Requests : SoleRunInv(n)
    BY <1>31c DEF Insert
  <2> QED
    BY <2>1, <2>2, <1>7
<1>32. CASE Finalize(m)
  <2>1. \A j \in Requests : SoleInv(j)
    BY <1>32 DEF Finalize
  <2>2. \A n \in Requests : SoleRunInv(n)
    BY <1>32 DEF Finalize
  <2> QED
    BY <2>1, <2>2, <1>7
<1>33. CASE Refresh(m)
  <2>1. \A j \in Requests : SoleInv(j)
    BY <1>33 DEF Refresh
  <2>2. \A n \in Requests : SoleRunInv(n)
    BY <1>33 DEF Refresh
  <2> QED
    BY <2>1, <2>2, <1>7
<1>34. CASE StageFails(m)
  <2>1. \A j \in Requests : SoleInv(j)
    BY <1>34 DEF StageFails
  <2>2. \A n \in Requests : SoleRunInv(n)
    BY <1>34 DEF StageFails
  <2> QED
    BY <2>1, <2>2, <1>7
<1>35. CASE MarkFailed(m)
  <2>1. \A j \in Requests : SoleInv(j)
    BY <1>35 DEF MarkFailed
  <2>2. \A n \in Requests : SoleRunInv(n)
    BY <1>35 DEF MarkFailed
  <2> QED
    BY <2>1, <2>2, <1>7
<1>36. CASE MarkFailedFails(m)
  <2>1. \A j \in Requests : SoleInv(j)
    BY <1>36 DEF MarkFailedFails
  <2>2. \A n \in Requests : SoleRunInv(n)
    BY <1>36 DEF MarkFailedFails
  <2> QED
    BY <2>1, <2>2, <1>7
<1>37. CASE Interrupt(m)
  <2>1. \A j \in Requests : SoleInv(j)
    BY <1>37 DEF Interrupt
  <2>2. \A n \in Requests : SoleRunInv(n)
    BY <1>37 DEF Interrupt
  <2> QED
    BY <2>1, <2>2, <1>7
<1>38. CASE TimeOut(m)
  <2>1. \A j \in Requests : SoleInv(j)
    BY <1>38 DEF TimeOut
  <2>2. \A n \in Requests : SoleRunInv(n)
    BY <1>38 DEF TimeOut
  <2> QED
    BY <2>1, <2>2, <1>7
<1> QED
  BY <1>21, <1>22, <1>23, <1>24, <1>25, <1>26, <1>27, <1>28, <1>29, <1>30,
     <1>31a, <1>31b, <1>31c, <1>32, <1>33, <1>34, <1>35, <1>36, <1>37, <1>38 DEF WorkerStep, DeliveryStep

\* The whole invariant is kept by every step.
LEMMA IInvStep == IInv /\ [Next]_vars => IInv'
<1> SUFFICES ASSUME IInv, [Next]_vars PROVE IInv'
  OBVIOUS
<1>1. CASE ApiStep
  <2>1. (TypeOK /\ Wired)'
    BY <1>1, TypeDocuments, WiredDocuments DEF IInv
  <2>2. (SourceStored /\ SourceKept /\ OneDocumentPerContent)'
    BY <1>1, SourceDocuments DEF IInv
  <2>3. (ProcessingClaimed /\ OneRunPerJob /\ UnclaimedUnattempted /\ ClaimedOnce)'
    BY <1>1, ApiFrame DEF IInv, TypeOK, Wired, ProcessingClaimed, OneRunPerJob,
       UnclaimedUnattempted, ClaimedOnce, JobOf, Processing
  <2>4. IndexedJobHasRows'
    BY <1>1, ApiFrame, RowsFrame DEF IInv, IndexedJobHasRows
  <2>5. InsertedAlone'
    BY <1>1, ApiFrame, RowsFrame DEF IInv, Wired, InsertedAlone, JobOf, DocOf
  <2>6. (SoleRun /\ SoleJobAgrees /\ SoleJobSearchable)'
    BY <1>1, SoleDocuments DEF IInv
  <2> QED
    BY <2>1, <2>2, <2>3, <2>4, <2>5, <2>6 DEF IInv
<1>2. ASSUME NEW m \in Requests, WorkerStep(m) PROVE IInv'
  <2>1. (TypeOK /\ Wired)'
    BY <1>2, TypeWorker, WiredWorker DEF IInv
  <2>2. (SourceStored /\ SourceKept /\ OneDocumentPerContent)'
    BY <1>2, WorkerFrame
    DEF IInv, SourceStored, SourceKept, OneDocumentPerContent, requestVars
  <2>3. (ProcessingClaimed /\ OneRunPerJob /\ UnclaimedUnattempted /\ ClaimedOnce)'
    BY <1>2, RunWorker DEF IInv
  <2>4. IndexedJobHasRows'
    BY <1>2, RowsWorker DEF IInv
  <2>5. InsertedAlone'
    BY <1>2, InsertedWorker DEF IInv
  <2>6. (SoleRun /\ SoleJobAgrees /\ SoleJobSearchable)'
    BY <1>2, SoleWorker DEF IInv
  <2> QED
    BY <2>1, <2>2, <2>3, <2>4, <2>5, <2>6 DEF IInv
<1>3. CASE UNCHANGED vars
  <2> USE <1>3 DEF vars, requestVars, statusVars, indexVars, workerVars
  <2>1. (TypeOK /\ Wired /\ SourceStored /\ SourceKept /\ OneDocumentPerContent)'
    BY DEF IInv, TypeOK, Wired, StoredDocuments, JobDoc, SourceStored, SourceKept,
       OneDocumentPerContent
  <2>2. (ProcessingClaimed /\ OneRunPerJob /\ UnclaimedUnattempted /\ ClaimedOnce)'
    BY DEF IInv, ProcessingClaimed, OneRunPerJob, UnclaimedUnattempted, ClaimedOnce, JobOf
  <2>3. (IndexedJobHasRows /\ InsertedAlone)'
    BY RowsFrame DEF IInv, IndexedJobHasRows, InsertedAlone, JobOf, DocOf, JobDoc
  <2>4. (SoleRun /\ SoleJobAgrees /\ SoleJobSearchable)'
    <3>1. /\ \A d : JobsOf(d)' = JobsOf(d)
          /\ \A j : JobDoc(j)' = JobDoc(j)
          /\ \A m : JobOf(m)' = JobOf(m) /\ DocOf(m)' = DocOf(m)
      BY DEF JobsOf, JobDoc, JobOf, DocOf
    <3>2. SoleRun'
      BY <3>1 DEF IInv, SoleRun
    <3>3. SoleJobAgrees' /\ SoleJobSearchable'
      BY <3>1, RowsFrame DEF IInv, SoleJobAgrees, SoleJobSearchable
    <3> QED
      BY <3>2, <3>3
  <2> QED
    BY <2>1, <2>2, <2>3, <2>4 DEF IInv
<1> QED
  BY <1>1, <1>2, <1>3 DEF Next

\* The initial states, with or without the Qdrant collection, satisfy it.
LEMMA IInvInit == Init => IInv
  BY RequestsAssumption, FaultsAssumption
  DEF Init, IInv, TypeOK, RequestStates, DocStatuses, JobStatuses, RunStates, Wired,
      StoredDocuments, SourceStored, SourceKept, OneDocumentPerContent, ProcessingClaimed,
      Processing, OneRunPerJob, UnclaimedUnattempted, ClaimedOnce, IndexedJobHasRows,
      InsertedAlone, SoleRun, SoleJobAgrees, SoleJobSearchable, JobsOf


\* The inductive invariant holds in every behaviour.
THEOREM Invariance == Spec => []IInv
  BY IInvInit, IInvStep, PTL DEF Spec

\* Every variable keeps its type.
THEOREM TypeCorrect == Spec => []TypeOK
  BY Invariance, PTL DEF IInv

\* The loser of a race of duplicate uploads never removes the source of the
\* document that won (services/documents.py, the IntegrityError handler).
THEOREM SourcesKept == Spec => []SourceKept
  BY Invariance, PTL DEF IInv

\* Any number of racing uploads leaves one document per content.
THEOREM UploadsIdempotent == Spec => []OneDocumentPerContent
  BY Invariance, PTL DEF IInv

\* claim_ingestion_job is a mutual exclusion among any number of deliveries.
THEOREM MutualExclusion == Spec => []OneRunPerJob
  BY Invariance, PTL DEF IInv

\* No retry, redelivery or duplicated message makes a job run twice.
THEOREM NoSecondAttempt == Spec => []ClaimedOnce
  BY Invariance, PTL DEF IInv

\* A published job has the rows its readers will search.
THEOREM PublishedWithRows == Spec => []IndexedJobHasRows
  BY Invariance, PTL DEF IInv

\* One open transaction at most has inserted rows of a document, over none but
\* those it deleted.
THEOREM RowsWrittenAlone == Spec => []InsertedAlone
  BY Invariance, PTL DEF IInv

\* A document with one job never disagrees with it.
THEOREM SoleJobsAgree == Spec => []SoleJobAgrees
  BY Invariance, PTL DEF IInv

\* A document with one job is in both indexes when it is marked indexed.
THEOREM SoleJobsSearchable == Spec => []SoleJobSearchable
  BY Invariance, PTL DEF IInv

\* Whatever deliveries race, and wherever they fail, the rows of a document are
\* replaced by those of one delivery or left as they are.
THEOREM RowsReplaced == Spec => RowsReplacedWhole
<1> DEFINE Whole == \A d \in Uploads :
                      Versions(d)' # Versions(d) => \E m \in Requests : Versions(d)' = {m}
<1>1. IInv /\ [Next]_vars => [Whole]_rows
  <2> SUFFICES ASSUME IInv, Next, rows' # rows PROVE Whole
    BY DEF vars, indexVars
  <2>1. PICK m \in Requests : WorkerStep(m)
    BY ApiFrame DEF IInv, Next
  <2>2. Finalize(m)
    BY <2>1, RowsStep
  <2>3. Versions(DocOf(m)) \subseteq deleted[m]
    BY <2>2 DEF Finalize, IInv, InsertedAlone
  <2>4. /\ Versions(DocOf(m))' = {m}
        /\ \A d \in Uploads : d # DocOf(m) => Versions(d)' = Versions(d)
    BY <2>2, <2>3, RowsCommitted DEF IInv
  <2> SUFFICES ASSUME NEW d \in Uploads, Versions(d)' # Versions(d)
               PROVE  \E n \in Requests : Versions(d)' = {n}
    OBVIOUS
  <2>5. d = DocOf(m)
    BY <2>4
  <2>6. DocOf(m)' = DocOf(m)
    BY <2>2 DEF Finalize, requestVars, DocOf, JobOf, JobDoc
  <2> QED
    BY <2>4, <2>5, <2>6
<1> QED
  BY <1>1, Invariance, PTL DEF Spec, RowsReplacedWhole

-----------------------------------------------------------------------------
(***************************************************************************)
(* Ingestion implements JobLifecycle.                                      *)
(***************************************************************************)
\* A document that is being inserted has one new job, queued.
LEMMA LifecycleApi ==
  ASSUME IInv, ApiStep
  PROVE  [Lifecycle!LifecycleNext]_(Lifecycle!lifecycleVars)
<1> DEFINE docOf == [j \in Requests |-> IF jobStatus[j] = "absent" THEN None ELSE JobDoc(j)]
<1>1. /\ Searchable' = Searchable
      /\ \A j \in Requests : jobStatus[j] # "absent" => JobDoc(j)' = JobDoc(j)
  BY ApiFrame, RowsFrame DEF IInv
<1>2. CASE UNCHANGED <<docStatus, jobStatus>>
  BY <1>1, <1>2 DEF Lifecycle!lifecycleVars
<1>3. ASSUME NEW r \in Requests, NEW d \in Uploads,
             jobStatus[r] = "absent", jobStatus' = [jobStatus EXCEPT ![r] = "queued"],
             JobDoc(r)' = d
      PROVE  Lifecycle!Submit(r, d)
  <2>1. docOf' = [docOf EXCEPT ![r] = d]
    BY <1>1, <1>3 DEF IInv, TypeOK
  <2> QED
    BY <1>1, <1>3, <2>1 DEF Lifecycle!Submit
<1>4. ASSUME NEW u \in Uploads, CommitUpload(u)
      PROVE  jobStatus[u] = "absent" /\ JobDoc(u)' = u
             /\ jobStatus' = [jobStatus EXCEPT ![u] = "queued"]
  BY <1>4 DEF CommitUpload, IInv, Wired, JobDoc
<1>5. ASSUME NEW r \in Reindexes, CommitReindex(r)
      PROVE  jobStatus[r] = "absent" /\ JobDoc(r)' \in Uploads
             /\ jobStatus' = [jobStatus EXCEPT ![r] = "queued"]
  BY <1>5, RequestsAssumption DEF CommitReindex, IInv, Wired, JobDoc, StoredDocuments
<1> QED
  BY <1>2, <1>3, <1>4, <1>5, SoleCases DEF IInv, Lifecycle!LifecycleNext

\* A worker starts, publishes or fails the job of its message, or leaves the
\* table alone.
LEMMA LifecycleWorker ==
  ASSUME IInv, NEW m \in Requests, WorkerStep(m)
  PROVE  [Lifecycle!LifecycleNext]_(Lifecycle!lifecycleVars)
<1> DEFINE docOf == [j \in Requests |-> IF jobStatus[j] = "absent" THEN None ELSE JobDoc(j)]
<1>1. docOf' = docOf
  BY WorkerFrame DEF IInv, JobDoc, requestVars
<1>2. run[m] # "absent" => JobOf(m) \in Requests /\ jobStatus[JobOf(m)] # "absent"
  BY DeliveryWired DEF IInv
<1>3. CASE Claim(m)
  <2>1. Lifecycle!Start(JobOf(m))
    BY <1>1, <1>3, RowsFrame DEF Claim, Lifecycle!Start, indexVars
  <2> QED
    BY <1>2, <1>3, <2>1 DEF Claim, Lifecycle!LifecycleNext
<1>4. CASE Finalize(m)
  <2>1. jobStatus[JobOf(m)] \in {"running", "failed"}
    BY <1>4 DEF Finalize, IInv, ProcessingClaimed, Processing
  <2>2. DocOf(m) = docOf[JobOf(m)]
    BY <1>2, <1>4 DEF Finalize, DocOf
  <2>3. Lifecycle!Publish(JobOf(m))
    BY <1>1, <1>4, <2>1, <2>2, RowsCommitted DEF IInv, Finalize, Lifecycle!Publish
  <2> QED
    BY <1>2, <1>4, <2>3 DEF Finalize, Lifecycle!LifecycleNext
<1>5. CASE MarkFailed(m)
  <2>1. Lifecycle!Fail(JobOf(m))
    BY <1>1, <1>2, <1>5, RowsFrame DEF MarkFailed, Failing, Lifecycle!Fail, indexVars
  <2> QED
    BY <1>2, <1>5, <2>1 DEF MarkFailed, Failing, Lifecycle!LifecycleNext
<1>6. ASSUME UNCHANGED <<jobStatus, Searchable>>
      PROVE  UNCHANGED Lifecycle!lifecycleVars
  BY <1>1, <1>6 DEF Lifecycle!lifecycleVars
<1>7. \/ Claim(m) \/ Finalize(m) \/ MarkFailed(m)
      \/ UNCHANGED <<jobStatus, Searchable>>
  BY RowsFrame DEF WorkerStep, DeliveryStep, ClaimFails, Extract, ExtractFails, StageRefused, Chunk,
     LoadDense, DeletePoints, UpsertPoints, LoadSparse, BeginDelete, EndDelete,
     Insert, Refresh, StageFails,
     MarkFailedFails, Interrupt, TimeOut, statusVars, indexVars
<1> QED
  BY <1>3, <1>4, <1>5, <1>6, <1>7

\* For every number of documents, requests, workers and failures, the jobs table
\* keeps the promise of JobLifecycle: every step of the system is one of its
\* steps or leaves the table alone.
THEOREM Refinement == Spec => ImplementsLifecycle
<1>1. Init => Lifecycle!LifecycleInit
  BY DEF Init, Lifecycle!LifecycleInit, Searchable, Versions
<1>2. IInv /\ [Next]_vars => [Lifecycle!LifecycleNext]_(Lifecycle!lifecycleVars)
  <2> SUFFICES ASSUME IInv, [Next]_vars
               PROVE  [Lifecycle!LifecycleNext]_(Lifecycle!lifecycleVars)
    OBVIOUS
  <2>1. CASE UNCHANGED vars
    BY <2>1, RowsFrame DEF vars, requestVars, statusVars, indexVars, JobDoc, Lifecycle!lifecycleVars
  <2> QED
    BY <2>1, LifecycleApi, LifecycleWorker DEF Next
<1> QED
  BY <1>1, <1>2, Invariance, PTL DEF Spec, ImplementsLifecycle, Lifecycle!LifecycleSpec
=============================================================================

----------------------------- MODULE Ingestion -----------------------------
(***************************************************************************)
(* Document ingestion: the API requests of module Documents and the        *)
(* deliveries of module IngestionWorker, interleaved over one state.       *)
(***************************************************************************)
EXTENDS Documents, IngestionWorker

\* The steps of the API process, and those of the worker that holds message m.
ApiStep ==
  \/ Arrival
  \/ \E u \in Uploads : UploadStep(u)
  \/ \E r \in Reindexes : ReindexStep(r)
  \/ \E r \in Requests : EnqueueStep(r)

WorkerStep(m) ==
  \/ DeliveryStep(m)
  \/ Interrupt(m)
  \/ TimeOut(m)

Next ==
  \/ ApiStep
  \/ \E m \in Requests : WorkerStep(m)

\* The API process and the workers keep running; when a worker dies another
\* one polls the queue.  Nothing makes a request arrive or a failure happen.
Fairness ==
  /\ \A u \in Uploads : WF_vars(UploadStep(u))
  /\ \A r \in Reindexes : WF_vars(ReindexStep(r))
  /\ \A r \in Requests : WF_vars(EnqueueStep(r))
  /\ \A m \in Requests : WF_vars(DeliveryStep(m))

Spec == Init /\ [][Next]_vars
FairSpec == Spec /\ Fairness

-----------------------------------------------------------------------------
RequestStates ==
  {"idle", "lookup", "store", "commit", "conflict", "rollback", "relookup", "found",
   "latest", "insert", "enqueue", "done"}

\* Every variable keeps its type: the statuses are those of the tables' enums.
TypeOK ==
  /\ rpc \in [Requests -> RequestStates]
  /\ content \in [Uploads -> Contents \cup {None}]
  /\ target \in [Requests -> Uploads \cup {None}]
  /\ reply \in [Requests -> Requests \cup {None}]
  /\ createdAt \in [Requests -> Nat]
  /\ docStatus \in [Uploads -> DocStatuses]
  /\ jobStatus \in [Requests -> JobStatuses]
  /\ attempts \in [Requests -> Nat]
  /\ rows \subseteq Uploads \X Requests
  /\ objects \subseteq Uploads \X ObjectKinds
  /\ points \subseteq Uploads
  /\ collection \in BOOLEAN
  /\ run \in [Requests -> RunStates]
  /\ seen \in [Requests -> DocStatuses]
  /\ deleted \in [Requests -> SUBSET Requests]
  /\ faults \in 0 .. MaxFaults

\* However the duplicate uploads race, the source of a stored document is in
\* storage: the loser of a race deletes its own object only.
SourceKept == \A d \in StoredDocuments : <<d, "source">> \in objects

\* Racing uploads of the same bytes leave one document (test_documents.py,
\* duplicate content in the same namespace).
OneDocumentPerContent ==
  \A d, e \in StoredDocuments : content[d] = content[e] => d = e

\* claim_ingestion_job is a mutual exclusion: for all the duplicated and
\* repeated deliveries, two of them never process one job.
OneRunPerJob ==
  \A m, n \in Requests :
    run[m] \in Processing /\ run[n] \in Processing /\ JobOf(m) = JobOf(n) => m = n

\* A job is claimed once in its life: attempt_count never passes one, whatever
\* the retries and redeliveries of ARQ.
ClaimedOnce == \A j \in Requests : attempts[j] <= 1

\* Once a job was published its document has chunk rows, even when a late
\* delivery has overwritten the status since.
IndexedJobHasRows ==
  \A j \in Requests : jobStatus[j] = "indexed" => JobDoc(j) \in Searchable

\* However the reindexes of a document race, a commit that changes its rows
\* leaves those of one delivery: a sparse search never finds a searchable
\* document empty, half replaced or twice.
RowsReplacedWhole ==
  [][\A d \in Uploads :
       Versions(d)' # Versions(d) => \E m \in Requests : Versions(d)' = {m}]_rows

\* While a document has had one job, its status is that job's, through
\* duplicated deliveries, crashes and timeouts.
SoleJobAgrees ==
  \A j \in Requests :
    JobsOf(JobDoc(j)) = {j} =>
      docStatus[JobDoc(j)] =
        CASE jobStatus[j] = "queued" -> "uploaded"
          [] jobStatus[j] = "running" -> "processing"
          [] OTHER -> jobStatus[j]

\* While a document has had one job and is marked indexed, both indexes hold it.
SoleJobSearchable ==
  \A j \in Requests :
    JobsOf(JobDoc(j)) = {j} /\ docStatus[JobDoc(j)] = "indexed" =>
      JobDoc(j) \in Searchable \cap points

\* One open transaction at most has inserted rows of a document, and it has
\* deleted all that are there: its commit leaves no rows but its own.
InsertedAlone ==
  \A m \in Requests :
    run[m] = "finalize" =>
      /\ Versions(DocOf(m)) \subseteq deleted[m]
      /\ \A n \in Requests : run[n] = "finalize" /\ DocOf(n) = DocOf(m) => m = n

Settled(j) == jobStatus[j] \in {"indexed", "failed"}

\* Then every job is settled: a crashed run is released as failed by its
\* redelivery.
JobSettles == \A j \in Requests : jobStatus[j] \in {"queued", "running"} ~> Settled(j)

-----------------------------------------------------------------------------
(***************************************************************************)
(* The inductive invariant behind the safety properties that are proved.   *)
(***************************************************************************)
\* A message has a request that is over and a job that exists; a job has a
\* request past its commit and a document; a stored document has an upload past
\* its commit and that upload's job.
Wired ==
  /\ \A r \in Requests :
       /\ run[r] # "absent" => rpc[r] = "done"
       /\ run[r] # "absent" \/ rpc[r] = "enqueue" =>
            reply[r] \in Requests /\ jobStatus[reply[r]] # "absent"
       /\ jobStatus[r] # "absent" =>
            rpc[r] \in {"enqueue", "done"} /\ JobDoc(r) \in StoredDocuments
       /\ rpc[r] \in {"found", "latest", "insert"} => target[r] \in StoredDocuments
  /\ \A d \in StoredDocuments : rpc[d] \in {"enqueue", "done"} /\ jobStatus[d] # "absent"

\* An upload that is about to commit has stored its source.
SourceStored == \A u \in Uploads : rpc[u] = "commit" => <<u, "source">> \in objects

\* A job that is being processed has left the queue for good, and nothing but
\* its own run publishes it.
ProcessingClaimed ==
  \A m \in Requests :
    run[m] \in Processing =>
      \/ jobStatus[JobOf(m)] \in {"running", "failed"}
      \/ jobStatus[JobOf(m)] = "indexed" /\ run[m] = "refresh"

\* A job that was not claimed has no attempt.
UnclaimedUnattempted ==
  \A j \in Requests : jobStatus[j] \in {"absent", "queued"} => attempts[j] = 0

\* The only job a document has had finds the document as it left it: loaded as
\* processing by the sparse stage, with points from the upsert on.
SoleRun ==
  \A m \in Requests :
    /\ run[m] \in {"write", "delete", "insert", "finalize"} /\ JobsOf(DocOf(m)) = {JobOf(m)} =>
         seen[m] = "processing"
    /\ run[m] \in {"sparse", "write", "delete", "insert", "finalize", "refresh"}
       /\ JobsOf(DocOf(m)) = {JobOf(m)} =>
         DocOf(m) \in points

IInv ==
  /\ TypeOK
  /\ Wired
  /\ SourceStored
  /\ SourceKept
  /\ OneDocumentPerContent
  /\ ProcessingClaimed
  /\ OneRunPerJob
  /\ UnclaimedUnattempted
  /\ ClaimedOnce
  /\ IndexedJobHasRows
  /\ InsertedAlone
  /\ SoleRun
  /\ SoleJobAgrees
  /\ SoleJobSearchable

-----------------------------------------------------------------------------
\* What the documentation says of ingestion and the code does not do.

\* docs/SWAGGER_TEST_FLOW.md: idempotent duplicate uploads within one dataset,
\* the existing document and job reused, the job polled until it is indexed.
\* No environment failure is allowed in these runs.
NoSpuriousFailure == \A j \in Requests : jobStatus[j] # "failed"

=============================================================================

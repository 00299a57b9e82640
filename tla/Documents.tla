----------------------------- MODULE Documents -----------------------------
(***************************************************************************)
(* The two operations of the document API that start an ingestion: an      *)
(* upload (create_document_upload and its route) and a reindex             *)
(* (reindex_document_for_tenant and its route).  Every await between two   *)
(* statements that another request or a worker can observe separates two   *)
(* actions.  A request that validation rejects changes nothing and is not  *)
(* modelled; the tenant and the namespace are fixed.                       *)
(***************************************************************************)
EXTENDS IngestionState

SameContent(u) == {d \in Uploads : docStatus[d] # "absent" /\ content[d] = content[u]}

\* The upload passes validation and its session's transaction begins.
BeginUpload(u, c) ==
  /\ rpc[u] = "idle"
  /\ rpc' = [rpc EXCEPT ![u] = "lookup"]
  /\ content' = [content EXCEPT ![u] = c]
  /\ createdAt' = [createdAt EXCEPT ![u] = Now]
  /\ UNCHANGED <<target, reply, statusVars, indexVars, workerVars, objects, faults>>

\* The checksum lookup before the bytes are stored, and the one made again
\* after a lost race on the unique constraint: it loads the document it finds.
Lookup(u) ==
  /\ rpc[u] \in {"lookup", "relookup"}
  /\ \/ \E d \in SameContent(u) :
          /\ target' = [target EXCEPT ![u] = d]
          /\ seen' = [seen EXCEPT ![u] = docStatus[d]]
          /\ rpc' = [rpc EXCEPT ![u] = "found"]
     \/ /\ SameContent(u) = {}
        /\ rpc' = [rpc EXCEPT ![u] = IF rpc[u] = "lookup" THEN "store" ELSE "done"]
        /\ UNCHANGED <<target, seen>>
  /\ UNCHANGED <<content, reply, createdAt, statusVars, indexVars, run, deleted, objects,
                 faults>>

\* Then its latest job is read.  The answer is the document and the job, which is
\* scheduled again while both still wait for a worker.
AnswerExisting(u) ==
  /\ rpc[u] = "found"
  /\ \E j \in Requests :
       /\ IsLatestJob(j, target[u])
       /\ reply' = [reply EXCEPT ![u] = j]
       /\ rpc' = [rpc EXCEPT ![u] =
                    IF seen[u] = "uploaded" /\ jobStatus[j] = "queued"
                    THEN "enqueue" ELSE "done"]
  /\ UNCHANGED <<content, target, createdAt, statusVars, indexVars, workerVars, objects,
                 faults>>

\* upload_bytes under a key that contains the new document's id; a
\* StorageError answers 503.
StoreSource(u) ==
  /\ rpc[u] = "store"
  /\ \/ /\ objects' = objects \cup {<<u, "source">>}
        /\ rpc' = [rpc EXCEPT ![u] = "commit"]
        /\ UNCHANGED faults
     \/ /\ Fault("storage")
        /\ rpc' = [rpc EXCEPT ![u] = "done"]
        /\ UNCHANGED objects
  /\ UNCHANGED <<content, target, reply, createdAt, statusVars, indexVars, workerVars>>

\* The commit of the document and its first job, under the unique constraint
\* on (tenant_id, namespace_id, checksum).
CommitUpload(u) ==
  /\ rpc[u] = "commit"
  /\ SameContent(u) = {}
  /\ docStatus' = [docStatus EXCEPT ![u] = "uploaded"]
  /\ jobStatus' = [jobStatus EXCEPT ![u] = "queued"]
  /\ target' = [target EXCEPT ![u] = u]
  /\ reply' = [reply EXCEPT ![u] = u]
  /\ rpc' = [rpc EXCEPT ![u] = "enqueue"]
  /\ UNCHANGED <<content, createdAt, attempts, indexVars, workerVars, objects, faults>>

\* IntegrityError, or another SQLAlchemyError: the session is rolled back.
CommitUploadFails(u) ==
  /\ rpc[u] = "commit"
  /\ \/ /\ SameContent(u) # {}
        /\ rpc' = [rpc EXCEPT ![u] = "conflict"]
        /\ UNCHANGED faults
     \/ /\ Fault("database")
        /\ rpc' = [rpc EXCEPT ![u] = "rollback"]
  /\ UNCHANGED <<content, target, reply, createdAt, statusVars, indexVars, workerVars,
                 objects>>

\* Variant for testing SourceKept: the object key is derived from the checksum, so
\* that the loser of a race deletes the winner's object.
DeleteSourceByContent(u) ==
  /\ rpc[u] \in {"conflict", "rollback"}
  /\ objects' = objects \ ((SameContent(u) \cup {u}) \X {"source"})
  /\ rpc' = [rpc EXCEPT ![u] = IF rpc[u] = "conflict" THEN "relookup" ELSE "done"]
  /\ UNCHANGED <<content, target, reply, createdAt, statusVars, indexVars, workerVars,
                 faults>>

\* The stored source is deleted; a StorageError here is only logged.
DeleteSource(u) ==
  /\ rpc[u] \in {"conflict", "rollback"}
  /\ \/ /\ objects' = objects \ {<<u, "source">>}
        /\ UNCHANGED faults
     \/ /\ Fault("storage")
        /\ UNCHANGED objects
  /\ rpc' = [rpc EXCEPT ![u] = IF rpc[u] = "conflict" THEN "relookup" ELSE "done"]
  /\ UNCHANGED <<content, target, reply, createdAt, statusVars, indexVars, workerVars>>

\* The reindex loads its document: this is the value its session later
\* compares an assignment to document.status with.
BeginReindex(r, d) ==
  /\ rpc[r] = "idle"
  /\ d \in StoredDocuments
  /\ rpc' = [rpc EXCEPT ![r] = "latest"]
  /\ target' = [target EXCEPT ![r] = d]
  /\ seen' = [seen EXCEPT ![r] = docStatus[d]]
  /\ createdAt' = [createdAt EXCEPT ![r] = Now]
  /\ UNCHANGED <<content, reply, statusVars, indexVars, run, deleted, objects, faults>>

\* The latest job is read, without a lock; while it is active the request
\* answers with it and schedules nothing.
CheckLatestJob(r) ==
  /\ rpc[r] = "latest"
  /\ \E j \in Requests :
       /\ IsLatestJob(j, target[r])
       /\ IF jobStatus[j] \in {"queued", "running"}
          THEN /\ reply' = [reply EXCEPT ![r] = j]
               /\ rpc' = [rpc EXCEPT ![r] = "done"]
          ELSE /\ rpc' = [rpc EXCEPT ![r] = "insert"]
               /\ UNCHANGED reply
  /\ UNCHANGED <<content, target, createdAt, statusVars, indexVars, workerVars, objects,
                 faults>>

\* A new job and document.status = UPLOADED in one commit; SQLAlchemy emits no
\* UPDATE for the document if the loaded status already was UPLOADED.
CommitReindex(r) ==
  /\ rpc[r] = "insert"
  /\ jobStatus' = [jobStatus EXCEPT ![r] = "queued"]
  /\ docStatus' = IF seen[r] = "uploaded" THEN docStatus
                  ELSE [docStatus EXCEPT ![target[r]] = "uploaded"]
  /\ reply' = [reply EXCEPT ![r] = r]
  /\ rpc' = [rpc EXCEPT ![r] = "enqueue"]
  /\ UNCHANGED <<content, target, createdAt, attempts, indexVars, workerVars, objects,
                 faults>>

CommitReindexFails(r) ==
  /\ rpc[r] = "insert"
  /\ Fault("database")
  /\ rpc' = [rpc EXCEPT ![r] = "done"]
  /\ UNCHANGED <<content, target, reply, createdAt, statusVars, indexVars, workerVars,
                 objects>>

\* The route enqueues ingest_document after the commit, with no _job_id, so
\* that each call adds a message of its own.
Enqueue(r) ==
  /\ rpc[r] = "enqueue"
  /\ rpc' = [rpc EXCEPT ![r] = "done"]
  /\ run' = [run EXCEPT ![r] = "queued"]
  /\ UNCHANGED <<content, target, reply, createdAt, statusVars, indexVars, seen, deleted,
                 objects, faults>>

EnqueueFails(r) ==
  /\ rpc[r] = "enqueue"
  /\ Fault("redis")
  /\ rpc' = [rpc EXCEPT ![r] = "done"]
  /\ UNCHANGED <<content, target, reply, createdAt, statusVars, indexVars, workerVars,
                 objects>>

\* What the API process does by itself once a request has arrived.
UploadStep(u) ==
  \/ Lookup(u)
  \/ AnswerExisting(u)
  \/ StoreSource(u)
  \/ CommitUpload(u)
  \/ CommitUploadFails(u)
  \/ DeleteSource(u)

ReindexStep(r) ==
  \/ CheckLatestJob(r)
  \/ CommitReindex(r)
  \/ CommitReindexFails(r)

EnqueueStep(r) ==
  \/ Enqueue(r)
  \/ EnqueueFails(r)

\* Requests arrive when their clients please.
Arrival ==
  \/ \E u \in Uploads, c \in Contents : BeginUpload(u, c)
  \/ \E r \in Reindexes, d \in Uploads : BeginReindex(r, d)
=============================================================================

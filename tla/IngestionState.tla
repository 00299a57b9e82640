--------------------------- MODULE IngestionState ---------------------------
(***************************************************************************)
(* The state shared by the document API (module Documents) and the ARQ     *)
(* workers (module IngestionWorker): the documents, ingestion_jobs and     *)
(* document_chunks tables, the object store, the Qdrant collection and the *)
(* queue between them.                                                     *)
(*                                                                         *)
(* A request of the API mints the identifiers it inserts (uuid4), so an    *)
(* upload stands for the document it may create, every request stands for  *)
(* the job it may create, and every request enqueues at most one ARQ       *)
(* message, which it also stands for.                                      *)
(***************************************************************************)
EXTENDS Naturals, FiniteSets

CONSTANTS
  Uploads,            \* POST /documents/upload requests
  Reindexes,          \* POST /documents/{id}/reindex requests
  Contents,           \* the byte strings that are uploaded (their checksums)
  Unreadable,         \* those from which no text can be extracted
  Faults,             \* the kinds of failure a behaviour may contain
  MaxFaults,          \* bound: failures in one behaviour
  CollectionAtStart,  \* whether the Qdrant collection may exist beforehand, or not
  None                \* no document, no job, no content

Requests == Uploads \cup Reindexes

\* storage: an S3 call raises; provider: the embedding call raises; vector: a
\* Qdrant call raises; database: a statement or commit raises; redis: the
\* process dies or Redis refuses between the commit and the enqueue; crash:
\* the worker process dies or is stopped; timeout: ARQ's job_timeout expires.
FaultKinds ==
  {"storage", "provider", "vector", "database", "redis", "crash", "timeout"}

ASSUME RequestsAssumption ==
  /\ IsFiniteSet(Uploads) /\ IsFiniteSet(Reindexes)
  /\ Uploads \cap Reindexes = {}
  /\ None \notin Requests /\ None \notin Contents
ASSUME ContentsAssumption == Unreadable \subseteq Contents
ASSUME FaultsAssumption ==
  Faults \subseteq FaultKinds /\ MaxFaults \in Nat /\ CollectionAtStart \subseteq BOOLEAN

DocStatuses == {"absent", "uploaded", "processing", "indexed", "failed"}
JobStatuses == {"absent", "queued", "running", "indexed", "failed"}
ObjectKinds == {"source", "text", "manifest"}

VARIABLES
  rpc,         \* where each API request is in its handler
  content,     \* upload -> the bytes it carries
  target,      \* request -> the document it answers with
  reply,       \* request -> the job it answers with, which its message names
  createdAt,   \* request -> the start of its transaction (ingestion_jobs.created_at)
  docStatus,   \* documents.status
  jobStatus,   \* ingestion_jobs.status
  attempts,    \* ingestion_jobs.attempt_count
  rows,        \* <<document, delivery>> for the committed rows of document_chunks
               \* and the delivery that inserted them
  objects,     \* <<document, kind>> for each object in storage
  points,      \* documents with points in the Qdrant collection
  collection,  \* whether the Qdrant collection exists
  run,         \* message -> where its delivery is in the pipeline
  seen,        \* documents.status as loaded by the session of the request or,
               \* later, by the sparse stage of the delivery
  deleted,     \* delivery -> the rows its open DELETE saw or its open transaction
               \* has deleted, by the delivery that inserted them
  faults       \* failures so far

requestVars == <<rpc, content, target, reply, createdAt>>
statusVars == <<docStatus, jobStatus, attempts>>
indexVars == <<rows, points, collection>>
workerVars == <<run, seen, deleted>>
vars == <<requestVars, statusVars, indexVars, workerVars, objects, faults>>

-----------------------------------------------------------------------------
\* The deliveries whose rows a search of the document finds.
Versions(d) == {m \in Requests : <<d, m>> \in rows}

Searchable == {d \in Uploads : Versions(d) # {}}

StoredDocuments == {d \in Uploads : docStatus[d] # "absent"}

\* ingestion_jobs.doc_id of a job.
JobDoc(j) == IF j \in Uploads THEN j ELSE target[j]

JobsOf(d) == {j \in Requests : jobStatus[j] # "absent" /\ JobDoc(j) = d}

\* The order by created_at desc of _get_latest_ingestion_job_for_document.
IsLatestJob(j, d) ==
  /\ j \in JobsOf(d)
  /\ \A k \in JobsOf(d) : createdAt[k] <= createdAt[j]

\* created_at is the start of the inserting transaction (func.now()).
Now == Cardinality({r \in Requests : rpc[r] # "idle"}) + 1

\* One failure of the environment; every action without one leaves the count.
Fault(kind) ==
  /\ kind \in Faults
  /\ faults < MaxFaults
  /\ faults' = faults + 1

Init ==
  /\ rpc = [r \in Requests |-> "idle"]
  /\ content = [u \in Uploads |-> None]
  /\ target = [r \in Requests |-> None]
  /\ reply = [r \in Requests |-> None]
  /\ createdAt = [r \in Requests |-> 0]
  /\ docStatus = [u \in Uploads |-> "absent"]
  /\ jobStatus = [r \in Requests |-> "absent"]
  /\ attempts = [r \in Requests |-> 0]
  /\ rows = {}
  /\ objects = {}
  /\ points = {}
  /\ collection \in CollectionAtStart
  /\ run = [r \in Requests |-> "absent"]
  /\ seen = [r \in Requests |-> "absent"]
  /\ deleted = [m \in Requests |-> {}]
  /\ faults = 0
=============================================================================

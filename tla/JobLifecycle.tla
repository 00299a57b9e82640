---------------------------- MODULE JobLifecycle ----------------------------
(***************************************************************************)
(* What the ingestion_jobs table promises its readers, whatever workers    *)
(* and queues do underneath: a job belongs to one document for good, it is *)
(* claimed at most once and only out of the queue, and its document        *)
(* becomes searchable in the step that publishes it.                       *)
(*                                                                         *)
(* The services mark a job indexed or failed without looking at its        *)
(* status, so neither of the two is final: a late delivery may replace one *)
(* by the other.  No job is ever queued or run again.                      *)
(***************************************************************************)
CONSTANTS Jobs, Docs, NoDoc

VARIABLES
  status,     \* ingestion_jobs.status
  docOf,      \* ingestion_jobs.doc_id
  searchable  \* documents with chunk rows

lifecycleVars == <<status, docOf, searchable>>

LifecycleInit ==
  /\ status = [j \in Jobs |-> "absent"]
  /\ docOf = [j \in Jobs |-> NoDoc]
  /\ searchable = {}

Submit(j, d) ==
  /\ status[j] = "absent"
  /\ status' = [status EXCEPT ![j] = "queued"]
  /\ docOf' = [docOf EXCEPT ![j] = d]
  /\ UNCHANGED searchable

Start(j) ==
  /\ status[j] = "queued"
  /\ status' = [status EXCEPT ![j] = "running"]
  /\ UNCHANGED <<docOf, searchable>>

\* Out of failed when another delivery has failed the job in the meantime.
Publish(j) ==
  /\ status[j] \in {"running", "failed"}
  /\ status' = [status EXCEPT ![j] = "indexed"]
  /\ searchable' = searchable \cup {docOf[j]}
  /\ UNCHANGED docOf

\* From queued when the claim itself raises; from indexed when a second
\* delivery finds the job taken.
Fail(j) ==
  /\ status[j] # "absent"
  /\ status' = [status EXCEPT ![j] = "failed"]
  /\ UNCHANGED <<docOf, searchable>>

LifecycleNext ==
  \E j \in Jobs :
    \/ \E d \in Docs : Submit(j, d)
    \/ Start(j)
    \/ Publish(j)
    \/ Fail(j)

LifecycleSpec == LifecycleInit /\ [][LifecycleNext]_lifecycleVars
=============================================================================

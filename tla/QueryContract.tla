---------------------------- MODULE QueryContract ---------------------------
(***************************************************************************)
(* What the execution of a query promises whoever called it: the /query    *)
(* route, a background task or a chat turn.  It persists at most one trace *)
(* with one answer, an answer passes only as passed or degraded, it        *)
(* returns only an answer that is persisted, and what it raises as a       *)
(* QueryServiceError (refused) or lets escape (lost, with a process that   *)
(* dies) may come before or after the trace.                               *)
(***************************************************************************)
CONSTANTS Queries

VARIABLES
  phase,   \* how far the execution of a query has come
  answer   \* the grade of the answer in its trace

contractVars == <<phase, answer>>

Phases == {"idle", "running", "persisted", "returned", "refused", "lost"}
Grades == {"passed", "degraded"}

ContractInit ==
  /\ phase = [q \in Queries |-> "idle"]
  /\ answer = [q \in Queries |-> "none"]

Begin(q) ==
  /\ phase[q] = "idle"
  /\ phase' = [phase EXCEPT ![q] = "running"]
  /\ UNCHANGED answer

Persist(q, grade) ==
  /\ phase[q] = "running"
  /\ phase' = [phase EXCEPT ![q] = "persisted"]
  /\ answer' = [answer EXCEPT ![q] = grade]

Return(q) ==
  /\ phase[q] = "persisted"
  /\ phase' = [phase EXCEPT ![q] = "returned"]
  /\ UNCHANGED answer

Refuse(q) ==
  /\ phase[q] \in {"idle", "running", "persisted"}
  /\ phase' = [phase EXCEPT ![q] = "refused"]
  /\ UNCHANGED answer

Lose(q) ==
  /\ phase[q] \in {"idle", "running", "persisted"}
  /\ phase' = [phase EXCEPT ![q] = "lost"]
  /\ UNCHANGED answer

ContractNext ==
  \E q \in Queries :
    \/ Begin(q)
    \/ \E grade \in Grades : Persist(q, grade)
    \/ Return(q)
    \/ Refuse(q)
    \/ Lose(q)

ContractSpec == ContractInit /\ [][ContractNext]_contractVars
=============================================================================

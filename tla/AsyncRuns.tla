------------------------------ MODULE AsyncRuns -----------------------------
(***************************************************************************)
(* Asynchronous verified runs (queue_async_verified_query and              *)
(* process_async_verified_query in services/query.py, their route, and     *)
(* services/runs.py).  The route stores a queued trace and answers 202; a  *)
(* background task of the same process executes the query, which stores a  *)
(* trace of its own, copies that one into the queued trace and deletes it. *)
(*                                                                         *)
(* The execution is used through its contract: phase and answer are those  *)
(* of QueryContract, which QueryExecution implements.  A run stands for    *)
(* the trace id the route mints.                                           *)
(***************************************************************************)
EXTENDS Naturals, FiniteSets

CONSTANTS
  Runs,      \* POST /query requests with prefer_async and the CRITICAL tier
  Faults,    \* the kinds of failure a behaviour may contain
  MaxFaults  \* bound: failures in one behaviour

\* database: a statement or commit of the run raises; death: the process dies or
\* is restarted, which loses its tasks; escape: the execution raises something
\* other than a QueryServiceError; refusal: it raises a QueryServiceError.
FaultKinds == {"database", "death", "escape", "refusal"}

ASSUME RunsAssumption == IsFiniteSet(Runs)
ASSUME RunFaultsAssumption == Faults \subseteq FaultKinds /\ MaxFaults \in Nat

VARIABLES
  phase, answer,  \* the executions of the runs' queries (QueryContract)
  task,           \* the route and then the background task of a run
  status,         \* run_status in the run's trace
  result,         \* what the run's trace says
  inner,          \* the trace of the execution: absent, visible or deleted
  rated,          \* runs and executions whose trace has feedback
  faults

Execution == INSTANCE QueryContract WITH Queries <- Runs

vars == <<phase, answer, task, status, result, inner, rated, faults>>
execution == <<phase, answer>>

Statuses == {"absent", "queued", "running", "completed", "failed"}
Results == {"none", "placeholder", "failure", "passed", "degraded"}
\* done: the handler or the task has run to its end; abandoned: an exception that
\* nothing handles, or the death of the process, has ended it before.
Tasks == {"request", "accepted", "executing", "done", "abandoned"}

Fault(kind) ==
  /\ kind \in Faults
  /\ faults < MaxFaults
  /\ faults' = faults + 1

Init ==
  /\ Execution!ContractInit
  /\ task = [r \in Runs |-> "request"]
  /\ status = [r \in Runs |-> "absent"]
  /\ result = [r \in Runs |-> "none"]
  /\ inner = [r \in Runs |-> "absent"]
  /\ rated = {}
  /\ faults = 0

-----------------------------------------------------------------------------
\* The route: the queued trace is committed and the task is scheduled.
Queue(r) ==
  /\ task[r] = "request"
  /\ status' = [status EXCEPT ![r] = "queued"]
  /\ result' = [result EXCEPT ![r] = "placeholder"]
  /\ task' = [task EXCEPT ![r] = "accepted"]
  /\ UNCHANGED <<execution, inner, rated, faults>>

\* The commit fails and there is no run, or the refresh after it does and the
\* queued run has no task; the client gets an error.
QueueFails(r) ==
  /\ task[r] = "request"
  /\ Fault("database")
  /\ task' = [task EXCEPT ![r] = "abandoned"]
  /\ \/ UNCHANGED <<status, result>>
     \/ /\ status' = [status EXCEPT ![r] = "queued"]
        /\ result' = [result EXCEPT ![r] = "placeholder"]
  /\ UNCHANGED <<execution, inner, rated>>

StartTask(r) ==
  /\ task[r] = "accepted"
  /\ status' = [status EXCEPT ![r] = "running"]
  /\ task' = [task EXCEPT ![r] = "executing"]
  /\ UNCHANGED <<execution, result, inner, rated, faults>>

\* A commit of the task that is no part of the execution raises, and nothing
\* handles it.
TaskFails(r) ==
  /\ \/ task[r] = "accepted"
     \/ task[r] = "executing" /\ phase[r] \in {"returned", "refused"}
  /\ Fault("database")
  /\ task' = [task EXCEPT ![r] = "abandoned"]
  /\ UNCHANGED <<execution, status, result, inner, rated>>

-----------------------------------------------------------------------------
\* execute_standard_query, in the session of the task.
Execute(r) ==
  /\ task[r] = "executing"
  /\ \/ Execution!Begin(r) /\ UNCHANGED inner
     \/ /\ \E grade \in Execution!Grades : Execution!Persist(r, grade)
        /\ inner' = [inner EXCEPT ![r] = "visible"]
     \/ Execution!Return(r) /\ UNCHANGED inner
  /\ UNCHANGED <<task, status, result, rated, faults>>

ExecutionRefused(r) ==
  /\ task[r] = "executing"
  /\ Execution!Refuse(r)
  /\ Fault("refusal")
  /\ UNCHANGED <<task, status, result, inner, rated>>

\* A RetrievalError of a corrective attempt, say, ends the task.
ExecutionEscapes(r) ==
  /\ task[r] = "executing"
  /\ Execution!Lose(r)
  /\ Fault("escape")
  /\ task' = [task EXCEPT ![r] = "abandoned"]
  /\ UNCHANGED <<status, result, inner, rated>>

\* Variant for testing RunSettles: a refused execution is only logged.
RecordNothing(r) ==
  /\ task[r] = "executing"
  /\ phase[r] = "refused"
  /\ task' = [task EXCEPT ![r] = "done"]
  /\ UNCHANGED <<execution, status, result, inner, rated, faults>>

\* Variant for testing RunNeverReverts: the failure is recorded without leaving
\* the task, so that a returned or refused execution is recorded again.
RecordFailureAndGoOn(r) ==
  /\ task[r] = "executing"
  /\ phase[r] \in {"refused", "returned"}
  /\ status' = [status EXCEPT ![r] = "failed"]
  /\ result' = [result EXCEPT ![r] = "failure"]
  /\ UNCHANGED <<execution, task, inner, rated, faults>>

RecordFailure(r) ==
  /\ task[r] = "executing"
  /\ phase[r] = "refused"
  /\ status' = [status EXCEPT ![r] = "failed"]
  /\ result' = [result EXCEPT ![r] = "failure"]
  /\ task' = [task EXCEPT ![r] = "done"]
  /\ UNCHANGED <<execution, inner, rated, faults>>

\* Variant for testing AnswerKept: the trace is deleted before it is copied, by
\* a commit of its own.
DeleteThenCopy(r) ==
  /\ task[r] = "executing"
  /\ phase[r] = "returned"
  /\ IF inner[r] = "visible"
     THEN inner' = [inner EXCEPT ![r] = "deleted"] /\ UNCHANGED <<status, result, task>>
     ELSE /\ status' = [status EXCEPT ![r] = "completed"]
          /\ result' = [result EXCEPT ![r] = answer[r]]
          /\ task' = [task EXCEPT ![r] = "done"]
          /\ UNCHANGED inner
  /\ UNCHANGED <<execution, rated, faults>>

\* _copy_trace_result and the delete are one transaction; the feedback of the
\* deleted trace is not copied and goes with it.
CopyResult(r) ==
  /\ task[r] = "executing"
  /\ phase[r] = "returned"
  /\ status' = [status EXCEPT ![r] = "completed"]
  /\ result' = [result EXCEPT ![r] = answer[r]]
  /\ inner' = [inner EXCEPT ![r] = "deleted"]
  /\ rated' = rated \ {<<r, "execution">>}
  /\ task' = [task EXCEPT ![r] = "done"]
  /\ UNCHANGED <<execution, faults>>

\* The process that serves the requests and their tasks dies or is restarted;
\* background tasks are kept in its memory.
ProcessDies ==
  /\ Fault("death")
  /\ task' = [r \in Runs |-> IF task[r] \in {"request", "done"} THEN task[r] ELSE "abandoned"]
  /\ phase' = [r \in Runs |-> IF /\ task[r] = "executing"
                                 /\ phase[r] \in {"idle", "running", "persisted"}
                              THEN "lost" ELSE phase[r]]
  /\ UNCHANGED <<answer, status, result, inner, rated>>

-----------------------------------------------------------------------------
\* submit_run_feedback for a trace that list_runs shows.
RateRun(r) ==
  /\ status[r] # "absent"
  /\ rated' = rated \cup {<<r, "run">>}
  /\ UNCHANGED <<execution, task, status, result, inner, faults>>

RateExecution(r) ==
  /\ inner[r] = "visible"
  /\ rated' = rated \cup {<<r, "execution">>}
  /\ UNCHANGED <<execution, task, status, result, inner, faults>>

TaskStep(r) == StartTask(r) \/ Execute(r) \/ RecordFailure(r) \/ CopyResult(r)

Next ==
  \/ \E r \in Runs :
       \/ Queue(r) \/ QueueFails(r)
       \/ TaskStep(r) \/ TaskFails(r)
       \/ ExecutionRefused(r) \/ ExecutionEscapes(r)
       \/ RateRun(r) \/ RateExecution(r)
  \/ ProcessDies

Spec == Init /\ [][Next]_vars

\* The event loop runs a background task on as long as the process lives.
FairSpec == Spec /\ \A r \in Runs : WF_vars(TaskStep(r))
-----------------------------------------------------------------------------
TypeOK ==
  /\ phase \in [Runs -> Execution!Phases]
  /\ answer \in [Runs -> Execution!Grades \cup {"none"}]
  /\ task \in [Runs -> Tasks]
  /\ status \in [Runs -> Statuses]
  /\ result \in [Runs -> Results]
  /\ inner \in [Runs -> {"absent", "visible", "deleted"}]
  /\ rated \subseteq Runs \X {"run", "execution"}
  /\ faults \in 0 .. MaxFaults

\* A completed run reports what an execution returned, and only then is the
\* trace of the execution gone.
CompletedIsExecuted ==
  \A r \in Runs :
    /\ status[r] = "completed" => phase[r] = "returned" /\ inner[r] = "deleted"
    /\ inner[r] = "deleted" => status[r] = "completed"

\* An answer that was persisted can be read, in the run or in the trace of its
\* execution, whatever fails or dies between the two.
AnswerKept ==
  \A r \in Runs : answer[r] # "none" => inner[r] = "visible" \/ result[r] = answer[r]

\* A poller sees a run go from queued to running to one of its ends, and a run
\* that has ended keeps its result.
RunNeverReverts ==
  [][\A r \in Runs :
       /\ <<status[r], status'[r]>> \in
            {<<s, s>> : s \in Statuses} \cup
            {<<"absent", "queued">>, <<"queued", "running">>,
             <<"running", "completed">>, <<"running", "failed">>}
       /\ status[r] \in {"completed", "failed"} => result'[r] = result[r]]_vars

\* Every queued run ends, also when its execution is refused, unless its task was
\* abandoned.
RunSettles ==
  \A r \in Runs :
    status[r] \in {"queued", "running"} ~>
      status[r] \in {"completed", "failed"} \/ task[r] = "abandoned"

-----------------------------------------------------------------------------
\* What the phases of a run say of each other: with it the safety properties
\* are inductive.
Wired ==
  \A r \in Runs :
    /\ task[r] = "request" => status[r] = "absent" /\ phase[r] = "idle"
    /\ task[r] = "accepted" => status[r] = "queued" /\ phase[r] = "idle"
    /\ task[r] = "executing" => status[r] = "running" /\ inner[r] # "deleted"
    /\ phase[r] \in {"idle", "running"} => answer[r] = "none"
    /\ inner[r] = "absent" => answer[r] = "none"
    /\ phase[r] \in {"persisted", "returned"} => inner[r] # "absent"

IInv == TypeOK /\ Wired /\ CompletedIsExecuted /\ AnswerKept

=============================================================================

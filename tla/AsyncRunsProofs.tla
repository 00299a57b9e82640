--------------------------- MODULE AsyncRunsProofs --------------------------
(***************************************************************************)
(* Theorems of AsyncRuns for any set of runs and any failures: IInv is an  *)
(* inductive invariant, and what a caller may rely on follows from it.     *)
(* Wired ties the task of a run to its status, to the phase of its         *)
(* execution and to the trace of that execution; without it the task could *)
(* copy an answer that was never persisted.                                *)
(***************************************************************************)
EXTENDS AsyncRuns, TLAPS

USE DEF Execution!Phases, Execution!Grades, Statuses, Results, Tasks, execution, Fault

\* The initial state satisfies the invariant.
LEMMA InitInvariant == Init => IInv
<1> SUFFICES ASSUME Init PROVE IInv
  OBVIOUS
<1>1. TypeOK
  BY RunFaultsAssumption DEF Init, Execution!ContractInit, TypeOK
<1>2. Wired /\ CompletedIsExecuted /\ AnswerKept
  BY DEF Init, Execution!ContractInit, Wired, CompletedIsExecuted, AnswerKept
<1> QED
  BY <1>1, <1>2 DEF IInv

-----------------------------------------------------------------------------
\* The steps of the route and of the task around an execution.
LEMMA RouteStep ==
  ASSUME IInv, NEW r \in Runs, Queue(r) \/ QueueFails(r) \/ StartTask(r) \/ TaskFails(r)
  PROVE  IInv'
<1> USE DEF IInv
<1>1. CASE Queue(r)
  BY <1>1 DEF Queue, TypeOK, Wired, CompletedIsExecuted, AnswerKept
<1>2. CASE QueueFails(r)
  BY <1>2, RunFaultsAssumption DEF QueueFails, TypeOK, Wired, CompletedIsExecuted, AnswerKept
<1>3. CASE StartTask(r)
  BY <1>3 DEF StartTask, TypeOK, Wired, CompletedIsExecuted, AnswerKept
<1>4. CASE TaskFails(r)
  BY <1>4, RunFaultsAssumption DEF TaskFails, TypeOK, Wired, CompletedIsExecuted, AnswerKept
<1> QED
  BY <1>1, <1>2, <1>3, <1>4

\* The steps of an execution, seen through its contract.
LEMMA ExecutionStep ==
  ASSUME IInv, NEW r \in Runs, Execute(r) \/ ExecutionRefused(r) \/ ExecutionEscapes(r)
  PROVE  IInv'
<1> USE DEF IInv
<1>1. CASE Execute(r) /\ Execution!Begin(r) /\ UNCHANGED inner
  BY <1>1 DEF Execute, Execution!Begin, TypeOK, Wired, CompletedIsExecuted, AnswerKept
<1>2. CASE /\ Execute(r)
           /\ \E grade \in Execution!Grades : Execution!Persist(r, grade)
           /\ inner' = [inner EXCEPT ![r] = "visible"]
  BY <1>2 DEF Execute, Execution!Persist, TypeOK, Wired, CompletedIsExecuted, AnswerKept
<1>3. CASE Execute(r) /\ Execution!Return(r) /\ UNCHANGED inner
  BY <1>3 DEF Execute, Execution!Return, TypeOK, Wired, CompletedIsExecuted, AnswerKept
<1>4. CASE ExecutionRefused(r)
  BY <1>4, RunFaultsAssumption
  DEF ExecutionRefused, Execution!Refuse, TypeOK, Wired, CompletedIsExecuted, AnswerKept
<1>5. CASE ExecutionEscapes(r)
  BY <1>5, RunFaultsAssumption
  DEF ExecutionEscapes, Execution!Lose, TypeOK, Wired, CompletedIsExecuted, AnswerKept
<1> QED
  BY <1>1, <1>2, <1>3, <1>4, <1>5 DEF Execute

\* The two ends of a task, feedback, and the death of the process.
LEMMA EndStep ==
  ASSUME IInv,
         \/ \E r \in Runs : RecordFailure(r) \/ CopyResult(r) \/ RateRun(r) \/ RateExecution(r)
         \/ ProcessDies
  PROVE  IInv'
<1> USE DEF IInv
<1>1. ASSUME NEW r \in Runs, RecordFailure(r)
      PROVE  IInv'
  BY <1>1 DEF RecordFailure, TypeOK, Wired, CompletedIsExecuted, AnswerKept
<1>2. ASSUME NEW r \in Runs, CopyResult(r)
      PROVE  IInv'
  <2>1. TypeOK'
    BY <1>2 DEF CopyResult, TypeOK, Wired, AnswerKept
  <2>2. Wired'
    BY <1>2 DEF CopyResult, TypeOK, Wired
  <2>3. CompletedIsExecuted' /\ AnswerKept'
    BY <1>2 DEF CopyResult, TypeOK, CompletedIsExecuted, AnswerKept
  <2> QED
    BY <2>1, <2>2, <2>3
<1>3. ASSUME NEW r \in Runs, RateRun(r) \/ RateExecution(r)
      PROVE  IInv'
  BY <1>3 DEF RateRun, RateExecution, TypeOK, Wired, CompletedIsExecuted, AnswerKept
<1>4. CASE ProcessDies
  <2>1. TypeOK'
    BY <1>4, RunFaultsAssumption DEF ProcessDies, TypeOK
  <2>2. Wired'
    BY <1>4 DEF ProcessDies, TypeOK, Wired
  <2>3. CompletedIsExecuted' /\ AnswerKept'
    BY <1>4 DEF ProcessDies, TypeOK, CompletedIsExecuted, AnswerKept
  <2> QED
    BY <2>1, <2>2, <2>3
<1> QED
  BY <1>1, <1>2, <1>3, <1>4

\* Every step of the specification preserves the invariant.
LEMMA NextInvariant ==
  ASSUME IInv, [Next]_vars
  PROVE  IInv'
<1>1. CASE Next
  BY <1>1, RouteStep, ExecutionStep, EndStep DEF Next, TaskStep
<1>2. CASE UNCHANGED vars
  BY <1>2 DEF vars, IInv, TypeOK, Wired, CompletedIsExecuted, AnswerKept
<1> QED
  BY <1>1, <1>2

-----------------------------------------------------------------------------
\* The invariant holds in every state of every behaviour.
THEOREM Invariance == Spec => []IInv
<1>1. Init => IInv
  BY InitInvariant
<1>2. IInv /\ [Next]_vars => IInv'
  BY NextInvariant
<1> QED
  BY <1>1, <1>2, PTL DEF Spec

\* Every variable keeps its type.
THEOREM TypeCorrect == Spec => []TypeOK
<1>1. IInv => TypeOK
  BY DEF IInv
<1> QED
  BY <1>1, Invariance, PTL

\* A run is completed only with what an execution returned, and the trace of an
\* execution is deleted only for a run that is completed.
THEOREM CompletedRunsExecuted == Spec => []CompletedIsExecuted
<1>1. IInv => CompletedIsExecuted
  BY DEF IInv
<1> QED
  BY <1>1, Invariance, PTL

\* No failure and no death of the process loses an answer that was persisted.
THEOREM AnswersKept == Spec => []AnswerKept
<1>1. IInv => AnswerKept
  BY DEF IInv
<1> QED
  BY <1>1, Invariance, PTL

-----------------------------------------------------------------------------
\* The runs a step of one run leaves alone stay as they are, and its own moves
\* forward only.
LEMMA StepForward ==
  ASSUME IInv, [Next]_vars, NEW q \in Runs
  PROVE  /\ <<status[q], status'[q]>> \in
              {<<s, s>> : s \in Statuses} \cup
              {<<"absent", "queued">>, <<"queued", "running">>,
               <<"running", "completed">>, <<"running", "failed">>}
         /\ status[q] \in {"completed", "failed"} => result'[q] = result[q]
<1> USE DEF IInv
<1>1. status[q] \in Statuses
  BY DEF TypeOK
<1>2. CASE status'[q] = status[q] /\ result'[q] = result[q]
  BY <1>1, <1>2
<1>3. ASSUME NEW r \in Runs, Queue(r) \/ QueueFails(r)
      PROVE  \/ status'[q] = status[q] /\ result'[q] = result[q]
             \/ status[q] = "absent" /\ status'[q] = "queued"
  BY <1>3 DEF Queue, QueueFails, TypeOK, Wired
<1>4. ASSUME NEW r \in Runs, StartTask(r)
      PROVE  \/ status'[q] = status[q] /\ result'[q] = result[q]
             \/ status[q] = "queued" /\ status'[q] = "running"
  BY <1>4 DEF StartTask, TypeOK, Wired
<1>5. ASSUME NEW r \in Runs, RecordFailure(r)
      PROVE  \/ status'[q] = status[q] /\ result'[q] = result[q]
             \/ status[q] = "running" /\ status'[q] = "failed"
  BY <1>5 DEF RecordFailure, TypeOK, Wired
<1>6. ASSUME NEW r \in Runs, CopyResult(r)
      PROVE  \/ status'[q] = status[q] /\ result'[q] = result[q]
             \/ status[q] = "running" /\ status'[q] = "completed"
  BY <1>6 DEF CopyResult, TypeOK, Wired
<1>7. CASE \/ \E r \in Runs : \/ Execute(r) \/ TaskFails(r)
                               \/ ExecutionRefused(r) \/ ExecutionEscapes(r)
                               \/ RateRun(r) \/ RateExecution(r)
           \/ ProcessDies
           \/ UNCHANGED vars
  BY <1>2, <1>7
  DEF Execute, TaskFails, ExecutionRefused, ExecutionEscapes, RateRun, RateExecution,
      ProcessDies, vars
<1> QED
  BY <1>2, <1>3, <1>4, <1>5, <1>6, <1>7 DEF Next, TaskStep

\* A poller sees a run go forward only, and keep its result once it has ended.
THEOREM RunsNeverRevert == Spec => RunNeverReverts
<1>1. IInv /\ [Next]_vars =>
        [\A r \in Runs :
           /\ <<status[r], status'[r]>> \in
                {<<s, s>> : s \in Statuses} \cup
                {<<"absent", "queued">>, <<"queued", "running">>,
                 <<"running", "completed">>, <<"running", "failed">>}
           /\ status[r] \in {"completed", "failed"} => result'[r] = result[r]]_vars
  BY StepForward
<1> QED
  BY <1>1, Invariance, PTL DEF Spec, RunNeverReverts
=============================================================================

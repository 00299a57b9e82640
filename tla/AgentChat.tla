----------------------------- MODULE AgentChat ------------------------------
(***************************************************************************)
(* The turns of one conversation with an agent (services/agent_chat.py,    *)
(* services/messages.py and the chat routes) and the edits of its mode     *)
(* (services/conversations.py).  A turn stores the question, executes the  *)
(* query with the earlier messages as its context, stores the answer and   *)
(* remembers its mode, each in a transaction of its own; turns and edits   *)
(* of a conversation interleave.                                           *)
(*                                                                         *)
(* The execution is used through its contract: phase and answer are those  *)
(* of QueryContract, and the trace that a turn's answer names as its run   *)
(* is the one its execution persisted.  Conversations share no state.      *)
(***************************************************************************)
EXTENDS Naturals, FiniteSets, Sequences

CONSTANTS
  Turns,      \* POST /agents/{id}/chat and .../chat/stream requests
  Streams,    \* those that stream their progress
  Edits,      \* PATCH /conversations/{id} requests that set the mode
  Questions,  \* the texts of questions
  ChatModes,  \* the modes the agent allows
  Requests,   \* what turns and edits may ask for: functions to a mode, or to None
  None,       \* no mode
  Faults,     \* the kinds of failure a behaviour may contain
  MaxFaults   \* bound: failures in one behaviour

\* database: a commit of the conversation or the refresh after it raises; death:
\* the API process dies or is restarted; leave: the client of a stream leaves.
FaultKinds == {"database", "death", "leave"}

Sessions == Turns \cup Edits

ASSUME SessionsAssumption ==
  /\ IsFiniteSet(Turns) /\ Streams \subseteq Turns /\ Turns \cap Edits = {}
  /\ None \notin ChatModes
ASSUME RequestsAssumption ==
  \A r \in Requests :
    r \in [Sessions -> ChatModes \cup {None}] /\ \A e \in Edits : r[e] # None
ASSUME ChatFaultsAssumption == Faults \subseteq FaultKinds /\ MaxFaults \in Nat

VARIABLES
  phase, answer,  \* the executions of the turns (QueryContract)
  at,             \* where the handler of a turn or an edit is
  question,       \* turn -> the text of its question
  requested,      \* turn or edit -> the mode it asks for
  loaded,         \* turn or edit -> conversation.last_used_mode as its session loaded it
  mode,           \* conversations.last_used_mode, None before the conversation exists
  stored,         \* the committed messages
  createdAt,      \* message -> the start of its transaction (messages.created_at)
  clock,          \* the database's clock: transactions start at different times
  past,           \* turn -> the messages that were committed when it began
  history,        \* turn -> the messages its context is made from
  informed,       \* the turns that have read them
  queue,          \* stream -> the events its generator has not sent
  line,           \* stream -> its connection: open, done or gone
  told,           \* turn -> what the client knows of its outcome
  faults

Execution == INSTANCE QueryContract WITH Queries <- Turns

execution == <<phase, answer>>
transcript == <<stored, createdAt, clock>>
contexts == <<past, history, informed>>
client == <<queue, line, told>>
vars == <<execution, at, question, requested, loaded, mode, transcript, contexts, client,
          faults>>

\* A turn stores one message of each role at most.
Asked(t) == <<t, "user">>
Reply(t) == <<t, "assistant">>
Messages == Turns \X {"user", "assistant"}

\* idle: not arrived; ask: admitted, the question is next; execute; reply: the
\* answer is next; settle: the mode is next; edit: loaded, the edit is next;
\* then the outcome, or the death of the process.
Outcomes == {"answered", "failed"}
Places == {"idle", "ask", "execute", "reply", "settle", "edit", "gone"} \cup Outcomes
Events == {"end"} \cup Outcomes

UnderWay(s) == at[s] \notin {"idle", "gone"} \cup Outcomes

Fault(kind) ==
  /\ kind \in Faults
  /\ faults < MaxFaults
  /\ faults' = faults + 1

\* The mode of a turn, or what an edit sets.
Resolved(s) == IF requested[s] = None THEN loaded[s] ELSE requested[s]

\* Variant for testing ModeWasAskedFor: the session reads the conversation afresh.
AssignModeAlways(s) == mode' = Resolved(s)

\* What a session does to the mode by assigning the resolved one: SQLAlchemy
\* compares it with the value that the session loaded, which its commits do not
\* expire, and emits no UPDATE when they agree.
AssignMode(s) == mode' = IF Resolved(s) = loaded[s] THEN mode ELSE Resolved(s)

-----------------------------------------------------------------------------
\* run_pipeline puts its events on an unbounded queue, of which only the last two
\* are modelled; without a stream the outcome is the response.
Tell(t, outcome) ==
  IF t \in Streams
  THEN /\ queue' = [queue EXCEPT ![t] = @ \o <<outcome, "end">>]
       /\ UNCHANGED <<line, told>>
  ELSE /\ told' = [told EXCEPT ![t] = outcome]
       /\ UNCHANGED <<queue, line>>

\* Variant for testing TurnEnds: an unexpected error leaves the stream open.
FailTurnSilently(t) ==
  /\ at' = [at EXCEPT ![t] = "failed"]
  /\ IF t \in Streams THEN UNCHANGED client ELSE Tell(t, "failed")

\* Every error of a turn, an unexpected exception too, is told to its client.
FailTurn(t) ==
  /\ at' = [at EXCEPT ![t] = "failed"]
  /\ Tell(t, "failed")

-----------------------------------------------------------------------------
Init ==
  /\ Execution!ContractInit
  /\ at = [s \in Sessions |-> "idle"]
  /\ question \in [Turns -> Questions]
  /\ requested \in Requests
  /\ loaded = [s \in Sessions |-> None]
  /\ mode = None
  /\ stored = {}
  /\ createdAt = [m \in Messages |-> 0]
  /\ clock = 1
  /\ past = [t \in Turns |-> {}]
  /\ history = [t \in Turns |-> {}]
  /\ informed = {}
  /\ queue = [t \in Streams |-> << >>]
  /\ line = [t \in Streams |-> "open"]
  /\ told = [t \in Turns |-> "nothing"]
  /\ faults = 0

\* The conversation starts in the requested mode or the agent's default.
CreateConversation ==
  /\ mode = None
  /\ mode' \in ChatModes
  /\ UNCHANGED <<execution, at, question, requested, loaded, transcript, contexts, client,
                 faults>>

\* The agent and the conversation are read, which begins the transaction of the
\* question, and the mode and the dataset of the turn are resolved.
BeginTurn(t) ==
  /\ at[t] = "idle"
  /\ mode # None
  /\ loaded' = [loaded EXCEPT ![t] = mode]
  /\ past' = [past EXCEPT ![t] = stored]
  /\ createdAt' = [createdAt EXCEPT ![Asked(t)] = clock]
  /\ clock' = clock + 1
  /\ at' = [at EXCEPT ![t] = "ask"]
  /\ UNCHANGED <<execution, question, requested, mode, stored, history, informed, client,
                 faults>>

\* No such conversation (404), or a mode or dataset the agent does not allow
\* (409, 422).
RejectTurn(t) ==
  /\ at[t] = "idle"
  /\ FailTurn(t)
  /\ UNCHANGED <<execution, question, requested, loaded, mode, transcript, contexts, faults>>

\* create_message with the role USER.
Ask(t) ==
  /\ at[t] = "ask"
  /\ stored' = stored \cup {Asked(t)}
  /\ at' = [at EXCEPT ![t] = "execute"]
  /\ UNCHANGED <<execution, question, requested, loaded, mode, createdAt, clock, contexts, client,
                 faults>>

\* Its commit fails, or the refresh after the commit does.
AskFails(t) ==
  /\ at[t] = "ask"
  /\ Fault("database")
  /\ stored' \in {stored, stored \cup {Asked(t)}}
  /\ FailTurn(t)
  /\ UNCHANGED <<execution, question, requested, loaded, mode, createdAt, clock, contexts>>

-----------------------------------------------------------------------------
IsLast(m) == m \in stored /\ \A n \in stored : createdAt[n] <= createdAt[m]

\* Variant for testing HistoryIsThePast: every message that asks the same is left out.
EchoAnywhere(t) == {m \in stored : m[2] = "user" /\ question[m[1]] = question[t]}

\* The last message, when it asks what the turn asks.
Echo(t) == {m \in stored : IsLast(m) /\ m[2] = "user" /\ question[m[1]] = question[t]}

\* The execution begins; small talk needs no context, and any other query reads
\* the messages in the order of created_at and leaves its own question out.
BeginExecution(t) ==
  /\ at[t] = "execute"
  /\ Execution!Begin(t)
  /\ \/ /\ history' = [history EXCEPT ![t] = stored \ Echo(t)]
        /\ informed' = informed \cup {t}
     \/ UNCHANGED <<history, informed>>
  /\ UNCHANGED <<at, question, requested, loaded, mode, transcript, past, client, faults>>

Persist(t) ==
  /\ at[t] = "execute"
  /\ \E grade \in Execution!Grades : Execution!Persist(t, grade)
  /\ UNCHANGED <<at, question, requested, loaded, mode, transcript, contexts, client, faults>>

\* The execution returns, and the transaction of the answer begins.
Return(t) ==
  /\ at[t] = "execute"
  /\ Execution!Return(t)
  /\ createdAt' = [createdAt EXCEPT ![Reply(t)] = clock]
  /\ clock' = clock + 1
  /\ at' = [at EXCEPT ![t] = "reply"]
  /\ UNCHANGED <<question, requested, loaded, mode, stored, contexts, client, faults>>

\* Variant for testing AnswersFollow: a refused execution is answered with the
\* error.
ExecutionFailsInWriting(t) ==
  /\ at[t] = "execute"
  /\ Execution!Refuse(t) \/ Execution!Lose(t)
  /\ stored' = stored \cup {Reply(t)}
  /\ FailTurn(t)
  /\ UNCHANGED <<question, requested, loaded, mode, createdAt, clock, contexts, faults>>

\* A QueryServiceError, or an exception that only the route or run_pipeline
\* handles.
ExecutionFails(t) ==
  /\ at[t] = "execute"
  /\ Execution!Refuse(t) \/ Execution!Lose(t)
  /\ FailTurn(t)
  /\ UNCHANGED <<question, requested, loaded, mode, transcript, contexts, faults>>

-----------------------------------------------------------------------------
\* create_message with the role ASSISTANT and the run of the turn.
StoreReply(t) ==
  /\ at[t] = "reply"
  /\ stored' = stored \cup {Reply(t)}
  /\ at' = [at EXCEPT ![t] = "settle"]
  /\ UNCHANGED <<execution, question, requested, loaded, mode, createdAt, clock, contexts, client,
                 faults>>

\* Variant for testing ToldIsTrue: a failed commit of the answer is only logged.
StoreReplyOrLog(t) ==
  /\ at[t] = "reply"
  /\ Fault("database")
  /\ at' = [at EXCEPT ![t] = "settle"]
  /\ UNCHANGED <<execution, question, requested, loaded, mode, transcript, contexts, client>>

StoreReplyFails(t) ==
  /\ at[t] = "reply"
  /\ Fault("database")
  /\ stored' \in {stored, stored \cup {Reply(t)}}
  /\ FailTurn(t)
  /\ UNCHANGED <<execution, question, requested, loaded, mode, createdAt, clock, contexts>>

\* conversation.last_used_mode is assigned and committed, and the turn is over.
Settle(t) ==
  /\ at[t] = "settle"
  /\ AssignMode(t)
  /\ at' = [at EXCEPT ![t] = "answered"]
  /\ Tell(t, "answered")
  /\ UNCHANGED <<execution, question, requested, loaded, transcript, contexts, faults>>

\* The client gets an error for a turn whose answer is stored.
SettleFails(t) ==
  /\ at[t] = "settle"
  /\ Fault("database")
  /\ AssignMode(t) \/ UNCHANGED mode
  /\ FailTurn(t)
  /\ UNCHANGED <<execution, question, requested, loaded, transcript, contexts>>

-----------------------------------------------------------------------------
\* update_conversation: the conversation is loaded, the agent is read, and the
\* mode is assigned and committed.
LoadEdit(e) ==
  /\ at[e] = "idle"
  /\ mode # None
  /\ loaded' = [loaded EXCEPT ![e] = mode]
  /\ at' = [at EXCEPT ![e] = "edit"]
  /\ UNCHANGED <<execution, question, requested, mode, transcript, contexts, client, faults>>

CommitEdit(e) ==
  /\ at[e] = "edit"
  /\ AssignMode(e)
  /\ at' = [at EXCEPT ![e] = "answered"]
  /\ UNCHANGED <<execution, question, requested, loaded, transcript, contexts, client, faults>>

\* The mode is refused, or the commit or the refresh after it fails.
EditFails(e) ==
  /\ at[e] = "edit"
  /\ \/ UNCHANGED <<mode, faults>>
     \/ AssignMode(e) /\ Fault("database")
  /\ at' = [at EXCEPT ![e] = "failed"]
  /\ UNCHANGED <<execution, question, requested, loaded, transcript, contexts, client>>

-----------------------------------------------------------------------------
\* generate: the next event is sent; after the last one the stream is closed.
Send(t) ==
  /\ line[t] = "open"
  /\ queue[t] # << >>
  /\ queue' = [queue EXCEPT ![t] = Tail(@)]
  /\ line' = IF Head(queue[t]) = "end" THEN [line EXCEPT ![t] = "done"] ELSE line
  /\ told' = IF Head(queue[t]) \in Outcomes THEN [told EXCEPT ![t] = Head(queue[t])] ELSE told
  /\ UNCHANGED <<execution, at, question, requested, loaded, mode, transcript, contexts, faults>>

\* The generator is cancelled; the task of the turn goes on.
ClientLeaves(t) ==
  /\ at[t] # "idle"
  /\ line[t] = "open"
  /\ Fault("leave")
  /\ line' = [line EXCEPT ![t] = "gone"]
  /\ UNCHANGED <<execution, at, question, requested, loaded, mode, transcript, contexts, queue,
                 told>>

\* Every connection breaks, and what was committed stays.
ProcessDies ==
  /\ Fault("death")
  /\ at' = [s \in Sessions |-> IF UnderWay(s) THEN "gone" ELSE at[s]]
  /\ phase' = [t \in Turns |-> IF /\ UnderWay(t)
                                  /\ phase[t] \in {"running", "persisted"}
                               THEN "lost" ELSE phase[t]]
  /\ line' = [t \in Streams |-> IF at[t] # "idle" /\ line[t] = "open" THEN "gone" ELSE line[t]]
  /\ UNCHANGED <<answer, question, requested, loaded, mode, transcript, contexts, queue, told>>

TurnStep(t) ==
  \/ Ask(t) \/ BeginExecution(t) \/ Persist(t) \/ Return(t) \/ StoreReply(t) \/ Settle(t)

TurnFails(t) ==
  \/ RejectTurn(t) \/ AskFails(t) \/ ExecutionFails(t) \/ StoreReplyFails(t) \/ SettleFails(t)

EditStep(e) == LoadEdit(e) \/ CommitEdit(e) \/ EditFails(e)

Next ==
  \/ CreateConversation
  \/ \E t \in Turns : BeginTurn(t) \/ TurnStep(t) \/ TurnFails(t)
  \/ \E e \in Edits : EditStep(e)
  \/ \E t \in Streams : Send(t) \/ ClientLeaves(t)
  \/ ProcessDies

Spec == Init /\ [][Next]_vars

\* The event loop runs handlers, tasks and generators on as long as the process
\* lives, and an execution that was begun ends (QueryExecution).
FairSpec ==
  /\ Spec
  /\ \A t \in Turns : WF_vars(TurnStep(t))
  /\ \A t \in Streams : WF_vars(Send(t))

-----------------------------------------------------------------------------
TypeOK ==
  /\ phase \in [Turns -> Execution!Phases]
  /\ answer \in [Turns -> Execution!Grades \cup {"none"}]
  /\ at \in [Sessions -> Places]
  /\ question \in [Turns -> Questions]
  /\ requested \in [Sessions -> ChatModes \cup {None}]
  /\ loaded \in [Sessions -> ChatModes \cup {None}]
  /\ mode \in ChatModes \cup {None}
  /\ stored \subseteq Messages
  /\ createdAt \in [Messages -> Nat]
  /\ clock \in Nat
  /\ past \in [Turns -> SUBSET Messages]
  /\ history \in [Turns -> SUBSET Messages]
  /\ informed \subseteq Turns
  /\ queue \in [Streams -> Seq(Events)]
  /\ line \in [Streams -> {"open", "done", "gone"}]
  /\ told \in [Turns -> {"nothing"} \cup Outcomes]
  /\ faults \in 0 .. MaxFaults

\* Wherever other turns put their messages, an answer comes after its question
\* in the order of the transcript, and it is one that an execution persisted.
AnswersFollow ==
  \A t \in Turns :
    Reply(t) \in stored =>
      /\ Asked(t) \in stored /\ createdAt[Asked(t)] < createdAt[Reply(t)]
      /\ answer[t] # "none"

\* A client that was told of an answer finds both messages in the conversation
\* and a trace under the run they name; one that was told of an error sees no
\* other outcome of the turn; a stream that ends by itself has told its outcome.
ToldIsTrue ==
  /\ \A t \in Turns :
       /\ told[t] = "answered" => {Asked(t), Reply(t)} \subseteq stored /\ answer[t] # "none"
       /\ told[t] # "nothing" => at[t] = told[t]
  /\ \A t \in Streams : line[t] = "done" => told[t] # "nothing"

\* The context of a turn has every message that was there when the turn began,
\* also one that asks the same; unless another turn has stored something since,
\* it has nothing else: the question is not part of its own context.
HistoryIsThePast ==
  [][\A t \in informed' \ informed :
       /\ past[t] \subseteq history'[t]
       /\ stored \subseteq past[t] \cup {Asked(t)} => history'[t] = past[t]]_vars

\* No turn takes back an edit of the mode without having asked for a mode itself,
\* however long ago it loaded the conversation.
ModeWasAskedFor ==
  [][mode # None /\ mode' # mode =>
       \E s \in Sessions : at'[s] # at[s] /\ requested[s] = mode']_vars

\* Every turn comes to an outcome or dies with the process, and every stream
\* that is not abandoned is closed.
TurnEnds ==
  /\ \A t \in Turns : at[t] = "ask" ~> at[t] \in Outcomes \cup {"gone"}
  /\ \A t \in Streams : at[t] \in {"ask", "failed"} ~> line[t] # "open"

-----------------------------------------------------------------------------
(***************************************************************************)
(* The inductive invariant behind the safety properties.                   *)
(***************************************************************************)
\* What the handler of a turn has done so far is in the conversation.
Wired ==
  \A t \in Turns :
    /\ at[t] = "idle" => Asked(t) \notin stored
    /\ at[t] \in {"idle", "ask", "execute"} => Reply(t) \notin stored
    /\ at[t] \in {"execute", "reply", "settle", "answered"} => Asked(t) \in stored
    /\ at[t] \in {"settle", "answered"} => Reply(t) \in stored
    /\ at[t] \in {"reply", "settle", "answered"} =>
         answer[t] # "none" /\ createdAt[Asked(t)] < createdAt[Reply(t)]
    /\ phase[t] \in {"persisted", "returned"} => answer[t] # "none"

\* A question is younger than everything its turn found in the conversation.
Dated ==
  /\ \A m \in Messages : createdAt[m] < clock
  /\ \A t \in Turns :
       at[t] \in {"ask", "execute"} =>
         past[t] \subseteq stored /\ \A m \in past[t] : createdAt[m] < createdAt[Asked(t)]

\* A stream is told the outcome of its turn and then its end.
Streamed ==
  \A t \in Streams :
    \/ queue[t] = << >>
    \/ queue[t] = <<at[t], "end">> /\ at[t] \in Outcomes
    \/ queue[t] = <<"end">> /\ at[t] \in Outcomes /\ told[t] = at[t]

IInv == TypeOK /\ Wired /\ Dated /\ Streamed /\ AnswersFollow /\ ToldIsTrue
=============================================================================

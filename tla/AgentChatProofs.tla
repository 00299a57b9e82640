--------------------------- MODULE AgentChatProofs --------------------------
(***************************************************************************)
(* Theorems of AgentChat for any turns, edits, questions and failures:     *)
(* IInv is an inductive invariant, and what clients and contexts may rely  *)
(* on follows from it.  Wired ties the handler of a turn to its messages   *)
(* and its execution, Dated the order of the transcript to the order in    *)
(* which turns began, Streamed the events under way to the outcome.        *)
(***************************************************************************)
EXTENDS AgentChat, TLAPS

USE DEF Execution!Phases, Execution!Grades, Outcomes, Sessions, Messages, Asked, Reply,
        execution, transcript, contexts, client, Fault

\* The two messages of a turn are messages, and no two are the same.
LEMMA MessagesDiffer ==
  /\ \A t \in Turns : Asked(t) \in Messages /\ Reply(t) \in Messages
  /\ \A t, u \in Turns : Asked(t) # Reply(u)
  /\ \A t, u \in Turns : Asked(t) = Asked(u) \/ Reply(t) = Reply(u) => t = u
  OBVIOUS

\* The initial state satisfies the invariant.
LEMMA InitInvariant == Init => IInv
<1> SUFFICES ASSUME Init PROVE IInv
  OBVIOUS
<1>1. TypeOK
  <2>1. requested \in [Sessions -> ChatModes \cup {None}]
    BY RequestsAssumption DEF Init
  <2> QED
    BY <2>1, ChatFaultsAssumption DEF Init, Execution!ContractInit, TypeOK, Places, Events
<1>2. Wired /\ Dated /\ Streamed
  BY DEF Init, Execution!ContractInit, Wired, Dated, Streamed
<1>3. AnswersFollow /\ ToldIsTrue
  BY DEF Init, AnswersFollow, ToldIsTrue
<1> QED
  BY <1>1, <1>2, <1>3 DEF IInv

-----------------------------------------------------------------------------
\* What a turn's outcome does to the events of its stream and to its client.
LEMMA Telling ==
  ASSUME IInv, NEW t \in Turns, NEW outcome \in Outcomes,
         at[t] \notin Outcomes, at' = [at EXCEPT ![t] = outcome], Tell(t, outcome),
         stored \subseteq stored',
         \A u \in Turns : answer[u] # "none" => answer'[u] = answer[u],
         outcome = "answered" => {Asked(t), Reply(t)} \subseteq stored' /\ answer'[t] # "none"
  PROVE  /\ queue' \in [Streams -> Seq(Events)]
         /\ line' \in [Streams -> {"open", "done", "gone"}]
         /\ told' \in [Turns -> {"nothing"} \cup Outcomes]
         /\ Streamed' /\ ToldIsTrue'
<1> USE SessionsAssumption DEF IInv
<1>1. CASE t \in Streams
  <2>1. queue[t] = << >>
    BY <1>1 DEF Streamed
  <2>2. queue' = [queue EXCEPT ![t] = <<outcome, "end">>] /\ line' = line /\ told' = told
    <3>1. << >> \o <<outcome, "end">> = <<outcome, "end">>
      OBVIOUS
    <3> QED
      BY <1>1, <2>1, <3>1 DEF Tell, TypeOK
  <2>3. <<outcome, "end">> \in Seq(Events)
    BY DEF Events
  <2>4. queue' \in [Streams -> Seq(Events)]
    BY <2>2, <2>3 DEF TypeOK
  <2>5. Streamed'
    BY <2>2 DEF Streamed, TypeOK
  <2>6. ToldIsTrue'
    BY <2>2 DEF ToldIsTrue, TypeOK
  <2> QED
    BY <2>2, <2>4, <2>5, <2>6 DEF TypeOK
<1>2. CASE t \notin Streams
  <2>1. told' = [told EXCEPT ![t] = outcome] /\ queue' = queue /\ line' = line
    BY <1>2 DEF Tell
  <2>2. Streamed'
    BY <1>2, <2>1 DEF Streamed, TypeOK
  <2>3. \A u \in Turns : u # t => told'[u] = told[u] /\ at'[u] = at[u]
    BY <2>1 DEF TypeOK
  <2>4. told'[t] = outcome /\ at'[t] = outcome
    BY <2>1 DEF TypeOK
  <2>5. ToldIsTrue'
    BY <1>2, <2>1, <2>3, <2>4 DEF ToldIsTrue
  <2> QED
    BY <2>1, <2>2, <2>5 DEF TypeOK
<1> QED
  BY <1>1, <1>2

\* A step of a session that tells its client nothing.
LEMMA Silent ==
  ASSUME IInv, UNCHANGED client, stored \subseteq stored',
         \A u \in Turns : answer[u] # "none" => answer'[u] = answer[u],
         \A u \in Turns : at'[u] # at[u] => at[u] \notin Outcomes
  PROVE  Streamed' /\ ToldIsTrue'
<1> USE SessionsAssumption DEF IInv
<1>1. Streamed'
  BY DEF Streamed, TypeOK
<1>2. ToldIsTrue'
  BY DEF ToldIsTrue, TypeOK
<1> QED
  BY <1>1, <1>2

-----------------------------------------------------------------------------
\* The steps of a turn up to its execution.
LEMMA QuestionStep ==
  ASSUME IInv, NEW t \in Turns, BeginTurn(t) \/ RejectTurn(t) \/ Ask(t) \/ AskFails(t)
  PROVE  IInv'
<1> USE SessionsAssumption, ChatFaultsAssumption DEF IInv
<1>1. CASE BeginTurn(t)
  <2> USE <1>1 DEF BeginTurn
  <2>1. TypeOK'
    BY DEF TypeOK, Places
  <2>0. /\ at'[t] = "ask" /\ \A u \in Turns : u # t => at'[u] = at[u]
        /\ \A u \in Turns : u # t => createdAt'[Asked(u)] = createdAt[Asked(u)]
        /\ \A u \in Turns : createdAt'[Reply(u)] = createdAt[Reply(u)]
    BY DEF TypeOK
  <2>2. Wired'
    BY <2>0 DEF Wired
  <2>3. /\ clock \in Nat /\ createdAt \in [Messages -> Nat] /\ stored \subseteq Messages
        /\ \A m \in Messages : createdAt[m] < clock
    BY DEF Dated, TypeOK
  <2>4. /\ createdAt'[Asked(t)] = clock /\ clock' = clock + 1
        /\ \A m \in Messages : m # Asked(t) => createdAt'[m] = createdAt[m]
    BY <2>3
  <2>5. \A m \in Messages : createdAt'[m] < clock'
    BY <2>3, <2>4
  <2>6. ASSUME NEW u \in Turns, at'[u] \in {"ask", "execute"}
        PROVE  past'[u] \subseteq stored' /\ \A m \in past'[u] : createdAt'[m] < createdAt'[Asked(u)]
    <3>1. Asked(t) \notin stored
      BY DEF Wired
    <3>2. CASE u = t
      <4>1. past'[u] = stored
        BY <3>2 DEF TypeOK
      <4> QED
        BY <3>1, <3>2, <4>1, <2>3, <2>4
    <3>3. CASE u # t
      <4>1. /\ past'[u] = past[u] /\ at[u] \in {"ask", "execute"}
            /\ Asked(u) \in Messages /\ Asked(u) # Asked(t)
        BY <2>6, <3>3 DEF TypeOK
      <4>2. past[u] \subseteq stored /\ \A m \in past[u] : createdAt[m] < createdAt[Asked(u)]
        BY <4>1 DEF Dated
      <4> QED
        BY <3>1, <4>1, <4>2, <2>3, <2>4
    <3> QED
      BY <3>2, <3>3
  <2>7. Dated'
    BY <2>5, <2>6 DEF Dated
  <2>8. AnswersFollow'
    BY DEF AnswersFollow, Wired, TypeOK
  <2>9. Streamed' /\ ToldIsTrue'
    BY Silent DEF TypeOK
  <2> QED
    BY <2>1, <2>2, <2>7, <2>8, <2>9
<1>2. CASE RejectTurn(t)
  <2> USE <1>2 DEF RejectTurn, FailTurn
  <2>1. /\ queue' \in [Streams -> Seq(Events)] /\ line' \in [Streams -> {"open", "done", "gone"}]
        /\ told' \in [Turns -> {"nothing"} \cup Outcomes]
        /\ Streamed' /\ ToldIsTrue'
    BY Telling
  <2>2. TypeOK'
    BY <2>1 DEF TypeOK, Places
  <2>3. Wired' /\ Dated' /\ AnswersFollow'
    BY DEF Wired, Dated, AnswersFollow, TypeOK
  <2> QED
    BY <2>1, <2>2, <2>3
<1>3. CASE Ask(t)
  <2> USE <1>3 DEF Ask
  <2>1. TypeOK'
    BY DEF TypeOK, Places
  <2>2. Wired'
    BY DEF Wired, TypeOK
  <2>3. Dated' /\ AnswersFollow'
    BY DEF Dated, AnswersFollow, Wired, TypeOK
  <2>4. Streamed' /\ ToldIsTrue'
    BY Silent DEF TypeOK
  <2> QED
    BY <2>1, <2>2, <2>3, <2>4
<1>4. CASE AskFails(t)
  <2> USE <1>4 DEF AskFails, FailTurn
  <2>1. /\ queue' \in [Streams -> Seq(Events)] /\ line' \in [Streams -> {"open", "done", "gone"}]
        /\ told' \in [Turns -> {"nothing"} \cup Outcomes]
        /\ Streamed' /\ ToldIsTrue'
    BY Telling
  <2>2. TypeOK'
    BY <2>1 DEF TypeOK, Places
  <2>0. /\ at'[t] = "failed" /\ \A u \in Turns : u # t => at'[u] = at[u]
        /\ \A u \in Turns : Reply(u) \in stored' <=> Reply(u) \in stored
        /\ \A u \in Turns : u # t => (Asked(u) \in stored' <=> Asked(u) \in stored)
    BY DEF TypeOK
  <2>3. Wired'
    BY <2>0 DEF Wired
  <2>4. Dated' /\ AnswersFollow'
    BY DEF Dated, AnswersFollow, Wired, TypeOK
  <2> QED
    BY <2>1, <2>2, <2>3, <2>4
<1> QED
  BY <1>1, <1>2, <1>3, <1>4

\* The steps of its execution, seen through the contract.
LEMMA ExecutionStep ==
  ASSUME IInv, NEW t \in Turns,
         BeginExecution(t) \/ Persist(t) \/ Return(t) \/ ExecutionFails(t)
  PROVE  IInv'
<1> USE SessionsAssumption, ChatFaultsAssumption DEF IInv
<1>1. CASE BeginExecution(t)
  <2> USE <1>1 DEF BeginExecution, Execution!Begin
  <2>0. history' \in [Turns -> SUBSET Messages]
    <3>1. history \in [Turns -> SUBSET Messages] /\ stored \ Echo(t) \subseteq Messages
      BY DEF TypeOK
    <3>2. history' = [history EXCEPT ![t] = stored \ Echo(t)] \/ history' = history
      OBVIOUS
    <3> QED
      BY <3>1, <3>2
  <2>1. TypeOK'
    BY <2>0 DEF TypeOK
  <2>2. Wired' /\ Dated' /\ AnswersFollow'
    BY DEF Wired, Dated, AnswersFollow, TypeOK
  <2>3. Streamed' /\ ToldIsTrue'
    BY Silent
  <2> QED
    BY <2>1, <2>2, <2>3
<1>2. CASE Persist(t)
  <2> USE <1>2 DEF Persist, Execution!Persist
  <2>1. TypeOK'
    BY DEF TypeOK
  <2>2. \A u \in Turns : answer[u] # "none" /\ u # t => answer'[u] = answer[u]
    BY DEF TypeOK
  <2>3. answer'[t] # "none" /\ Reply(t) \notin stored /\ told[t] # "answered"
    BY DEF TypeOK, Wired, ToldIsTrue
  <2>4. Wired' /\ Dated' /\ AnswersFollow'
    BY <2>2, <2>3 DEF Wired, Dated, AnswersFollow, TypeOK
  <2>5. Streamed'
    BY DEF Streamed
  <2>6. ToldIsTrue'
    BY <2>2, <2>3 DEF ToldIsTrue
  <2> QED
    BY <2>1, <2>4, <2>5, <2>6
<1>3. CASE Return(t)
  <2> USE <1>3 DEF Return, Execution!Return
  <2>1. TypeOK'
    BY DEF TypeOK, Places
  <2>2. createdAt[Asked(t)] < clock /\ answer[t] # "none"
    BY DEF Dated, Wired
  <2>3. /\ createdAt'[Reply(t)] = clock
        /\ \A m \in Messages : m # Reply(t) => createdAt'[m] = createdAt[m]
    BY DEF TypeOK
  <2>0. /\ at'[t] = "reply" /\ phase'[t] = "returned"
        /\ \A u \in Turns : u # t => at'[u] = at[u] /\ phase'[u] = phase[u]
        /\ \A u \in Turns : createdAt'[Asked(u)] = createdAt[Asked(u)]
        /\ \A u \in Turns : u # t => createdAt'[Reply(u)] = createdAt[Reply(u)]
    BY <2>3 DEF TypeOK
  <2>4. Wired'
    BY <2>0, <2>2, <2>3 DEF Wired
  <2>5. Dated'
    <3>1. /\ clock \in Nat /\ createdAt \in [Messages -> Nat] /\ stored \subseteq Messages
          /\ \A m \in Messages : createdAt[m] < clock /\ clock' = clock + 1
      BY DEF Dated, TypeOK
    <3>2. \A m \in Messages : createdAt'[m] < clock'
      BY <2>3, <3>1
    <3>3. ASSUME NEW u \in Turns, at'[u] \in {"ask", "execute"}
          PROVE  past'[u] \subseteq stored' /\ \A m \in past'[u] : createdAt'[m] < createdAt'[Asked(u)]
      <4>1. at[u] \in {"ask", "execute"} /\ Reply(t) \notin stored
        BY <3>3, <2>0 DEF Wired
      <4>2. past[u] \subseteq stored /\ \A m \in past[u] : createdAt[m] < createdAt[Asked(u)]
        BY <4>1 DEF Dated
      <4> QED
        BY <4>1, <4>2, <2>3, <3>1
    <3> QED
      BY <3>2, <3>3 DEF Dated
  <2>6. AnswersFollow'
    BY <2>3 DEF AnswersFollow, Wired, TypeOK
  <2>7. Streamed' /\ ToldIsTrue'
    BY Silent DEF TypeOK
  <2> QED
    BY <2>1, <2>4, <2>5, <2>6, <2>7
<1>4. CASE ExecutionFails(t)
  <2> USE <1>4 DEF ExecutionFails, Execution!Refuse, Execution!Lose, FailTurn
  <2>1. /\ queue' \in [Streams -> Seq(Events)] /\ line' \in [Streams -> {"open", "done", "gone"}]
        /\ told' \in [Turns -> {"nothing"} \cup Outcomes]
        /\ Streamed' /\ ToldIsTrue'
    BY Telling
  <2>2. TypeOK'
    BY <2>1 DEF TypeOK, Places
  <2>3. Wired' /\ Dated' /\ AnswersFollow'
    BY DEF Wired, Dated, AnswersFollow, TypeOK
  <2> QED
    BY <2>1, <2>2, <2>3
<1> QED
  BY <1>1, <1>2, <1>3, <1>4

\* The answer of a turn, its mode, and the errors of both.
LEMMA ReplyStep ==
  ASSUME IInv, NEW t \in Turns,
         StoreReply(t) \/ StoreReplyFails(t) \/ Settle(t) \/ SettleFails(t)
  PROVE  IInv'
<1> USE SessionsAssumption, ChatFaultsAssumption DEF IInv
<1>0. AssignMode(t) => mode' \in ChatModes \cup {None}
  BY DEF AssignMode, Resolved, TypeOK
<1>1. CASE StoreReply(t)
  <2> USE <1>1 DEF StoreReply
  <2>1. TypeOK'
    BY DEF TypeOK, Places
  <2>2. Wired' /\ AnswersFollow'
    BY DEF Wired, AnswersFollow, TypeOK
  <2>3. Dated'
    BY DEF Dated, TypeOK
  <2>4. Streamed' /\ ToldIsTrue'
    BY Silent DEF TypeOK
  <2> QED
    BY <2>1, <2>2, <2>3, <2>4
<1>2. CASE StoreReplyFails(t)
  <2> USE <1>2 DEF StoreReplyFails, FailTurn
  <2>1. /\ queue' \in [Streams -> Seq(Events)] /\ line' \in [Streams -> {"open", "done", "gone"}]
        /\ told' \in [Turns -> {"nothing"} \cup Outcomes]
        /\ Streamed' /\ ToldIsTrue'
    BY Telling
  <2>2. TypeOK'
    BY <2>1 DEF TypeOK, Places
  <2>3. Wired' /\ AnswersFollow'
    BY DEF Wired, AnswersFollow, TypeOK
  <2>4. Dated'
    BY DEF Dated, TypeOK
  <2> QED
    BY <2>1, <2>2, <2>3, <2>4
<1>3. CASE Settle(t)
  <2> USE <1>3 DEF Settle
  <2>0. answer[t] # "none" /\ {Asked(t), Reply(t)} \subseteq stored
    BY DEF Wired
  <2>1. /\ queue' \in [Streams -> Seq(Events)] /\ line' \in [Streams -> {"open", "done", "gone"}]
        /\ told' \in [Turns -> {"nothing"} \cup Outcomes]
        /\ Streamed' /\ ToldIsTrue'
    BY <2>0, Telling
  <2>2. TypeOK'
    BY <1>0, <2>1 DEF TypeOK, Places
  <2>3. Wired' /\ Dated' /\ AnswersFollow'
    BY DEF Wired, Dated, AnswersFollow, TypeOK
  <2> QED
    BY <2>1, <2>2, <2>3
<1>4. CASE SettleFails(t)
  <2> USE <1>4 DEF SettleFails, FailTurn
  <2>1. /\ queue' \in [Streams -> Seq(Events)] /\ line' \in [Streams -> {"open", "done", "gone"}]
        /\ told' \in [Turns -> {"nothing"} \cup Outcomes]
        /\ Streamed' /\ ToldIsTrue'
    BY Telling
  <2>2. TypeOK'
    BY <1>0, <2>1 DEF TypeOK, Places
  <2>3. Wired' /\ Dated' /\ AnswersFollow'
    BY DEF Wired, Dated, AnswersFollow, TypeOK
  <2> QED
    BY <2>1, <2>2, <2>3
<1> QED
  BY <1>1, <1>2, <1>3, <1>4

\* The steps that no turn takes: of the conversation, of an edit, of a stream,
\* and the death of the process.
LEMMA OtherStep ==
  ASSUME IInv,
         \/ CreateConversation
         \/ \E e \in Edits : EditStep(e)
         \/ \E t \in Streams : Send(t) \/ ClientLeaves(t)
         \/ ProcessDies
  PROVE  IInv'
<1> USE SessionsAssumption, ChatFaultsAssumption DEF IInv
<1>1. CASE CreateConversation
  <2> USE <1>1 DEF CreateConversation
  <2>1. TypeOK' /\ Wired' /\ Dated' /\ AnswersFollow'
    BY DEF TypeOK, Wired, Dated, AnswersFollow
  <2>2. Streamed' /\ ToldIsTrue'
    BY Silent
  <2> QED
    BY <2>1, <2>2
<1>2. ASSUME NEW e \in Edits, EditStep(e)
      PROVE  IInv'
  <2>1. AssignMode(e) => mode' \in ChatModes \cup {None}
    BY DEF AssignMode, Resolved, TypeOK
  <2>2. TypeOK'
    <3>1. CASE LoadEdit(e)
      BY <3>1 DEF LoadEdit, TypeOK, Places
    <3>2. CASE CommitEdit(e)
      BY <2>1, <3>2 DEF CommitEdit, TypeOK, Places
    <3>3. CASE EditFails(e)
      <4>1. mode' \in ChatModes \cup {None} /\ faults' \in 0 .. MaxFaults
        BY <2>1, <3>3 DEF EditFails, TypeOK
      <4> QED
        BY <3>3, <4>1 DEF EditFails, TypeOK, Places
    <3> QED
      BY <1>2, <3>1, <3>2, <3>3 DEF EditStep
  <2>3. /\ \A t \in Turns : at'[t] = at[t]
        /\ UNCHANGED <<execution, transcript, contexts, client>>
    BY <1>2 DEF EditStep, LoadEdit, CommitEdit, EditFails, TypeOK
  <2>4. Wired' /\ Dated' /\ AnswersFollow'
    BY <2>3 DEF Wired, Dated, AnswersFollow
  <2>5. Streamed' /\ ToldIsTrue'
    BY <2>3, Silent
  <2> QED
    BY <2>2, <2>4, <2>5
<1>3. ASSUME NEW t \in Streams, Send(t)
      PROVE  IInv'
  <2> USE <1>3 DEF Send
  <2>1. Wired' /\ Dated' /\ AnswersFollow'
    BY DEF Wired, Dated, AnswersFollow
  <2>2. CASE queue[t] = <<at[t], "end">> /\ at[t] \in Outcomes
    <3>1. Head(queue[t]) = at[t] /\ Tail(queue[t]) = <<"end">>
      BY <2>2
    <3>2. /\ queue' = [queue EXCEPT ![t] = <<"end">>] /\ line' = line
          /\ told' = [told EXCEPT ![t] = at[t]]
      BY <2>2, <3>1 DEF TypeOK
    <3>3. <<"end">> \in Seq(Events)
      BY DEF Events
    <3>4. TypeOK'
      BY <2>2, <3>2, <3>3 DEF TypeOK
    <3>5. Streamed'
      BY <2>2, <3>2 DEF Streamed, TypeOK
    <3>6. at[t] = "answered" => {Asked(t), Reply(t)} \subseteq stored /\ answer[t] # "none"
      BY DEF Wired
    <3>7. told'[t] = at[t] /\ \A u \in Turns : u # t => told'[u] = told[u]
      BY <3>2 DEF TypeOK
    <3>8. ToldIsTrue'
      BY <2>2, <3>2, <3>6, <3>7 DEF ToldIsTrue
    <3> QED
      BY <2>1, <3>4, <3>5, <3>8
  <2>3. CASE queue[t] = <<"end">> /\ at[t] \in Outcomes /\ told[t] = at[t]
    <3>1. Head(queue[t]) = "end" /\ Tail(queue[t]) = << >>
      BY <2>3
    <3>2. /\ queue' = [queue EXCEPT ![t] = << >>] /\ line' = [line EXCEPT ![t] = "done"]
          /\ told' = told
      BY <3>1 DEF TypeOK
    <3>3. TypeOK'
      BY <3>2 DEF TypeOK
    <3>4. Streamed'
      BY <3>2 DEF Streamed, TypeOK
    <3>5. ToldIsTrue'
      BY <2>3, <3>2 DEF ToldIsTrue, TypeOK
    <3> QED
      BY <2>1, <3>3, <3>4, <3>5
  <2> QED
    BY <2>2, <2>3 DEF Streamed
<1>4. ASSUME NEW t \in Streams, ClientLeaves(t)
      PROVE  IInv'
  <2> USE <1>4 DEF ClientLeaves
  <2>1. TypeOK' /\ Wired' /\ Dated' /\ AnswersFollow'
    BY DEF TypeOK, Wired, Dated, AnswersFollow
  <2>2. Streamed' /\ ToldIsTrue'
    BY DEF Streamed, ToldIsTrue, TypeOK
  <2> QED
    BY <2>1, <2>2
<1>5. CASE ProcessDies
  <2> USE <1>5 DEF ProcessDies, UnderWay
  <2>1. TypeOK'
    BY DEF TypeOK, Places
  <2>2. ASSUME NEW t \in Turns
        PROVE  \/ at'[t] = at[t]
               \/ at'[t] = "gone" /\ at[t] \notin {"idle", "answered", "failed"}
    <3>1. at'[t] = IF UnderWay(t) THEN "gone" ELSE at[t]
      OBVIOUS
    <3> QED
      BY <3>1
  <2>3. \A t \in Turns : phase'[t] = phase[t] \/ phase'[t] = "lost"
    BY DEF TypeOK
  <2>4. Wired' /\ Dated' /\ AnswersFollow'
    BY <2>2, <2>3 DEF Wired, Dated, AnswersFollow
  <2>5. Streamed'
    BY <2>2 DEF Streamed
  <2>6. \A t \in Streams : line'[t] = "done" => line[t] = "done"
    BY DEF TypeOK
  <2>7. ToldIsTrue'
    BY <2>2, <2>6 DEF ToldIsTrue, TypeOK
  <2> QED
    BY <2>1, <2>4, <2>5, <2>7
<1> QED
  BY <1>1, <1>2, <1>3, <1>4, <1>5

\* Every step of the specification preserves the invariant.
LEMMA NextInvariant ==
  ASSUME IInv, [Next]_vars
  PROVE  IInv'
<1>1. CASE Next
  BY <1>1, QuestionStep, ExecutionStep, ReplyStep, OtherStep DEF Next, TurnStep, TurnFails
<1>2. CASE UNCHANGED vars
  BY <1>2 DEF vars, IInv, TypeOK, Wired, Dated, Streamed, AnswersFollow, ToldIsTrue
<1> QED
  BY <1>1, <1>2

-----------------------------------------------------------------------------
\* The invariant holds in every state of every behaviour.
THEOREM Invariance == Spec => []IInv
<1>1. Init => IInv
  BY InitInvariant
<1>2. IInv /\ [Next]_vars => IInv'
  BY NextInvariant
<1> QED
  BY <1>1, <1>2, PTL DEF Spec

\* Every variable keeps its type.
THEOREM TypeCorrect == Spec => []TypeOK
<1>1. IInv => TypeOK
  BY DEF IInv
<1> QED
  BY <1>1, Invariance, PTL

\* However turns interleave, an answer comes after its question in the transcript
\* and was persisted by an execution.
THEOREM AnswersInOrder == Spec => []AnswersFollow
<1>1. IInv => AnswersFollow
  BY DEF IInv
<1> QED
  BY <1>1, Invariance, PTL

\* What a client was told of a turn is what became of it.
THEOREM ClientsToldTrue == Spec => []ToldIsTrue
<1>1. IInv => ToldIsTrue
  BY DEF IInv
<1> QED
  BY <1>1, Invariance, PTL

-----------------------------------------------------------------------------
\* The question of a turn is younger than what the turn found, so that leaving
\* out the last message takes away nothing of it.
LEMMA EchoIsYoung ==
  ASSUME IInv, NEW t \in Turns, at[t] = "execute"
  PROVE  /\ past[t] \subseteq stored \ Echo(t)
         /\ stored \subseteq past[t] \cup {Asked(t)} => stored \ Echo(t) = past[t]
<1> USE DEF IInv
<1>1. /\ Asked(t) \in stored /\ past[t] \subseteq stored
      /\ \A m \in past[t] : createdAt[m] < createdAt[Asked(t)]
      /\ createdAt \in [Messages -> Nat] /\ stored \subseteq Messages
  BY DEF Wired, Dated, TypeOK
<1>2. \A m \in Echo(t) : createdAt[Asked(t)] <= createdAt[m]
  BY <1>1 DEF Echo, IsLast
<1>3. \A m \in past[t] : m \notin Echo(t) /\ m # Asked(t)
  BY <1>1, <1>2
<1>4. ASSUME stored \subseteq past[t] \cup {Asked(t)}
      PROVE  Asked(t) \in Echo(t)
  <2>1. IsLast(Asked(t))
    BY <1>1, <1>4 DEF IsLast
  <2> QED
    BY <1>1, <2>1 DEF Echo
<1> QED
  BY <1>1, <1>3, <1>4

\* The context of a turn has everything the turn found, and its own question only
\* if another turn has come in between.
THEOREM HistoriesComplete == Spec => HistoryIsThePast
<1>1. IInv /\ [Next]_vars =>
        [\A t \in informed' \ informed :
           /\ past[t] \subseteq history'[t]
           /\ stored \subseteq past[t] \cup {Asked(t)} => history'[t] = past[t]]_vars
  <2>1. ASSUME IInv, NEW t \in Turns, BeginExecution(t), NEW u \in informed' \ informed
        PROVE  u = t /\ at[t] = "execute" /\ history'[t] = stored \ Echo(t)
    BY <2>1 DEF BeginExecution, IInv, TypeOK
  <2>2. ASSUME Next, ~\E t \in Turns : BeginExecution(t)
        PROVE  informed' = informed
    BY <2>2
    DEF Next, CreateConversation, BeginTurn, TurnStep, TurnFails, EditStep, Ask, Persist,
        Return, StoreReply, Settle, RejectTurn, AskFails, ExecutionFails, StoreReplyFails,
        SettleFails, LoadEdit, CommitEdit, EditFails, Send, ClientLeaves, ProcessDies
  <2> QED
    BY <2>1, <2>2, EchoIsYoung DEF vars
<1> QED
  BY <1>1, Invariance, PTL DEF Spec, HistoryIsThePast

\* Whatever a turn has loaded, the mode changes only to one that somebody asked
\* for in the same step.
THEOREM ModesAskedFor == Spec => ModeWasAskedFor
<1>1. IInv /\ [Next]_vars =>
        [mode # None /\ mode' # mode =>
           \E s \in Sessions : at'[s] # at[s] /\ requested[s] = mode']_vars
  <2>1. ASSUME NEW s \in Sessions, AssignMode(s), mode' # mode
        PROVE  requested[s] = mode'
    BY <2>1 DEF AssignMode, Resolved
  <2>2. ASSUME IInv, NEW t \in Turns, Settle(t) \/ SettleFails(t), mode' # mode
        PROVE  at'[t] # at[t] /\ requested[t] = mode'
    BY <2>1, <2>2 DEF Settle, SettleFails, FailTurn, IInv, TypeOK
  <2>3. ASSUME IInv, NEW e \in Edits, EditStep(e), mode' # mode
        PROVE  at'[e] # at[e] /\ requested[e] = mode'
    BY <2>1, <2>3 DEF EditStep, LoadEdit, CommitEdit, EditFails, IInv, TypeOK
  <2>4. ASSUME Next, mode # None,
               ~\E t \in Turns : Settle(t) \/ SettleFails(t), ~\E e \in Edits : EditStep(e)
        PROVE  mode' = mode
    BY <2>4
    DEF Next, CreateConversation, BeginTurn, TurnStep, TurnFails, Ask, BeginExecution, Persist,
        Return, StoreReply, RejectTurn, AskFails, ExecutionFails, StoreReplyFails, Send,
        ClientLeaves, ProcessDies
  <2> QED
    BY <2>2, <2>3, <2>4 DEF vars
<1> QED
  BY <1>1, Invariance, PTL DEF Spec, ModeWasAskedFor
=============================================================================

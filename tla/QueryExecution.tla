--------------------------- MODULE QueryExecution ---------------------------
(***************************************************************************)
(* One execution of execute_standard_query (services/query.py): admission  *)
(* and tier routing, retrieval with one retry, generation, the verified    *)
(* path of the CRITICAL tier (verification, corrective attempts, recovery, *)
(* conflict disclosure, normalisation), and the trace.                     *)
(*                                                                         *)
(* An execution waits on the database, the vector store, the providers and *)
(* the external source between its actions; each of them may fail, and the *)
(* process may die.  Executions share no state but the tables they read,   *)
(* so one is modelled.                                                     *)
(***************************************************************************)
EXTENDS QueryResponses

CONSTANTS
  Inputs,        \* the requests, minimum tiers and settings met (see Input)
  MaxAttempts,   \* corrective attempts: max_crag_attempts, 1 if multi-attempt is off
  MinImprovement \* min_evidence_quality_improvement, in hundredths

ASSUME AttemptsAssumption == MaxAttempts \in 1 .. 5
ASSUME ImprovementAssumption == MinImprovement \in Int

Rank == [standard |-> 1, enterprise |-> 2, critical |-> 3]
Tiers == DOMAIN Rank
ModeTier == [thinking |-> "enterprise", verified |-> "critical"]
Modes == DOMAIN ModeTier \cup {"auto", "instant", "unset"}

\* A request to /query names a tier or nothing, a chat turn names a mode.
\* hard: the query has an Enterprise route reason; enabled: the tiers the
\* settings enable; autoRouting: enterprise_auto_routing_enabled.
Input ==
  [tier : Tiers \cup {"unset"}, mode : Modes, smalltalk : BOOLEAN, hard : BOOLEAN,
   minimum : Tiers, enabled : SUBSET {"enterprise", "critical"}, autoRouting : BOOLEAN]

ASSUME InputsAssumption == Inputs \subseteq Input

AutoRouted(in) == in.tier = "unset" /\ in.mode \in {"unset", "auto"}

RequestedTier(in) ==
  IF in.tier # "unset" THEN in.tier
  ELSE IF in.mode \in DOMAIN ModeTier THEN ModeTier[in.mode]
  ELSE IF AutoRouted(in) /\ in.minimum = "critical" THEN "critical"
  ELSE IF /\ AutoRouted(in) /\ in.hard /\ ~in.smalltalk
          /\ "enterprise" \in in.enabled /\ in.autoRouting
       THEN "enterprise"
  ELSE "standard"

EffectiveTier(in) ==
  IF RequestedTier(in) \in in.enabled THEN RequestedTier(in) ELSE "standard"

SupportsTier(available, required) == Rank[available] >= Rank[required]

-----------------------------------------------------------------------------
VARIABLES
  pc,        \* where the execution waits
  input,     \* the request, the namespace as it was read, and the settings
  failures,  \* failed attempts of the first retrieval
  aborted,   \* a statement failed and nothing rolled the transaction back
  attempt,   \* corrective attempt under way
  bundle,    \* pass of the retrieval bundle that the trace will name
  package,   \* the evidence package: its pass, and whether it was widened
  response,
  verdict,   \* the last verification: what it looked at and what it found
  baseline,  \* evidence quality of the first pass
  trace      \* the response in the persisted trace

vars == <<pc, input, failures, aborted, attempt, bundle, package, response, verdict,
          baseline, trace>>
answering == <<bundle, package, response, verdict, baseline>>

NoResponse == [text |-> "none"]
NoVerdict == [made |-> FALSE]
Verdict(resp, pack, a) ==
  [made |-> TRUE, decision |-> Decision(resp, a), pass |-> resp.pass, package |-> pack,
   found |-> a]

Tier == EffectiveTier(input)
Final == {"returned", "refused", "conflict", "crashed"}
Steps == {"admit", "retrieve", "generate", "correct", "recover", "settle", "persist", "finalize"}

Init ==
  /\ input \in Inputs
  /\ pc = "admit"
  /\ failures = 0
  /\ aborted = FALSE
  /\ attempt = 0
  /\ bundle = 0
  /\ package = [pass |-> 0, widened |-> FALSE]
  /\ response = NoResponse
  /\ verdict = NoVerdict
  /\ baseline = 0
  /\ trace = NoResponse

\* Every degraded handler drops what was answered and verified so far.
Abstain(reason) ==
  /\ response' = ShapeDegraded(reason)
  /\ verdict' = NoVerdict
  /\ pc' = "persist"

-----------------------------------------------------------------------------
\* The namespace is read; without one the request is refused (404).
Admit ==
  /\ pc = "admit"
  /\ \/ /\ ~SupportsTier(Tier, input.minimum)
        /\ pc' = "conflict"
        /\ UNCHANGED <<response, verdict>>
     \/ /\ SupportsTier(Tier, input.minimum) /\ input.smalltalk
        /\ Abstain("QUERY_REQUIRES_CLARIFICATION")
     \/ /\ SupportsTier(Tier, input.minimum) /\ ~input.smalltalk
        /\ pc' = "retrieve"
        /\ UNCHANGED <<response, verdict>>
     \/ /\ pc' = "refused"
        /\ UNCHANGED <<response, verdict>>
  /\ UNCHANGED <<input, failures, aborted, attempt, bundle, package, baseline, trace>>

Retrieve ==
  /\ pc = "retrieve"
  /\ bundle' = 1
  /\ \/ /\ package' = [package EXCEPT !.pass = 1]
        /\ pc' = "generate"
        /\ UNCHANGED <<response, verdict>>
     \/ /\ Abstain("NO_GROUNDED_EVIDENCE")
        /\ UNCHANGED package
  /\ UNCHANGED <<input, failures, aborted, attempt, baseline, trace>>

\* Variant for testing ImplementsContract: the failure is answered without a
\* trace.
RetrieveFailsUntraced ==
  /\ pc = "retrieve"
  /\ failures' = failures + 1
  /\ aborted' \in {aborted, TRUE}
  /\ IF failures = 0
     THEN UNCHANGED <<pc, response, verdict>>
     ELSE response' = ShapeDegraded("RETRIEVAL_ERROR") /\ pc' = "returned" /\ UNCHANGED verdict
  /\ UNCHANGED <<input, attempt, bundle, package, baseline, trace>>

\* A failed statement aborts the transaction: the retry and the trace then run
\* in it, for nothing rolls it back before the commit of the trace does.  (The
\* retry can still succeed: dense retrieval alone needs no statement.)
RetrieveFails ==
  /\ pc = "retrieve"
  /\ failures' = failures + 1
  /\ aborted' \in {aborted, TRUE}
  /\ IF failures = 0
     THEN UNCHANGED <<pc, response, verdict>>
     ELSE Abstain("RETRIEVAL_ERROR")
  /\ UNCHANGED <<input, attempt, bundle, package, baseline, trace>>

\* The next step of a verified response.
AfterVerification(r, retry) ==
  IF retry THEN "correct" ELSE IF r.status = "degraded" THEN "recover" ELSE "settle"

Generate ==
  /\ pc = "generate"
  /\ \E draft \in Drafts(1), a \in Assessments :
       LET verified == ApplyVerification(draft, a)
           retry == ShouldRetry(draft, a)
       IN IF Tier = "critical"
          THEN /\ response' = verified
               /\ verdict' = Verdict(draft, package, a)
               /\ baseline' = a.quality
               /\ attempt' = IF retry THEN 1 ELSE 0
               /\ pc' = AfterVerification(verified, retry)
          ELSE /\ response' = draft
               /\ pc' = "persist"
               /\ UNCHANGED <<verdict, baseline, attempt>>
  /\ UNCHANGED <<input, failures, aborted, bundle, package, trace>>

\* The provider fails, the answer is not aligned with the query, or the draft
\* cites evidence that was not selected.
GenerateFails ==
  /\ pc \in {"generate", "correct"}
  /\ \E reason \in GenerationReasons : Abstain(reason)
  /\ UNCHANGED <<input, failures, aborted, attempt, bundle, package, baseline, trace>>

\* Adopts the result of a corrective attempt.
Adopt(verified, found, pack) ==
  /\ response' = verified
  /\ verdict' = found
  /\ package' = pack
  /\ bundle' = pack.pass
  /\ pc' = AfterVerification(verified, FALSE)
  /\ UNCHANGED attempt

\* Goes on to the next attempt while terms and attempts are left.
Discard(a) ==
  /\ attempt' = IF a.retry /\ attempt < MaxAttempts THEN attempt + 1 ELSE attempt
  /\ pc' = IF attempt' > attempt THEN "correct" ELSE "recover"
  /\ UNCHANGED <<response, verdict, package, bundle>>

\* The response and the verdict of a corrective attempt: the status of its draft
\* is reset before it is verified.
CorrectiveDraft(raw) == [raw EXCEPT !.status = "passed", !.reasons = << >>]
CorrectiveResponse(draft, a) ==
  IF Decision(draft, a) = "accept" THEN [draft EXCEPT !.summary = "grounded"]
  ELSE ApplyVerification(draft, a)

CorrectivePackage == [pass |-> attempt + 1, widened |-> FALSE]

\* Variant for testing PassedMeansVerified: better evidence alone lets the
\* answer pass.
CorrectPassingImprovement ==
  /\ pc = "correct"
  /\ \E raw \in Drafts(attempt + 1), a \in Assessments :
       LET draft == CorrectiveDraft(raw)
       IN IF Decision(draft, a) = "accept" \/ a.quality - baseline >= MinImprovement
          THEN Adopt([draft EXCEPT !.summary = "grounded"],
                     Verdict(draft, CorrectivePackage, a), CorrectivePackage)
          ELSE Discard(a)
  /\ UNCHANGED <<input, failures, aborted, baseline, trace>>

\* Variant for testing CitesOwnEvidence: the bundle of a discarded attempt is kept.
CorrectKeepingBundle ==
  /\ pc = "correct"
  /\ \E raw \in Drafts(attempt + 1), a \in Assessments :
       LET draft == CorrectiveDraft(raw)
       IN IF Decision(draft, a) = "accept" \/ a.quality - baseline >= MinImprovement
          THEN Adopt(CorrectiveResponse(draft, a), Verdict(draft, CorrectivePackage, a),
                     CorrectivePackage)
          ELSE /\ bundle' = attempt + 1
               /\ pc' = "recover"
               /\ UNCHANGED <<response, verdict, package, attempt>>
  /\ UNCHANGED <<input, failures, aborted, baseline, trace>>

\* Variant for testing CorrectionImproves: any attempt that is not worse is adopted.
CorrectAnyhow ==
  /\ pc = "correct"
  /\ \E raw \in Drafts(attempt + 1), a \in Assessments :
       LET draft == CorrectiveDraft(raw)
       IN IF Decision(draft, a) = "accept" \/ a.quality >= baseline
          THEN Adopt(CorrectiveResponse(draft, a), Verdict(draft, CorrectivePackage, a),
                     CorrectivePackage)
          ELSE Discard(a)
  /\ UNCHANGED <<input, failures, aborted, baseline, trace>>

\* Variant for testing Terminates: the count of the attempts starts again while
\* terms are left.
CorrectForever ==
  /\ pc = "correct"
  /\ \E raw \in Drafts(attempt + 1), a \in Assessments :
       LET draft == CorrectiveDraft(raw)
       IN IF Decision(draft, a) = "accept" \/ a.quality - baseline >= MinImprovement
          THEN Adopt(CorrectiveResponse(draft, a), Verdict(draft, CorrectivePackage, a),
                     CorrectivePackage)
          ELSE /\ attempt' = (attempt % MaxAttempts) + 1
               /\ UNCHANGED <<pc, response, verdict, package, bundle>>
  /\ UNCHANGED <<input, failures, aborted, baseline, trace>>

\* A corrective attempt that is accepted or good enough replaces the first pass.
Correct ==
  /\ pc = "correct"
  /\ \E raw \in Drafts(attempt + 1), a \in Assessments :
       LET draft == CorrectiveDraft(raw)
       IN IF Decision(draft, a) = "accept" \/ a.quality - baseline >= MinImprovement
          THEN Adopt(CorrectiveResponse(draft, a), Verdict(draft, CorrectivePackage, a),
                     CorrectivePackage)
          ELSE Discard(a)
  /\ UNCHANGED <<input, failures, aborted, baseline, trace>>

CorrectWithoutEvidence ==
  /\ pc = "correct"
  /\ pc' = "recover"
  /\ UNCHANGED <<input, failures, aborted, attempt, answering, trace>>

\* The RetrievalError of a corrective attempt has no handler.
CorrectFails ==
  /\ pc = "correct"
  /\ pc' = "crashed"
  /\ UNCHANGED <<input, failures, aborted, attempt, answering, trace>>

\* The internal path widens the package and verifies the answer again; if it is
\* still not accepted, the policy may allow the external source.
Recover ==
  /\ pc = "recover"
  /\ \E widened \in BOOLEAN, a \in Assessments, snippets \in BOOLEAN :
       LET pack == [package EXCEPT !.widened = TRUE]
           found == IF widened THEN Verdict(response, pack, a) ELSE verdict
           checked == IF widened THEN ApplyVerification(response, a) ELSE response
       IN /\ widened => Widens(verdict.found, a)
          /\ package' = IF widened THEN pack ELSE package
          /\ verdict' = found
          /\ response' = IF /\ snippets
                            /\ found.decision \in {"refuse", "degrade"}
                            /\ checked.status = "degraded"
                         THEN ExternalAnswer(checked) ELSE checked
  /\ pc' = "settle"
  /\ UNCHANGED <<input, failures, aborted, attempt, bundle, baseline, trace>>

Settle ==
  /\ pc = "settle"
  /\ \E resolved \in BOOLEAN :
       response' = Normalize(IF verdict.found.contradicted
                             THEN DiscloseConflict(response, resolved) ELSE response)
  /\ pc' = "persist"
  /\ UNCHANGED <<input, failures, aborted, attempt, bundle, package, verdict, baseline, trace>>

-----------------------------------------------------------------------------
PersistTrace ==
  /\ pc = "persist"
  /\ ~aborted
  /\ trace' = response
  /\ pc' = "finalize"
  /\ UNCHANGED <<input, failures, aborted, attempt, answering>>

\* The timings are a second commit.
FinalizeTimings ==
  /\ pc = "finalize"
  /\ pc' = "returned"
  /\ UNCHANGED <<input, failures, aborted, attempt, answering, trace>>

\* Either commit fails and is rolled back (500).
CommitFails ==
  /\ pc \in {"persist", "finalize"}
  /\ pc' = "refused"
  /\ UNCHANGED <<input, failures, aborted, attempt, answering, trace>>

\* The process dies, or a statement outside the handled ones raises.
Crash ==
  /\ pc \notin Final
  /\ pc' = "crashed"
  /\ UNCHANGED <<input, failures, aborted, attempt, answering, trace>>

Step ==
  \/ Admit
  \/ Retrieve \/ RetrieveFails
  \/ Generate \/ GenerateFails
  \/ Correct \/ CorrectWithoutEvidence \/ CorrectFails
  \/ Recover
  \/ Settle
  \/ PersistTrace \/ FinalizeTimings \/ CommitFails

Next == Step \/ Crash

Spec == Init /\ [][Next]_vars

\* The event loop runs an execution on, and every service call answers or times
\* out; that the process dies is no promise of anybody.
FairSpec == Spec /\ WF_vars(Step)
-----------------------------------------------------------------------------
Verdicts ==
  [made : {TRUE}, decision : {"accept", "degrade", "refuse"}, pass : 1 .. MaxAttempts + 1,
   package : [pass : 1 .. MaxAttempts + 1, widened : BOOLEAN], found : Assessments]

TypeOK ==
  /\ pc \in Steps \cup Final
  /\ input \in Inputs
  /\ failures \in 0 .. 2
  /\ aborted \in BOOLEAN
  /\ attempt \in 0 .. MaxAttempts
  /\ bundle \in 0 .. MaxAttempts + 1
  /\ package \in [pass : 0 .. MaxAttempts + 1, widened : BOOLEAN]
  /\ response \in Response \cup {NoResponse}
  /\ verdict \in Verdicts \cup {NoVerdict}
  /\ baseline \in Percent
  /\ trace \in Response \cup {NoResponse}

\* What the final response must satisfy, before and after it is persisted.
PassesVerified(final) ==
  Tier = "critical" /\ final.status = "passed" =>
    /\ verdict.made /\ verdict.decision = "accept" /\ Unblemished(verdict.found)
    /\ verdict.pass = final.pass /\ verdict.package = package
    /\ final.text = "draft" /\ final.summary = "grounded"
    /\ final.reasons = << >> /\ final.score >= 50

SaysWhy(final) ==
  final.status = "degraded" =>
    /\ final.reasons # << >>
    /\ Tier = "critical" => final.score < 50 /\ final.label = "low"

HasOwnEvidence(final) == final.pass > 0 => final.pass = bundle /\ final.pass = package.pass

\* A verified answer passes only as it was drafted, every claim of it supported
\* by the very evidence that the trace names, and in one consistent shape.
PassedMeansVerified == trace # NoResponse => PassesVerified(trace)

\* Whatever falls short says why, and a verified one claims no confidence.
DegradedSaysWhy == trace # NoResponse => SaysWhy(trace)

\* The citations of an answer, the package it was verified against and the
\* chunks the trace lists as retrieved come from one retrieval pass.
CitesOwnEvidence == trace # NoResponse => HasOwnEvidence(trace)

\* A corrective attempt replaces the first pass only for an accepted answer or
\* for evidence that is better by the threshold, also after the package widened.
CorrectionImproves ==
  verdict.made =>
    (verdict.pass > 1 =>
       verdict.decision = "accept" \/ verdict.found.quality - baseline >= MinImprovement)

\* No loop of retries or corrective attempts runs for ever.
Terminates == <>(pc \in Final)

-----------------------------------------------------------------------------
\* What holds between the steps of an execution: with it the safety properties
\* are inductive.

\* The trace is the response as it was when the trace was written.
TraceIsResponse ==
  \/ trace = NoResponse /\ pc \notin {"finalize", "returned"}
  \/ trace = response /\ response \in Response /\ pc \in {"finalize"} \cup Final

\* The response that is about to be persisted, or that was, is sound.
PreparedIsSound ==
  pc = "persist" \/ trace # NoResponse =>
    /\ response \in Response
    /\ PassesVerified(response) /\ SaysWhy(response) /\ HasOwnEvidence(response)

\* Between generation and normalisation a verified response belongs to the
\* package and the verdict at hand, and passes only if that verdict accepts.
VerdictAtHand ==
  pc \in {"correct", "recover", "settle"} =>
    /\ Tier = "critical" /\ response \in Response /\ verdict.made
    /\ bundle >= 1 /\ response.pass = bundle /\ package.pass = bundle /\ verdict.pass = bundle
    /\ pc = "correct" => attempt >= 1
    /\ pc # "settle" => response.status = "degraded" /\ verdict.decision # "accept"
    /\ response.status = "passed" =>
         /\ verdict.decision = "accept" /\ Unblemished(verdict.found)
         /\ verdict.package = package /\ response.text = "draft"

FirstPass ==
  /\ pc \in {"admit", "retrieve"} => failures <= 1
  /\ pc = "generate" => bundle = 1 /\ package.pass = 1

IInv ==
  TypeOK /\ TraceIsResponse /\ PreparedIsSound /\ VerdictAtHand /\ FirstPass /\ CorrectionImproves

=============================================================================

----------------------------- MODULE QueryProofs ----------------------------
(***************************************************************************)
(* Theorems of QueryExecution for any requests, scores, assessments and    *)
(* number of corrective attempts: IInv is an inductive invariant, the      *)
(* safety of the verified path follows from it, and with it every step is  *)
(* one of QueryContract.                                                   *)
(***************************************************************************)
EXTENDS QueryRefinement, SequenceTheorems, TLAPS

USE DEF Texts, Labels, Summaries, Percent

-----------------------------------------------------------------------------
(* What the functions on responses return.                                 *)

\* The reasons of responses are reasons.
LEMMA ReasonSets ==
  /\ GenerationReasons \subseteq Reasons
  /\ RetryableReasons \subseteq Reasons
  /\ {"NO_GROUNDED_EVIDENCE", "RETRIEVAL_ERROR", "LOW_CONFIDENCE_SUPPORT", "PARTIAL_EVIDENCE",
      "AMBIGUOUS_SUPPORT", "CONFLICT_RESOLVED_BY_SOURCE_AUTHORITY", "INSUFFICIENT_SUPPORT",
      "CONTRADICTORY_EVIDENCE", "UNSUPPORTED_CLAIMS", "PARTIAL_SUPPORT",
      "QUERY_REQUIRES_CLARIFICATION"} \subseteq Reasons
BY DEF Reasons, GenerationReasons, RetryableReasons

\* No response is the missing one.
LEMMA ResponseExists == \A r \in Response : r # NoResponse
BY DEF Response, NoResponse

\* An abstention is a degraded response with one reason, no citation and no
\* confidence.
LEMMA AbstentionShape ==
  ASSUME NEW reason \in Reasons
  PROVE  LET r == ShapeDegraded(reason) IN
         /\ r \in Response
         /\ r.text = "abstention" /\ r.pass = 0 /\ r.status = "degraded"
         /\ r.reasons # << >> /\ r.score = 0 /\ r.label = "low"
BY DEF ShapeDegraded, Response

\* A draft cites the evidence of its pass, and is degraded only with a reason.
LEMMA DraftShape ==
  ASSUME NEW pass \in Nat, NEW r \in Drafts(pass)
  PROVE  /\ r \in Response
         /\ r.text = "draft" /\ r.pass = pass
         /\ r.status = "degraded" => r.reasons # << >>
<1>1. PICK score \in Scores, ambiguous \in BOOLEAN : r = ShapeGrounded(pass, score, ambiguous)
  BY DEF Drafts
<1>2. score \in Percent
  BY ScoresAssumption
<1>3. r.reasons \in Seq(Reasons)
  BY <1>1, ReasonSets DEF ShapeGrounded
<1>4. r.label \in Labels /\ r.summary \in Summaries
  BY <1>1 DEF ShapeGrounded, Label, Summary
<1>5. /\ r = [text |-> r.text, pass |-> r.pass, status |-> r.status, reasons |-> r.reasons,
              score |-> r.score, label |-> r.label, summary |-> r.summary]
      /\ r.text = "draft" /\ r.pass = pass /\ r.score = score
      /\ r.status \in {"passed", "degraded"}
      /\ r.status = "degraded" => r.reasons = <<"LOW_CONFIDENCE_SUPPORT">>
  BY <1>1 DEF ShapeGrounded
<1>6. r \in Response
  BY <1>2, <1>3, <1>4, <1>5 DEF Response
<1>7. r.status = "degraded" => r.reasons # << >>
  BY <1>5
<1> QED
  BY <1>5, <1>6, <1>7

\* The assessments of the instance are assessments.
LEMMA AssessmentType == \A a \in Assessments : a \in Assessment
BY AssessmentsAssumption

\* The verifier accepts only a passing response without a blemish, and never a
\* degraded one.
LEMMA DecisionShape ==
  ASSUME NEW r \in Response, NEW a \in Assessment
  PROVE  /\ Decision(r, a) \in {"accept", "degrade", "refuse"}
         /\ Decision(r, a) = "accept" => r.status = "passed" /\ Unblemished(a)
BY DEF Decision, Unblemished, Response, Assessment

\* A reason of the verifier is a reason.
LEMMA ReasonType ==
  ASSUME NEW r \in Response, NEW a \in Assessment
  PROVE  Reason(r, a) \in Reasons
<1>1. CASE r.reasons = << >> \/ a.contradicted \/ a.unsupported
  BY <1>1, ReasonSets DEF Reason
<1>2. CASE r.reasons # << >> /\ ~a.contradicted /\ ~a.unsupported
  <2>1. r.reasons \in Seq(Reasons)
    BY DEF Response
  <2>2. r.reasons[1] \in Reasons
    BY <1>2, <2>1, EmptySeq, ElementOfSeq
  <2> QED
    BY <1>2, <2>2 DEF Reason
<1> QED
  BY <1>1, <1>2

\* Verification leaves an accepted response as it is and degrades every other,
\* and never changes a text or a citation.
LEMMA VerificationShape ==
  ASSUME NEW r \in Response, NEW a \in Assessment
  PROVE  LET v == ApplyVerification(r, a) IN
         /\ v \in Response
         /\ v.text = r.text /\ v.pass = r.pass
         /\ Decision(r, a) = "accept" => v = r
         /\ Decision(r, a) # "accept" => v.status = "degraded"
<1>1. CASE Decision(r, a) = "accept"
  BY <1>1 DEF ApplyVerification
<1>2. CASE Decision(r, a) # "accept"
  <2> DEFINE v == ApplyVerification(r, a)
  <2>1. /\ v.text = r.text /\ v.pass = r.pass /\ v.status = "degraded"
        /\ v.summary \in Summaries /\ v.label \in Labels /\ v.score \in Percent
        /\ v = [r EXCEPT !.status = v.status, !.reasons = v.reasons, !.summary = v.summary,
                         !.label = v.label, !.score = v.score]
    BY <1>2 DEF ApplyVerification, Response, AtMost
  <2>2. v.reasons \in {r.reasons, Append(r.reasons, Reason(r, a))}
    BY <1>2 DEF ApplyVerification, Response
  <2>3. r.reasons \in Seq(Reasons) /\ Append(r.reasons, Reason(r, a)) \in Seq(Reasons)
    BY ReasonType, AppendProperties DEF Response
  <2>4. v \in Response
    BY <2>1, <2>2, <2>3 DEF Response
  <2> QED
    BY <1>2, <2>1, <2>4
<1> QED
  BY <1>1, <1>2

\* The draft of a corrective attempt keeps its evidence and passes until it is
\* verified.
LEMMA CorrectiveShape ==
  ASSUME NEW pass \in Nat, NEW raw \in Drafts(pass), NEW a \in Assessment
  PROVE  LET d == CorrectiveDraft(raw)
             v == CorrectiveResponse(d, a) IN
         /\ d \in Response /\ d.pass = pass
         /\ v \in Response /\ v.text = "draft" /\ v.pass = pass
         /\ v.status = "passed" <=> Decision(d, a) = "accept"
<1> DEFINE d == CorrectiveDraft(raw)
           v == CorrectiveResponse(d, a)
<1>1. raw \in Response /\ raw.text = "draft" /\ raw.pass = pass
  BY DraftShape
<1>2. << >> \in Seq(Reasons)
  OBVIOUS
<1>3. d \in Response /\ d.text = "draft" /\ d.pass = pass /\ d.status = "passed"
  BY <1>1, <1>2 DEF CorrectiveDraft, Response
<1>4. CASE Decision(d, a) = "accept"
  <2>1. v = [d EXCEPT !.summary = "grounded"]
    BY <1>4 DEF CorrectiveResponse
  <2>2. v \in Response /\ v.text = d.text /\ v.pass = d.pass /\ v.status = d.status
    BY <1>3, <2>1 DEF Response
  <2> QED
    BY <1>3, <1>4, <2>2
<1>5. CASE Decision(d, a) # "accept"
  BY <1>3, <1>5, VerificationShape DEF CorrectiveResponse
<1> QED
  BY <1>3, <1>4, <1>5

\* The external source changes the text and nothing else.
LEMMA ExternalShape ==
  ASSUME NEW r \in Response
  PROVE  LET e == ExternalAnswer(r) IN
         e \in Response /\ e.pass = r.pass /\ e.status = r.status
BY DEF ExternalAnswer, Response

\* A disclosed conflict cites what the response cited, and does not pass unless
\* the response did.
LEMMA DisclosureShape ==
  ASSUME NEW r \in Response, NEW resolved \in BOOLEAN
  PROVE  LET c == DiscloseConflict(r, resolved) IN
         /\ c \in Response /\ c.pass = r.pass
         /\ r.status = "degraded" => c.status = "degraded"
<1>1. CASE resolved
  <2>1. <<"CONFLICT_RESOLVED_BY_SOURCE_AUTHORITY">> \in Seq(Reasons)
    BY ReasonSets
  <2> QED
    BY <1>1, <2>1 DEF DiscloseConflict, Response
<1>2. CASE ~resolved
  BY <1>2 DEF DiscloseConflict, Response
<1> QED
  BY <1>1, <1>2

\* Normalisation gives a passing response its one shape, and a degraded one a
\* reason and no confidence.
LEMMA NormalShape ==
  ASSUME NEW r \in Response
  PROVE  LET n == Normalize(r) IN
         /\ n \in Response
         /\ n.text = r.text /\ n.pass = r.pass /\ n.status = r.status
         /\ n.status = "passed" =>
              n.summary = "grounded" /\ n.reasons = << >> /\ n.score >= 50
         /\ n.status = "degraded" =>
              n.reasons # << >> /\ n.score < 50 /\ n.label = "low"
<1> DEFINE n == Normalize(r)
<1>1. << >> \in Seq(Reasons) /\ <<"INSUFFICIENT_SUPPORT">> \in Seq(Reasons)
  BY ReasonSets
<1>2. r.score \in Percent
  BY DEF Response
<1>3. CASE r.status = "passed"
  <2>1. n = [r EXCEPT !.summary = "grounded", !.reasons = << >>, !.score = AtLeast(r.score, 50)]
    BY <1>3 DEF Normalize
  <2>2. AtLeast(r.score, 50) \in Percent /\ AtLeast(r.score, 50) >= 50
    BY <1>2 DEF AtLeast
  <2>3. /\ n \in Response
        /\ n.text = r.text /\ n.pass = r.pass /\ n.status = r.status
        /\ n.summary = "grounded" /\ n.reasons = << >> /\ n.score = AtLeast(r.score, 50)
    BY <1>1, <2>1, <2>2 DEF Response
  <2> QED
    BY <1>3, <2>2, <2>3
<1>4. CASE r.status = "degraded"
  <2>1. /\ n.text = r.text /\ n.pass = r.pass /\ n.status = r.status
        /\ n.summary \in Summaries /\ n.label = "low"
        /\ n = [r EXCEPT !.summary = n.summary, !.label = n.label, !.score = n.score,
                         !.reasons = n.reasons]
    BY <1>4 DEF Normalize, Response
  <2>2. n.score = AtMost(r.score, 49)
    BY <1>4 DEF Normalize, Response
  <2>3. n.reasons = IF r.reasons = << >> THEN <<"INSUFFICIENT_SUPPORT">> ELSE r.reasons
    BY <1>4 DEF Normalize, Response
  <2>4. n.score \in Percent /\ n.score < 50
    <3>1. n.score = IF r.score <= 49 THEN r.score ELSE 49
      BY <2>2 DEF AtMost
    <3> QED
      BY <1>2, <3>1
  <2>5. n.reasons # << >>
    BY <2>3
  <2>6. n.reasons \in Seq(Reasons)
    BY <1>1, <2>3 DEF Response
  <2>7. n \in Response
    BY <2>1, <2>4, <2>6 DEF Response
  <2> QED
    BY <1>4, <2>1, <2>4, <2>5, <2>7
<1> QED
  BY <1>3, <1>4 DEF Response

-----------------------------------------------------------------------------
(* The invariant.                                                          *)

USE DEF answering, Final, Steps

\* The bound on the attempts is a number.
LEMMA AttemptsType == MaxAttempts \in Nat /\ MaxAttempts >= 1
BY AttemptsAssumption

\* No step changes the request or the tier it runs at.
LEMMA TierKept ==
  ASSUME [Next]_vars
  PROVE  input' = input /\ Tier' = Tier
<1>1. input' = input
  BY DEF Next, Step, vars, Admit, Retrieve, RetrieveFails, Generate, GenerateFails, Correct,
         CorrectWithoutEvidence, CorrectFails, Recover, Settle, PersistTrace, FinalizeTimings,
         CommitFails, Crash
<1> QED
  BY <1>1 DEF Tier

\* What the invariant says of a state whose trace is not written.
LEMMA Untraced ==
  ASSUME TraceIsResponse, pc \notin {"finalize"} \cup Final
  PROVE  trace = NoResponse
BY DEF TraceIsResponse

\* The initial states satisfy the invariant.
LEMMA InitInvariant == Init => IInv
<1> SUFFICES ASSUME Init PROVE IInv
  OBVIOUS
<1>1. TypeOK
  <2>1. package \in [pass : 0 .. MaxAttempts + 1, widened : BOOLEAN]
    BY AttemptsType DEF Init
  <2>2. /\ pc \in Steps \cup Final /\ input \in Inputs /\ aborted \in BOOLEAN
        /\ response \in Response \cup {NoResponse} /\ trace \in Response \cup {NoResponse}
    BY DEF Init
  <2>3. /\ failures \in 0 .. 2 /\ baseline \in Percent
        /\ attempt \in 0 .. MaxAttempts /\ bundle \in 0 .. MaxAttempts + 1
    BY AttemptsType DEF Init
  <2>4. verdict = NoVerdict
    BY DEF Init
  <2> QED
    BY <2>1, <2>2, <2>3, <2>4 DEF TypeOK
<1>2. /\ TraceIsResponse /\ PreparedIsSound /\ VerdictAtHand /\ FirstPass
      /\ CorrectionImproves
  BY DEF Init, TraceIsResponse, PreparedIsSound, VerdictAtHand, FirstPass, CorrectionImproves,
         NoVerdict
<1> QED
  BY <1>1, <1>2 DEF IInv

\* A step that abstains and keeps the rest of the execution.
LEMMA AbstainStep ==
  ASSUME IInv, NEW reason \in Reasons, Abstain(reason),
         pc \notin {"finalize"} \cup Final,
         UNCHANGED <<input, attempt, package, baseline, trace>>,
         bundle' \in {bundle, 1},
         failures' \in 0 .. 2, aborted' \in BOOLEAN
  PROVE  IInv'
<1> DEFINE r == ShapeDegraded(reason)
<1>1. /\ response' = r /\ verdict' = NoVerdict /\ pc' = "persist"
      /\ r \in Response /\ r.pass = 0 /\ r.status = "degraded"
      /\ r.reasons # << >> /\ r.score = 0 /\ r.label = "low"
  BY AbstentionShape DEF Abstain
<1> HIDE DEF r
<1>2. trace = NoResponse
  BY Untraced DEF IInv
<1>3. TypeOK'
  BY <1>1, AttemptsType DEF IInv, TypeOK
<1>4. TraceIsResponse'
  BY <1>1, <1>2 DEF TraceIsResponse
<1>5. PreparedIsSound'
  BY <1>1 DEF PreparedIsSound, PassesVerified, SaysWhy, HasOwnEvidence
<1>6. VerdictAtHand' /\ FirstPass' /\ CorrectionImproves'
  BY <1>1 DEF VerdictAtHand, FirstPass, CorrectionImproves, NoVerdict
<1> QED
  BY <1>3, <1>4, <1>5, <1>6 DEF IInv

\* A step that ends the execution, or goes on without a change.
LEMMA PassOnStep ==
  ASSUME IInv, UNCHANGED <<input, failures, aborted, attempt, answering, trace>>,
         \/ pc' \in Final /\ (pc' = "returned" => pc = "finalize")
         \/ pc = "correct" /\ pc' = "recover"
         \/ pc = "admit" /\ pc' = "retrieve"
         \/ pc' = pc
  PROVE  IInv'
<1>1. Tier' = Tier
  BY DEF Tier
<1>2. TypeOK'
  BY DEF IInv, TypeOK
<1>3. TraceIsResponse'
  BY DEF IInv, TraceIsResponse
<1>4. PreparedIsSound'
  BY <1>1 DEF IInv, PreparedIsSound, TraceIsResponse, PassesVerified, SaysWhy, HasOwnEvidence
<1>5. VerdictAtHand' /\ FirstPass' /\ CorrectionImproves'
  BY <1>1 DEF IInv, VerdictAtHand, FirstPass, CorrectionImproves
<1> QED
  BY <1>2, <1>3, <1>4, <1>5 DEF IInv

LEMMA AdmitStep ==
  ASSUME IInv, Admit
  PROVE  IInv'
<1>1. ASSUME Abstain("QUERY_REQUIRES_CLARIFICATION") PROVE IInv'
  <2>1. failures \in 0 .. 2 /\ aborted \in BOOLEAN
    BY DEF IInv, TypeOK
  <2> QED
    BY <1>1, <2>1, AbstainStep, ReasonSets DEF Admit
<1>2. ASSUME pc' \in {"conflict", "refused", "retrieve"}, UNCHANGED <<response, verdict>>
      PROVE  IInv'
  BY <1>2, PassOnStep DEF Admit
<1> QED
  BY <1>1, <1>2 DEF Admit

LEMMA RetrieveStep ==
  ASSUME IInv, Retrieve
  PROVE  IInv'
<1>1. failures \in 0 .. 2 /\ aborted \in BOOLEAN
  BY DEF IInv, TypeOK
<1>2. CASE Abstain("NO_GROUNDED_EVIDENCE") /\ UNCHANGED package
  BY <1>1, <1>2, AbstainStep, ReasonSets DEF Retrieve
<1>3. CASE /\ package' = [package EXCEPT !.pass = 1]
           /\ pc' = "generate"
           /\ UNCHANGED <<response, verdict>>
  <2>1. TypeOK'
    <3>1. /\ package' \in [pass : 0 .. MaxAttempts + 1, widened : BOOLEAN]
          /\ bundle' \in 0 .. MaxAttempts + 1
      BY <1>3, AttemptsType DEF Retrieve, IInv, TypeOK
    <3>2. pc' \in Steps
      BY <1>3
    <3> QED
      BY <1>3, <3>1, <3>2 DEF Retrieve, IInv, TypeOK
  <2>2. trace = NoResponse /\ trace' = NoResponse
    BY Untraced DEF Retrieve, IInv
  <2>3. package'.pass = 1 /\ bundle' = 1
    BY <1>3 DEF Retrieve, IInv, TypeOK
  <2> QED
    BY <1>3, <2>1, <2>2, <2>3
    DEF Retrieve, IInv, TraceIsResponse, PreparedIsSound, VerdictAtHand, FirstPass,
        CorrectionImproves
<1> QED
  BY <1>2, <1>3 DEF Retrieve

LEMMA RetrieveFailsStep ==
  ASSUME IInv, RetrieveFails
  PROVE  IInv'
<1>1. failures \in 0 .. 1 /\ failures' \in 0 .. 2 /\ failures' = failures + 1 /\ aborted' \in BOOLEAN
  <2>1. failures \in 0 .. 2 /\ aborted \in BOOLEAN
    BY DEF IInv, TypeOK
  <2>2. failures <= 1
    BY DEF RetrieveFails, IInv, FirstPass
  <2>3. failures' = failures + 1 /\ aborted' \in {aborted, TRUE}
    BY DEF RetrieveFails
  <2>4. failures \in 0 .. 1 /\ failures' \in 0 .. 2
    BY <2>1, <2>2, <2>3
  <2> QED
    BY <2>1, <2>3, <2>4
<1>2. CASE failures = 0 /\ UNCHANGED <<pc, response, verdict>>
  <2>1. Tier' = Tier
    BY TierKept DEF Next, Step
  <2>2. TypeOK'
    BY <1>1, <1>2 DEF RetrieveFails, IInv, TypeOK
  <2>3. TraceIsResponse' /\ FirstPass' /\ CorrectionImproves' /\ VerdictAtHand'
    BY <1>1, <1>2
    DEF RetrieveFails, IInv, TraceIsResponse, FirstPass, CorrectionImproves, VerdictAtHand
  <2>4. PreparedIsSound'
    BY <1>2, Untraced DEF RetrieveFails, IInv, PreparedIsSound
  <2> QED
    BY <2>2, <2>3, <2>4 DEF IInv
<1>3. CASE Abstain("RETRIEVAL_ERROR")
  BY <1>1, <1>3, AbstainStep, ReasonSets DEF RetrieveFails
<1> QED
  BY <1>2, <1>3 DEF RetrieveFails

LEMMA GenerateFailsStep ==
  ASSUME IInv, GenerateFails
  PROVE  IInv'
<1>1. failures \in 0 .. 2 /\ aborted \in BOOLEAN
  BY DEF IInv, TypeOK
<1>2. PICK reason \in GenerationReasons : Abstain(reason)
  BY DEF GenerateFails
<1> QED
  BY <1>1, <1>2, AbstainStep, ReasonSets DEF GenerateFails

LEMMA PersistStep ==
  ASSUME IInv, PersistTrace
  PROVE  IInv'
<1>1. Tier' = Tier
  BY TierKept DEF Next, Step
<1>2. response \in Response /\ response' = response /\ trace' = response
  BY DEF PersistTrace, IInv, PreparedIsSound
<1>3. TypeOK'
  BY <1>2 DEF PersistTrace, IInv, TypeOK
<1>4. TraceIsResponse'
  BY <1>2 DEF PersistTrace, TraceIsResponse
<1>5. PreparedIsSound'
  BY <1>1, <1>2
  DEF PersistTrace, IInv, PreparedIsSound, PassesVerified, SaysWhy, HasOwnEvidence
<1>6. VerdictAtHand' /\ FirstPass' /\ CorrectionImproves'
  BY DEF PersistTrace, IInv, VerdictAtHand, FirstPass, CorrectionImproves
<1> QED
  BY <1>3, <1>4, <1>5, <1>6 DEF IInv

\* A verification is a verdict on the response it was given.
LEMMA VerdictShape ==
  ASSUME NEW r \in Response, r.pass \in 1 .. MaxAttempts + 1,
         NEW pack \in [pass : 1 .. MaxAttempts + 1, widened : BOOLEAN],
         NEW a \in Assessments
  PROVE  LET v == Verdict(r, pack, a) IN
         /\ v \in Verdicts
         /\ v.made /\ v.decision = Decision(r, a) /\ v.pass = r.pass
         /\ v.package = pack /\ v.found = a
BY DecisionShape, AssessmentType DEF Verdict, Verdicts

\* An answer that is generated and, at the CRITICAL tier, verified.
LEMMA GenerateStep ==
  ASSUME IInv, Generate
  PROVE  IInv'
<1>1. pc = "generate" /\ trace = NoResponse /\ trace' = NoResponse
  BY Untraced DEF Generate, IInv
<1>2. bundle = 1 /\ bundle' = 1 /\ package.pass = 1 /\ package' = package
  BY DEF Generate, IInv, FirstPass
<1>3. package \in [pass : 1 .. MaxAttempts + 1, widened : BOOLEAN]
  BY <1>2, AttemptsType DEF IInv, TypeOK
<1>4. Tier' = Tier
  BY TierKept DEF Next, Step
<1>5. PICK draft \in Drafts(1), a \in Assessments :
        LET verified == ApplyVerification(draft, a)
            retry == ShouldRetry(draft, a)
        IN IF Tier = "critical"
           THEN /\ response' = verified
                /\ verdict' = Verdict(draft, package, a)
                /\ baseline' = a.quality
                /\ attempt' = IF retry THEN 1 ELSE 0
                /\ pc' = AfterVerification(verified, retry)
           ELSE /\ response' = draft
                /\ pc' = "persist"
                /\ UNCHANGED <<verdict, baseline, attempt>>
  BY DEF Generate
<1>6. /\ draft \in Response /\ draft.text = "draft" /\ draft.pass = 1
      /\ draft.status = "degraded" => draft.reasons # << >>
  BY DraftShape
<1>7. a \in Assessment /\ a.quality \in Percent
  BY AssessmentType DEF Assessment
<1>8. CASE Tier # "critical"
  <2>1. response' = draft /\ pc' = "persist" /\ UNCHANGED <<verdict, baseline, attempt>>
    BY <1>5, <1>8
  <2>2. TypeOK'
    BY <1>6, <2>1 DEF Generate, IInv, TypeOK
  <2>3. PreparedIsSound'
    BY <1>2, <1>4, <1>6, <1>8, <2>1
    DEF PreparedIsSound, PassesVerified, SaysWhy, HasOwnEvidence
  <2> QED
    BY <1>1, <1>4, <2>1, <2>2, <2>3
    DEF IInv, TraceIsResponse, VerdictAtHand, FirstPass, CorrectionImproves
<1>9. CASE Tier = "critical"
  <2> DEFINE verified == ApplyVerification(draft, a)
             retry == ShouldRetry(draft, a)
             v == Verdict(draft, package, a)
  <2>1. /\ response' = verified /\ verdict' = v /\ baseline' = a.quality
        /\ attempt' = IF retry THEN 1 ELSE 0
        /\ pc' = AfterVerification(verified, retry)
    BY <1>5, <1>9
  <2>2. /\ verified \in Response /\ verified.text = "draft" /\ verified.pass = 1
        /\ Decision(draft, a) = "accept" =>
             verified.status = "passed" /\ Unblemished(a) /\ ~retry
        /\ Decision(draft, a) # "accept" => verified.status = "degraded"
    BY <1>6, <1>7, VerificationShape, DecisionShape DEF ShouldRetry
  <2>3. draft.pass \in 1 .. MaxAttempts + 1
    BY <1>6, AttemptsType
  <2>4. /\ v \in Verdicts /\ v.made /\ v.decision = Decision(draft, a)
        /\ v.pass = 1 /\ v.package = package /\ v.found = a
    BY <1>3, <1>6, <2>3, VerdictShape
  <2>5. /\ pc' \in {"correct", "recover", "settle"}
        /\ pc' = "correct" => retry
        /\ pc' # "settle" => verified.status = "degraded"
    BY <2>1, <2>2, DecisionShape, <1>7 DEF AfterVerification, Response
  <2> HIDE DEF verified, retry, v
  <2>6. attempt' \in 0 .. MaxAttempts
    BY <2>1, AttemptsType
  <2>7. TypeOK'
    BY <1>7, <2>1, <2>2, <2>4, <2>5, <2>6 DEF Generate, IInv, TypeOK
  <2>8. VerdictAtHand'
    BY <1>2, <1>4, <1>9, <2>1, <2>2, <2>4, <2>5 DEF VerdictAtHand
  <2>9. CorrectionImproves'
    BY <2>1, <2>4 DEF CorrectionImproves
  <2> QED
    BY <1>1, <2>5, <2>7, <2>8, <2>9
    DEF IInv, TraceIsResponse, PreparedIsSound, FirstPass
<1> QED
  BY <1>8, <1>9

\* A corrective attempt that is adopted or discarded.
LEMMA CorrectStep ==
  ASSUME IInv, Correct
  PROVE  IInv'
<1>1. pc = "correct" /\ trace = NoResponse /\ trace' = NoResponse
  BY Untraced DEF Correct, IInv
<1>2. Tier = "critical" /\ Tier' = "critical"
  BY <1>1, TierKept DEF Next, Step, IInv, VerdictAtHand
<1>3. attempt \in 0 .. MaxAttempts
  BY DEF IInv, TypeOK
<1>4. attempt \in 1 .. MaxAttempts /\ attempt + 1 \in 1 .. MaxAttempts + 1
  BY <1>1, <1>3, AttemptsType DEF IInv, VerdictAtHand
<1>5. PICK raw \in Drafts(attempt + 1), a \in Assessments :
        LET draft == CorrectiveDraft(raw)
        IN IF Decision(draft, a) = "accept" \/ a.quality - baseline >= MinImprovement
           THEN Adopt(CorrectiveResponse(draft, a), Verdict(draft, CorrectivePackage, a),
                      CorrectivePackage)
           ELSE Discard(a)
  BY DEF Correct
<1> DEFINE draft == CorrectiveDraft(raw)
           verified == CorrectiveResponse(draft, a)
           v == Verdict(draft, CorrectivePackage, a)
<1>6. /\ draft \in Response /\ draft.pass = attempt + 1
      /\ verified \in Response /\ verified.text = "draft" /\ verified.pass = attempt + 1
      /\ verified.status = "passed" <=> Decision(draft, a) = "accept"
      /\ Decision(draft, a) = "accept" => Unblemished(a)
  BY <1>4, AssessmentType, CorrectiveShape, DecisionShape
<1>7. /\ CorrectivePackage \in [pass : 1 .. MaxAttempts + 1, widened : BOOLEAN]
      /\ CorrectivePackage \in [pass : 0 .. MaxAttempts + 1, widened : BOOLEAN]
      /\ CorrectivePackage.pass = attempt + 1
  BY <1>4, AttemptsType DEF CorrectivePackage
<1>8. /\ v \in Verdicts /\ v.made /\ v.decision = Decision(draft, a)
      /\ v.pass = attempt + 1 /\ v.package = CorrectivePackage /\ v.found = a
  BY <1>4, <1>6, <1>7, VerdictShape
<1> HIDE DEF draft, verified, v
<1>9. CASE /\ Decision(draft, a) = "accept" \/ a.quality - baseline >= MinImprovement
           /\ Adopt(verified, v, CorrectivePackage)
  <2>1. /\ response' = verified /\ verdict' = v /\ package' = CorrectivePackage
        /\ bundle' = attempt + 1 /\ attempt' = attempt /\ baseline' = baseline
        /\ pc' = IF verified.status = "degraded" THEN "recover" ELSE "settle"
    BY <1>7, <1>9 DEF Correct, Adopt, AfterVerification
  <2>2. TypeOK'
    BY <1>4, <1>6, <1>7, <1>8, <2>1 DEF Correct, IInv, TypeOK
  <2>3. VerdictAtHand'
    BY <1>2, <1>4, <1>6, <1>7, <1>8, <2>1 DEF VerdictAtHand, Response
  <2>4. CorrectionImproves'
    BY <1>8, <1>9, <2>1 DEF CorrectionImproves
  <2> QED
    BY <1>1, <2>1, <2>2, <2>3, <2>4 DEF IInv, TraceIsResponse, PreparedIsSound, FirstPass
<1>10. CASE Discard(a)
  <2>1. /\ attempt' \in {attempt, attempt + 1} /\ attempt' \in 0 .. MaxAttempts
        /\ pc' \in {"correct", "recover"}
    BY <1>4, <1>10, AttemptsType DEF Discard
  <2>2. TypeOK'
    BY <1>10, <2>1 DEF Correct, Discard, IInv, TypeOK
  <2>3. attempt' >= 1
    BY <1>4, <2>1
  <2>4. VerdictAtHand'
    BY <1>1, <1>2, <1>10, <2>1, <2>3 DEF Correct, Discard, IInv, VerdictAtHand
  <2>5. CorrectionImproves'
    BY <1>10 DEF Correct, Discard, IInv, CorrectionImproves
  <2> QED
    BY <1>1, <2>1, <2>2, <2>4, <2>5 DEF IInv, TraceIsResponse, PreparedIsSound, FirstPass
<1> QED
  BY <1>5, <1>9, <1>10 DEF draft, verified, v

\* The widened package and the external source: neither lets a degraded answer
\* pass, and a contradiction or a gain in support is not lost.
LEMMA RecoverStep ==
  ASSUME IInv, Recover
  PROVE  IInv'
<1>1. pc = "recover" /\ pc' = "settle" /\ trace = NoResponse /\ trace' = NoResponse
  BY Untraced DEF Recover, IInv
<1>2. Tier = "critical" /\ Tier' = "critical"
  BY <1>1, TierKept DEF Next, Step, IInv, VerdictAtHand
<1>3. /\ response \in Response /\ response.status = "degraded" /\ response.pass = bundle
      /\ verdict.made /\ verdict.decision # "accept" /\ verdict.pass = bundle
      /\ bundle >= 1 /\ package.pass = bundle
  BY <1>1 DEF IInv, VerdictAtHand
<1>4. verdict \in Verdicts
  BY <1>3 DEF IInv, TypeOK, NoVerdict
<1>5. bundle \in 1 .. MaxAttempts + 1
  <2>1. bundle \in 0 .. MaxAttempts + 1
    BY DEF IInv, TypeOK
  <2> QED
    BY <1>3, <2>1, AttemptsType
<1>6. PICK widened \in BOOLEAN, a \in Assessments, snippets \in BOOLEAN :
        LET pack == [package EXCEPT !.widened = TRUE]
            found == IF widened THEN Verdict(response, pack, a) ELSE verdict
            checked == IF widened THEN ApplyVerification(response, a) ELSE response
        IN /\ widened => Widens(verdict.found, a)
           /\ package' = IF widened THEN pack ELSE package
           /\ verdict' = found
           /\ response' = IF /\ snippets
                             /\ found.decision \in {"refuse", "degrade"}
                             /\ checked.status = "degraded"
                          THEN ExternalAnswer(checked) ELSE checked
  BY DEF Recover
<1> DEFINE pack == [package EXCEPT !.widened = TRUE]
           checked == IF widened THEN ApplyVerification(response, a) ELSE response
<1>7. /\ package \in [pass : 0 .. MaxAttempts + 1, widened : BOOLEAN]
      /\ pack \in [pass : 0 .. MaxAttempts + 1, widened : BOOLEAN] /\ pack.pass = bundle
  BY <1>3 DEF IInv, TypeOK
<1>8. pack \in [pass : 1 .. MaxAttempts + 1, widened : BOOLEAN]
  BY <1>5, <1>7
<1>9. Decision(response, a) # "accept"
  BY <1>3, AssessmentType, DecisionShape
<1>10. checked \in Response /\ checked.pass = bundle /\ checked.status = "degraded"
  BY <1>3, <1>9, AssessmentType, VerificationShape
<1>11. response' \in Response /\ response'.pass = bundle /\ response'.status = "degraded"
  BY <1>6, <1>10, ExternalShape
<1>12. package' \in [pass : 0 .. MaxAttempts + 1, widened : BOOLEAN] /\ package'.pass = bundle
  BY <1>3, <1>6, <1>7
<1>13. /\ verdict' \in Verdicts /\ verdict'.made /\ verdict'.pass = bundle
       /\ verdict'.found.quality - baseline >= MinImprovement
            \/ bundle = 1
  <2>1. CASE widened
    <3>1. verdict' = Verdict(response, pack, a) /\ Widens(verdict.found, a)
      BY <1>6, <2>1
    <3>2. verdict' \in Verdicts /\ verdict'.made /\ verdict'.pass = bundle /\ verdict'.found = a
      BY <1>3, <1>5, <1>8, <3>1, VerdictShape
    <3>3. bundle = 1 \/ verdict.found.quality - baseline >= MinImprovement
      BY <1>3, <1>5 DEF IInv, CorrectionImproves
    <3>4. a.quality \in Int /\ verdict.found.quality \in Int /\ baseline \in Int
      BY <1>4, AssessmentType DEF Verdicts, Assessment, IInv, TypeOK
    <3>5. a.quality >= verdict.found.quality
      BY <3>1 DEF Widens
    <3> QED
      BY <3>2, <3>3, <3>4, <3>5, ImprovementAssumption
  <2>2. CASE ~widened
    BY <1>3, <1>4, <1>5, <1>6, <2>2 DEF IInv, CorrectionImproves
  <2> QED
    BY <2>1, <2>2
<1>14. bundle' = bundle /\ attempt' = attempt /\ baseline' = baseline
  BY DEF Recover
<1>15. TypeOK'
  BY <1>1, <1>11, <1>12, <1>13 DEF Recover, IInv, TypeOK
<1>16. VerdictAtHand'
  BY <1>1, <1>2, <1>3, <1>11, <1>12, <1>13, <1>14 DEF VerdictAtHand
<1>17. CorrectionImproves'
  BY <1>5, <1>13, <1>14 DEF CorrectionImproves
<1> QED
  BY <1>1, <1>15, <1>16, <1>17 DEF IInv, TraceIsResponse, PreparedIsSound, FirstPass

\* The last shape of a verified response.
LEMMA SettleStep ==
  ASSUME IInv, Settle
  PROVE  IInv'
<1>1. pc = "settle" /\ pc' = "persist" /\ trace = NoResponse /\ trace' = NoResponse
  BY Untraced DEF Settle, IInv
<1>2. Tier' = Tier
  BY TierKept DEF Next, Step
<1>3. /\ response \in Response /\ response.pass = bundle /\ package.pass = bundle
      /\ response.status = "passed" =>
           /\ verdict.made /\ verdict.decision = "accept" /\ Unblemished(verdict.found)
           /\ verdict.pass = bundle /\ verdict.package = package /\ response.text = "draft"
  BY <1>1 DEF IInv, VerdictAtHand
<1>4. PICK resolved \in BOOLEAN :
        response' = Normalize(IF verdict.found.contradicted
                              THEN DiscloseConflict(response, resolved) ELSE response)
  BY DEF Settle
<1> DEFINE r == IF verdict.found.contradicted
                THEN DiscloseConflict(response, resolved) ELSE response
<1>5. r \in Response /\ r.pass = bundle
  BY <1>3, DisclosureShape
<1>6. r.status = "passed" => r = response
  <2>1. CASE response.status = "passed"
    BY <1>3, <2>1 DEF Unblemished
  <2>2. CASE response.status = "degraded"
    BY <1>3, <2>2, DisclosureShape
  <2> QED
    BY <1>3, <2>1, <2>2 DEF Response
<1>7. /\ response' \in Response /\ response'.pass = bundle
      /\ response'.status = "passed" =>
           /\ r = response /\ response'.text = response.text
           /\ response'.summary = "grounded" /\ response'.reasons = << >>
           /\ response'.score >= 50
      /\ response'.status = "degraded" =>
           response'.reasons # << >> /\ response'.score < 50 /\ response'.label = "low"
  BY <1>4, <1>5, <1>6, NormalShape
<1> HIDE DEF r
<1>8. response'.status = "passed" => response.status = "passed"
  BY <1>4, <1>5, <1>7, NormalShape DEF r
<1>9. TypeOK'
  BY <1>1, <1>7 DEF Settle, IInv, TypeOK
<1>10. PreparedIsSound'
  BY <1>2, <1>3, <1>7, <1>8
  DEF Settle, PreparedIsSound, PassesVerified, SaysWhy, HasOwnEvidence
<1>11. CorrectionImproves'
  BY DEF Settle, IInv, CorrectionImproves
<1> QED
  BY <1>1, <1>9, <1>10, <1>11 DEF IInv, TraceIsResponse, VerdictAtHand, FirstPass

-----------------------------------------------------------------------------
\* Every step preserves the invariant.
LEMMA NextInvariant ==
  ASSUME IInv, [Next]_vars
  PROVE  IInv'
<1>1. CASE UNCHANGED vars
  BY <1>1, PassOnStep DEF vars
<1>2. CASE CorrectWithoutEvidence \/ CorrectFails \/ FinalizeTimings \/ CommitFails \/ Crash
  BY <1>2, PassOnStep
  DEF CorrectWithoutEvidence, CorrectFails, FinalizeTimings, CommitFails, Crash
<1> QED
  BY <1>1, <1>2, AdmitStep, RetrieveStep, RetrieveFailsStep, GenerateStep, GenerateFailsStep,
     CorrectStep, RecoverStep, SettleStep, PersistStep
  DEF Next, Step

\* The invariant holds in every state of every execution.
THEOREM Invariance == Spec => []IInv
<1>1. Init => IInv
  BY InitInvariant
<1>2. IInv /\ [Next]_vars => IInv'
  BY NextInvariant
<1> QED
  BY <1>1, <1>2, PTL DEF Spec

\* Every variable keeps its type.
THEOREM TypeCorrect == Spec => []TypeOK
<1>1. IInv => TypeOK
  BY DEF IInv
<1> QED
  BY <1>1, Invariance, PTL

\* What is persisted deserves its grade: it passes only if it was verified
\* against the evidence of its trace, says why if it does not, and cites the
\* evidence of one retrieval pass.
LEMMA TraceDeserved == IInv => PassedMeansVerified /\ DegradedSaysWhy /\ CitesOwnEvidence
BY DEF IInv, TraceIsResponse, PreparedIsSound, PassedMeansVerified, DegradedSaysWhy,
       CitesOwnEvidence

\* The same after a step.
LEMMA NextTraceDeserved ==
  ASSUME IInv'
  PROVE  PassedMeansVerified' /\ DegradedSaysWhy' /\ CitesOwnEvidence'
BY DEF IInv, TraceIsResponse, PreparedIsSound, PassedMeansVerified, DegradedSaysWhy,
       CitesOwnEvidence

\* No answer that the verifier did not accept is persisted as passed.
THEOREM PassedIsVerified == Spec => []PassedMeansVerified
BY TraceDeserved, Invariance, PTL

\* Every degraded answer that is persisted says why.
THEOREM DegradedHasReason == Spec => []DegradedSaysWhy
BY TraceDeserved, Invariance, PTL

\* The citations of a persisted answer come from the pass its trace names.
THEOREM OwnEvidence == Spec => []CitesOwnEvidence
BY TraceDeserved, Invariance, PTL

\* Corrective evidence is used only for an accepted answer or a real gain.
THEOREM CorrectionsImprove == Spec => []CorrectionImproves
<1>1. IInv => CorrectionImproves
  BY DEF IInv
<1> QED
  BY <1>1, Invariance, PTL

-----------------------------------------------------------------------------
(* The contract.                                                           *)

\* Under the invariant the grade of the contract is the status in the trace.
LEMMA GradeOfTrace ==
  ASSUME IInv
  PROVE  Grade = IF trace = NoResponse THEN "none" ELSE trace.status
BY TraceDeserved DEF Grade, Deserved

\* A step that writes no trace keeps the grade.
LEMMA GradeKept ==
  ASSUME IInv, IInv', trace' = trace
  PROVE  Grade' = Grade
<1>1. Grade' = IF trace' = NoResponse THEN "none" ELSE trace'.status
  BY NextTraceDeserved DEF Grade, Deserved
<1> QED
  BY <1>1, GradeOfTrace

\* A step moves the execution to a phase of the contract.
LEMMA PhaseStep ==
  ASSUME IInv, [Next]_vars, ~PersistTrace
  PROVE  /\ trace' = trace
         /\ \/ Phase' = Phase
            \/ Phase = "idle" /\ Phase' = "running"
            \/ Phase = "persisted" /\ Phase' = "returned"
            \/ Phase \in {"idle", "running", "persisted"} /\ Phase' \in {"refused", "lost"}
<1>1. CASE UNCHANGED vars
  BY <1>1 DEF vars, Phase
<1>2. CASE Admit
  BY <1>2 DEF Admit, Abstain, Phase
<1>3. CASE Retrieve \/ RetrieveFails
  BY <1>3 DEF Retrieve, RetrieveFails, Abstain, Phase
<1>4. CASE Generate
  BY <1>4 DEF Generate, AfterVerification, Phase
<1>5. CASE GenerateFails
  BY <1>5 DEF GenerateFails, Abstain, Phase
<1>6. CASE Correct
  BY <1>6 DEF Correct, Adopt, Discard, AfterVerification, Phase
<1>7. CASE Recover \/ Settle
  BY <1>7 DEF Recover, Settle, Phase
<1>8. CASE CorrectWithoutEvidence \/ CorrectFails \/ FinalizeTimings \/ CommitFails
  BY <1>8 DEF CorrectWithoutEvidence, CorrectFails, FinalizeTimings, CommitFails, Phase
<1>9. CASE Crash
  BY <1>9 DEF Crash, Phase, IInv, TypeOK
<1> QED
  BY <1>1, <1>2, <1>3, <1>4, <1>5, <1>6, <1>7, <1>8, <1>9 DEF Next, Step

\* Every step of an execution is a step of the contract, or none.
LEMMA ContractStep ==
  ASSUME IInv, IInv', [Next]_vars
  PROVE  [Contract!ContractNext]_(Contract!contractVars)
<1> DEFINE q == "query"
<1>1. CASE PersistTrace
  <2>1. Phase = "running" /\ Phase' = "persisted" /\ trace' = response
    BY <1>1 DEF PersistTrace, Phase
  <2>2. response \in Response /\ response # NoResponse
    BY <1>1, ResponseExists DEF PersistTrace, IInv, PreparedIsSound
  <2>3. Grade' = response.status
    BY <2>1, <2>2, NextTraceDeserved DEF Grade, Deserved
  <2>4. Grade' \in Contract!Grades
    BY <2>2, <2>3 DEF Contract!Grades, Response
  <2>5. Contract!Persist(q, Grade')
    BY <2>1 DEF Contract!Persist
  <2> QED
    BY <2>4, <2>5 DEF Contract!ContractNext
<1>2. CASE ~PersistTrace
  <2>1. Grade' = Grade
    BY <1>2, PhaseStep, GradeKept
  <2>2. CASE Phase' = Phase
    BY <2>1, <2>2 DEF Contract!contractVars
  <2>3. CASE Phase = "idle" /\ Phase' = "running"
    <3>1. Contract!Begin(q)
      BY <2>1, <2>3 DEF Contract!Begin
    <3> QED
      BY <3>1 DEF Contract!ContractNext
  <2>4. CASE Phase = "persisted" /\ Phase' = "returned"
    <3>1. Contract!Return(q)
      BY <2>1, <2>4 DEF Contract!Return
    <3> QED
      BY <3>1 DEF Contract!ContractNext
  <2>5. CASE Phase \in {"idle", "running", "persisted"} /\ Phase' \in {"refused", "lost"}
    <3>1. Contract!Refuse(q) \/ Contract!Lose(q)
      BY <2>1, <2>5 DEF Contract!Refuse, Contract!Lose
    <3> QED
      BY <3>1 DEF Contract!ContractNext
  <2> QED
    BY <1>2, PhaseStep, <2>2, <2>3, <2>4, <2>5
<1> QED
  BY <1>1, <1>2

\* An execution keeps its contract with whoever called it.
THEOREM Refinement == Spec => ImplementsContract
<1>1. Init => Contract!ContractInit
  BY DEF Init, Contract!ContractInit, Phase, Grade
<1>2. IInv /\ IInv' /\ [Next]_vars => [Contract!ContractNext]_(Contract!contractVars)
  BY ContractStep
<1> QED
  BY <1>1, <1>2, Invariance, PTL DEF Spec, ImplementsContract, Contract!ContractSpec
=============================================================================

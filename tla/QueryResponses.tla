--------------------------- MODULE QueryResponses ---------------------------
(***************************************************************************)
(* The responses of a grounded query and the pure functions that shape,    *)
(* verify and normalise them (services/response_shaping.py, trust.py,      *)
(* verification.py and the helpers of query.py).                           *)
(*                                                                         *)
(* A text is reduced to where it comes from: the draft of a retrieval      *)
(* pass, an abstention, a snippet of an external source, the disclosure or *)
(* the resolution of a conflict.  Confidence and support scores are in     *)
(* hundredths.  What the verifier finds in the claims of an answer is an   *)
(* assessment: which kinds of claims there are, their mean support, and    *)
(* whether terms are left for a corrective query.                          *)
(***************************************************************************)
EXTENDS Integers, Sequences

CONSTANTS
  Scores,       \* confidence scores a draft can be given
  Assessments   \* what verifying a draft can find

Percent == 0 .. 100

Assessment ==
  [contradicted : BOOLEAN, unsupported : BOOLEAN, partial : BOOLEAN,
   quality : Percent, retry : BOOLEAN]

ASSUME ScoresAssumption == Scores \subseteq Percent
ASSUME AssessmentsAssumption ==
  /\ Assessments \subseteq Assessment
  /\ \A a \in Assessments : a.retry => a.unsupported \/ a.partial

Texts == {"draft", "abstention", "external", "conflict", "resolved"}
Labels == {"low", "medium", "high"}
Summaries == {"grounded", "partial", "insufficient"}

GenerationReasons ==
  {"QUERY_REQUIRES_CLARIFICATION", "INSUFFICIENT_QUERY_ALIGNMENT",
   "GENERATION_PROVIDER_FAILED", "INSUFFICIENT_SUPPORT"}
RetryableReasons == {"UNSUPPORTED_CLAIMS", "PARTIAL_SUPPORT", "CONTRADICTORY_EVIDENCE"}
Reasons ==
  GenerationReasons \cup RetryableReasons \cup
  {"NO_GROUNDED_EVIDENCE", "RETRIEVAL_ERROR", "LOW_CONFIDENCE_SUPPORT", "PARTIAL_EVIDENCE",
   "AMBIGUOUS_SUPPORT", "CONFLICT_RESOLVED_BY_SOURCE_AUTHORITY"}

\* pass: the retrieval pass whose evidence the response cites, 0 when it cites
\* none; 1 is the first pass, 1 + k the k-th corrective attempt.
Response ==
  [text : Texts, pass : Nat, status : {"passed", "degraded"}, reasons : Seq(Reasons),
   score : Percent, label : Labels, summary : Summaries]

Members(s) == {s[i] : i \in DOMAIN s}
AtMost(x, y) == IF x <= y THEN x ELSE y
AtLeast(x, y) == IF x >= y THEN x ELSE y

Label(score) ==
  IF score >= 75 THEN "high" ELSE IF score >= 45 THEN "medium" ELSE "low"

Summary(score, reasons, cited) ==
  LET found == Members(reasons) IN
  IF \/ ~cited
     \/ found \cap (GenerationReasons \cup {"NO_GROUNDED_EVIDENCE", "LOW_CONFIDENCE_SUPPORT"}) # {}
  THEN "insufficient"
  ELSE IF found \cap {"PARTIAL_EVIDENCE", "AMBIGUOUS_SUPPORT"} # {} \/ score < 45
       THEN "partial" ELSE "grounded"

-----------------------------------------------------------------------------
ShapeGrounded(pass, score, ambiguous) ==
  LET reasons == IF score < 25 THEN <<"LOW_CONFIDENCE_SUPPORT">>
                 ELSE IF score < 50 THEN <<"PARTIAL_EVIDENCE">>
                 ELSE IF ambiguous THEN <<"AMBIGUOUS_SUPPORT">> ELSE << >>
  IN [text |-> "draft", pass |-> pass,
      status |-> IF score < 25 THEN "degraded" ELSE "passed",
      reasons |-> reasons, score |-> score, label |-> Label(score),
      summary |-> Summary(score, reasons, TRUE)]

\* Whether two or more citations leave the answer ambiguous depends on their
\* support, which is not in the model.
Drafts(pass) == {ShapeGrounded(pass, score, ambiguous) : score \in Scores, ambiguous \in BOOLEAN}

ShapeDegraded(reason) ==
  [text |-> "abstention", pass |-> 0, status |-> "degraded", reasons |-> <<reason>>,
   score |-> 0, label |-> "low", summary |-> "insufficient"]

-----------------------------------------------------------------------------
Unblemished(a) == ~a.contradicted /\ ~a.unsupported /\ ~a.partial

\* The same answer against more evidence: a contradiction stays, the support
\* of every claim can only grow.
Widens(a, b) ==
  /\ a.contradicted => b.contradicted
  /\ b.unsupported => a.unsupported
  /\ b.partial => a.partial \/ a.unsupported
  /\ b.quality >= a.quality

Decision(response, a) ==
  IF a.contradicted THEN "degrade"
  ELSE IF a.unsupported THEN "refuse"
  ELSE IF a.partial \/ response.status = "degraded" THEN "degrade"
  ELSE "accept"

\* A response without reasons and with partial support gets one of its own.
Reason(response, a) ==
  IF a.contradicted THEN "CONTRADICTORY_EVIDENCE"
  ELSE IF a.unsupported THEN "UNSUPPORTED_CLAIMS"
  ELSE IF response.reasons # << >> THEN response.reasons[1]
  ELSE "PARTIAL_SUPPORT"

ApplyVerification(response, a) ==
  LET hopeless == Decision(response, a) = "refuse" \/ a.contradicted
      reason == Reason(response, a)
  IN IF Decision(response, a) = "accept" THEN response
     ELSE [response EXCEPT
             !.status = "degraded",
             !.reasons = IF reason \in Members(@) THEN @ ELSE Append(@, reason),
             !.summary = IF hopeless THEN "insufficient" ELSE "partial",
             !.label = IF hopeless THEN "low" ELSE @,
             !.score = IF hopeless THEN 0 ELSE AtMost(@, 49)]

ShouldRetry(response, a) ==
  /\ Decision(response, a) \in {"refuse", "degrade"}
  /\ Reason(response, a) \in RetryableReasons
  /\ a.retry

\* The snippets of an external source replace the text of a degraded response.
ExternalAnswer(response) == [response EXCEPT !.text = "external"]

\* The contradiction is resolved in favour of the most authoritative chunk, or
\* disclosed.
DiscloseConflict(response, resolved) ==
  IF resolved
  THEN [response EXCEPT !.text = "resolved", !.status = "degraded",
                        !.reasons = <<"CONFLICT_RESOLVED_BY_SOURCE_AUTHORITY">>]
  ELSE [response EXCEPT !.text = "conflict"]

\* Variant for testing DegradedSaysWhy: the confidence of a degraded answer stands.
NormalizePassedOnly(response) ==
  IF response.status = "passed"
  THEN [response EXCEPT !.summary = "grounded", !.reasons = << >>, !.score = AtLeast(@, 50)]
  ELSE response

Normalize(response) ==
  IF response.status = "passed"
  THEN [response EXCEPT !.summary = "grounded", !.reasons = << >>, !.score = AtLeast(@, 50)]
  ELSE [response EXCEPT !.summary = IF response.score <= 0 THEN "insufficient" ELSE @,
                        !.label = "low",
                        !.score = AtMost(@, 49),
                        !.reasons = IF response.reasons = << >>
                                    THEN <<"INSUFFICIENT_SUPPORT">> ELSE response.reasons]
=============================================================================

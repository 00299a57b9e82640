----------------------------- MODULE Generation -----------------------------
(***************************************************************************)
(* One call of generate_answer_from_evidence (services/generation.py): two *)
(* tries of the configured backend, the bounded retries of each call       *)
(* (core/provider_retry.py), the checks of the Gemini and OpenAI backends  *)
(* on what the model returned, and the choice of support by the local      *)
(* backend (generate_grounded_draft in core/llm_client.py).                *)
(*                                                                         *)
(* A model may return anything.  Of a draft are kept the kind of its text, *)
(* the chunks it cites, where each snippet comes from, and whether its     *)
(* content passes the checks of the answer mode (fits), which read text.   *)
(***************************************************************************)
EXTENDS Sequences, QueryProfiles

CONSTANTS
  Items,       \* chunk ids an evidence package may hold
  Shown,       \* those the package of a provider may hold
  Strays,      \* chunk ids a model may cite that no package holds
  Profiles,    \* profiles of the queries
  ReplyModes,  \* the answer modes of the replies
  MaxCites,    \* bound: citations in one reply
  MaxRetries   \* provider_max_retries

ASSUME ItemsAssumption == IsFiniteSet(Items) /\ Shown \subseteq Items /\ Items \cap Strays = {}
ASSUME ModesAssumption == ReplyModes \subseteq AnswerModes
ASSUME BoundsAssumption == MaxCites \in Nat /\ MaxRetries \in Nat

VARIABLES
  job,     \* the backend, the query's profile and the evidence package
  phase,
  retry,   \* retries of the current call
  tried,   \* the tries that have failed: their calls and the reason
  scan,    \* the local backend: ranked support, next position, chosen support
  answer   \* the draft that is returned

vars == <<job, phase, retry, tried, scan, answer>>

Tries == 2
Ids == Shown \cup Strays
Backends == {"local", "gemini", "openai"}
Jobs == {j \in [backend : Backends, profile : Profiles, items : SUBSET Items] :
           j.backend # "local" => j.items \subseteq Shown}

\* refusal is the agreed sentence, echo one that only normalises to it.
Texts == {"refusal", "echo", "answer"}
\* Where a model has a snippet from: own and heading are spans of the chunk, the second
\* only a heading, foreign is anything else.  The local backend's are cleaned spans.
Spans == {"own", "heading", "foreign"}
Lists(S, n) == UNION {[1 .. k -> S] : k \in 0 .. n}
Distinct(s) == \A i, j \in DOMAIN s : s[i] = s[j] => i = j
Named(s) == {s[i] : i \in DOMAIN s}
\* What a model cites: one snippet for each citation, none, or some too many.
Citings == UNION {[cites : {s}, snippets : UNION {[S -> Spans] :
                                 S \in {{}, Named(s), Named(s) \cup Strays}}] :
                   s \in Lists(Ids, MaxCites)}
Drafts == {[text |-> t, refuses |-> r, mode |-> m, cites |-> c.cites,
            snippets |-> c.snippets, fits |-> f] :
             t \in Texts, r \in BOOLEAN, m \in ReplyModes, c \in Citings, f \in BOOLEAN}

Mode == FinalAnswerMode(job.profile)
NoDraft == [text |-> "none"]
NoScan == [ranked |-> <<>>, next |-> 1, chosen |-> <<>>]
Rankings(S) == {r \in Lists(S, Cardinality(S)) : Distinct(r)}

Init ==
  /\ job \in Jobs
  /\ phase = IF job.backend = "local" THEN "ranking" ELSE "calling"
  /\ retry = 0
  /\ tried = <<>>
  /\ scan = NoScan
  /\ answer = NoDraft

-----------------------------------------------------------------------------
\* The checks on a provider's draft.

Family(mode) ==
  CASE mode \in {"open", "summary"} -> "synthesis"
    [] mode = "list_or_recommendation" -> "structured_list"
    [] mode \in {"exact_lookup", "event_lookup", "arithmetic_qa"} -> "strict_extraction"
    [] OTHER -> mode

\* _parse_result: what the Gemini backend takes for a result.
GeminiParses(d) ==
  /\ Distinct(d.cites)
  /\ IF d.refuses
     THEN d.text = "refusal" /\ d.cites = <<>> /\ DOMAIN d.snippets = {}
     ELSE /\ d.text # "refusal"
          /\ d.cites # <<>>
          /\ DOMAIN d.snippets = Named(d.cites)

\* _repair_citation_snippets: a span of the chunk replaces a paraphrase.
Repaired(d) ==
  IF d.refuses \/ Family(Mode) = "strict_extraction"
  THEN d
  ELSE [d EXCEPT !.snippets = [c \in DOMAIN d.snippets |->
          IF c \in job.items /\ d.snippets[c] = "foreign" THEN "own" ELSE d.snippets[c]]]

\* _validate_result_against_evidence.
GeminiKeeps(d) ==
  /\ Family(d.mode) = Family(Mode)
  /\ ~d.refuses => \A c \in Named(d.cites) : c \in job.items /\ d.snippets[c] # "foreign"

\* The checks of the answer mode; fits stands for those that read the text,
\* banned phrases among them.
FitsMode(d) ==
  /\ d.fits
  /\ Mode \in {"exact_lookup", "event_lookup"} =>
       \A c \in DOMAIN d.snippets : d.snippets[c] # "heading"
  /\ Mode = "exact_lookup" => Len(d.cites) <= IF NeedsMultiChunk(job.profile) THEN 2 ELSE 1
  /\ Mode = "summary" => Cardinality(job.items) <= 1 \/ Len(d.cites) >= 2

\* _validate_citation_contract.
CitesEvidence(d) ==
  /\ d.cites # <<>>
  /\ Distinct(d.cites)
  /\ Named(d.cites) \subseteq job.items
  /\ DOMAIN d.snippets = Named(d.cites)
  /\ \A c \in DOMAIN d.snippets : d.snippets[c] # "foreign"

\* Variant for testing AnswerIsGrounded: a draft with a text of its own is taken for
\* an answer, also when it only normalises to the refusal.
AcceptableVerbatim(d) ==
  IF d.text = "refusal"
  THEN d.cites = <<>> /\ DOMAIN d.snippets = {}
  ELSE CitesEvidence(d) /\ FitsMode(d)

\* _provider_validation_error returns None.
Acceptable(d) ==
  IF d.text \in {"refusal", "echo"}
  THEN d.cites = <<>> /\ DOMAIN d.snippets = {}
  ELSE CitesEvidence(d) /\ FitsMode(d)

\* The draft the backend returns, or the exception it raises.
Returned(d) == IF job.backend = "gemini" THEN Repaired(d) ELSE d
BackendReturns(d) == job.backend = "gemini" => GeminiParses(d) /\ GeminiKeeps(Repaired(d))

-----------------------------------------------------------------------------
\* The calls of a provider.

TryFails(why) ==
  /\ tried' = Append(tried, [calls |-> retry + 1, why |-> why])
  /\ retry' = 0
  /\ phase' = IF Len(tried) + 1 = Tries THEN "failed" ELSE "calling"
  /\ UNCHANGED <<job, scan, answer>>

\* An exception that nothing translates leaves generate_answer_from_evidence.
Escape ==
  /\ phase' = "escaped"
  /\ UNCHANGED <<job, retry, tried, scan, answer>>

\* Variant for testing GenerationEnds: the count of the retries starts again.
RetryAgain ==
  /\ phase = "calling"
  /\ retry' = IF retry < MaxRetries THEN retry + 1 ELSE 0
  /\ UNCHANGED <<job, phase, tried, scan, answer>>

\* run_with_retries after an HTTP status worth retrying, an unreachable host or a
\* timeout.
Retry ==
  /\ phase = "calling"
  /\ retry < MaxRetries
  /\ retry' = retry + 1
  /\ UNCHANGED <<job, phase, tried, scan, answer>>

\* The last retry is spent on an HTTP status or an unreachable host.
CallFails == phase = "calling" /\ retry >= MaxRetries /\ TryFails("unavailable")

\* A status that is not worth retrying.
CallRefused == phase = "calling" /\ TryFails("refused")

\* A read that times out is retried like the others, but only HTTPError and
\* URLError are translated afterwards.
CallTimesOut == phase = "calling" /\ retry >= MaxRetries /\ Escape

\* The reply is no draft: no candidate, no JSON inside, fields missing or of a wrong
\* type, a citation twice in the snippets.
ReplyMalformed == phase = "calling" /\ TryFails("malformed")

\* The body is no JSON object.  For a body that is no JSON the Gemini backend reads
\* response_payload before it is bound, for a list both call a method it lacks; the
\* OpenAI backend translates the first.
ReplyGarbled ==
  /\ phase = "calling"
  /\ \/ Escape
     \/ job.backend = "openai" /\ TryFails("malformed")

Accepted(d) == BackendReturns(d) /\ Acceptable(Returned(d))

ReplyAccepted ==
  /\ phase = "calling"
  /\ \E d \in Drafts : Accepted(d) /\ answer' = Returned(d)
  /\ phase' = "answered"
  /\ UNCHANGED <<job, retry, tried, scan>>

ReplyRejected ==
  /\ phase = "calling"
  /\ \E d \in Drafts : ~Accepted(d)
  /\ TryFails("rejected")

-----------------------------------------------------------------------------
\* The local backend, which raises without a second try.

LocalFails ==
  /\ phase' = "failed"
  /\ UNCHANGED <<job, retry, tried, scan, answer>>

\* _field_query_support_limit.
SupportLimit(p) ==
  IF FinalAnswerMode(p) = "arithmetic_qa" THEN 8
  ELSE IF IsDefinition(p) THEN 5
  ELSE IF IsAction(p) \/ IsComparison(p) \/ IsEntity(p) \/ IsCount(p) THEN 4
  ELSE IF ~IsField(p) THEN 3
  ELSE IF IsCollection(p) THEN 4
  ELSE 1

Limit == SupportLimit(job.profile)

\* The items with a positive score, of the filters that apply to the query, in the
\* order of their scores.
Rank ==
  /\ phase = "ranking"
  /\ \E r \in Rankings(job.items) :
       IF r = <<>>
       THEN LocalFails
       ELSE /\ scan' = [ranked |-> r, next |-> 2, chosen |-> <<r[1]>>]
            /\ phase' = "choosing"
            /\ UNCHANGED <<job, retry, tried, answer>>

\* The loop over the ranked support: the limit is looked at only after the second
\* entry.  Of arithmetic questions all support up to the limit is chosen.
Choose ==
  /\ phase = "choosing"
  /\ scan.next <= Len(scan.ranked)
  /\ \E take \in IF Mode = "arithmetic_qa" THEN {TRUE} ELSE BOOLEAN :
       LET chosen == IF take THEN Append(scan.chosen, scan.ranked[scan.next]) ELSE scan.chosen
       IN /\ scan' = [scan EXCEPT !.next = @ + 1, !.chosen = chosen]
          /\ phase' = IF Len(chosen) >= Limit THEN "rendering" ELSE "choosing"
  /\ UNCHANGED <<job, retry, tried, answer>>

ChoiceEnds ==
  /\ phase = "choosing"
  /\ scan.next > Len(scan.ranked)
  /\ phase' = "rendering"
  /\ UNCHANGED <<job, retry, tried, scan, answer>>

\* Variant for testing CitesWithinLimit: the title comes on top of a full support.
WithTitleUncut(chosen) ==
  UNION {{s \in [1 .. Len(chosen) + 1 -> Named(chosen) \cup {t}] : Distinct(s)} :
           t \in Named(scan.ranked) \ Named(chosen)}

\* A summary puts one ranked entry that looks like a title before its support, sorts
\* by position in the document and cuts at the limit.
WithTitle(chosen) ==
  LET titles == Named(scan.ranked) \ Named(chosen)
      room == IF Len(chosen) < Limit THEN Len(chosen) + 1 ELSE Limit
  IN UNION {{s \in [1 .. room -> Named(chosen) \cup {t}] : Distinct(s)} : t \in titles}

Supports == {scan.chosen} \cup (IF IsSummary(job.profile) THEN WithTitle(scan.chosen) ELSE {})

\* The renderers: the chunks whose citation marks the text may bear, given the
\* support; no mark means that nothing was found.
Few(s) == {x \in SUBSET Named(s) : x # {} /\ Cardinality(x) <= 2}
First(s) == {{s[1]}}
Single(s) == {{s[i]} : i \in DOMAIN s}
Leading(s) == {Named(SubSeq(s, 1, n)) : n \in DOMAIN s}
NoneOr(S) == {{}} \cup S

\* Dates, numbers, names and rows come from one item, a range of dates from two.
RenderExactField(s) == NoneOr(Few(s))
\* The subject, and one more item that adds to it.
RenderSummary(s) == Few(s)
\* The items looked through until there are enough lines.
RenderCollection(s) == Leading(s)
\* At most three lines of the items, or the snippet of the first.
RenderAction(s) == {x \in SUBSET Named(s) : x # {} /\ Cardinality(x) <= 3}
\* The two amounts, or one item in the context and one outside.
RenderComparison(s) == Few(s)
RenderEntityContext(s) == First(s)
RenderBoolean(s) == First(s)
\* A number of one item, or what all of them list.
RenderCount(s) == NoneOr(Single(s) \cup {Named(s)})
RenderDefinition(s) == SUBSET Named(s)
RenderEventLookup(s) == NoneOr(Single(s))
RenderListOrRecommendation(s) == NoneOr(Leading(s))
\* The amounts that enter the result.
RenderArithmetic(s) == SUBSET Named(s)

RenderGroundedAnswer(s) ==
  LET p == job.profile IN
  IF Mode = "arithmetic_qa" THEN RenderArithmetic(s)
  ELSE IF Mode = "event_lookup" THEN RenderEventLookup(s)
  ELSE IF Mode = "list_or_recommendation" THEN RenderListOrRecommendation(s)
  ELSE IF IsAction(p) THEN RenderAction(s)
  ELSE IF IsComparison(p) THEN RenderComparison(s)
  ELSE IF IsEntity(p) THEN RenderEntityContext(s)
  ELSE IF IsCount(p) THEN RenderCount(s)
  ELSE IF IsBoolean(p) THEN RenderBoolean(s)
  ELSE IF IsDefinition(p) THEN RenderDefinition(s)
  ELSE IF IsSummary(p) THEN RenderSummary(s)
  ELSE IF IsCollection(p) THEN RenderCollection(s)
  ELSE IF IsField(p) THEN RenderExactField(s)
  ELSE {Named(s)}

\* The refusal takes the citations with it.
LocalDraft(cites, names) ==
  [text |-> IF names = {} THEN "refusal" ELSE "answer", refuses |-> FALSE, mode |-> Mode,
   cites |-> IF names = {} THEN <<>> ELSE cites,
   snippets |-> [c \in IF names = {} THEN {} ELSE Named(cites) |-> "cleaned"],
   fits |-> TRUE, names |-> names]

\* A yes or no needs enough overlap or score; everything else is rendered.
Render ==
  /\ phase = "rendering"
  /\ \/ IsBoolean(job.profile) /\ LocalFails
     \/ \E cites \in Supports : \E names \in RenderGroundedAnswer(cites) :
          /\ answer' = LocalDraft(cites, names)
          /\ phase' = "answered"
          /\ UNCHANGED <<job, retry, tried, scan>>

-----------------------------------------------------------------------------
ProviderStep ==
  \/ Retry \/ CallFails \/ CallRefused \/ CallTimesOut
  \/ ReplyMalformed \/ ReplyGarbled \/ ReplyAccepted \/ ReplyRejected
LocalStep == Rank \/ Choose \/ ChoiceEnds \/ Render

Next == ProviderStep \/ LocalStep

Spec == Init /\ [][Next]_vars

\* A call of a provider has a timeout and the local backend only computes.
FairSpec == Spec /\ WF_vars(Next)
-----------------------------------------------------------------------------
\* Whatever the model returns and whichever backend answers, an answer cites, once
\* each, chunks of the package, with a snippet for exactly these and none that is not
\* taken from its chunk; the marks in a local answer's text name cited chunks; and a
\* refusal, also one the model worded a little differently, cites nothing.
AnswerIsGrounded ==
  phase = "answered" =>
    IF answer.text \in {"refusal", "echo"}
    THEN answer.cites = <<>> /\ DOMAIN answer.snippets = {}
    ELSE /\ answer.text = "answer"
         /\ answer.cites # <<>>
         /\ Distinct(answer.cites)
         /\ Named(answer.cites) \subseteq job.items
         /\ DOMAIN answer.snippets = Named(answer.cites)
         /\ \A c \in DOMAIN answer.snippets : answer.snippets[c] # "foreign"
         /\ job.backend = "local" => answer.names \subseteq Named(answer.cites)

\* The local backend cites no more than the support limit of the query's kind, or two
\* chunks where the limit is one: the loop looks at the limit only after the second
\* entry.  An exact answer of a provider cites one chunk, or two for a question with
\* several parts.
CitesWithinLimit ==
  phase = "answered" =>
    IF job.backend = "local"
    THEN Len(answer.cites) <= IF Limit = 1 THEN 2 ELSE Limit
    ELSE Mode = "exact_lookup" => Len(answer.cites) <= IF NeedsMultiChunk(job.profile) THEN 2 ELSE 1

\* A provider is given up only after two tries, and a try for want of an answer only
\* after every retry; no try makes more calls than that.
TriesAreSpent ==
  /\ \A i \in DOMAIN tried :
       /\ tried[i].calls <= MaxRetries + 1
       /\ tried[i].why = "unavailable" => tried[i].calls = MaxRetries + 1
  /\ phase = "failed" => Len(tried) = IF job.backend = "local" THEN 0 ELSE Tries

\* The types, the phases of each kind of backend, and how far the tries and the scan
\* of the ranked support have come.
TypeOK ==
  /\ job \in Jobs
  /\ phase \in IF job.backend = "local"
               THEN {"ranking", "choosing", "rendering", "answered", "failed"}
               ELSE {"calling", "answered", "failed", "escaped"}
  /\ retry \in 0 .. MaxRetries
  /\ tried \in Seq([calls : Nat, why : {"unavailable", "refused", "malformed", "rejected"}])
  /\ scan \in [ranked : Seq(Items), next : Nat, chosen : Seq(Items)]

Progress ==
  /\ job.backend = "local" => tried = <<>>
  /\ phase = "calling" => Len(tried) < Tries

\* The chosen support is a part of the ranked support before the next position,
\* without repetition and within the limit.
ScanOK ==
  phase \in {"choosing", "rendering"} =>
    /\ Distinct(scan.ranked) /\ Named(scan.ranked) \subseteq job.items
    /\ scan.next \in 2 .. Len(scan.ranked) + 1
    /\ Distinct(scan.chosen) /\ scan.chosen # <<>>
    /\ Named(scan.chosen) \subseteq {scan.ranked[i] : i \in 1 .. scan.next - 1}
    /\ Len(scan.chosen) <= IF Limit = 1 THEN 2 ELSE Limit
    /\ phase = "choosing" => Len(scan.chosen) < Limit \/ Len(scan.chosen) = 1

\* The inductive invariant.
IInv ==
  /\ TypeOK /\ Progress /\ ScanOK
  /\ AnswerIsGrounded /\ CitesWithinLimit /\ TriesAreSpent

\* Every call ends, whatever the provider does.
GenerationEnds == <>(phase \in {"answered", "failed", "escaped"})
=============================================================================

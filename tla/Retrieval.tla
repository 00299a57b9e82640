------------------------------ MODULE Retrieval ------------------------------
(***************************************************************************)
(* One call of retrieve_hybrid_candidates (services/retrieval.py) and the  *)
(* evidence packaged from what it returns: the searches for each rewrite   *)
(* of the query, their fusion by reciprocal ranks, the chunks fetched for  *)
(* context, and the orders put upon one another, last the one a model      *)
(* gives in the Enterprise tier (core/reranker.py).                        *)
(*                                                                         *)
(* A search may return any chunks of the namespace in any order and may    *)
(* fail; so may every other read.  What scores compare is left open.       *)
(***************************************************************************)
EXTENDS Evidence

CONSTANTS
  Jobs,          \* queries: profile, tier, mode, rewrites, reranker
  FinalLimit,    \* retrieval_candidate_limit
  RerankPool,    \* enterprise_reranker_candidate_limit
  RrfK,          \* rrf_smoothing_constant
  Whole,         \* a number that each of RrfK + 1, RrfK + 2, ... divides
  MaxFound       \* bound: hits of one search

ASSUME JobsAssumption ==
  Jobs \subseteq [profile : [kind : Kinds, attributes : SUBSET STRING, contexts : SUBSET STRING,
                             tags : SUBSET STRING, terms : SUBSET STRING, rank : 0 .. 3,
                             marks : SUBSET Marks],
                  enterprise : BOOLEAN, hybrid : BOOLEAN, queries : Nat,
                  reranker : {"disabled", "stub", "gemini"}]
ASSUME LimitsAssumption ==
  FinalLimit \in Nat \ {0} /\ RerankPool \in Nat \ {0} /\ RrfK \in Nat \ {0} /\ MaxFound \in Nat
ASSUME WholeAssumption ==
  Whole \in Nat \ {0} /\ \A i \in 1 .. Cardinality(Chunks) : Whole % (RrfK + i) = 0

VARIABLES
  job,
  phase,
  asked,    \* rewrites asked so far
  sparse,   \* hits of the full-text searches, each with its rank in its search
  dense,    \* hits of the vector searches
  found,    \* the chunks the searches returned
  fused,    \* fused_hits
  model,    \* what the reranker answered: its order, and whether it applies
  evidence  \* selected_evidence_ids

vars == <<job, phase, asked, sparse, dense, found, fused, model, evidence>>

NoModel == [applied |-> FALSE, order |-> <<>>]

Init ==
  /\ job \in Jobs
  /\ phase = "searching"
  /\ asked = 0
  /\ sparse = <<>> /\ dense = <<>>
  /\ found = {}
  /\ fused = <<>>
  /\ model = NoModel
  /\ evidence = <<>>

\* A RetrievalError; the caller tries once more.
Fails ==
  /\ phase' = "failed"
  /\ UNCHANGED <<job, asked, sparse, dense, found, fused, model, evidence>>

-----------------------------------------------------------------------------
\* The searches and their fusion.

Searches == UNION {SetToSeqs(S) : S \in UNION {kSubset(k, Chunks) : k \in 0 .. MaxFound}}
Ranked(s) == [i \in DOMAIN s |-> [chunk |-> s[i], rank |-> i]]

\* One rewrite: the full-text search if the mode is hybrid, then the vector search.
Search ==
  /\ phase = "searching"
  /\ asked < job.queries
  /\ asked' = asked + 1
  /\ \E s \in IF job.hybrid THEN Searches ELSE {<<>>} : sparse' = sparse \o Ranked(s)
  /\ \E s \in Searches : dense' = dense \o Ranked(s)
  /\ UNCHANGED <<job, phase, found, fused, model, evidence>>

SearchFails == phase = "searching" /\ asked < job.queries /\ Fails

Ids(hits) == {hits[i].chunk : i \in DOMAIN hits}
BestRank(hits, c) == Min({hits[i].rank : i \in {j \in DOMAIN hits : hits[j].chunk = c}})
LastRank(hits, c) ==
  hits[Max({i \in DOMAIN hits : hits[i].chunk = c})].rank

\* Variant for testing FusionIsConsensus: the last occurrence of a chunk is kept.
DedupeKeepingLast(hits) ==
  {s \in Orders[Ids(hits)] :
     \A i, j \in DOMAIN s : i < j => LastRank(hits, s[i]) <= LastRank(hits, s[j])}

\* _dedupe_retrieval_hits: the best occurrence of each chunk, numbered anew.  Chunks of
\* the same rank in different searches are ordered by their scores.
Dedupe(hits) ==
  {s \in Orders[Ids(hits)] :
     \A i, j \in DOMAIN s : i < j => BestRank(hits, s[i]) <= BestRank(hits, s[j])}

\* 1 / (RrfK + rank), in parts of Whole.
Share(s, c) == IF c \in ToSet(s) THEN Whole \div (RrfK + PlaceOf(s, c)) ELSE 0

\* fuse_retrieval_hits; the rest of the order is the position, then the id.
Fusion(s, d) ==
  LET hits == ToSet(s) \cup ToSet(d)
      score == [c \in hits |-> Share(s, c) + Share(d, c)]
      Before(a, b) == \/ score[a] > score[b]
                      \/ score[a] = score[b] /\ Index[a] < Index[b]
                      \/ score[a] = score[b] /\ Index[a] = Index[b] /\ a < b
  IN Sort(hits, {p \in hits \X hits : Before(p[1], p[2])})

Fuse ==
  /\ phase = "searching"
  /\ asked = job.queries
  /\ \E s \in Dedupe(sparse), d \in Dedupe(dense) : fused' = Fusion(s, d)
  /\ found' = Ids(sparse) \cup Ids(dense)
  /\ sparse' = <<>> /\ dense' = <<>>
  /\ phase' = "fused"
  /\ UNCHANGED <<job, asked, model, evidence>>

-----------------------------------------------------------------------------
\* Chunks fetched besides those found.

WithRows(rows) == fused \o Ascending(rows \ ToSet(fused))

\* The documents of the first five hits, in the order of these.
TopDocs == LET first == Representatives(Top(fused, 5)) IN [i \in DOMAIN first |-> Doc[first[i]]]

\* The neighbours of the first five hits, for a field also the first two chunks of the
\* first three documents.
Nearby ==
  LET near == {c \in Chunks : \E h \in ToSet(Top(fused, 5)) :
                 Doc[c] = Doc[h] /\ Index[c] \in {Index[h] - 1, Index[h], Index[h] + 1}}
      leads == {c \in Chunks : Doc[c] \in ToSet(Top(TopDocs, 3)) /\ Index[c] <= 1}
  IN IF IsField(job.profile) THEN near \cup leads ELSE near

\* The sections of the hits are fetched whole; which chunks share one is left open.
Sections ==
  IF IsCollection(job.profile) \/ IsField(job.profile)
  THEN SUBSET {c \in Chunks : Doc[c] \in ToSet(TopDocs)}
  ELSE {{}}

\* _fetch_supporting_context_hits.
AddContext ==
  /\ phase = "fused"
  /\ \E section \in Sections : fused' = WithRows(Nearby \cup section)
  /\ phase' = IF IsSummary(job.profile) THEN "leading" ELSE "gathered"
  /\ UNCHANGED <<job, asked, sparse, dense, found, model, evidence>>

ContextFails == phase = "fused" /\ fused # <<>> /\ Fails

\* _fetch_namespace_lead_chunks: the first rows of the namespace.
LeadRows ==
  Top(Ascending({c \in Chunks : Index[c] <= 1}), Larger(FinalLimit, EvidenceLimit * 2))

\* A summary gets the lead rows too.  Which of them is raised for a document the query
\* names by number is among the orders of RerankForQuery.
AddLeads ==
  /\ phase = "leading"
  /\ fused' = WithRows(ToSet(LeadRows))
  /\ phase' = "gathered"
  /\ UNCHANGED <<job, asked, sparse, dense, found, model, evidence>>

LeadsFail == phase = "leading" /\ Fails

-----------------------------------------------------------------------------
\* The orders of what was gathered.

\* _rerank_fused_hits_for_query: by how well each text answers.
RerankForQuery ==
  /\ phase = "gathered"
  /\ \E order \in Orders[ToSet(fused)] : fused' = Top(order, Larger(FinalLimit, RerankPool))
  /\ phase' = "reranked"
  /\ UNCHANGED <<job, asked, sparse, dense, found, model, evidence>>

FreshnessTerms == {"current", "latest", "new", "newer", "recent", "update", "updated", "version"}
PrefersFreshness ==
  /\ job.enterprise /\ fused # <<>>
  /\ (job.profile.terms \cup job.profile.attributes \cup job.profile.contexts)
     \cap FreshnessTerms # {}

\* _apply_enterprise_freshness_scoring; with the dates of two documents or more, the
\* order is that of the scores of the fusion, raised for the newer ones.
ApplyFreshness ==
  /\ phase = "reranked"
  /\ IF PrefersFreshness /\ Cardinality(Docs(fused)) >= 2
     THEN fused' \in Orders[ToSet(fused)]
     ELSE UNCHANGED fused
  /\ phase' = "dated"
  /\ UNCHANGED <<job, asked, sparse, dense, found, model, evidence>>

FreshnessFails == phase = "reranked" /\ PrefersFreshness /\ Fails

\* The disabled and the stub reranker return the candidates as they are.
PassedThrough(candidates) == {[applied |-> FALSE, order |-> Top(candidates, FinalLimit)]}

\* _parse_hits: of what the model names the candidates count, the first time it names
\* them, and there must be one.
Parsed(candidates) ==
  {[applied |-> TRUE, order |-> s] :
     s \in UNION {Orders[S] : S \in {S \in SUBSET ToSet(candidates) :
                                       S # {} /\ Cardinality(S) <= FinalLimit}}}

Replies ==
  IF job.reranker = "gemini"
  THEN Parsed(Top(fused, RerankPool))
  ELSE PassedThrough(Top(fused, RerankPool))

\* Variant for testing RerankerLosesNothing: what the model leaves out is gone.
MergedWithoutRest(order) == Top(order, FinalLimit)

\* The hits the reranker named, then the others.
Merged(order) ==
  Top(order \o Among(fused, ToSet(fused) \ ToSet(order)), FinalLimit)

\* _apply_enterprise_reranker; a RerankerError leaves the hits as they are.
Rerank ==
  /\ phase = "dated"
  /\ IF job.enterprise /\ fused # <<>>
     THEN \/ \E r \in Replies : model' = r /\ fused' = Merged(r.order)
          \/ /\ job.reranker = "gemini"
             /\ fused' = Top(fused, FinalLimit)
             /\ UNCHANGED model
     ELSE fused' = Top(fused, FinalLimit) /\ UNCHANGED model
  /\ phase' = "retrieved"
  /\ UNCHANGED <<job, asked, sparse, dense, found, evidence>>

\* A read that times out, or a reply that is a list, is no RerankerError.
RerankEscapes ==
  /\ phase = "dated"
  /\ job.enterprise /\ fused # <<>> /\ job.reranker = "gemini"
  /\ phase' = "escaped"
  /\ UNCHANGED <<job, asked, sparse, dense, found, fused, model, evidence>>

\* package_evidence.
Package ==
  /\ phase = "retrieved"
  /\ evidence' \in PackageEvidence(fused, job.profile, job.enterprise)
  /\ phase' = "packaged"
  /\ UNCHANGED <<job, asked, sparse, dense, found, fused, model>>

-----------------------------------------------------------------------------
Next ==
  \/ Search \/ SearchFails \/ Fuse
  \/ AddContext \/ ContextFails \/ AddLeads \/ LeadsFail
  \/ RerankForQuery \/ ApplyFreshness \/ FreshnessFails
  \/ Rerank \/ RerankEscapes \/ Package

Spec == Init /\ [][Next]_vars

-----------------------------------------------------------------------------
\* A chunk that comes before another, at its best, in every kind of search that found
\* the other, comes before it after the fusion, whatever the rewrites of the query were
\* and however the scores of different searches compare; and the fusion keeps every
\* chunk once.
FusionIsConsensus ==
  [][phase' = "fused" =>
       /\ IsInjective(fused')
       /\ ToSet(fused') = Ids(sparse) \cup Ids(dense)
       /\ \A i, j \in DOMAIN fused' :
            (\A hits \in {sparse, dense} : fused'[j] \in Ids(hits) =>
                /\ fused'[i] \in Ids(hits)
                /\ BestRank(hits, fused'[i]) < BestRank(hits, fused'[j])) => i < j]_vars

\* The model of the reranker reorders what retrieval found and can neither add nor lose
\* a hit: the result is as long as the limit allows, the hits it named come first and
\* in its order, and those it did not name keep theirs; its errors change nothing.
RerankerLosesNothing ==
  [][phase' = "retrieved" =>
       /\ IsInjective(fused')
       /\ ToSet(fused') \subseteq ToSet(fused)
       /\ Len(fused') = Smaller(FinalLimit, Len(fused))
       /\ IsPrefix(model'.order, fused')
       /\ \A i, j \in DOMAIN fused :
            /\ i < j /\ fused[i] \notin ToSet(model'.order)
            /\ fused[j] \in ToSet(fused') \ ToSet(model'.order)
            => \E k, l \in DOMAIN fused' : k < l /\ fused'[k] = fused[i] /\ fused'[l] = fused[j]
       /\ ~model'.applied => IsPrefix(fused', fused)]_vars

\* A query whose searches found something gets evidence, through every reordering, cut
\* and error of the reranker on the way; one whose searches found nothing gets evidence
\* only as a summary, from the lead chunks.
FoundMeansEvidence ==
  phase = "packaged" =>
    /\ found # {} => evidence # <<>>
    /\ found = {} /\ ~IsSummary(job.profile) => evidence = <<>>

\* The evidence repeats nothing and is of the hits; outside Enterprise the evidence of an
\* exact answer or of a list is one document's; and a summary of several documents has
\* one chunk of each, of as many as the limit allows.
EvidenceIsSound ==
  phase = "packaged" =>
    /\ IsInjective(evidence)
    /\ ToSet(evidence) \subseteq ToSet(fused)
    /\ ~job.enterprise /\ FinalAnswerMode(job.profile) \in {"exact_lookup", "list_or_recommendation"} =>
         Cardinality(Docs(evidence)) <= 1
    /\ IsSummary(job.profile) =>
         Cardinality(Docs(evidence)) = Smaller(EvidenceLimit, Cardinality(Docs(fused)))

=============================================================================

------------------------------ MODULE Evidence ------------------------------
(***************************************************************************)
(* package_evidence (services/evidence.py): which of the hits a retrieval  *)
(* returns become the evidence for an answer.                              *)
(*                                                                         *)
(* The scores that rank the hits and the tests whether one more hit adds   *)
(* support read their texts; here both may turn out in any way, so that    *)
(* every operator gives the set of the packages that are possible.         *)
(***************************************************************************)
EXTENDS QueryProfiles, Orderings

CONSTANTS
  Chunks,        \* chunk ids, numbers in the order of their documents and positions
  Doc,           \* the document of each chunk
  Index,         \* its position in the document
  EvidenceLimit  \* evidence_package_limit

ASSUME ChunksAssumption ==
  /\ Chunks \subseteq Nat \ {0} /\ IsFiniteSet(Chunks)
  /\ Doc \in [Chunks -> Nat] /\ Index \in [Chunks -> Nat]
  /\ \A a, b \in Chunks : a < b => Doc[a] < Doc[b] \/ (Doc[a] = Doc[b] /\ Index[a] < Index[b])
ASSUME EvidenceLimitAssumption == EvidenceLimit \in Nat \ {0}

Orders == [S \in SUBSET Chunks |-> SetToSeqs(S)]
Smaller(a, b) == Min({a, b})
Larger(a, b) == Max({a, b})
Top(hits, n) == SubSeq(hits, 1, Smaller(n, Len(hits)))
Docs(hits) == {Doc[c] : c \in ToSet(hits)}
InPosition(S) == {s \in Orders[S] : \A i, j \in DOMAIN s : i < j => Index[s[i]] <= Index[s[j]]}

\* _rank_hits orders the hits anew.
RankHits(hits) == Orders[ToSet(hits)]

\* The loops over the ranked hits: the first one, and those that pass the test, until
\* there are enough.
FirstAnd(ranked, others, enough) ==
  {<<ranked[1]>> \o Top(Among(ranked, picked), enough - 1) :
     picked \in SUBSET (others \ {ranked[1]})}

SameDocument(ranked) == {c \in ToSet(ranked) : Doc[c] = Doc[ranked[1]]}

-----------------------------------------------------------------------------
ExactSupportLimit(p, enterprise) ==
  LET several == NeedsMultiChunk(p) \/ EvidenceLimit > 1 IN
  IF ~enterprise THEN IF several THEN 2 ELSE 1
  ELSE IF Cardinality(p.attributes) >= 2 THEN 3
  ELSE IF several THEN Smaller(Larger(EvidenceLimit, 2), 3)
  ELSE 1

\* Variant for testing FoundMeansEvidence: the first hit needs a justification too.
SelectJustifiedHits(ranked, p, enterprise) ==
  UNION {InPosition(S) : S \in {S \in SUBSET SameDocument(ranked) :
                                  Cardinality(S) <= ExactSupportLimit(p, enterprise)}}

\* Outside Enterprise only a hit of the same document supports an exact answer.
SelectExactQaHits(ranked, p, enterprise) ==
  UNION {InPosition(ToSet(s)) :
           s \in FirstAnd(ranked, IF enterprise THEN ToSet(ranked) ELSE SameDocument(ranked),
                          ExactSupportLimit(p, enterprise))}

StructuredLimit == Larger(2, Smaller(EvidenceLimit, 4))

\* Enterprise takes hits of any document, for a comparison a contrasting one first.
SelectEnterpriseBundleHits(ranked, p) ==
  LET limit == Larger(3, Smaller(StructuredLimit, 5))
      contrasts == IF IsComparison(p) THEN Tail(ranked) ELSE <<>>
  IN FirstAnd(ranked, ToSet(ranked), limit)
     \cup UNION {FirstAnd(<<ranked[1], c>> \o Among(ranked, ToSet(ranked) \ {ranked[1], c}),
                          ToSet(ranked), limit) : c \in ToSet(contrasts)}

SelectStructuredBundleHits(ranked, p, enterprise) ==
  IF enterprise
  THEN SelectEnterpriseBundleHits(ranked, p)
  ELSE FirstAnd(ranked, SameDocument(ranked), StructuredLimit)

\* _select_diverse_hits takes as many as it may; which come first depends on how much
\* each adds to those before.
SelectDiverseHits(ranked, limit) ==
  UNION {Orders[S] : S \in kSubset(Smaller(limit, Len(ranked)), ToSet(ranked))}

\* The strongest hit of each document.
Representatives(ranked) ==
  Picked(ranked, {i \in DOMAIN ranked : \A j \in 1 .. (i - 1) : Doc[ranked[j]] # Doc[ranked[i]]})

\* Variant for testing EvidenceIsSound: several hits may speak for one document.
SelectSummaryHitsOfAny(ranked) == SelectDiverseHits(ranked, EvidenceLimit)

\* Of one document the hits stand in the order of their positions.
SelectSummaryHits(ranked) ==
  IF Cardinality(Docs(ranked)) <= 1
  THEN UNION {InPosition(ToSet(s)) : s \in SelectDiverseHits(ranked, EvidenceLimit)}
  ELSE SelectDiverseHits(Representatives(ranked), EvidenceLimit)

\* _select_hits_for_query; the query's text is never empty here.
SelectHits(ranked, p, enterprise) ==
  LET mode == FinalAnswerMode(p) IN
  IF mode = "exact_lookup" THEN SelectExactQaHits(ranked, p, enterprise)
  ELSE IF mode = "list_or_recommendation" THEN SelectStructuredBundleHits(ranked, p, enterprise)
  ELSE IF mode = "summary" THEN SelectSummaryHits(ranked)
  ELSE IF IsDefinition(p) THEN SelectDiverseHits(ranked, Larger(EvidenceLimit, 5))
  ELSE IF IsAction(p) \/ IsComparison(p) \/ IsEntity(p) \/ IsCount(p)
       THEN SelectStructuredBundleHits(ranked, p, enterprise)
  ELSE SelectDiverseHits(ranked, EvidenceLimit)

\* package_evidence without the ids it reports.
PackageEvidence(hits, p, enterprise) ==
  IF hits = <<>> THEN {<<>>}
  ELSE UNION {SelectHits(ranked, p, enterprise) : ranked \in RankHits(hits)}
=============================================================================

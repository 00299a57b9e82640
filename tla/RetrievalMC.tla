----------------------------- MODULE RetrievalMC -----------------------------
(***************************************************************************)
(* An instance of Retrieval for TLC: three documents, one of three chunks. *)
(***************************************************************************)
EXTENDS Retrieval

FiveChunks == 1 .. 5
ThreeDocs == <<1, 1, 1, 2, 3>>
Positions == <<0, 1, 2, 0, 0>>
\* 61, 62, 63, 64 and 65 divide it.
SmallestWhole == 61 * 31 * 63 * 64 * 65
ListAttrs == {"skills", "responsibilities"}

Profile(kind, attributes, rank, terms) ==
  [kind |-> kind, attributes |-> attributes, contexts |-> {}, tags |-> {}, terms |-> terms,
   rank |-> rank, marks |-> {}]
Job(p, e, h, n, r) ==
  [profile |-> p, enterprise |-> e, hybrid |-> h, queries |-> n, reranker |-> r]

Field == Profile("lookup", {"price"}, 0, {})
Summary == Profile("summary", {}, 2, {})
Skills == Profile("list", {"skills"}, 0, {"latest"})
Comparison == Profile("comparison", {}, 0, {})

SomeJobs ==
  {Job(p, FALSE, FALSE, 2, "disabled") : p \in {Field, Summary, Profile("definition", {}, 0, {})}}
  \cup {Job(Field, FALSE, TRUE, 1, "disabled"), Job(Skills, FALSE, TRUE, 1, "disabled"),
        Job(Skills, TRUE, FALSE, 1, "stub"), Job(Profile("open", {}, 0, {}), FALSE, TRUE, 0, "disabled"),
        Job(Profile("open", {}, 0, {}), TRUE, FALSE, 1, "disabled"),
        Job(Comparison, TRUE, TRUE, 1, "gemini"), Job(Field, TRUE, FALSE, 1, "gemini")}

=============================================================================

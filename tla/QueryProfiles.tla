--------------------------- MODULE QueryProfiles ---------------------------
(***************************************************************************)
(* What core/query_analysis.py makes of the text of one query: its kind,   *)
(* the questions asked about the kind, and the answer mode.                *)
(*                                                                         *)
(* A text is a record: the words found in it (terms, attributes, contexts, *)
(* tags), the document it refers to by number (rank, 0 for none), and its  *)
(* marks, the patterns and keyword tests that match it.                    *)
(***************************************************************************)
EXTENDS Naturals, FiniteSets

CONSTANT ListAttributes  \* attributes that ask for a collection

\* An action is therefore a collection, unless it has attributes of its own.
ASSUME ListAttributesAssumption == "responsibilities" \in ListAttributes

Kinds == {"summary", "definition", "count", "comparison", "lookup", "action", "entity",
          "boolean", "list", "open"}
Marks == {
  "summary",                                  \* _is_summary_query
  "define", "what is", "what is the", "owned",  \* _is_concept_definition_query
  "count", "yes or no", "list", "did",        \* the patterns of the kinds
  "compares", "compares two",                 \* comparison markers, the stronger of them
  "career", "when", "acts", "acts there", "works",      \* a date, actions, an action somewhere, hints
  "what happened", "incident", "computes", "recommends",
  "each how many", "each which", "paired",    \* final_answer_mode, needs_multi_chunk...
  "follows", "refers", "back", "on",          \* _is_follow_up_like_query, previous, next
  "compound", "no words"}                     \* an "and" or a comma; only punctuation

AnswerModes == {"exact_lookup", "event_lookup", "arithmetic_qa", "list_or_recommendation",
                "summary", "boolean_like", "open"}

Collects(attributes) == attributes \cap ListAttributes # {}

-----------------------------------------------------------------------------
\* The tests stop at the first that decides: a cue of a field or a collection keeps
\* "what is ..." from being a question about a concept.
IsConceptDefinition(t) ==
  \/ "define" \in t.marks
  \/ /\ t.tags = {}
     /\ ~Collects(t.attributes)
     /\ t.attributes # {} => "what is the" \notin t.marks
     /\ "owned" \notin t.marks
     /\ "what is" \in t.marks

ClassifyQueryKind(t) ==
  LET yesNo == "yes or no" \in t.marks IN
  IF "summary" \in t.marks THEN "summary"
  ELSE IF IsConceptDefinition(t) THEN "definition"
  ELSE IF "count" \in t.marks THEN "count"
  ELSE IF "compares two" \in t.marks THEN "comparison"
  ELSE IF "when" \in t.marks THEN "lookup"
  ELSE IF yesNo /\ "compares" \in t.marks THEN "comparison"
  ELSE IF (yesNo /\ "acts there" \in t.marks) \/ "did" \in t.marks THEN "action"
  ELSE IF yesNo /\ t.contexts # {} /\ "works" \in t.marks THEN "entity"
  ELSE IF yesNo THEN "boolean"
  ELSE IF Collects(t.attributes) THEN "list"
  ELSE IF t.attributes # {} \/ ("list" \in t.marks /\ t.tags # {}) THEN "lookup"
  ELSE IF "list" \notin t.marks /\ t.contexts # {} /\ "acts" \in t.marks THEN "action"
  ELSE "open"

\* A query without attributes gets one for an action, and for a comparison of careers.
Supplied(kind, t) ==
  IF t.attributes # {} THEN {}
  ELSE IF kind = "action" THEN {"responsibilities"}
  ELSE IF kind = "comparison" /\ "career" \in t.marks THEN {"experience"}
  ELSE {}

BuildQueryProfile(t) ==
  LET kind == ClassifyQueryKind(t) IN
  [kind |-> kind,
   attributes |-> t.attributes \cup Supplied(kind, t),
   contexts |-> t.contexts, tags |-> t.tags, terms |-> t.terms,
   rank |-> t.rank, marks |-> t.marks]

-----------------------------------------------------------------------------
IsDefinition(p) == p.kind = "definition"
IsBoolean(p) == p.kind \in {"boolean", "comparison", "entity"}
IsAction(p) == p.kind = "action"
IsComparison(p) == p.kind = "comparison"
IsEntity(p) == p.kind = "entity"
IsCount(p) == p.kind = "count"
IsSummary(p) == p.kind = "summary"
IsCollection(p) == p.kind = "list" \/ Collects(p.attributes)
IsField(p) == p.kind \in {"lookup", "list"} /\ (p.attributes # {} \/ p.tags # {})
IsExactQa(p) == IsCount(p) \/ (IsField(p) /\ ~IsCollection(p))
IsEvent(p) ==
  \/ "what happened" \in p.marks
  \/ "incident" \in p.marks /\ p.contexts # {}
IsRecommendation(p) == "recommends" \in p.marks
IsArithmetic(p) == "computes" \in p.marks
NeedsMultiChunk(p) == "paired" \in p.marks

\* A recommendation or a count for each of several things goes before an exact lookup,
\* a collection after it.
FinalAnswerMode(p) ==
  IF IsSummary(p) THEN "summary"
  ELSE IF IsArithmetic(p) THEN "arithmetic_qa"
  ELSE IF IsEvent(p) THEN "event_lookup"
  ELSE IF IsRecommendation(p) \/ "each how many" \in p.marks THEN "list_or_recommendation"
  ELSE IF IsExactQa(p) THEN "exact_lookup"
  ELSE IF IsCollection(p) \/ "each which" \in p.marks THEN "list_or_recommendation"
  ELSE IF IsBoolean(p) THEN "boolean_like"
  ELSE "open"
=============================================================================

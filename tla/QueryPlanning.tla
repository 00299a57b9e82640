---------------------------- MODULE QueryPlanning ----------------------------
(***************************************************************************)
(* The turns of one conversation, as core/query_analysis.py plans them:    *)
(* the context made of the last queries and replies, the text a follow-up  *)
(* is resolved to, and the rewrites to search for, with the further ones   *)
(* of the Enterprise tier.                                                 *)
(*                                                                         *)
(* A rewrite is a sequence of words.  A text counts as one word of its     *)
(* own, so that no rewrite equals it.                                      *)
(***************************************************************************)
EXTENDS QueryProfiles, Orderings

CONSTANTS
  Vocabulary,  \* the words, in the order of sorted()
  Texts,       \* what a user may ask: a text, and its name
  Remarks,     \* what a reply holds for later turns: its salient phrases
  Generic,     \* words too general to be carried to a later turn
  Several,     \* phrases of several words
  Named,       \* the document a word names by number, if it does
  Bare,        \* words that name it only with the next word,
  Things,      \* which is one of these
  QueryWindow, \* the last queries a context is made of, 4 in the code
  ReplyWindow, \* the last replies, 2 in the code
  MaxTurns     \* bound: turns of the conversation

Ordinals == <<"first document", "second document", "third document">>
Scope == <<"dataset", "summary", "overview">>

ASSUME VocabularyAssumption ==
  /\ Vocabulary \in Seq(STRING) /\ IsInjective(Vocabulary)
  /\ {"responsibilities", "experience"} \subseteq ToSet(Vocabulary)
ASSUME TextsAssumption ==
  Texts \subseteq [name : STRING, terms : SUBSET ToSet(Vocabulary),
                   attributes : SUBSET ToSet(Vocabulary), contexts : SUBSET ToSet(Vocabulary),
                   tags : SUBSET ToSet(Vocabulary), rank : 0 .. 3, marks : SUBSET Marks]
ASSUME RemarksAssumption ==
  Remarks \subseteq Seq(ToSet(Vocabulary)) /\ Several \subseteq ToSet(Vocabulary)
ASSUME NamedAssumption ==
  /\ Named \in [DOMAIN Named -> 1 .. 3]
  /\ \A r \in DOMAIN Ordinals : Ordinals[r] \in DOMAIN Named \ Bare /\ Named[Ordinals[r]] = r
  /\ ToSet(Scope) \cap DOMAIN Named = {}
ASSUME WindowsAssumption == QueryWindow \in Nat \ {0} /\ ReplyWindow \in Nat

VARIABLES
  queries,  \* the user's texts
  replies,  \* what each reply holds
  turn,     \* the last turn: its text, the words added to it, the replies before it
  plan,     \* its plan: profile and retrieval queries
  refined   \* the plan refined for the Enterprise tier

turns == <<queries, replies, turn, plan, refined>>

Sorted(S) == Among(Vocabulary, S)
Take(s, n) == SubSeq(s, 1, IF n < Len(s) THEN n ELSE Len(s))
Recent(s, n) == SubSeq(s, IF n < Len(s) THEN Len(s) - n + 1 ELSE 1, Len(s))
Distinct(s) == Picked(s, {i \in DOMAIN s : \A j \in 1 .. (i - 1) : s[j] # s[i]})
Rewrites(s) == Distinct(Among(s, ToSet(s) \ {<<>>}))
When(condition, s) == IF condition THEN s ELSE <<>>

-----------------------------------------------------------------------------
\* The context of a conversation.

\* What a query leaves for later ones, in build_conversation_context newest first.
Salient(p) == Sorted(p.attributes) \o Sorted(p.contexts) \o Sorted(p.terms \ Generic)

NoContext == [attributes |-> <<>>, contexts |-> <<>>, tags |-> <<>>, focus |-> <<>>,
              kind |-> "none", rank |-> 0]

ContextOf(asked, told) ==
  LET texts == Reverse(asked)
      profiles == [i \in DOMAIN texts |-> BuildQueryProfile(texts[i])]
      phrases == Flat(Reverse(told))
  IN [attributes |-> Distinct(Flat([i \in DOMAIN profiles |-> Sorted(profiles[i].attributes)])),
      contexts |-> Distinct(Flat([i \in DOMAIN profiles |-> Sorted(profiles[i].contexts)])
                            \o Among(phrases, Several)),
      tags |-> Distinct(Flat([i \in DOMAIN profiles |-> Sorted(profiles[i].tags)])),
      focus |-> Distinct(Flat([i \in DOMAIN profiles |-> Salient(profiles[i])]) \o phrases),
      kind |-> IF profiles = <<>> THEN "none" ELSE profiles[1].kind,
      rank |-> IF profiles = <<>> THEN 0 ELSE profiles[1].rank]

\* Variant for testing ContextIsRecent: of the queries all are kept.
ContextOfAll(asked, told) == ContextOf(asked, Recent(told, ReplyWindow))

BuildConversationContext(asked, told) == ContextOf(Recent(asked, QueryWindow), Recent(told, ReplyWindow))

IsFollowUpLike(p) ==
  /\ "no words" \notin p.marks
  /\ \/ {"follows", "refers"} \cap p.marks # {}
     \/ p.rank # 0
     \/ Cardinality(p.terms) <= 2 /\ p.attributes = {} /\ p.contexts = {}

\* The document a relative or a bare reference means, given the last query's.
ReferredRank(p, rank) ==
  IF rank = 0 THEN 0
  ELSE IF "back" \in p.marks THEN IF rank > 1 THEN rank - 1 ELSE 1
  ELSE IF "on" \in p.marks THEN IF rank < 3 THEN rank + 1 ELSE 3
  ELSE IF p.rank = 0 /\ "refers" \in p.marks THEN rank
  ELSE 0

\* The words added to a follow-up.
Added(p, c) ==
  LET rank == ReferredRank(p, c.rank) IN
  Distinct(
    When(rank # 0, SubSeq(Ordinals, rank, rank))
    \o When(p.attributes = {}, Take(c.attributes, 2))
    \o When(p.contexts = {}, Take(c.contexts, 2))
    \o When(p.tags = {}, Take(c.tags, 2))
    \o When(p.rank # 0 /\ c.kind = "summary", Scope)
    \o When(p.contexts = {} /\ p.kind \in {"action", "comparison", "entity", "open"},
            Take(c.focus, 4)))

\* Variant for testing OwnRankWins: every query is taken for a follow-up.
FragmentsOfAny(p, c) == Added(p, c)

\* _resolve_follow_up_context.
Fragments(p, c) == IF IsFollowUpLike(p) THEN Added(p, c) ELSE <<>>

\* The first of the words added that names a document.
RankRead(fragments) ==
  LET naming == {i \in DOMAIN fragments :
                   /\ fragments[i] \in DOMAIN Named
                   /\ fragments[i] \in Bare => i < Len(fragments) /\ fragments[i + 1] \in Things}
  IN IF naming = {} THEN 0 ELSE Named[fragments[Min(naming)]]

\* The resolved text is read like any other, but its start is the same.  Which of the
\* words added its patterns take for attributes or contexts, and which of the tests that
\* look anywhere in a text now match, is left open.
Tags == UNION {t.tags : t \in Texts}
Taken(words) == {{}, words}
Matching(words) ==
  IF "dataset" \in words
  THEN {{"summary"}}
  ELSE {{}, {"summary"}, {"compares", "compares two"}}

ReadAs(t, fragments, words, attributes, contexts, marks) ==
  [t EXCEPT !.terms = @ \cup words,
            !.attributes = @ \cup attributes \cup (words \cap Tags),
            !.contexts = @ \cup contexts,
            !.tags = @ \cup (words \cap Tags),
            !.rank = IF @ # 0 THEN @ ELSE RankRead(fragments),
            !.marks = @ \cup marks]
Readings(t, fragments) ==
  LET words == ToSet(fragments) \cap ToSet(Vocabulary)
  IN {ReadAs(t, fragments, words, a, c, m) :
        a \in Taken(words), c \in Taken(words), m \in Matching(ToSet(fragments))}

-----------------------------------------------------------------------------
\* The rewrites of a query.

Of(subjects, core) == IF subjects # <<>> THEN subjects ELSE Take(core, 3)

\* build_retrieval_query_text, without the forms of the words and the synonyms.
Expanded(p, base) ==
  base \o Sorted(p.attributes) \o Sorted(p.contexts)
       \o When(IsSummary(p), <<"overview", "summary", "abstract", "title">>)
       \o When(IsDefinition(p), <<"definition", "means", "refers to">>)
       \o When(IsCollection(p), <<"list", "items", "categories">>)
       \o When(IsCount(p), <<"count", "number", "total">>)
       \o When(IsAction(p), <<"responsibilities", "contributions", "tasks">>)
       \o When(IsComparison(p), <<"compare", "other", "another">>)
       \o When(IsEntity(p), <<"mention", "project", "support", "work">>)

\* An attribute or a tag with the other words of the query.
AttributeRewrites(p) ==
  LET few == Take(Sorted(p.attributes), 2)
      others == Sorted(p.contexts) \o Sorted(p.terms)
  IN [i \in DOMAIN few |-> <<few[i]>> \o Take(Among(others, ToSet(others) \ {few[i]}), 5)]
TagRewrites(p) ==
  LET few == Take(Sorted(p.tags), 2)
  IN [i \in DOMAIN few |-> <<few[i], "synonyms">> \o Take(Sorted(p.terms), 3)]

\* Each of some attributes between what comes before and after it.
About(few, before, after) == [i \in DOMAIN few |-> before \o <<few[i]>> \o after]

\* _build_retrieval_query_variants: of an exact question only the first two.
Variants(p, base) ==
  LET core == Sorted(p.terms)
      context == Sorted(p.contexts)
      attributes == Sorted(p.attributes)
      subjects == Of(attributes, core)
  IN IF IsExactQa(p)
     THEN Rewrites(Take(<<base>> \o AttributeRewrites(p) \o TagRewrites(p), 2))
     ELSE Rewrites(
       <<base, Expanded(p, base)>> \o AttributeRewrites(p) \o TagRewrites(p)
       \o When(IsDefinition(p) /\ subjects # <<>>, <<subjects \o <<"definition", "meaning">>>>)
       \o When(IsSummary(p), <<<<"dataset", "document", "overview", "summary", "abstract", "title">>>>)
       \o When(IsCollection(p) /\ subjects # <<>>, <<subjects \o <<"list", "items">>>>)
       \o When(IsAction(p),
               <<Take(context, 3)
                 \o Take(IF attributes # <<>> THEN attributes ELSE <<"responsibilities">>, 2)
                 \o <<"responsibilities", "contributions", "tasks">>>>)
       \o When(IsEntity(p), <<Take(context, 3) \o Take(core, 3) \o <<"work", "project", "mention">>>>)
       \o When(IsComparison(p),
               <<Take(context, 3) \o Take(subjects, 2) \o <<"compare", "other", "another">>>>)
       \o When(IsBoolean(p), <<attributes \o context>>))

\* _build_enterprise_decomposition_queries.
Decomposed(p) ==
  LET context == Sorted(p.contexts)
      attributes == Sorted(p.attributes)
  IN Rewrites(
       When(p.kind = "lookup" /\ {"start", "end"} \subseteq p.terms,
            <<Take(context, 2) \o <<"start", "date">>, Take(context, 2) \o <<"end", "date">>>>)
       \o When(Len(attributes) >= 2 /\ p.kind \in {"lookup", "list", "open"},
               About(Take(attributes, 3), <<>>, Take(context, 2)))
       \o When(p.kind = "action" /\ "compound" \in p.marks,
               <<Take(context, 3) \o <<"responsibilities">>, Take(context, 3) \o <<"tasks">>>>))

\* The rewrites the Enterprise tier adds.
Additions(p, inContext) ==
  LET core == Sorted(p.terms)
      context == Sorted(p.contexts)
      attributes == Sorted(p.attributes)
      focus == IF attributes # <<>> THEN Take(attributes, 2) ELSE Take(core, 2)
  IN When(IsComparison(p),
          About(Take(attributes, 2), Take(context, 2), <<"compare", "difference">>)
          \o When(context # <<>> \/ attributes # <<>>,
                  <<Take(context, 3) \o focus \o <<"versus">>>>))
     \o When(IsAction(p),
             <<Take(context, 3)
               \o (IF attributes # <<>> THEN Take(attributes, 2) ELSE <<"responsibilities">>)
               \o <<"responsibilities", "contributions", "deliverables">>>>)
     \o When(IsEntity(p), <<Take(context, 3) \o Take(core, 3) \o <<"mention", "evidence">>>>)
     \o When(p.rank # 0,
             <<<<Ordinals[p.rank]>> \o Take(attributes, 2) \o Take(context, 2) \o <<"summary">>>>)
     \o When(Len(attributes) >= 2 /\ p.kind \in {"lookup", "list", "comparison"},
             About(Take(attributes, 2), <<>>, Take(context, 2) \o <<"details">>))
     \o When(inContext /\ (context # <<>> \/ core # <<>>),
             <<(IF context # <<>> THEN Take(context, 3) ELSE Take(core, 3))
               \o focus \o <<"follow up">>>>)

EnterpriseLimit == 6

\* Variant for testing RewritesAreOrdered: the added rewrites come first.
EnterpriseFirst(p, variants, inContext) ==
  Take(Rewrites(Additions(p, inContext) \o Decomposed(p) \o variants), EnterpriseLimit)

\* _build_enterprise_retrieval_query_variants.
EnterpriseVariants(p, variants, inContext) ==
  Take(Rewrites(variants \o Additions(p, inContext) \o Decomposed(p)), EnterpriseLimit)

-----------------------------------------------------------------------------
NoTurn == [text |-> "none"]
NoPlan == [queries |-> <<>>]

Begin ==
  /\ queries = <<>> /\ replies = <<>>
  /\ turn = NoTurn
  /\ plan = NoPlan /\ refined = NoPlan

\* A turn: the context is of the messages before it (_resolve_conversation_context), the
\* plan is build_query_plan's, and refine_query_plan_for_execution_tier refines it when
\* the tier is Enterprise.  The reply may say nothing that is carried on, or fail.
Turn ==
  /\ Len(queries) < MaxTurns
  /\ \E t \in Texts :
       LET context == IF queries = <<>> THEN NoContext
                      ELSE BuildConversationContext(queries, replies)
           fragments == Fragments(BuildQueryProfile(t), context)
           base == When("no words" \notin t.marks, <<t.name>>)
                   \o When(fragments # <<>>, <<"context">> \o fragments)
       IN \E read \in IF fragments = <<>> THEN {t} ELSE Readings(t, fragments) :
            LET p == BuildQueryProfile(read)
                variants == Variants(p, base)
            IN /\ turn' = [text |-> t, added |-> fragments, told |-> Recent(replies, ReplyWindow)]
               /\ plan' = [profile |-> p, queries |-> variants]
               /\ refined' = [profile |-> p,
                              queries |-> EnterpriseVariants(p, variants, fragments # <<>>)]
       /\ queries' = Append(queries, t)
  /\ replies' \in {replies} \cup {Append(replies, told) : told \in Remarks}

Conversation == Begin /\ [][Turn]_turns

-----------------------------------------------------------------------------
Planned == turn # NoTurn
Earlier(s) == SubSeq(s, 1, Len(s) - 1)

\* The words of the last queries before this one, and of the last replies.
Said ==
  LET asked == Recent(Earlier(queries), QueryWindow)
  IN UNION {LET p == BuildQueryProfile(asked[i])
            IN p.attributes \cup p.contexts \cup p.tags \cup p.terms : i \in DOMAIN asked}
Told == UNION {ToSet(turn.told[i]) : i \in DOMAIN turn.told}

\* A query that names a document means that one, whatever the conversation was about; one
\* that only refers to a document means that of the last query, if it named one.  Any
\* other document a plan means was named in the windows, or is next to that of the last
\* query; and a query that stands on its own is planned as if nothing had been said.
OwnRankWins ==
  Planned =>
    LET own == turn.text.rank
        last == IF Len(queries) > 1 THEN queries[Len(queries) - 1].rank ELSE 0
        rank == plan.profile.rank
        p == BuildQueryProfile(turn.text)
    IN /\ own # 0 => rank = own
       /\ own = 0 /\ last # 0 /\ p.marks \cap {"refers", "back", "on", "no words"} = {"refers"} =>
            rank = last
       /\ own = 0 /\ rank # 0 =>
            \/ last # 0 /\ rank \in {last - 1, last, last + 1}
            \/ \E w \in Said \cup Told : w \in DOMAIN Named /\ Named[w] = rank
       /\ ~IsFollowUpLike(p) =>
            plan = [profile |-> p,
                    queries |-> Variants(p, When("no words" \notin p.marks, <<turn.text.name>>))]

\* Whatever is added to a follow-up was said in the last four queries or the last two
\* replies (the windows), apart from the fixed words: nothing older comes back.
ContextIsRecent ==
  Planned => ToSet(turn.added) \subseteq Said \cup Told \cup ToSet(Ordinals) \cup ToSet(Scope)

\* In either tier the query itself is searched for first and no rewrite twice, an exact
\* question has at most one rewrite, the Enterprise tier searches for no more than six,
\* and up to that number for all that the others search for, before its own.
RewritesAreOrdered ==
  Planned =>
    /\ "no words" \notin turn.text.marks =>
         plan.queries # <<>> /\ plan.queries[1][1] = turn.text.name
    /\ IsInjective(plan.queries) /\ IsInjective(refined.queries)
    /\ IsExactQa(plan.profile) => Len(plan.queries) <= 2
    /\ Len(refined.queries) <= EnterpriseLimit
    /\ IsPrefix(Take(plan.queries, EnterpriseLimit), refined.queries)

=============================================================================

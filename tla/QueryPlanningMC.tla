--------------------------- MODULE QueryPlanningMC ---------------------------
(***************************************************************************)
(* An instance of QueryPlanning for TLC: a text for each kind of follow-up *)
(* and of rewrite.                                                         *)
(***************************************************************************)
EXTENDS QueryPlanning, TLC

Words == <<"acme", "date", "dataset", "document", "document plan", "end", "experience", "name",
           "next document", "overview", "pattern miner", "price", "responsibilities", "second",
           "second document", "start", "summary", "the third document">>
Names == ("first document" :> 1) @@ ("second document" :> 2) @@ ("third document" :> 3)
         @@ ("second" :> 2) @@ ("the third document" :> 3)
Seconds == {"second"}
Documents == {"document", "document plan"}
ListAttrs == {"responsibilities"}
Common == {"dataset", "document", "summary", "overview"}
Phrases == {"pattern miner", "the third document"}

Text(name, terms, attributes, contexts, tags, rank, marks) ==
  [name |-> name, terms |-> terms, attributes |-> attributes, contexts |-> contexts,
   tags |-> tags, rank |-> rank, marks |-> marks]

SecondDocument == Text("what is the second document about", {"document", "second"}, {"second"},
                       {}, {}, 2, {"summary", "what is the", "refers"})
NextDocument == Text("what about the next document", {"document"}, {}, {"next document"}, {}, 0,
                     {"summary", "follows", "on"})
Versus == Text("what is the name and start date at acme versus other",
               {"acme", "date", "name", "start"}, {"name", "date"}, {"acme"}, {"name", "date"}, 0,
               {"compares", "compares two", "compound", "what is the"})
Dates == Text("what is the start date and the end date", {"date", "end", "start"}, {"date"}, {},
              {"date"}, 0, {"what is the", "compound", "paired"})
Doing == Text("and what did she do there, and when", {}, {}, {}, {}, 0,
              {"follows", "refers", "did", "compound"})

Nothing == Text("", {}, {}, {}, {}, 0, {"no words"})

SomeTexts == {SecondDocument, NextDocument, Versus, Dates, Doing, Nothing}
SomeRemarks == {<<"the third document", "price", "pattern miner">>}
=============================================================================

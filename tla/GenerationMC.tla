---------------------------- MODULE GenerationMC ----------------------------
(***************************************************************************)
(* An instance of Generation for TLC.                                      *)
(***************************************************************************)
EXTENDS Generation

CONSTANTS c1, c2, c3, c4, stray

FourItems == {c1, c2, c3, c4}
TwoItems == {c1, c2}
OneStray == {stray}

\* A profile of each renderer and support limit; "skills" asks for a collection.
Profile(kind, attributes, marks) ==
  [kind |-> kind, attributes |-> attributes, contexts |-> {}, tags |-> {}, terms |-> {},
   rank |-> 0, marks |-> marks]
ListAttrs == {"skills", "responsibilities"}
SomeProfiles ==
  {Profile(k, {}, {}) : k \in {"summary", "definition", "count", "comparison", "boolean", "open"}}
  \cup {Profile("lookup", {"price"}, m) : m \in {{}, {"paired"}, {"computes"}, {"what happened"}}}
  \cup {Profile("list", {"skills"}, {}), Profile("entity", {}, {}), Profile("action", {"price"}, {}),
        Profile("definition", {"skills"}, {})}
SomeReplyModes == {"exact_lookup", "summary", "boolean_like"}
=============================================================================

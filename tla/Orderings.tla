----------------------------- MODULE Orderings -----------------------------
(***************************************************************************)
(* The elements of a finite set in an order, and the elements of a         *)
(* sequence at some of its places.  They are what SetToSortSeq and         *)
(* SelectSeq return, defined by counting, so that they can be reasoned     *)
(* about without induction.                                                *)
(***************************************************************************)
EXTENDS FiniteSetsExt, SequencesExt

\* before: the pairs <<a, b>> with a before b.
Place(S, before, x) == Cardinality({y \in S : y = x \/ <<y, x>> \in before})

Sort(S, before) ==
  LET place == [x \in S |-> Place(S, before, x)]
  IN [i \in 1 .. Cardinality(S) |-> CHOOSE x \in S : place[x] = i]

Ascending(S) == Sort(S, {p \in S \X S : p[1] < p[2]})

\* The elements of s at the places at, in the order of s.
Picked(s, at) ==
  LET order == Ascending(at) IN [i \in 1 .. Cardinality(at) |-> s[order[i]]]

\* The elements of s that are in S.
Among(s, S) == Picked(s, {i \in DOMAIN s : s[i] \in S})

\* The sequences of a sequence, joined.
Flat(ss) ==
  LET places == UNION {{i} \X DOMAIN ss[i] : i \in DOMAIN ss}
      order == Sort(places, {p \in places \X places :
                               \/ p[1][1] < p[2][1]
                               \/ p[1][1] = p[2][1] /\ p[1][2] < p[2][2]})
  IN [k \in DOMAIN order |-> ss[order[k][1]][order[k][2]]]

\* Where an element stands in a sequence that has it once.
PlaceOf(s, x) == CHOOSE i \in DOMAIN s : s[i] = x
=============================================================================

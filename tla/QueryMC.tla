------------------------------- MODULE QueryMC ------------------------------
(***************************************************************************)
(* Instances of QueryExecution for TLC.                                    *)
(***************************************************************************)
EXTENDS QueryRefinement, FiniteSets

\* Below 0.25, below 0.45, below 0.5, below 0.75 and above.
ScoreGrid == {20, 40, 47, 60, 90}

\* The claims of an answer, with the support the verifier measures: at least
\* 0.85, at least 0.5, less; a contradicted claim may be well supported.
Claims ==
  {[is |-> "supported", support |-> 90], [is |-> "partial", support |-> 60],
   [is |-> "unsupported", support |-> 20], [is |-> "contradicted", support |-> 80]}

AssessmentOf(claims, retry) ==
  LET Has(kind) == \E c \in claims : c.is = kind
      total == LET S == {c.support : c \in claims} IN
               CHOOSE n \in 0 .. 200 : \E x, y \in S : n = x + y /\ (x # y \/ Cardinality(S) = 1)
  IN [contradicted |-> Has("contradicted"), unsupported |-> Has("unsupported"),
      partial |-> Has("partial"), quality |-> total \div 2, retry |-> retry]

\* An answer with a claim of one kind, and one that mixes an unsupported with
\* a well supported claim.
ClaimSets == {{c} : c \in Claims} \cup {{c \in Claims : c.is \in {"supported", "unsupported"}}}
SomeAssessments ==
  {a \in {AssessmentOf(S, retry) : S \in ClaimSets, retry \in BOOLEAN} :
     a.retry => a.unsupported \/ a.partial}

\* What the two callers send: /query no mode, a chat turn no tier.  Route
\* reasons and automatic routing are looked at only when neither is sent.
AllInputs ==
  {in \in Input :
     /\ in.tier = "unset" \/ in.mode = "unset"
     /\ in.smalltalk => ~in.hard
     /\ ~AutoRouted(in) => ~in.hard /\ in.autoRouting}
=============================================================================

-------------------------- MODULE GenerationProofs --------------------------
(***************************************************************************)
(* Proofs about Generation, for any package, any profile and any number of *)
(* retries.                                                                *)
(***************************************************************************)
EXTENDS Generation, TLAPS

USE ItemsAssumption, ModesAssumption, BoundsAssumption

\* A ranking is a sequence of the package's items without repetition.
LEMMA RankingIsSeq ==
  ASSUME NEW S, NEW r \in Rankings(S)
  PROVE  r \in Seq(S) /\ Distinct(r) /\ Named(r) \subseteq S
<1>1. PICK k \in 0 .. Cardinality(S) : r \in [1 .. k -> S]
  BY DEF Rankings, Lists
<1>2. k \in Nat
  BY <1>1
<1>3. r \in Seq(S) /\ Len(r) = k
  BY <1>1, <1>2
<1> QED
  BY <1>1, <1>2, <1>3 DEF Rankings, Named

\* The limits of the support.
LEMMA LimitIsPositive == Limit \in {1, 3, 4, 5, 8}
  BY DEF Limit, SupportLimit

\* What the checks of a provider's draft let through is grounded, whatever was drafted.
LEMMA AcceptedIsGrounded ==
  ASSUME NEW d \in Drafts, Accepted(d), job.backend # "local"
  PROVE  LET a == Returned(d) IN
         /\ IF a.text \in {"refusal", "echo"}
            THEN a.cites = <<>> /\ DOMAIN a.snippets = {}
            ELSE /\ a.text = "answer"
                 /\ a.cites # <<>>
                 /\ Distinct(a.cites)
                 /\ Named(a.cites) \subseteq job.items
                 /\ DOMAIN a.snippets = Named(a.cites)
                 /\ \A c \in DOMAIN a.snippets : a.snippets[c] # "foreign"
         /\ Mode = "exact_lookup" =>
              Len(a.cites) <= IF NeedsMultiChunk(job.profile) THEN 2 ELSE 1
<1>1. Acceptable(Returned(d))
  BY DEF Accepted
<1>2. Returned(d).text \in Texts
  <2>1. PICK t \in Texts, r \in BOOLEAN, m \in ReplyModes, c \in Citings, f \in BOOLEAN :
          d = [text |-> t, refuses |-> r, mode |-> m, cites |-> c.cites,
               snippets |-> c.snippets, fits |-> f]
    BY DEF Drafts
  <2> QED
    BY <2>1 DEF Returned, Repaired
<1>3. CASE Returned(d).text \in {"refusal", "echo"}
  <2>1. Returned(d).cites = <<>> /\ DOMAIN Returned(d).snippets = {}
    BY <1>1, <1>3 DEF Acceptable
  <2>2. Len(Returned(d).cites) = 0
    BY <2>1
  <2> QED
    BY <1>3, <2>1, <2>2
<1>4. CASE Returned(d).text = "answer"
  <2>1. CitesEvidence(Returned(d)) /\ FitsMode(Returned(d))
    BY <1>1, <1>4 DEF Acceptable
  <2> QED
    BY <1>4, <2>1 DEF CitesEvidence, FitsMode
<1> QED
  BY <1>2, <1>3, <1>4 DEF Texts

-----------------------------------------------------------------------------
LEMMA InitIInv == Init => IInv
<1> SUFFICES ASSUME Init PROVE IInv
  OBVIOUS
<1>1. TypeOK
  BY DEF Init, TypeOK, NoScan, Jobs
<1>2. Progress /\ ScanOK /\ AnswerIsGrounded /\ CitesWithinLimit /\ TriesAreSpent
  BY DEF Init, Progress, ScanOK, AnswerIsGrounded, CitesWithinLimit, TriesAreSpent, Tries
<1> QED
  BY <1>1, <1>2 DEF IInv

\* A try that fails counts, and the second ends the call.
LEMMA TryFailsIInv ==
  ASSUME IInv, phase = "calling",
         NEW why \in {"unavailable", "refused", "malformed", "rejected"},
         why = "unavailable" => retry = MaxRetries,
         TryFails(why)
  PROVE  IInv'
<1> DEFINE entry == [calls |-> retry + 1, why |-> why]
<1>1. job.backend # "local" /\ retry \in 0 .. MaxRetries /\ retry \in Nat /\ MaxRetries \in Nat
  BY DEF IInv, TypeOK
<1>2. entry \in [calls : Nat, why : {"unavailable", "refused", "malformed", "rejected"}]
  BY <1>1
<1>3. /\ tried \in Seq([calls : Nat, why : {"unavailable", "refused", "malformed", "rejected"}])
      /\ Len(tried) < Tries /\ Len(tried) \in Nat
  BY DEF IInv, TypeOK, Progress
<1>4. /\ tried' = Append(tried, entry)
      /\ Len(tried') = Len(tried) + 1
      /\ \A i \in DOMAIN tried' : tried'[i] = entry \/ (i \in DOMAIN tried /\ tried'[i] = tried[i])
      /\ tried' \in Seq([calls : Nat, why : {"unavailable", "refused", "malformed", "rejected"}])
  BY <1>2, <1>3 DEF TryFails
<1>5. phase' \in {"failed", "calling"} /\ (phase' = "failed" <=> Len(tried) + 1 = Tries)
  BY DEF TryFails
<1>6. TypeOK'
  <2>1. job' = job /\ retry' = 0 /\ scan' = scan /\ phase' \in {"calling", "failed"}
    BY <1>5 DEF TryFails
  <2>2. 0 \in 0 .. MaxRetries
    BY <1>1
  <2> QED
    BY <1>1, <1>4, <2>1, <2>2 DEF IInv, TypeOK, Jobs
<1>7. Progress' /\ ScanOK'
  BY <1>1, <1>3, <1>4, <1>5 DEF Progress, ScanOK, TryFails, Tries
<1>8. AnswerIsGrounded' /\ CitesWithinLimit'
  BY <1>5 DEF AnswerIsGrounded, CitesWithinLimit
<1>9. TriesAreSpent'
  <2>1. \A i \in DOMAIN tried : tried[i].calls <= MaxRetries + 1
                              /\ (tried[i].why = "unavailable" => tried[i].calls = MaxRetries + 1)
    BY DEF IInv, TriesAreSpent
  <2>2. entry.calls <= MaxRetries + 1
        /\ (entry.why = "unavailable" => entry.calls = MaxRetries + 1)
    BY <1>1
  <2>3. \A i \in DOMAIN tried' : tried'[i].calls <= MaxRetries + 1
                               /\ (tried'[i].why = "unavailable" => tried'[i].calls = MaxRetries + 1)
    BY <1>4, <2>1, <2>2
  <2>4. phase' = "failed" => Len(tried') = IF job'.backend = "local" THEN 0 ELSE Tries
    BY <1>1, <1>4, <1>5 DEF TryFails
  <2> QED
    BY <2>3, <2>4 DEF TriesAreSpent
<1> QED
  BY <1>6, <1>7, <1>8, <1>9 DEF IInv

\* A step that changes the phase alone, to one that says nothing about the answer.
LEMMA EscapeIInv == ASSUME IInv, phase = "calling", Escape PROVE IInv'
<1>1. TypeOK' /\ Progress' /\ ScanOK'
  BY DEF IInv, TypeOK, Progress, ScanOK, Escape, Jobs
<1>2. AnswerIsGrounded' /\ CitesWithinLimit' /\ TriesAreSpent'
  BY DEF IInv, AnswerIsGrounded, CitesWithinLimit, TriesAreSpent, Escape
<1> QED
  BY <1>1, <1>2 DEF IInv

LEMMA RetryIInv == ASSUME IInv, Retry PROVE IInv'
<1>1. retry' \in 0 .. MaxRetries
  BY DEF IInv, TypeOK, Retry
<1>2. TypeOK' /\ Progress' /\ ScanOK'
  BY <1>1 DEF IInv, TypeOK, Progress, ScanOK, Retry, Jobs
<1>3. AnswerIsGrounded' /\ CitesWithinLimit' /\ TriesAreSpent'
  BY DEF IInv, AnswerIsGrounded, CitesWithinLimit, TriesAreSpent, Retry
<1> QED
  BY <1>2, <1>3 DEF IInv

LEMMA ReplyAcceptedIInv == ASSUME IInv, ReplyAccepted PROVE IInv'
<1>1. PICK d \in Drafts : Accepted(d) /\ answer' = Returned(d)
  BY DEF ReplyAccepted
<1>2. job.backend # "local" /\ job' = job /\ phase' = "answered"
  BY DEF IInv, TypeOK, ReplyAccepted
<1>3. TypeOK' /\ Progress' /\ ScanOK'
  BY <1>2 DEF IInv, TypeOK, Progress, ScanOK, ReplyAccepted, Jobs
<1>4. AnswerIsGrounded' /\ CitesWithinLimit'
  BY <1>1, <1>2, AcceptedIsGrounded DEF AnswerIsGrounded, CitesWithinLimit, Mode
<1>5. TriesAreSpent'
  BY DEF IInv, TriesAreSpent, ReplyAccepted
<1> QED
  BY <1>3, <1>4, <1>5 DEF IInv

-----------------------------------------------------------------------------
LEMMA LocalFailsIInv ==
  ASSUME IInv, phase \in {"ranking", "rendering"}, LocalFails
  PROVE  IInv'
<1>1. TypeOK' /\ Progress' /\ ScanOK'
  BY DEF IInv, TypeOK, Progress, ScanOK, LocalFails, Jobs
<1>2. Len(tried) = 0
  BY DEF IInv, TypeOK, Progress
<1>3. AnswerIsGrounded' /\ CitesWithinLimit' /\ TriesAreSpent'
  BY <1>2 DEF IInv, TypeOK, AnswerIsGrounded, CitesWithinLimit, TriesAreSpent, LocalFails
<1> QED
  BY <1>1, <1>3 DEF IInv

LEMMA RankIInv == ASSUME IInv, Rank PROVE IInv'
<1>1. PICK r \in Rankings(job.items) :
        IF r = <<>>
        THEN LocalFails
        ELSE /\ scan' = [ranked |-> r, next |-> 2, chosen |-> <<r[1]>>]
             /\ phase' = "choosing"
             /\ UNCHANGED <<job, retry, tried, answer>>
  BY DEF Rank
<1>2. CASE r = <<>>
  BY <1>1, <1>2, LocalFailsIInv DEF Rank
<1>3. CASE r # <<>>
  <2>1. /\ scan' = [ranked |-> r, next |-> 2, chosen |-> <<r[1]>>]
        /\ phase' = "choosing"
        /\ UNCHANGED <<job, retry, tried, answer>>
    BY <1>1, <1>3
  <2>2. r \in Seq(job.items) /\ Distinct(r) /\ Named(r) \subseteq job.items
    BY RankingIsSeq
  <2>3. job.items \subseteq Items /\ job.backend = "local"
    BY DEF IInv, TypeOK, Jobs, Rank
  <2>4. r \in Seq(Items) /\ Len(r) \in Nat /\ Len(r) >= 1 /\ r[1] \in Items
    <3>1. Len(r) \in Nat /\ Len(r) # 0
      BY <1>3, <2>2
    <3>2. 1 \in DOMAIN r
      BY <2>2, <3>1
    <3>3. r \in Seq(Items)
      BY <2>2, <2>3
    <3> QED
      BY <3>1, <3>2, <3>3
  <2>5. TypeOK'
    <3>1. <<r[1]>> \in Seq(Items)
      BY <2>4
    <3>2. scan' \in [ranked : Seq(Items), next : Nat, chosen : Seq(Items)]
      BY <2>1, <2>4, <3>1
    <3> QED
      BY <2>1, <2>3, <3>2 DEF IInv, TypeOK, Jobs
  <2>6. Progress'
    BY <2>1 DEF IInv, Progress
  <2>7. ScanOK'
    <3>1. Distinct(scan'.ranked) /\ Named(scan'.ranked) \subseteq job'.items
      BY <2>1, <2>2
    <3>2. scan'.next \in 2 .. Len(scan'.ranked) + 1
      BY <2>1, <2>4
    <3>3. Distinct(scan'.chosen) /\ scan'.chosen # <<>> /\ Len(scan'.chosen) = 1
      BY <2>1 DEF Distinct
    <3>4. Named(scan'.chosen) \subseteq {scan'.ranked[i] : i \in 1 .. scan'.next - 1}
      <4>1. Named(scan'.chosen) = {r[1]}
        BY <2>1 DEF Named
      <4>2. 1 \in 1 .. 2 - 1
        OBVIOUS
      <4> QED
        BY <2>1, <4>1, <4>2
    <3>5. Limit' = Limit /\ Limit >= 1
      BY <2>1, LimitIsPositive DEF Limit
    <3> QED
      BY <3>1, <3>2, <3>3, <3>4, <3>5, LimitIsPositive DEF ScanOK
  <2>8. AnswerIsGrounded' /\ CitesWithinLimit' /\ TriesAreSpent'
    BY <2>1 DEF IInv, AnswerIsGrounded, CitesWithinLimit, TriesAreSpent
  <2> QED
    BY <2>5, <2>6, <2>7, <2>8 DEF IInv
<1> QED
  BY <1>2, <1>3

\* Below the limit, or with one entry, there is room for one more.
LEMMA OneMoreFits ==
  ASSUME NEW n \in Nat, NEW m \in Nat, NEW L \in Nat, L >= 1, m <= n + 1, n < L \/ n = 1
  PROVE  m <= IF L = 1 THEN 2 ELSE L
  OBVIOUS

\* One entry of the ranked support is taken or left.
LEMMA ChooseIInv == ASSUME IInv, Choose PROVE IInv'
<1> DEFINE entry == scan.ranked[scan.next]
<1> DEFINE B == IF Limit = 1 THEN 2 ELSE Limit
<1>1. PICK take \in BOOLEAN :
        LET chosen == IF take THEN Append(scan.chosen, entry) ELSE scan.chosen
        IN /\ scan' = [scan EXCEPT !.next = @ + 1, !.chosen = chosen]
           /\ phase' = IF Len(chosen) >= Limit THEN "rendering" ELSE "choosing"
  BY DEF Choose
<1> DEFINE chosen == IF take THEN Append(scan.chosen, entry) ELSE scan.chosen
<1>2. /\ phase = "choosing" /\ scan.next <= Len(scan.ranked)
      /\ UNCHANGED <<job, retry, tried, answer>>
  BY DEF Choose
<1>3. scan \in [ranked : Seq(Items), next : Nat, chosen : Seq(Items)]
  BY DEF IInv, TypeOK
<1>4. /\ Distinct(scan.ranked) /\ Named(scan.ranked) \subseteq job.items
      /\ scan.next \in 2 .. Len(scan.ranked) + 1
      /\ Distinct(scan.chosen) /\ scan.chosen # <<>>
      /\ Named(scan.chosen) \subseteq {scan.ranked[i] : i \in 1 .. scan.next - 1}
      /\ Len(scan.chosen) <= B
      /\ Len(scan.chosen) < Limit \/ Len(scan.chosen) = 1
  BY <1>2 DEF IInv, ScanOK
<1>5. entry \in Items /\ scan.next \in DOMAIN scan.ranked
  BY <1>2, <1>3, <1>4
<1>6. entry \notin Named(scan.chosen)
  BY <1>3, <1>4, <1>5 DEF Distinct
<1>7. /\ scan'.ranked = scan.ranked /\ scan'.next = scan.next + 1 /\ scan'.chosen = chosen
      /\ scan' \in [ranked : Seq(Items), next : Nat, chosen : Seq(Items)]
  <2>1. chosen \in Seq(Items)
    BY <1>3, <1>5
  <2>2. scan.next + 1 \in Nat
    BY <1>3
  <2> QED
    BY <1>1, <1>3, <2>1, <2>2
<1>8. Distinct(chosen) /\ chosen # <<>>
      /\ Named(chosen) \subseteq {scan.ranked[i] : i \in 1 .. scan.next}
  <2>1. CASE ~take
    <3>1. 1 .. scan.next - 1 \subseteq 1 .. scan.next
      BY <1>3
    <3> QED
      BY <2>1, <3>1, <1>4
  <2>2. CASE take
    <3>1. /\ Len(chosen) = Len(scan.chosen) + 1 /\ Len(scan.chosen) \in Nat
          /\ chosen[Len(scan.chosen) + 1] = entry
          /\ \A i \in 1 .. Len(scan.chosen) : chosen[i] = scan.chosen[i]
          /\ DOMAIN chosen = 1 .. Len(scan.chosen) + 1
          /\ DOMAIN scan.chosen = 1 .. Len(scan.chosen)
      BY <1>3, <1>5, <2>2
    <3>2. Distinct(chosen)
      <4> SUFFICES ASSUME NEW i \in DOMAIN chosen, NEW j \in DOMAIN chosen,
                          chosen[i] = chosen[j]
                   PROVE  i = j
        BY DEF Distinct
      <4>1. CASE i \in DOMAIN scan.chosen /\ j \in DOMAIN scan.chosen
        BY <4>1, <3>1, <1>4 DEF Distinct
      <4>2. CASE i \notin DOMAIN scan.chosen \/ j \notin DOMAIN scan.chosen
        <5>1. \A n \in DOMAIN scan.chosen : scan.chosen[n] # entry
          BY <1>6 DEF Named
        <5>2. \A n \in DOMAIN chosen :
                n \notin DOMAIN scan.chosen => n = Len(scan.chosen) + 1
          BY <3>1
        <5> QED
          BY <4>2, <5>1, <5>2, <3>1
      <4> QED
        BY <4>1, <4>2
    <3>3. chosen # <<>>
      <4>1. Len(scan.chosen) + 1 \in DOMAIN chosen /\ DOMAIN <<>> = {}
        BY <3>1
      <4> QED
        BY <4>1
    <3>4. Named(chosen) \subseteq Named(scan.chosen) \cup {entry}
      <4> SUFFICES ASSUME NEW i \in DOMAIN chosen
                   PROVE  chosen[i] \in Named(scan.chosen) \cup {entry}
        BY DEF Named
      <4>1. i \in DOMAIN scan.chosen \/ i = Len(scan.chosen) + 1
        BY <3>1
      <4> QED
        BY <4>1, <3>1 DEF Named
    <3>5. 1 .. scan.next - 1 \subseteq 1 .. scan.next /\ scan.next \in 1 .. scan.next
      BY <1>3, <1>4
    <3> QED
      BY <3>2, <3>3, <3>4, <3>5, <1>4
  <2> QED
    BY <2>1, <2>2
<1>9. Len(chosen) <= B /\ (Len(chosen) < Limit => phase' = "choosing")
      /\ (phase' = "choosing" => Len(chosen) < Limit)
  <2>0. Len(scan.chosen) \in Nat /\ Limit \in Nat
    BY <1>3, LimitIsPositive
  <2>1. /\ Len(chosen) \in Nat /\ Len(scan.chosen) \in Nat /\ Limit \in Nat
        /\ Len(chosen) <= Len(scan.chosen) + 1
    <3>1. CASE take
      BY <2>0, <3>1, <1>3, <1>5
    <3>2. CASE ~take
      BY <2>0, <3>2
    <3> QED
      BY <3>1, <3>2
  <2>2. Len(scan.chosen) <= B /\ (Len(scan.chosen) < Limit \/ Len(scan.chosen) = 1)
    BY <1>4
  <2>3. Len(chosen) <= B
    <3>1. Limit >= 1
      BY LimitIsPositive
    <3> HIDE DEF chosen
    <3> QED
      BY <2>1, <2>2, <3>1, OneMoreFits
  <2> QED
    BY <2>1, <2>3, <1>1
<1>10. phase' \in {"choosing", "rendering"}
  BY <1>1
<1>11. TypeOK'
  BY <1>2, <1>7, <1>10 DEF IInv, TypeOK, Jobs
<1>12. Progress'
  BY <1>2, <1>10 DEF IInv, Progress
<1>13. ScanOK'
  <2>1. Limit' = Limit
    BY <1>2 DEF Limit
  <2>2. scan'.next \in 2 .. Len(scan'.ranked) + 1 /\ scan'.next - 1 = scan.next
    BY <1>2, <1>3, <1>4, <1>7
  <2>3. Named(scan'.chosen) \subseteq {scan'.ranked[i] : i \in 1 .. scan'.next - 1}
    BY <1>7, <1>8, <2>2
  <2>4. /\ Distinct(scan'.ranked) /\ Named(scan'.ranked) \subseteq job'.items
        /\ Distinct(scan'.chosen) /\ scan'.chosen # <<>>
    BY <1>2, <1>4, <1>7, <1>8
  <2>5. Len(scan'.chosen) <= (IF Limit' = 1 THEN 2 ELSE Limit')
        /\ (phase' = "choosing" => Len(scan'.chosen) < Limit')
    BY <1>7, <1>9, <2>1
  <2> QED
    BY <2>2, <2>3, <2>4, <2>5 DEF ScanOK
<1>14. AnswerIsGrounded' /\ CitesWithinLimit' /\ TriesAreSpent'
  BY <1>2, <1>10 DEF IInv, AnswerIsGrounded, CitesWithinLimit, TriesAreSpent
<1> QED
  BY <1>11, <1>12, <1>13, <1>14 DEF IInv

LEMMA ChoiceEndsIInv == ASSUME IInv, ChoiceEnds PROVE IInv'
<1>1. TypeOK' /\ Progress'
  BY DEF IInv, TypeOK, Progress, ChoiceEnds, Jobs
<1>2. ScanOK'
  BY DEF IInv, ScanOK, ChoiceEnds, Limit
<1>3. AnswerIsGrounded' /\ CitesWithinLimit' /\ TriesAreSpent'
  BY DEF IInv, AnswerIsGrounded, CitesWithinLimit, TriesAreSpent, ChoiceEnds
<1> QED
  BY <1>1, <1>2, <1>3 DEF IInv

\* The support that is rendered, with or without a title, is sound.
LEMMA SupportIsSound ==
  ASSUME IInv, phase = "rendering", NEW cites \in Supports
  PROVE  /\ Distinct(cites) /\ cites # <<>> /\ Named(cites) \subseteq job.items
         /\ cites \in Seq(job.items)
         /\ Len(cites) <= IF Limit = 1 THEN 2 ELSE Limit
<1>1. scan \in [ranked : Seq(Items), next : Nat, chosen : Seq(Items)]
  BY DEF IInv, TypeOK
<1>2. /\ Named(scan.ranked) \subseteq job.items
      /\ scan.next \in 2 .. Len(scan.ranked) + 1
      /\ Distinct(scan.chosen) /\ scan.chosen # <<>>
      /\ Named(scan.chosen) \subseteq {scan.ranked[i] : i \in 1 .. scan.next - 1}
      /\ Len(scan.chosen) <= IF Limit = 1 THEN 2 ELSE Limit
  BY DEF IInv, ScanOK
<1>3. Named(scan.chosen) \subseteq job.items
  <2>1. 1 .. scan.next - 1 \subseteq DOMAIN scan.ranked
    BY <1>1, <1>2
  <2> QED
    BY <1>2, <2>1 DEF Named
<1>4. CASE cites = scan.chosen
  <2>1. cites \in Seq(job.items)
    BY <1>1, <1>3, <1>4 DEF Named
  <2> QED
    BY <1>2, <1>3, <1>4, <2>1
<1>5. CASE cites \in WithTitle(scan.chosen)
  <2> DEFINE room == IF Len(scan.chosen) < Limit THEN Len(scan.chosen) + 1 ELSE Limit
  <2>1. PICK t \in Named(scan.ranked) \ Named(scan.chosen) :
          cites \in {s \in [1 .. room -> Named(scan.chosen) \cup {t}] : Distinct(s)}
    BY <1>5 DEF WithTitle
  <2>2. room \in Nat /\ room >= 1 /\ room <= Limit
    BY <1>1, LimitIsPositive
  <2>3. cites \in [1 .. room -> Named(scan.chosen) \cup {t}] /\ Distinct(cites)
    BY <2>1
  <2>4. Len(cites) = room /\ cites # <<>> /\ Named(cites) \subseteq Named(scan.chosen) \cup {t}
    <3>1. cites \in Seq(Named(scan.chosen) \cup {t}) /\ Len(cites) = room
      BY <2>2, <2>3
    <3>2. Named(cites) \subseteq Named(scan.chosen) \cup {t}
      BY <2>3 DEF Named
    <3> QED
      BY <3>1, <3>2, <2>2
  <2>5. t \in job.items
    BY <2>1, <1>2
  <2>6. Len(cites) <= IF Limit = 1 THEN 2 ELSE Limit
    BY <2>2, <2>4, LimitIsPositive
  <2>7. cites \in [1 .. room -> job.items]
    BY <2>3, <2>5, <1>3
  <2>8. cites \in Seq(job.items)
    BY <2>2, <2>7
  <2> QED
    BY <2>3, <2>4, <2>5, <2>6, <2>8, <1>3
<1> QED
  BY <1>4, <1>5 DEF Supports

\* Whatever the renderers make of a support names some of it.
LEMMA RenderedNamesSupport ==
  ASSUME NEW s, s \in Seq(job.items), s # <<>>, NEW names \in RenderGroundedAnswer(s)
  PROVE  names \subseteq Named(s)
<1>1. 1 \in DOMAIN s /\ \A n \in DOMAIN s : Named(SubSeq(s, 1, n)) \subseteq Named(s)
  <2>1. 1 \in DOMAIN s
    OBVIOUS
  <2> QED
    BY <2>1 DEF Named
<1> QED
  BY <1>1 DEF RenderGroundedAnswer, RenderArithmetic, RenderEventLookup,
     RenderListOrRecommendation, RenderAction, RenderComparison, RenderEntityContext,
     RenderCount, RenderBoolean, RenderDefinition, RenderSummary, RenderCollection,
     RenderExactField, NoneOr, Few, First, Single, Leading, Named

LEMMA RenderIInv == ASSUME IInv, Render PROVE IInv'
<1>1. CASE IsBoolean(job.profile) /\ LocalFails
  BY <1>1, LocalFailsIInv DEF Render
<1>2. CASE \E cites \in Supports : \E names \in RenderGroundedAnswer(cites) :
             /\ answer' = LocalDraft(cites, names)
             /\ phase' = "answered"
             /\ UNCHANGED <<job, retry, tried, scan>>
  <2>0. PICK cites \in Supports : \E names \in RenderGroundedAnswer(cites) :
          /\ answer' = LocalDraft(cites, names)
          /\ phase' = "answered"
          /\ UNCHANGED <<job, retry, tried, scan>>
    BY <1>2
  <2>1. PICK names \in RenderGroundedAnswer(cites) :
          /\ answer' = LocalDraft(cites, names)
          /\ phase' = "answered"
          /\ UNCHANGED <<job, retry, tried, scan>>
    BY <2>0
  <2>2. phase = "rendering" /\ job.backend = "local"
    BY DEF Render, IInv, TypeOK
  <2>3. /\ Distinct(cites) /\ cites # <<>> /\ Named(cites) \subseteq job.items
        /\ Len(cites) <= IF Limit = 1 THEN 2 ELSE Limit
    BY <2>2, SupportIsSound
  <2>4. TypeOK' /\ Progress' /\ ScanOK'
    BY <2>1, <2>2 DEF IInv, TypeOK, Progress, ScanOK, Jobs
  <2>5. AnswerIsGrounded'
    <3>1. CASE names = {}
      BY <2>1, <3>1 DEF AnswerIsGrounded, LocalDraft
    <3>2. CASE names # {}
      <4>1. names \subseteq Named(cites)
        <5>1. cites \in Seq(job.items)
          BY <2>2, SupportIsSound
        <5> QED
          BY <5>1, <2>3, RenderedNamesSupport
      <4> QED
        BY <2>1, <2>3, <3>2, <4>1 DEF AnswerIsGrounded, LocalDraft
    <3> QED
      BY <3>1, <3>2
  <2>6. CitesWithinLimit'
    <3>1. Limit' = Limit
      BY <2>1 DEF Limit
    <3>2. CASE names = {}
      <4>1. answer'.cites = <<>> /\ Len(<<>>) = 0
        BY <2>1, <3>2 DEF LocalDraft
      <4> QED
        BY <2>1, <2>2, <3>1, <4>1, LimitIsPositive DEF CitesWithinLimit
    <3>3. CASE names # {}
      <4>1. answer'.cites = cites
        BY <2>1, <3>3 DEF LocalDraft
      <4> QED
        BY <2>1, <2>2, <2>3, <3>1, <4>1 DEF CitesWithinLimit
    <3> QED
      BY <3>2, <3>3
  <2>7. TriesAreSpent'
    BY <2>1 DEF IInv, TriesAreSpent
  <2> QED
    BY <2>4, <2>5, <2>6, <2>7 DEF IInv
<1> QED
  BY <1>1, <1>2 DEF Render

-----------------------------------------------------------------------------
\* Every step preserves the invariant: the calls of a provider by way of the lemmas on
\* a try that fails and on an exception that escapes.
LEMMA NextIInv == IInv /\ [Next]_vars => IInv'
<1> SUFFICES ASSUME IInv, [Next]_vars PROVE IInv'
  OBVIOUS
<1>1. CASE UNCHANGED vars
  BY <1>1 DEF vars, IInv, TypeOK, Progress, ScanOK, Limit, Jobs, AnswerIsGrounded,
     CitesWithinLimit, Mode, TriesAreSpent
<1>2. CASE Retry
  BY <1>2, RetryIInv
<1>3. CASE CallFails
  <2>1. retry = MaxRetries
    BY <1>3 DEF CallFails, IInv, TypeOK
  <2> QED
    BY <1>3, <2>1, TryFailsIInv DEF CallFails
<1>4. CASE CallRefused
  BY <1>4, TryFailsIInv DEF CallRefused
<1>5. CASE CallTimesOut
  BY <1>5, EscapeIInv DEF CallTimesOut
<1>6. CASE ReplyMalformed
  BY <1>6, TryFailsIInv DEF ReplyMalformed
<1>7. CASE ReplyGarbled
  BY <1>7, TryFailsIInv, EscapeIInv DEF ReplyGarbled
<1>8. CASE ReplyAccepted
  BY <1>8, ReplyAcceptedIInv
<1>9. CASE ReplyRejected
  BY <1>9, TryFailsIInv DEF ReplyRejected
<1>10. CASE LocalStep
  BY <1>10, RankIInv, ChooseIInv, ChoiceEndsIInv, RenderIInv DEF LocalStep
<1> QED
  BY <1>1, <1>2, <1>3, <1>4, <1>5, <1>6, <1>7, <1>8, <1>9, <1>10 DEF Next, ProviderStep

\* IInv holds in every state: it carries the position of the scan and the count of the
\* tries, which the promises about the answer rest on.
THEOREM GenerationInvariant == Spec => []IInv
<1> QED
  BY InitIInv, NextIInv, PTL DEF Spec

\* Whatever a model returns, an answer is grounded in the package.
THEOREM AnswersAreGrounded == Spec => []AnswerIsGrounded
<1>1. IInv => AnswerIsGrounded
  BY DEF IInv
<1> QED
  BY <1>1, GenerationInvariant, PTL

\* The support limit of the local backend and the bounds on exact answers hold for
\* every profile.
THEOREM LimitIsKept == Spec => []CitesWithinLimit
<1>1. IInv => CitesWithinLimit
  BY DEF IInv
<1> QED
  BY <1>1, GenerationInvariant, PTL

\* A provider gets two tries with all their retries, for any bound on the retries.
THEOREM TriesAreMade == Spec => []TriesAreSpent
<1>1. IInv => TriesAreSpent
  BY DEF IInv
<1> QED
  BY <1>1, GenerationInvariant, PTL
=============================================================================

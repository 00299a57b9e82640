--------------------------- MODULE ChunkingProofs ---------------------------
(***************************************************************************)
(* Proofs about Chunking, for texts of any length, cut anywhere, and for   *)
(* any sizes of chunks and overlaps.                                       *)
(***************************************************************************)
EXTENDS Chunking, TLAPS

Spans == [start : Nat, end : Nat, heading : BOOLEAN]
Chunks == [start : Nat, end : Nat, heading : BOOLEAN, title : Nat]

TypeOK ==
  /\ input \in Inputs
  /\ phase \in {"split", "cut", "join", "group", "emit", "windows", "done"}
  /\ cut \in Nat /\ until \in Nat /\ next \in Nat /\ title \in Nat
  /\ current \in Spans
  /\ spans \in Seq(Spans)
  /\ groups \in Seq(Spans)
  /\ chunks \in Seq(Chunks)

\* Spans and groups lie in the text, each begins and ends no earlier than those before it,
\* and together they hold the tokens 1 .. n.
Proper(s) ==
  \A i \in 1 .. Len(s) : 1 <= s[i].start /\ s[i].start <= s[i].end /\ s[i].end <= input.length
Ordered(s) ==
  \A i, j \in 1 .. Len(s) : i < j => s[i].start <= s[j].start /\ s[i].end <= s[j].end
Adds(s) == \A i, j \in 1 .. Len(s) : i < j => s[i].end < s[j].end
Covers(s, n) == \A t \in 1 .. n : \E i \in 1 .. Len(s) : Within(t, s[i])
EndsBefore(s, n) == \A i \in 1 .. Len(s) : s[i].end < n

\* What fits, or is a sentence that stays whole.
Bounded(span) == Length(span) <= input.max \/ IsOneOfSeveral(span.start, span.end)
AllBounded(s) == \A i \in 1 .. Len(s) : Bounded(s[i])

\* A span that reaches no further than the one before it is no heading, and that one fits.
Linked(s) ==
  \A i \in 1 .. Len(s) - 1 :
    \/ s[i].end < s[i + 1].end
    \/ s[i].end = s[i + 1].end /\ ~s[i + 1].heading /\ Length(s[i]) <= input.max

SpansOK == Proper(spans) /\ Ordered(spans) /\ Linked(spans) /\ AllBounded(spans)
GroupsOK == Proper(groups) /\ Adds(groups) /\ AllBounded(groups)

Pass ==
  /\ phase \in {"split", "cut", "join"} => groups = << >> /\ next = 1
  /\ phase \in {"split", "cut", "join", "group"} => chunks = << >>

\* A block ends with the text, or before another.
EndsBlock(t) == t = input.length \/ t + 1 \in input.blocks

SplitOK ==
  phase = "split" => Covers(spans, cut - 1) /\ EndsBefore(spans, cut)
                     /\ 1 <= cut /\ cut <= input.length + 1 /\ EndsBlock(cut - 1)

CutOK ==
  phase = "cut" =>
    /\ Covers(spans, cut - 1)
    /\ 1 <= cut /\ cut <= until /\ until <= input.length /\ EndsBlock(until)
    /\ \A i \in 1 .. Len(spans) :
         /\ spans[i].start < cut
         /\ spans[i].end <= until
         /\ spans[i].end < cut - Step + input.max
         /\ spans[i].end < cut \/ Length(spans[i]) <= input.max

JoinOK ==
  phase = "join" =>
    /\ Covers(spans, current.start - 1)
    /\ EndsBefore(spans, current.start)
    /\ 1 <= current.start /\ current.start <= current.end /\ current.end = cut - 1
    /\ cut <= until + 1 /\ until <= input.length /\ EndsBlock(until)
    /\ \A t \in cut .. until : t \notin input.blocks
    /\ cut <= until => cut \in SentenceStarts
    /\ Bounded(current)

\* What the spans taken so far hold is in the groups and the current one.
Kept ==
  \A i \in 1 .. next - 1 : \A t \in spans[i].start .. spans[i].end :
    Within(t, current) \/ \E g \in 1 .. Len(groups) : Within(t, groups[g])

GroupOK ==
  phase = "group" =>
    /\ Covers(spans, input.length)
    /\ 1 <= next /\ next <= Len(spans) + 1
    /\ next = 1 => groups = << >>
    /\ next > 1 =>
         /\ 1 <= current.start /\ current.start <= spans[next - 1].start
         /\ current.end = spans[next - 1].end
         /\ Length(current) <= input.max \/ current = spans[next - 1]
         /\ EndsBefore(groups, current.end)
         /\ Kept

EmitOK ==
  phase = "emit" =>
    /\ Covers(groups, input.length)
    /\ 1 <= next /\ next <= Len(groups) + 1 /\ Len(chunks) = next - 1
    /\ \A i \in 1 .. Len(chunks) :
         /\ chunks[i].end = groups[i].end
         /\ chunks[i].start <= groups[i].start

WindowsOK ==
  phase = "windows" =>
    /\ Covers(chunks, cut - 1)
    /\ 1 <= cut /\ cut <= input.length + 1
    /\ EndsBefore(chunks, cut + input.overlap) /\ EndsBefore(chunks, input.length)

ChunksOK == EveryChunkAdds /\ SizeIsBounded /\ EveryTokenIsChunked

IInv ==
  /\ TypeOK /\ SpansOK /\ GroupsOK /\ ChunksOK /\ Pass
  /\ SplitOK /\ CutOK /\ JoinOK /\ GroupOK /\ EmitOK /\ WindowsOK

-----------------------------------------------------------------------------
LEMMA InputFacts ==
  ASSUME input \in Inputs
  PROVE  /\ input.length \in Nat
         /\ input.max \in Nat /\ 1 <= input.max
         /\ input.overlap \in Nat /\ input.overlap < input.max
         /\ Step \in Nat /\ 1 <= Step /\ Step <= input.max
  BY InputsAssumption DEF Step

LEMMA SpansFacts ==
  ASSUME NEW s \in Seq(Spans)
  PROVE  /\ Len(s) \in Nat
         /\ \A i \in 1 .. Len(s) :
              s[i] \in Spans /\ s[i].start \in Nat /\ s[i].end \in Nat /\ s[i].heading \in BOOLEAN
<1>1. Len(s) \in Nat /\ \A i \in 1 .. Len(s) : s[i] \in Spans
  OBVIOUS
<1> QED
  BY <1>1 DEF Spans

LEMMA SpanFields ==
  ASSUME NEW a \in Nat, NEW b \in Nat, NEW h \in BOOLEAN
  PROVE  /\ Span(a, b, h) \in Spans
         /\ Span(a, b, h).start = a /\ Span(a, b, h).end = b /\ Span(a, b, h).heading = h
  BY DEF Span, Spans

LEMMA WindowFacts ==
  ASSUME NEW a \in Nat, NEW b \in Nat, input.max \in Nat, 1 <= input.max, a <= b
  PROVE  /\ WindowEnd(a, b) \in Nat
         /\ a <= WindowEnd(a, b) /\ WindowEnd(a, b) <= b
         /\ WindowEnd(a, b) <= a + input.max - 1
         /\ WindowEnd(a, b) = b \/ WindowEnd(a, b) = a + input.max - 1
<1>1. CASE b - a + 1 <= input.max
  <2>1. WindowEnd(a, b) = b
    BY <1>1 DEF WindowEnd, Fits
  <2> QED
    BY <1>1, <2>1
<1>2. CASE ~(b - a + 1 <= input.max)
  <2>1. WindowEnd(a, b) = a + input.max - 1
    BY <1>2 DEF WindowEnd, Fits
  <2> QED
    BY <1>2, <2>1
<1> QED
  BY <1>1, <1>2

LEMMA AppendFacts ==
  ASSUME NEW S, NEW s \in Seq(S), NEW e \in S
  PROVE  /\ Append(s, e) \in Seq(S)
         /\ Len(s) \in Nat
         /\ Len(Append(s, e)) = Len(s) + 1
         /\ \A i \in 1 .. Len(s) : Append(s, e)[i] = s[i]
         /\ Append(s, e)[Len(s) + 1] = e
  OBVIOUS

\* Each element of a longer sequence is the new one or one of the old.
LEMMA AppendCases ==
  ASSUME NEW S, NEW s \in Seq(S), NEW e \in S, NEW i \in 1 .. Len(Append(s, e))
  PROVE  \/ i \in 1 .. Len(s) /\ Append(s, e)[i] = s[i]
         \/ i = Len(s) + 1 /\ Append(s, e)[i] = e
<1>1. /\ Len(s) \in Nat /\ Len(Append(s, e)) = Len(s) + 1
      /\ \A k \in 1 .. Len(s) : Append(s, e)[k] = s[k]
      /\ Append(s, e)[Len(s) + 1] = e
  BY AppendFacts
<1>2. i \in 1 .. Len(s) \/ i = Len(s) + 1
  BY <1>1
<1> QED
  BY <1>1, <1>2

LEMMA CoversLess ==
  ASSUME NEW s, NEW m \in Int, NEW n \in Int, m <= n, Covers(s, n)
  PROVE  Covers(s, m)
<1>1. ASSUME NEW t \in 1 .. m PROVE t \in 1 .. n
  OBVIOUS
<1> QED
  BY <1>1 DEF Covers

\* A span that begins where the covered tokens end, or before, extends them to its end.
LEMMA AppendCovers ==
  ASSUME NEW S, NEW s \in Seq(S), NEW e \in S, NEW m \in Int, NEW n \in Int,
         e.start \in Nat, e.end \in Nat,
         Covers(s, m), e.start <= m + 1, n <= e.end
  PROVE  Covers(Append(s, e), n)
<1> DEFINE a == Append(s, e)
<1>1. /\ Len(s) \in Nat /\ Len(a) = Len(s) + 1
      /\ \A k \in 1 .. Len(s) : a[k] = s[k]
      /\ a[Len(s) + 1] = e
  BY AppendFacts
<1> HIDE DEF a
<1>2. SUFFICES ASSUME NEW t \in 1 .. n PROVE \E i \in 1 .. Len(a) : Within(t, a[i])
  BY DEF Covers, a
<1>3. CASE t <= m
  <2>1. t \in 1 .. m
    BY <1>3
  <2>2. PICK i \in 1 .. Len(s) : Within(t, s[i])
    BY <2>1 DEF Covers
  <2>3. i \in 1 .. Len(a)
    BY <1>1
  <2>4. Within(t, a[i])
    BY <1>1, <2>2
  <2> QED
    BY <2>3, <2>4
<1>4. CASE t > m
  <2>1. Within(t, a[Len(s) + 1])
    BY <1>1, <1>4 DEF Within
  <2>2. Len(s) + 1 \in 1 .. Len(a)
    BY <1>1
  <2> QED
    BY <2>1, <2>2
<1> QED
  BY <1>3, <1>4

\* What a new span has to satisfy for the spans to stay in order.
LEMMA AppendSpan ==
  ASSUME TypeOK, SpansOK, NEW e \in Spans,
         1 <= e.start, e.start <= e.end, e.end <= input.length, Bounded(e),
         \A i \in 1 .. Len(spans) :
           /\ spans[i].start <= e.start
           /\ \/ spans[i].end < e.end
              \/ spans[i].end = e.end /\ ~e.heading /\ Length(spans[i]) <= input.max,
         spans' = Append(spans, e), UNCHANGED input
  PROVE  SpansOK' /\ spans' \in Seq(Spans)
<1>1. spans \in Seq(Spans)
  BY DEF TypeOK
<1>2. /\ spans' \in Seq(Spans) /\ Len(spans) \in Nat /\ Len(spans') = Len(spans) + 1
      /\ \A k \in 1 .. Len(spans) : spans'[k] = spans[k]
      /\ spans'[Len(spans) + 1] = e
  BY <1>1, AppendFacts
<1>3. \A i \in 1 .. Len(spans') : (i \in 1 .. Len(spans) /\ spans'[i] = spans[i])
                               \/ (i = Len(spans) + 1 /\ spans'[i] = e)
  BY <1>1, AppendCases
<1>4. \A i \in 1 .. Len(spans) : spans[i].start \in Nat /\ spans[i].end \in Nat
  BY <1>1, SpansFacts
<1>5. e.start \in Nat /\ e.end \in Nat
  BY DEF Spans
<1>6. Proper(spans)'
  <2> SUFFICES ASSUME NEW i \in 1 .. Len(spans')
               PROVE  1 <= spans'[i].start /\ spans'[i].start <= spans'[i].end
                      /\ spans'[i].end <= input.length
    BY DEF Proper
  <2> QED
    BY <1>3 DEF SpansOK, Proper
<1>7. Ordered(spans)'
  <2> SUFFICES ASSUME NEW i \in 1 .. Len(spans'), NEW j \in 1 .. Len(spans'), i < j
               PROVE  spans'[i].start <= spans'[j].start /\ spans'[i].end <= spans'[j].end
    BY DEF Ordered
  <2>1. i \in 1 .. Len(spans) /\ spans'[i] = spans[i]
    BY <1>2
  <2> QED
    BY <1>3, <1>4, <1>5, <2>1 DEF SpansOK, Ordered
<1>8. Linked(spans)'
  <2> SUFFICES ASSUME NEW i \in 1 .. Len(spans') - 1
               PROVE  \/ spans'[i].end < spans'[i + 1].end
                      \/ /\ spans'[i].end = spans'[i + 1].end
                         /\ ~spans'[i + 1].heading /\ Length(spans'[i]) <= input.max
    BY DEF Linked, Length
  <2>1. i \in 1 .. Len(spans) /\ spans'[i] = spans[i]
    BY <1>2
  <2>2. CASE i < Len(spans)
    <3>1. i + 1 \in 1 .. Len(spans) /\ i \in 1 .. Len(spans) - 1
      BY <1>2, <2>2
    <3>2. spans'[i + 1] = spans[i + 1]
      BY <1>2, <3>1
    <3> QED
      BY <2>1, <3>1, <3>2 DEF SpansOK, Linked
  <2>3. CASE i = Len(spans)
    <3>1. spans'[i + 1] = e
      BY <1>2, <2>3
    <3> QED
      BY <2>1, <3>1
  <2> QED
    BY <1>2, <2>1, <2>2, <2>3
<1>9. AllBounded(spans)'
  <2> SUFFICES ASSUME NEW i \in 1 .. Len(spans') PROVE Bounded(spans'[i])
    BY DEF AllBounded, Bounded, IsOneOfSeveral, Piece, SentenceStarts, Length
  <2> QED
    BY <1>3 DEF SpansOK, AllBounded
<1> QED
  BY <1>2, <1>6, <1>7, <1>8, <1>9 DEF SpansOK

-----------------------------------------------------------------------------
LEMMA InitIInv == Init => IInv
<1> SUFFICES ASSUME Init PROVE IInv
  OBVIOUS
<1>0. input \in Inputs /\ Len(spans) = 0 /\ Len(groups) = 0 /\ Len(chunks) = 0
  BY DEF Init
<1>1. TypeOK
  BY DEF Init, TypeOK, Spans, Chunks, Nothing, Span
<1>2. SpansOK /\ GroupsOK /\ ChunksOK /\ Pass
  BY <1>0 DEF Init, SpansOK, GroupsOK, ChunksOK, Pass, Proper, Ordered, Linked, AllBounded,
     Adds, EveryChunkAdds, SizeIsBounded, EveryTokenIsChunked, Done
<1>3. /\ input.length \in Nat /\ input.overlap \in Nat
      /\ EndsBlock(0)
  BY <1>0, InputFacts, InputsAssumption DEF EndsBlock
<1>4. SplitOK /\ CutOK /\ JoinOK /\ GroupOK /\ EmitOK /\ WindowsOK
  BY <1>0, <1>3 DEF Init, SplitOK, CutOK, JoinOK, GroupOK, EmitOK, WindowsOK, Covers, EndsBefore
<1> QED
  BY <1>1, <1>2, <1>4 DEF IInv

LEMMA KeepsChunks ==
  ASSUME IInv, UNCHANGED <<input, groups, chunks>>, phase' # "done"
  PROVE  GroupsOK' /\ ChunksOK'
  BY DEF IInv, GroupsOK, Proper, Adds, AllBounded, Bounded, Length, IsOneOfSeveral, Piece, SentenceStarts,
     ChunksOK, EveryChunkAdds, SizeIsBounded, EveryTokenIsChunked, Done

LEMMA KeepsSpans ==
  ASSUME SpansOK, UNCHANGED <<input, spans>>
  PROVE  SpansOK'
  BY DEF SpansOK, Proper, Ordered, Linked, AllBounded, Bounded, Length, IsOneOfSeveral, Piece, SentenceStarts

LEMMA KeepBlockIInv == IInv /\ KeepBlock => IInv'
<1> SUFFICES ASSUME IInv, KeepBlock PROVE IInv'
  OBVIOUS
<1>1. TypeOK /\ SpansOK /\ phase = "split" /\ UNCHANGED <<input, phase, until, current, next, groups, title, chunks>>
  BY DEF IInv, KeepBlock
<1>2. input.length \in Nat /\ cut \in Nat /\ spans \in Seq(Spans)
  BY <1>1, InputFacts DEF TypeOK
<1>3. PICK end \in cut .. input.length :
        /\ EndsBlock(end) /\ Fits(cut, end)
        /\ spans' = Append(spans, Span(cut, end, cut \in input.headings))
        /\ cut' = end + 1
  BY DEF KeepBlock, Piece, EndsBlock
<1> DEFINE e == Span(cut, end, cut \in input.headings)
<1>4. e \in Spans /\ e.start = cut /\ e.end = end
  BY <1>2 DEF Spans, Span
<1>5. Covers(spans, cut - 1) /\ EndsBefore(spans, cut) /\ 1 <= cut
  BY <1>1 DEF IInv, SplitOK
<1>6. Bounded(e)
  BY <1>3, <1>4 DEF Bounded, Length, Fits
<1>7. spans' = Append(spans, e)
  BY <1>3
<1> HIDE DEF e
<1>8. ASSUME NEW i \in 1 .. Len(spans)
      PROVE  spans[i].start <= e.start /\ spans[i].end < e.end
  <2>1. spans[i].end < cut /\ spans[i].start <= spans[i].end
    BY <1>1, <1>5 DEF EndsBefore, SpansOK, Proper
  <2>2. spans[i].start \in Nat /\ spans[i].end \in Nat
    BY <1>2, SpansFacts
  <2> QED
    BY <1>2, <1>4, <2>1, <2>2
<1>9. SpansOK' /\ spans' \in Seq(Spans)
  BY <1>1, <1>2, <1>4, <1>5, <1>6, <1>7, <1>8, AppendSpan
<1>10. Covers(spans, cut - 1)'
  <2>1. Covers(Append(spans, e), end)
    BY <1>2, <1>4, <1>5, AppendCovers
  <2> QED
    BY <1>2, <1>3, <1>7, <2>1 DEF Covers
<1>11. EndsBefore(spans, cut)'
  <2> SUFFICES ASSUME NEW i \in 1 .. Len(spans') PROVE spans'[i].end < cut'
    BY DEF EndsBefore
  <2>1. (i \in 1 .. Len(spans) /\ spans'[i] = spans[i]) \/ spans'[i] = e
    BY <1>2, <1>4, <1>7, AppendCases
  <2>2. CASE i \in 1 .. Len(spans) /\ spans'[i] = spans[i]
    <3>1. spans[i].end < cut /\ spans[i].end \in Nat
      BY <1>2, <1>5, <2>2, SpansFacts DEF EndsBefore
    <3> QED
      BY <1>2, <1>3, <2>2, <3>1
  <2>3. CASE spans'[i] = e
    BY <1>2, <1>3, <1>4, <2>3
  <2> QED
    BY <2>1, <2>2, <2>3
<1>12. TypeOK'
  BY <1>1, <1>2, <1>3, <1>9 DEF TypeOK
<1>13. SplitOK'
  <2>1. EndsBlock(cut - 1)'
    BY <1>1, <1>2, <1>3 DEF EndsBlock
  <2> QED
    BY <1>2, <1>3, <1>1, <1>5, <1>10, <1>11, <2>1 DEF SplitOK
<1>14. GroupsOK' /\ ChunksOK' /\ Pass'
  BY <1>1, KeepsChunks DEF IInv, Pass
<1> QED
  BY <1>1, <1>9, <1>12, <1>13, <1>14
     DEF IInv, CutOK, JoinOK, GroupOK, EmitOK, WindowsOK

LEMMA BeginWindowsIInv == IInv /\ BeginWindows => IInv'
<1> SUFFICES ASSUME IInv, BeginWindows PROVE IInv'
  OBVIOUS
<1>1. TypeOK /\ SpansOK /\ phase = "split" /\ phase' = "cut"
      /\ UNCHANGED <<input, cut, current, spans, next, groups, title, chunks>>
  BY DEF IInv, BeginWindows
<1>2. input.length \in Nat /\ cut \in Nat /\ spans \in Seq(Spans)
      /\ input.max \in Nat /\ Step \in Nat /\ Step <= input.max
  BY <1>1, InputFacts DEF TypeOK
<1>3. until' \in cut .. input.length /\ EndsBlock(until')
  BY DEF BeginWindows, Piece, EndsBlock
<1>4. Covers(spans, cut - 1) /\ EndsBefore(spans, cut) /\ 1 <= cut
  BY <1>1 DEF IInv, SplitOK
<1>5. ASSUME NEW i \in 1 .. Len(spans)
      PROVE  /\ spans[i].start < cut /\ spans[i].end <= until'
             /\ spans[i].end < cut /\ spans[i].end < cut - Step + input.max
  <2>1. spans[i].end < cut /\ spans[i].start <= spans[i].end
    BY <1>1, <1>4 DEF EndsBefore, SpansOK, Proper
  <2>2. spans[i].start \in Nat /\ spans[i].end \in Nat
    BY <1>2, SpansFacts
  <2> QED
    BY <1>2, <1>3, <2>1, <2>2
<1>6. Step' = Step /\ Covers(spans, cut - 1)'
  BY <1>1, <1>4 DEF Step, Covers
<1>7. CutOK'
  BY <1>1, <1>2, <1>3, <1>4, <1>5, <1>6 DEF CutOK, EndsBlock
<1>8. TypeOK'
  BY <1>1, <1>2, <1>3 DEF TypeOK
<1> QED
  BY <1>1, <1>7, <1>8, KeepsChunks, KeepsSpans
     DEF IInv, Pass, SplitOK, JoinOK, GroupOK, EmitOK, WindowsOK

LEMMA CutWindowIInv == IInv /\ CutWindow => IInv'
<1> SUFFICES ASSUME IInv, CutWindow PROVE IInv'
  OBVIOUS
<1> DEFINE e == Span(cut, WindowEnd(cut, until), FALSE)
<1>1. TypeOK /\ SpansOK /\ phase = "cut" /\ spans' = Append(spans, e)
      /\ UNCHANGED <<input, until, current, next, groups, title, chunks>>
  BY DEF IInv, CutWindow
<1>2. input.length \in Nat /\ cut \in Nat /\ until \in Nat /\ spans \in Seq(Spans)
      /\ input.max \in Nat /\ 1 <= input.max /\ Step \in Nat /\ 1 <= Step /\ Step <= input.max
  BY <1>1, InputFacts DEF TypeOK
<1>3. /\ Covers(spans, cut - 1) /\ 1 <= cut /\ cut <= until /\ until <= input.length
      /\ EndsBlock(until)
  BY <1>1 DEF IInv, CutOK
<1>3a. /\ WindowEnd(cut, until) \in Nat
       /\ cut <= WindowEnd(cut, until) /\ WindowEnd(cut, until) <= until
       /\ WindowEnd(cut, until) <= cut + input.max - 1
       /\ WindowEnd(cut, until) = until \/ WindowEnd(cut, until) = cut + input.max - 1
  BY <1>2, <1>3, WindowFacts
<1>4. /\ e \in Spans /\ e.start = cut /\ e.heading = FALSE
      /\ e.end \in Nat /\ cut <= e.end /\ e.end <= until
      /\ e.end <= cut + input.max - 1
      /\ e.end = until \/ e.end = cut + input.max - 1
  <2>1. e \in Spans /\ e.start = cut /\ e.end = WindowEnd(cut, until) /\ e.heading = FALSE
    BY <1>2, <1>3a, SpanFields
  <2> HIDE DEF e
  <2> QED
    BY <1>3a, <2>1
<1>5. Bounded(e)
  <2> HIDE DEF e
  <2> QED
    BY <1>2, <1>4 DEF Bounded, Length
<1> HIDE DEF e
<1>6. ASSUME NEW i \in 1 .. Len(spans)
      PROVE  /\ spans[i].start <= e.start
             /\ spans[i].end <= e.end
             /\ spans[i].end < e.end \/ Length(spans[i]) <= input.max
             /\ spans[i].start \in Nat /\ spans[i].end \in Nat
  <2>1. spans[i].start \in Nat /\ spans[i].end \in Nat
    BY <1>2, SpansFacts
  <2>2. /\ spans[i].start < cut /\ spans[i].end <= until
        /\ spans[i].end < cut - Step + input.max
        /\ spans[i].end < cut \/ Length(spans[i]) <= input.max
    BY <1>1 DEF IInv, CutOK
  <2>3. spans[i].end <= e.end
    BY <1>2, <1>4, <2>1, <2>2
  <2> QED
    BY <1>2, <1>4, <2>1, <2>2, <2>3
<1>7. SpansOK' /\ spans' \in Seq(Spans)
  <2>1. \A i \in 1 .. Len(spans) :
          /\ spans[i].start <= e.start
          /\ \/ spans[i].end < e.end
             \/ spans[i].end = e.end /\ ~e.heading /\ Length(spans[i]) <= input.max
    BY <1>4, <1>6
  <2>2. 1 <= e.start /\ e.start <= e.end /\ e.end <= input.length
    BY <1>2, <1>3, <1>4
  <2> QED
    BY <1>1, <1>4, <1>5, <2>1, <2>2, AppendSpan
<1>8. Covers(spans', e.end)
  BY <1>1, <1>2, <1>3, <1>4, AppendCovers
<1>9. \A i \in 1 .. Len(spans') :
        (i \in 1 .. Len(spans) /\ spans'[i] = spans[i]) \/ spans'[i] = e
  BY <1>1, <1>2, <1>4, AppendCases
<1>10. CASE cut + Step > until
  <2>1. cut' = until + 1 /\ phase' = "split"
    BY <1>10 DEF CutWindow
  <2>2. e.end = until
    BY <1>2, <1>3, <1>4, <1>10
  <2>3. Covers(spans, cut - 1)'
    BY <1>2, <1>8, <2>1, <2>2 DEF Covers
  <2>4. EndsBefore(spans, cut)'
    BY <1>2, <1>6, <1>9, <2>1, <2>2 DEF EndsBefore
  <2>5. SplitOK'
    <3>1. EndsBlock(cut - 1)'
      BY <1>1, <1>2, <1>3, <2>1 DEF EndsBlock
    <3> QED
      BY <1>1, <1>2, <1>3, <2>1, <2>3, <2>4, <3>1 DEF SplitOK
  <2>6. TypeOK'
    BY <1>1, <1>2, <1>7, <2>1 DEF TypeOK
  <2> QED
    BY <1>1, <1>7, <2>1, <2>5, <2>6, KeepsChunks
       DEF IInv, Pass, CutOK, JoinOK, GroupOK, EmitOK, WindowsOK
<1>11. CASE ~(cut + Step > until)
  <2>1. cut' = cut + Step /\ phase' = "cut"
    BY <1>1, <1>11 DEF CutWindow
  <2>2. cut' - 1 <= e.end
    BY <1>2, <1>4, <1>11, <2>1
  <2>3. Covers(spans, cut - 1)'
    BY <1>2, <1>4, <1>8, <2>1, <2>2 DEF Covers
  <2>4. ASSUME NEW i \in 1 .. Len(spans')
        PROVE  /\ spans'[i].start < cut'
               /\ spans'[i].end <= until
               /\ spans'[i].end < cut' - Step + input.max
               /\ Length(spans'[i]) <= input.max \/ spans'[i].end < cut'
    <3>1. CASE i \in 1 .. Len(spans) /\ spans'[i] = spans[i]
      <4>1. /\ spans[i].start < cut /\ spans[i].end <= until
            /\ spans[i].end < cut - Step + input.max
            /\ spans[i].end < cut \/ Length(spans[i]) <= input.max
        BY <1>1, <3>1 DEF IInv, CutOK
      <4>2. spans[i].start \in Nat /\ spans[i].end \in Nat
        BY <1>6, <3>1
      <4> QED
        BY <1>2, <2>1, <3>1, <4>1, <4>2
    <3>2. CASE spans'[i] = e
      <4>1. Length(e) <= input.max
        BY <1>2, <1>4 DEF Length
      <4>2. e.start < cut' /\ e.end < cut' - Step + input.max
        BY <1>2, <1>4, <2>1
      <4> QED
        BY <1>4, <3>2, <4>1, <4>2
    <3> QED
      BY <1>9, <3>1, <3>2
  <2>5. Step' = Step
    BY <1>1 DEF Step
  <2>6. CutOK'
    <3>1. 1 <= cut' /\ cut' <= until
      BY <1>2, <1>11, <2>1
    <3> QED
      BY <1>1, <1>3, <2>3, <2>4, <2>5, <3>1 DEF CutOK, Length, EndsBlock
  <2>7. TypeOK'
    BY <1>1, <1>2, <1>7, <2>1 DEF TypeOK
  <2> QED
    BY <1>1, <1>7, <2>1, <2>6, <2>7, KeepsChunks
       DEF IInv, Pass, SplitOK, JoinOK, GroupOK, EmitOK, WindowsOK
<1> QED
  BY <1>10, <1>11

LEMMA BeginSentencesIInv == IInv /\ BeginSentences => IInv'
<1> SUFFICES ASSUME IInv, BeginSentences PROVE IInv'
  OBVIOUS
<1>1. TypeOK /\ SpansOK /\ phase = "split" /\ phase' = "join"
      /\ UNCHANGED <<input, spans, next, groups, title, chunks>>
  BY DEF IInv, BeginSentences
<1>2. input.length \in Nat /\ cut \in Nat
  BY <1>1, InputFacts DEF TypeOK
<1>3. PICK end \in cut .. input.length : \E last \in cut .. end :
        /\ Piece(input.blocks, cut, end)
        /\ ~OneSentence(cut, end) /\ Piece(SentenceStarts, cut, last)
        /\ until' = end
        /\ current' = Span(cut, last, cut \in input.headings)
        /\ cut' = last + 1
  BY DEF BeginSentences
<1>3a. PICK last \in cut .. end :
         /\ ~OneSentence(cut, end) /\ Piece(SentenceStarts, cut, last)
         /\ until' = end
         /\ current' = Span(cut, last, cut \in input.headings)
         /\ cut' = last + 1
  BY <1>3
<1>3b. last < end
  <2>1. last # end
    BY <1>3a DEF OneSentence
  <2> QED
    BY <1>2, <2>1
<1>4. /\ Covers(spans, cut - 1) /\ EndsBefore(spans, cut) /\ 1 <= cut
      /\ EndsBlock(cut - 1) /\ cut <= input.length
  BY <1>1, <1>2 DEF IInv, SplitOK
<1>4a. cut \in input.blocks
  BY <1>2, <1>4 DEF EndsBlock
<1>4b. /\ \A t \in last + 1 .. end : t \notin input.blocks
       /\ last + 1 \in SentenceStarts /\ EndsBlock(end)
  <2>1. EndsBlock(end) /\ \A t \in (cut + 1) .. end : t \notin input.blocks
    BY <1>3 DEF Piece, EndsBlock
  <2>2. \A t \in last + 1 .. end : t \in (cut + 1) .. end
    BY <1>2
  <2>3. last # input.length
    BY <1>2, <1>3b
  <2>4. last + 1 \in SentenceStarts
    BY <1>3a, <2>3 DEF Piece
  <2> QED
    BY <2>1, <2>2, <2>4
<1>5. current' \in Spans /\ current'.start = cut /\ current'.end = last
  BY <1>2, <1>3a DEF Spans, Span
<1>6. Bounded(current)'
  <2>1. ~Piece(input.blocks, cut, last)
    <3>1. last # input.length /\ last + 1 \in last + 1 .. end
      BY <1>2, <1>3b
    <3> QED
      BY <1>4b, <3>1 DEF Piece
  <2>2. IsOneOfSeveral(cut, last)
    BY <1>3a, <1>4a, <2>1 DEF IsOneOfSeveral, SentenceStarts
  <2> QED
    BY <1>1, <1>5, <2>2 DEF Bounded, IsOneOfSeveral, Piece, SentenceStarts
<1>7. Covers(spans, current.start - 1)' /\ EndsBefore(spans, current.start)'
  BY <1>1, <1>4, <1>5 DEF Covers, EndsBefore
<1>8. JoinOK'
  <2>1. 1 <= current'.start /\ current'.start <= current'.end /\ current'.end = cut' - 1
        /\ cut' <= until' + 1 /\ until' <= input'.length
    BY <1>1, <1>2, <1>3a, <1>4, <1>5
  <2>2. /\ EndsBlock(until)'
        /\ \A t \in cut' .. until' : t \notin input'.blocks
        /\ cut' \in SentenceStarts'
    BY <1>1, <1>3a, <1>4b DEF EndsBlock, SentenceStarts
  <2> QED
    BY <1>6, <1>7, <2>1, <2>2 DEF JoinOK
<1>9. TypeOK'
  BY <1>1, <1>2, <1>3a, <1>5 DEF TypeOK
<1> QED
  BY <1>1, <1>8, <1>9, KeepsChunks, KeepsSpans
     DEF IInv, Pass, SplitOK, CutOK, GroupOK, EmitOK, WindowsOK

\* The sentences joined so far are a span that goes beyond those before it.
LEMMA AppendCurrent ==
  ASSUME TypeOK, SpansOK, JoinOK, phase = "join",
         spans' = Append(spans, current), UNCHANGED input
  PROVE  /\ SpansOK' /\ spans' \in Seq(Spans)
         /\ Covers(spans', cut - 1)
         /\ \A i \in 1 .. Len(spans') : spans'[i].end < cut
<1>1. /\ input.length \in Nat /\ cut \in Nat /\ until \in Nat /\ spans \in Seq(Spans)
      /\ current \in Spans /\ current.start \in Nat /\ current.end \in Nat
  BY InputFacts DEF TypeOK, Spans
<1>2. /\ Covers(spans, current.start - 1) /\ EndsBefore(spans, current.start)
      /\ 1 <= current.start /\ current.start <= current.end /\ current.end = cut - 1
      /\ cut <= until + 1 /\ until <= input.length /\ Bounded(current)
  BY DEF JoinOK
<1>3. ASSUME NEW i \in 1 .. Len(spans)
      PROVE  /\ spans[i].start <= current.start /\ spans[i].end < current.end
             /\ spans[i].end < cut
  <2>1. spans[i].end < current.start /\ spans[i].start <= spans[i].end
    BY <1>2 DEF EndsBefore, SpansOK, Proper
  <2>2. spans[i].start \in Nat /\ spans[i].end \in Nat
    BY <1>1, SpansFacts
  <2> QED
    BY <1>1, <1>2, <2>1, <2>2
<1>4. SpansOK' /\ spans' \in Seq(Spans)
  <2>1. current.end <= input.length
    BY <1>1, <1>2
  <2> QED
    BY <1>1, <1>2, <1>3, <2>1, AppendSpan
<1>5. Covers(spans', cut - 1)
  <2>1. cut - 1 <= current.end /\ current.start <= (current.start - 1) + 1
        /\ cut - 1 \in Int /\ current.start - 1 \in Int
    BY <1>1, <1>2
  <2> QED
    BY <1>1, <1>2, <2>1, AppendCovers
<1>6. \A i \in 1 .. Len(spans') :
        (i \in 1 .. Len(spans) /\ spans'[i] = spans[i]) \/ spans'[i] = current
  BY <1>1, AppendCases
<1>7. current.end < cut
  BY <1>1, <1>2
<1> QED
  BY <1>3, <1>4, <1>5, <1>6, <1>7

LEMMA JoinSentenceIInv == IInv /\ JoinSentence => IInv'
<1> SUFFICES ASSUME IInv, JoinSentence PROVE IInv'
  OBVIOUS
<1>1. TypeOK /\ SpansOK /\ JoinOK /\ phase = "join"
      /\ UNCHANGED <<input, phase, until, next, groups, title, chunks>>
  BY DEF IInv, JoinSentence
<1>2. /\ input.length \in Nat /\ cut \in Nat /\ until \in Nat /\ spans \in Seq(Spans)
      /\ current \in Spans /\ current.start \in Nat /\ current.end \in Nat
  BY <1>1, InputFacts DEF TypeOK, Spans
<1>3. PICK last \in cut .. until :
        /\ Piece(SentenceStarts, cut, last)
        /\ cut' = last + 1
        /\ IF Fits(current.start, last)
           THEN current' = [current EXCEPT !.end = last] /\ UNCHANGED spans
           ELSE current' = Span(cut, last, FALSE) /\ spans' = Append(spans, current)
  BY DEF JoinSentence
<1>4. /\ Covers(spans, current.start - 1) /\ EndsBefore(spans, current.start)
      /\ 1 <= current.start /\ current.start <= current.end /\ current.end = cut - 1
      /\ cut <= until + 1 /\ until <= input.length /\ EndsBlock(until)
      /\ \A t \in cut .. until : t \notin input.blocks
      /\ cut <= until => cut \in SentenceStarts
  BY <1>1 DEF JoinOK
<1>4a. /\ EndsBlock(until)' /\ \A t \in cut' .. until' : t \notin input'.blocks
       /\ cut' <= until' => cut' \in SentenceStarts'
  <2>1. \A t \in last + 1 .. until : t \in cut .. until
    BY <1>2
  <2>2. last + 1 <= until => last # input.length
    BY <1>2, <1>4
  <2>3. last + 1 <= until => last + 1 \in SentenceStarts
    BY <1>3, <2>2 DEF Piece
  <2> QED
    BY <1>1, <1>3, <1>4, <2>1, <2>3 DEF EndsBlock, SentenceStarts
<1>5. CASE Fits(current.start, last)
  <2>1. current' = [current EXCEPT !.end = last] /\ UNCHANGED spans
    BY <1>3, <1>5
  <2>2. current' \in Spans /\ current'.start = current.start /\ current'.end = last
    <3>1. current = [start |-> current.start, end |-> current.end, heading |-> current.heading]
          /\ current.heading \in BOOLEAN
      BY <1>2 DEF Spans
    <3>2. current' = [start |-> current.start, end |-> last, heading |-> current.heading]
      BY <2>1, <3>1
    <3>3. last \in Nat
      BY <1>2
    <3> QED
      BY <1>2, <3>1, <3>2, <3>3 DEF Spans
  <2>3. Bounded(current)'
    BY <1>1, <1>5, <2>2 DEF Bounded, Length, Fits
  <2>4. Covers(spans, current.start - 1)' /\ EndsBefore(spans, current.start)'
    BY <1>1, <1>4, <2>1, <2>2 DEF Covers, EndsBefore
  <2>5. 1 <= current'.start /\ current'.start <= current'.end /\ current'.end = cut' - 1
        /\ cut' <= until' + 1 /\ until' <= input'.length
    BY <1>1, <1>2, <1>3, <1>4, <2>2
  <2>6. JoinOK'
    BY <1>4a, <2>3, <2>4, <2>5 DEF JoinOK
  <2>7. TypeOK'
    BY <1>1, <1>2, <1>3, <2>1, <2>2 DEF TypeOK
  <2> QED
    BY <1>1, <2>1, <2>6, <2>7, KeepsChunks, KeepsSpans
       DEF IInv, Pass, SplitOK, CutOK, GroupOK, EmitOK, WindowsOK
<1>6. CASE ~Fits(current.start, last)
  <2>1. current' = Span(cut, last, FALSE) /\ spans' = Append(spans, current)
    BY <1>3, <1>6
  <2>2. current' \in Spans /\ current'.start = cut /\ current'.end = last
    BY <1>2, <2>1 DEF Spans, Span
  <2>3. Bounded(current)'
    <3>1. cut <= until /\ cut \in cut .. until
      BY <1>2
    <3>2. IsOneOfSeveral(cut, last)
      BY <1>3, <1>4, <3>1 DEF IsOneOfSeveral
    <3> QED
      BY <1>1, <2>2, <3>2 DEF Bounded, IsOneOfSeveral, Piece, SentenceStarts
  <2>4. /\ SpansOK' /\ spans' \in Seq(Spans) /\ Covers(spans', cut - 1)
        /\ \A i \in 1 .. Len(spans') : spans'[i].end < cut
    BY <1>1, <2>1, AppendCurrent
  <2>5. Covers(spans, current.start - 1)' /\ EndsBefore(spans, current.start)'
    BY <2>2, <2>4 DEF Covers, EndsBefore
  <2>6. 1 <= current'.start /\ current'.start <= current'.end /\ current'.end = cut' - 1
        /\ cut' <= until' + 1 /\ until' <= input'.length
    BY <1>1, <1>2, <1>3, <1>4, <2>2
  <2>7. JoinOK'
    BY <1>4a, <2>3, <2>5, <2>6 DEF JoinOK
  <2>8. TypeOK'
    BY <1>1, <1>2, <1>3, <2>2, <2>4 DEF TypeOK
  <2> QED
    BY <1>1, <2>4, <2>7, <2>8, KeepsChunks
       DEF IInv, Pass, SplitOK, CutOK, GroupOK, EmitOK, WindowsOK
<1> QED
  BY <1>5, <1>6

LEMMA EndBlockIInv == IInv /\ EndBlock => IInv'
<1> SUFFICES ASSUME IInv, EndBlock PROVE IInv'
  OBVIOUS
<1>1. /\ TypeOK /\ SpansOK /\ JoinOK /\ phase = "join" /\ phase' = "split" /\ cut > until
      /\ spans' = Append(spans, current) /\ current' = Nothing
      /\ UNCHANGED <<input, cut, until, next, groups, title, chunks>>
  BY DEF IInv, EndBlock
<1>2. /\ SpansOK' /\ spans' \in Seq(Spans) /\ Covers(spans', cut - 1)
      /\ \A i \in 1 .. Len(spans') : spans'[i].end < cut
  BY <1>1, AppendCurrent
<1>3. input.length \in Nat /\ cut \in Nat /\ until \in Nat
  BY <1>1, InputFacts DEF TypeOK
<1>4. 1 <= cut /\ cut <= input.length + 1 /\ EndsBlock(cut - 1)
  <2>1. current \in Spans /\ current.start \in Nat /\ current.end \in Nat
    BY <1>1 DEF TypeOK, Spans
  <2>2. 1 <= current.start /\ current.start <= current.end /\ current.end = cut - 1
        /\ cut <= until + 1 /\ until <= input.length /\ EndsBlock(until)
    BY <1>1 DEF JoinOK
  <2>3. cut - 1 = until
    BY <1>1, <1>3, <2>2
  <2> QED
    BY <1>3, <2>1, <2>2, <2>3
<1>5. SplitOK'
  BY <1>1, <1>2, <1>4 DEF SplitOK, Covers, EndsBefore, EndsBlock
<1>6. TypeOK'
  BY <1>1, <1>2 DEF TypeOK, Nothing, Span, Spans
<1> QED
  BY <1>1, <1>2, <1>5, <1>6, KeepsChunks
     DEF IInv, Pass, CutOK, JoinOK, GroupOK, EmitOK, WindowsOK

LEMMA EndSplitIInv == IInv /\ EndSplit => IInv'
<1> SUFFICES ASSUME IInv, EndSplit PROVE IInv'
  OBVIOUS
<1>1. /\ TypeOK /\ SpansOK /\ phase = "split" /\ phase' = "group" /\ cut > input.length
      /\ UNCHANGED <<input, cut, until, current, spans, next, groups, title, chunks>>
  BY DEF IInv, EndSplit
<1>2. Covers(spans, cut - 1) /\ cut <= input.length + 1 /\ next = 1 /\ groups = << >>
  BY <1>1 DEF IInv, SplitOK, Pass
<1>3. input.length \in Nat /\ cut \in Nat /\ Len(spans) \in Nat
  BY <1>1, InputFacts DEF TypeOK
<1>4. cut - 1 = input.length
  BY <1>1, <1>2, <1>3
<1>5. Covers(spans, input.length)'
  BY <1>1, <1>2, <1>4 DEF Covers
<1>6. GroupOK'
  BY <1>1, <1>2, <1>3, <1>5 DEF GroupOK
<1>7. TypeOK'
  BY <1>1 DEF TypeOK
<1> QED
  BY <1>1, <1>6, <1>7, KeepsChunks, KeepsSpans
     DEF IInv, Pass, SplitOK, CutOK, JoinOK, EmitOK, WindowsOK

\* The spans before a group's last have been taken; what they hold stays held.
LEMMA GroupFacts ==
  ASSUME IInv, phase = "group"
  PROVE  /\ input.length \in Nat /\ input.max \in Nat
         /\ next \in Nat /\ Len(spans) \in Nat /\ Len(groups) \in Nat
         /\ current \in Spans /\ current.start \in Nat /\ current.end \in Nat
         /\ \A i \in 1 .. Len(spans) : /\ spans[i] \in Spans
                                        /\ spans[i].start \in Nat /\ spans[i].end \in Nat
         /\ \A i \in 1 .. Len(groups) : groups[i].start \in Nat /\ groups[i].end \in Nat
         /\ 1 <= next /\ next <= Len(spans) + 1
<1>1. input \in Inputs /\ next \in Nat /\ current \in Spans
      /\ spans \in Seq(Spans) /\ groups \in Seq(Spans)
  BY DEF IInv, TypeOK
<1>2. 1 <= next /\ next <= Len(spans) + 1
  BY DEF IInv, GroupOK
<1>3. current.start \in Nat /\ current.end \in Nat
  BY <1>1 DEF Spans
<1> QED
  BY <1>1, <1>2, <1>3, InputFacts, SpansFacts

LEMMA BeginGroupIInv == IInv /\ BeginGroup => IInv'
<1> SUFFICES ASSUME IInv, BeginGroup PROVE IInv'
  OBVIOUS
<1>1. /\ TypeOK /\ SpansOK /\ phase = "group" /\ next = 1 /\ spans # << >>
      /\ current' = spans[1] /\ next' = 2
      /\ UNCHANGED <<input, phase, cut, until, spans, groups, title, chunks>>
  BY DEF IInv, BeginGroup
<1>2. spans \in Seq(Spans) /\ Len(spans) \in Nat /\ Len(spans) # 0
  BY <1>1 DEF TypeOK
<1>3. groups = << >> /\ Covers(spans, input.length)
  BY <1>1 DEF IInv, GroupOK
<1>4. 1 \in 1 .. Len(spans)
  BY <1>2
<1>5. spans[1] \in Spans /\ spans[1].start \in Nat /\ 1 <= spans[1].start
  BY <1>1, <1>2, <1>4, SpansFacts DEF SpansOK, Proper
<1>6. Kept'
  <2> SUFFICES ASSUME NEW i \in 1 .. 1, NEW t \in spans[i].start .. spans[i].end
               PROVE  Within(t, spans[1])
    BY <1>1 DEF Kept, Within
  <2> QED
    BY DEF Within
<1>7. GroupOK'
  <2>1. next' - 1 = 1 /\ 1 <= next' /\ next' <= Len(spans') + 1 /\ next' # 1
    BY <1>1, <1>2
  <2>2. EndsBefore(groups, current.end)'
    BY <1>1, <1>3 DEF EndsBefore
  <2>3. Covers(spans, input.length)'
    BY <1>1, <1>3 DEF Covers
  <2> QED
    BY <1>1, <1>5, <1>6, <2>1, <2>2, <2>3 DEF GroupOK
<1>8. TypeOK'
  BY <1>1, <1>5 DEF TypeOK
<1> QED
  BY <1>1, <1>7, <1>8, KeepsChunks, KeepsSpans
     DEF IInv, Pass, SplitOK, CutOK, JoinOK, EmitOK, WindowsOK

\* A finished group goes beyond those before it, and holds what the spans it took held.
LEMMA AppendGroup ==
  ASSUME IInv, phase = "group", next > 1,
         groups' = Append(groups, current), UNCHANGED input
  PROVE  /\ GroupsOK' /\ groups' \in Seq(Spans)
         /\ \A i \in 1 .. Len(groups') : groups'[i].end <= current.end
         /\ \A i \in 1 .. next - 1 : \A t \in spans[i].start .. spans[i].end :
              \E g \in 1 .. Len(groups') : Within(t, groups'[g])
<1>1. TypeOK /\ SpansOK /\ GroupsOK /\ groups \in Seq(Spans) /\ current \in Spans
  BY DEF IInv, TypeOK
<1>2. /\ input.length \in Nat /\ input.max \in Nat
      /\ next \in Nat /\ Len(spans) \in Nat /\ Len(groups) \in Nat
      /\ current.start \in Nat /\ current.end \in Nat
      /\ \A i \in 1 .. Len(spans) : spans[i].start \in Nat /\ spans[i].end \in Nat
      /\ \A i \in 1 .. Len(groups) : groups[i].start \in Nat /\ groups[i].end \in Nat
      /\ 1 <= next /\ next <= Len(spans) + 1
  BY GroupFacts
<1>3. /\ 1 <= current.start /\ current.start <= spans[next - 1].start
      /\ current.end = spans[next - 1].end
      /\ Length(current) <= input.max \/ current = spans[next - 1]
      /\ EndsBefore(groups, current.end) /\ Kept
  BY <1>2 DEF IInv, GroupOK
<1>4. next - 1 \in 1 .. Len(spans)
  BY <1>2
<1>5. /\ spans[next - 1].start <= spans[next - 1].end
      /\ spans[next - 1].end <= input.length /\ Bounded(spans[next - 1])
  BY <1>1, <1>4 DEF SpansOK, Proper, AllBounded
<1>6. 1 <= current.start /\ current.start <= current.end /\ current.end <= input.length
  BY <1>2, <1>3, <1>4, <1>5
<1>7. Bounded(current)
  BY <1>3, <1>5 DEF Bounded
<1>8. /\ groups' \in Seq(Spans) /\ Len(groups') = Len(groups) + 1
      /\ \A k \in 1 .. Len(groups) : groups'[k] = groups[k]
      /\ groups'[Len(groups) + 1] = current
  BY <1>1, AppendFacts
<1>9. \A i \in 1 .. Len(groups') : (i \in 1 .. Len(groups) /\ groups'[i] = groups[i])
                                \/ (i = Len(groups) + 1 /\ groups'[i] = current)
  BY <1>1, AppendCases
<1>10. Proper(groups)'
  <2> SUFFICES ASSUME NEW i \in 1 .. Len(groups')
               PROVE  1 <= groups'[i].start /\ groups'[i].start <= groups'[i].end
                      /\ groups'[i].end <= input.length
    BY DEF Proper
  <2> QED
    BY <1>1, <1>6, <1>9 DEF GroupsOK, Proper
<1>11. Adds(groups)'
  <2> SUFFICES ASSUME NEW i \in 1 .. Len(groups'), NEW j \in 1 .. Len(groups'), i < j
               PROVE  groups'[i].end < groups'[j].end
    BY DEF Adds
  <2>1. i \in 1 .. Len(groups) /\ groups'[i] = groups[i]
    BY <1>2, <1>8
  <2> QED
    BY <1>1, <1>3, <1>9, <2>1 DEF GroupsOK, Adds, EndsBefore
<1>12. AllBounded(groups)'
  <2> SUFFICES ASSUME NEW i \in 1 .. Len(groups') PROVE Bounded(groups'[i])
    BY DEF AllBounded, Bounded, IsOneOfSeveral, Piece, SentenceStarts, Length
  <2> QED
    BY <1>1, <1>7, <1>9 DEF GroupsOK, AllBounded
<1>13. ASSUME NEW i \in 1 .. Len(groups') PROVE groups'[i].end <= current.end
  <2>1. CASE i \in 1 .. Len(groups) /\ groups'[i] = groups[i]
    <3>1. groups[i].end < current.end /\ groups[i].end \in Nat
      BY <1>2, <1>3, <2>1 DEF EndsBefore
    <3> QED
      BY <1>2, <2>1, <3>1
  <2>2. CASE groups'[i] = current
    BY <1>2, <2>2
  <2> QED
    BY <1>9, <2>1, <2>2
<1>14. ASSUME NEW i \in 1 .. next - 1, NEW t \in spans[i].start .. spans[i].end
       PROVE  \E g \in 1 .. Len(groups') : Within(t, groups'[g])
  <2>1. CASE Within(t, current)
    <3>1. Len(groups) + 1 \in 1 .. Len(groups')
      BY <1>2, <1>8
    <3> QED
      BY <1>8, <2>1, <3>1
  <2>2. CASE \E g \in 1 .. Len(groups) : Within(t, groups[g])
    <3>1. PICK g \in 1 .. Len(groups) : Within(t, groups[g])
      BY <2>2
    <3>2. g \in 1 .. Len(groups')
      BY <1>2, <1>8
    <3> QED
      BY <1>8, <3>1, <3>2
  <2> QED
    BY <1>3, <2>1, <2>2 DEF Kept
<1> QED
  BY <1>8, <1>10, <1>11, <1>12, <1>13, <1>14 DEF GroupsOK

LEMMA GroupIInv == IInv /\ Group => IInv'
<1> SUFFICES ASSUME IInv, Group PROVE IInv'
  OBVIOUS
<1>1. /\ TypeOK /\ SpansOK /\ GroupsOK /\ ChunksOK /\ phase = "group"
      /\ next \in 2 .. Len(spans) /\ next' = next + 1
      /\ UNCHANGED <<input, phase, cut, until, spans, title, chunks>>
  BY DEF IInv, Group
<1>2. /\ input.length \in Nat /\ input.max \in Nat
      /\ next \in Nat /\ Len(spans) \in Nat /\ Len(groups) \in Nat
      /\ current \in Spans /\ current.start \in Nat /\ current.end \in Nat
      /\ \A i \in 1 .. Len(spans) : spans[i] \in Spans
                                    /\ spans[i].start \in Nat /\ spans[i].end \in Nat
      /\ \A i \in 1 .. Len(groups) : groups[i].start \in Nat /\ groups[i].end \in Nat
  BY <1>1, GroupFacts
<1>3. /\ 1 <= current.start /\ current.start <= spans[next - 1].start
      /\ current.end = spans[next - 1].end
      /\ Length(current) <= input.max \/ current = spans[next - 1]
      /\ EndsBefore(groups, current.end) /\ Kept /\ Covers(spans, input.length)
  BY <1>1, <1>2 DEF IInv, GroupOK
<1>4. next \in 1 .. Len(spans) /\ next - 1 \in 1 .. Len(spans) /\ next > 1
      /\ next - 1 \in 1 .. Len(spans) - 1 /\ next - 1 < next /\ (next - 1) + 1 = next
  BY <1>1, <1>2
<1>5. /\ spans[next - 1].start <= spans[next].start
      /\ \/ spans[next - 1].end < spans[next].end
         \/ spans[next - 1].end = spans[next].end /\ ~spans[next].heading
            /\ Length(spans[next - 1]) <= input.max
  BY <1>1, <1>4 DEF SpansOK, Ordered, Linked
<1>6. /\ 1 <= spans[next].start /\ spans[next].start <= spans[next].end
      /\ spans[next].start \in Nat /\ spans[next].end \in Nat /\ spans[next] \in Spans
  BY <1>1, <1>2, <1>4 DEF SpansOK, Proper
<1>7. Covers(spans, input.length)' /\ next' - 1 = next /\ 1 <= next' /\ next' # 1
      /\ next' <= Len(spans') + 1
  <2>1. Covers(spans, input.length)' /\ Len(spans') = Len(spans)
    BY <1>1, <1>3 DEF Covers
  <2>2. next' = next + 1 /\ 2 <= next /\ next <= Len(spans)
    BY <1>1, <1>2
  <2> QED
    BY <1>2, <2>1, <2>2
<1>8. CASE Joins(spans[next])
  <2>1. current' = [current EXCEPT !.end = spans[next].end] /\ UNCHANGED groups
    BY <1>1, <1>8 DEF Group
  <2>2. current' \in Spans /\ current'.start = current.start /\ current'.end = spans[next].end
    <3>1. /\ current = [start |-> current.start, end |-> current.end, heading |-> current.heading]
          /\ current.heading \in BOOLEAN
      BY <1>2 DEF Spans
    <3>2. current' = [start |-> current.start, end |-> spans[next].end,
                      heading |-> current.heading]
      BY <2>1, <3>1
    <3> QED
      BY <1>2, <1>6, <3>1, <3>2 DEF Spans
  <2>3. Length(current') <= input.max
    BY <1>8, <2>2 DEF Joins, Fits, Length
  <2>4. current.end <= current'.end
    BY <1>2, <1>3, <1>4, <1>5, <1>6, <2>2
  <2>5. EndsBefore(groups, current.end)'
    <3> SUFFICES ASSUME NEW i \in 1 .. Len(groups) PROVE groups[i].end < current'.end
      BY <2>1 DEF EndsBefore
    <3>1. groups[i].end < current.end /\ groups[i].end \in Nat
      BY <1>2, <1>3 DEF EndsBefore
    <3> QED
      BY <1>2, <1>6, <2>2, <2>4, <3>1
  <2>6. current'.start <= spans[next].start
    BY <1>2, <1>3, <1>4, <1>5, <1>6, <2>2
  <2>7. Kept'
    <3> SUFFICES ASSUME NEW i \in 1 .. next, NEW t \in spans[i].start .. spans[i].end
                 PROVE  Within(t, current') \/ \E g \in 1 .. Len(groups) : Within(t, groups[g])
      BY <1>1, <1>7, <2>1 DEF Kept, Within
    <3>1. CASE i = next
      BY <1>2, <1>6, <2>2, <2>6, <3>1 DEF Within
    <3>2. CASE i # next
      <4>1. i \in 1 .. next - 1 /\ i \in 1 .. Len(spans)
        BY <1>1, <1>2, <3>2
      <4>2. t \in Int
        BY <1>2, <4>1
      <4>3. Within(t, current) => Within(t, current')
        BY <1>2, <1>6, <2>2, <2>4, <4>2 DEF Within
      <4> QED
        BY <1>3, <4>1, <4>3 DEF Kept
    <3> QED
      BY <3>1, <3>2
  <2>8. GroupOK'
    BY <1>1, <1>3, <1>7, <2>1, <2>2, <2>3, <2>5, <2>6, <2>7 DEF GroupOK, Length
  <2>9. TypeOK'
    BY <1>1, <1>2, <1>7, <2>1, <2>2 DEF TypeOK
  <2> QED
    BY <1>1, <2>1, <2>8, <2>9, KeepsChunks, KeepsSpans
       DEF IInv, Pass, SplitOK, CutOK, JoinOK, EmitOK, WindowsOK
<1>9. CASE ~Joins(spans[next])
  <2>1. current' = spans[next] /\ groups' = Append(groups, current)
    BY <1>1, <1>9 DEF Group
  <2>2. /\ GroupsOK' /\ groups' \in Seq(Spans)
        /\ \A i \in 1 .. Len(groups') : groups'[i].end <= current.end
        /\ \A i \in 1 .. next - 1 : \A t \in spans[i].start .. spans[i].end :
             \E g \in 1 .. Len(groups') : Within(t, groups'[g])
    BY <1>1, <1>4, <2>1, AppendGroup
  <2>3. current.end < spans[next].end
    <3>1. SUFFICES ASSUME spans[next - 1].end = spans[next].end, ~spans[next].heading,
                          Length(spans[next - 1]) <= input.max
                   PROVE  FALSE
      BY <1>3, <1>5
    <3>2. Length(current) <= input.max
      BY <1>3, <3>1
    <3>3. Length(current) = spans[next].end - current.start + 1
      BY <1>3, <3>1 DEF Length
    <3> QED
      BY <1>9, <3>1, <3>2, <3>3 DEF Joins, Fits
  <2>4. EndsBefore(groups, current.end)'
    <3> SUFFICES ASSUME NEW i \in 1 .. Len(groups') PROVE groups'[i].end < spans[next].end
      BY <2>1 DEF EndsBefore
    <3>1. groups'[i].end \in Nat
      BY <2>2, SpansFacts
    <3> QED
      BY <1>2, <1>6, <2>2, <2>3, <3>1
  <2>5. Kept'
    <3> SUFFICES ASSUME NEW i \in 1 .. next, NEW t \in spans[i].start .. spans[i].end
                 PROVE  Within(t, spans[next])
                        \/ \E g \in 1 .. Len(groups') : Within(t, groups'[g])
      BY <1>1, <1>7, <2>1 DEF Kept, Within
    <3>1. CASE i = next
      BY <3>1 DEF Within
    <3>2. CASE i # next
      <4>1. i \in 1 .. next - 1
        BY <1>1, <1>2, <3>2
      <4> QED
        BY <2>2, <4>1
    <3> QED
      BY <3>1, <3>2
  <2>6. GroupOK'
    <3>1. current'.start <= spans'[next' - 1].start /\ current' = spans'[next' - 1]
          /\ 1 <= current'.start
      BY <1>1, <1>6, <1>7, <2>1
    <3> QED
      BY <1>1, <1>7, <2>4, <2>5, <3>1 DEF GroupOK
  <2>7. TypeOK'
    BY <1>1, <1>2, <1>6, <1>7, <2>1, <2>2 DEF TypeOK
  <2>8. ChunksOK'
    BY <1>1 DEF ChunksOK, EveryChunkAdds, SizeIsBounded, EveryTokenIsChunked, Done,
       Length, IsOneOfSeveral, Piece, SentenceStarts
  <2> QED
    BY <1>1, <2>2, <2>6, <2>7, <2>8, KeepsSpans
       DEF IInv, Pass, SplitOK, CutOK, JoinOK, EmitOK, WindowsOK
<1> QED
  BY <1>8, <1>9

LEMMA EndGroupIInv == IInv /\ EndGroup => IInv'
<1> SUFFICES ASSUME IInv, EndGroup PROVE IInv'
  OBVIOUS
<1>1. /\ TypeOK /\ SpansOK /\ GroupsOK /\ ChunksOK /\ phase = "group" /\ phase' = "emit"
      /\ next > Len(spans) /\ groups' = AllGroups /\ current' = Nothing /\ next' = 1
      /\ chunks = << >>
      /\ UNCHANGED <<input, cut, until, spans, title, chunks>>
  BY DEF IInv, Pass, EndGroup
<1>2. /\ input.length \in Nat /\ next \in Nat /\ Len(spans) \in Nat
      /\ 1 <= next /\ next <= Len(spans) + 1 /\ Covers(spans, input.length)
      /\ spans \in Seq(Spans) /\ groups \in Seq(Spans)
  BY <1>1, GroupFacts DEF IInv, GroupOK, TypeOK
<1>3. GroupsOK' /\ groups' \in Seq(Spans) /\ Covers(groups', input.length)
  <2>1. CASE spans = << >>
    <3>1. groups' = groups /\ Len(spans) = 0
      BY <1>1, <2>1 DEF AllGroups
    <3>2. Covers(groups', input.length)
      BY <1>2, <3>1 DEF Covers
    <3>3. GroupsOK'
      BY <1>1, <3>1 DEF GroupsOK, Proper, Adds, AllBounded, Bounded, Length, IsOneOfSeveral, Piece, SentenceStarts
    <3> QED
      BY <1>2, <3>1, <3>2, <3>3
  <2>2. CASE spans # << >>
    <3>1. groups' = Append(groups, current)
      BY <1>1, <2>2 DEF AllGroups
    <3>2. Len(spans) # 0
      BY <1>2, <2>2
    <3>3. next > 1 /\ next - 1 = Len(spans)
      BY <1>1, <1>2, <3>2
    <3>4. /\ GroupsOK' /\ groups' \in Seq(Spans)
          /\ \A i \in 1 .. next - 1 : \A t \in spans[i].start .. spans[i].end :
               \E g \in 1 .. Len(groups') : Within(t, groups'[g])
      BY <1>1, <3>1, <3>3, AppendGroup
    <3>5. Covers(groups', input.length)
      BY <1>2, <3>3, <3>4 DEF Covers, Within
    <3> QED
      BY <3>4, <3>5
  <2> QED
    BY <2>1, <2>2
<1>4. EmitOK'
  <2>1. Len(groups') \in Nat /\ Len(chunks) = 0
    BY <1>1, <1>3
  <2> QED
    BY <1>1, <1>3, <2>1 DEF EmitOK, Covers
<1>5. TypeOK'
  BY <1>1, <1>3 DEF TypeOK, Nothing, Span, Spans
<1>6. ChunksOK'
  BY <1>1 DEF ChunksOK, EveryChunkAdds, SizeIsBounded, EveryTokenIsChunked, Done,
     Length, IsOneOfSeveral, Piece, SentenceStarts
<1> QED
  BY <1>1, <1>3, <1>4, <1>5, <1>6, KeepsSpans
     DEF IInv, Pass, SplitOK, CutOK, JoinOK, GroupOK, WindowsOK

\* A chunk that reaches back no further than the overlap from a bounded group is bounded.
LEMMA ChunkIsBounded ==
  ASSUME NEW g \in Spans, NEW c, g.start \in Nat, g.end \in Nat, g.start <= g.end,
         c.start \in Nat, c.end = g.end,
         c.start <= g.start, g.start <= c.start + input.overlap,
         input.max \in Nat, input.overlap \in Nat, Bounded(g)
  PROVE  \/ Length(c) <= input.max + input.overlap
         \/ \E s \in c.start .. c.end :
              s <= c.start + input.overlap /\ IsOneOfSeveral(s, c.end)
<1>1. CASE Length(g) <= input.max
  BY <1>1 DEF Length
<1>2. CASE IsOneOfSeveral(g.start, g.end)
  <2>1. g.start \in c.start .. c.end
    OBVIOUS
  <2> QED
    BY <1>2, <2>1
<1> QED
  BY <1>1, <1>2 DEF Bounded

\* What a new chunk has to satisfy for the invariants of the chunks to hold.
LEMMA AppendChunk ==
  ASSUME TypeOK, ChunksOK, NEW c \in Chunks, chunks' = Append(chunks, c), UNCHANGED input,
         \A i \in 1 .. Len(chunks) : chunks[i].end < c.end,
         \/ Length(c) <= input.max + input.overlap
         \/ \E s \in c.start .. c.end :
              s <= c.start + input.overlap /\ IsOneOfSeveral(s, c.end)
  PROVE  EveryChunkAdds' /\ SizeIsBounded' /\ chunks' \in Seq(Chunks)
<1>1. chunks \in Seq(Chunks)
  BY DEF TypeOK
<1>2. /\ chunks' \in Seq(Chunks) /\ Len(chunks) \in Nat /\ Len(chunks') = Len(chunks) + 1
      /\ \A k \in 1 .. Len(chunks) : chunks'[k] = chunks[k]
      /\ chunks'[Len(chunks) + 1] = c
  BY <1>1, AppendFacts
<1>3. \A i \in 1 .. Len(chunks') : (i \in 1 .. Len(chunks) /\ chunks'[i] = chunks[i])
                                \/ (i = Len(chunks) + 1 /\ chunks'[i] = c)
  BY <1>1, AppendCases
<1>4. EveryChunkAdds'
  <2> SUFFICES ASSUME NEW i \in 1 .. Len(chunks'), NEW j \in 1 .. Len(chunks'), i < j
               PROVE  chunks'[i].end < chunks'[j].end
    BY DEF EveryChunkAdds
  <2>1. i \in 1 .. Len(chunks) /\ chunks'[i] = chunks[i]
    BY <1>2
  <2> QED
    BY <1>3, <2>1 DEF ChunksOK, EveryChunkAdds
<1>5. SizeIsBounded'
  <2>1. \A s, t : IsOneOfSeveral(s, t)' <=> IsOneOfSeveral(s, t)
    BY DEF IsOneOfSeveral, Piece, SentenceStarts
  <2> SUFFICES ASSUME NEW i \in 1 .. Len(chunks')
               PROVE  \/ Length(chunks'[i]) <= input.max + input.overlap
                      \/ \E s \in chunks'[i].start .. chunks'[i].end :
                           /\ s <= chunks'[i].start + input.overlap
                           /\ IsOneOfSeveral(s, chunks'[i].end)
    BY <2>1 DEF SizeIsBounded, Length
  <2> QED
    BY <1>3 DEF ChunksOK, SizeIsBounded
<1> QED
  BY <1>2, <1>4, <1>5

LEMMA ChunkFields ==
  ASSUME NEW a \in Nat, NEW b \in Nat, NEW h \in BOOLEAN, NEW t \in Nat
  PROVE  /\ Chunk(a, b, h, t) \in Chunks
         /\ Chunk(a, b, h, t).start = a /\ Chunk(a, b, h, t).end = b
  BY DEF Chunk, Chunks

LEMMA EmitIInv == IInv /\ Emit => IInv'
<1> SUFFICES ASSUME IInv, Emit PROVE IInv'
  OBVIOUS
<1> DEFINE first == OverlappedStart(next)
           section == LeadingTitle(first, groups[next].end, title)
           c == Chunk(first, groups[next].end, groups[next].heading, section)
<1>1. /\ TypeOK /\ SpansOK /\ GroupsOK /\ ChunksOK /\ phase = "emit" /\ next <= Len(groups)
      /\ chunks' = Append(chunks, c) /\ title' = section /\ next' = next + 1
      /\ UNCHANGED <<input, phase, cut, until, current, spans, groups>>
  BY DEF IInv, Emit
<1>2. /\ input.length \in Nat /\ input.max \in Nat /\ input.overlap \in Nat
      /\ next \in Nat /\ title \in Nat /\ groups \in Seq(Spans) /\ chunks \in Seq(Chunks)
      /\ Len(groups) \in Nat /\ Len(chunks) \in Nat
  BY <1>1, InputFacts DEF TypeOK
<1>3. /\ Covers(groups, input.length) /\ 1 <= next /\ Len(chunks) = next - 1
      /\ \A i \in 1 .. Len(chunks) :
           chunks[i].end = groups[i].end /\ chunks[i].start <= groups[i].start
  BY <1>1 DEF IInv, EmitOK
<1>4. next \in 1 .. Len(groups)
  BY <1>1, <1>2, <1>3
<1>5. /\ groups[next] \in Spans /\ groups[next].start \in Nat /\ groups[next].end \in Nat
      /\ groups[next].heading \in BOOLEAN /\ Bounded(groups[next])
      /\ 1 <= groups[next].start /\ groups[next].start <= groups[next].end
  BY <1>1, <1>2, <1>4, SpansFacts DEF GroupsOK, Proper, AllBounded
<1>6. /\ first \in Nat /\ first <= groups[next].start
      /\ groups[next].start <= first + input.overlap
  <2>1. CASE next = 1 \/ groups[next].heading
    BY <1>2, <1>5, <2>1 DEF OverlappedStart
  <2>2. CASE ~(next = 1 \/ groups[next].heading)
    <3>1. CASE groups[next].start > input.overlap
      <4>1. first = groups[next].start - input.overlap
        BY <2>2, <3>1 DEF OverlappedStart
      <4> HIDE DEF first
      <4> QED
        BY <1>2, <1>5, <3>1, <4>1
    <3>2. CASE ~(groups[next].start > input.overlap)
      <4>1. first = 1
        BY <2>2, <3>2 DEF OverlappedStart
      <4> HIDE DEF first
      <4> QED
        BY <1>2, <1>5, <3>2, <4>1
    <3> QED
      BY <3>1, <3>2
  <2> QED
    BY <2>1, <2>2
<1> HIDE DEF first
<1>7. section \in Nat
  BY <1>2, <1>6 DEF LeadingTitle
<1> HIDE DEF section
<1>8. c \in Chunks /\ c.start = first /\ c.end = groups[next].end
  BY <1>5, <1>6, <1>7, ChunkFields
<1> HIDE DEF c
<1>9. \A i \in 1 .. Len(chunks) : chunks[i].end < c.end
  <2> SUFFICES ASSUME NEW i \in 1 .. Len(chunks) PROVE groups[i].end < groups[next].end
    BY <1>3, <1>8
  <2>1. i \in 1 .. Len(groups) /\ i < next
    BY <1>2, <1>3, <1>4
  <2> QED
    BY <1>1, <1>4, <2>1 DEF GroupsOK, Adds
<1>10. \/ Length(c) <= input.max + input.overlap
       \/ \E s \in c.start .. c.end :
            s <= c.start + input.overlap /\ IsOneOfSeveral(s, c.end)
  BY <1>2, <1>5, <1>6, <1>8, ChunkIsBounded
<1>11. EveryChunkAdds' /\ SizeIsBounded' /\ chunks' \in Seq(Chunks)
  BY <1>1, <1>8, <1>9, <1>10, AppendChunk
<1>12. ChunksOK'
  BY <1>1, <1>11 DEF ChunksOK, EveryTokenIsChunked, Done
<1>13. EmitOK'
  <2>1. Len(chunks') = next' - 1 /\ 1 <= next' /\ next' <= Len(groups) + 1
    BY <1>1, <1>2, <1>3, <1>8
  <2>2. ASSUME NEW i \in 1 .. Len(chunks')
        PROVE  chunks'[i].end = groups[i].end /\ chunks'[i].start <= groups[i].start
    <3>1. (i \in 1 .. Len(chunks) /\ chunks'[i] = chunks[i]) \/ (i = next /\ chunks'[i] = c)
      <4>1. (i \in 1 .. Len(chunks) /\ chunks'[i] = chunks[i])
            \/ (i = Len(chunks) + 1 /\ chunks'[i] = c)
        BY <1>1, <1>2, <1>8, AppendCases
      <4>2. Len(chunks) + 1 = next
        BY <1>2, <1>3
      <4> QED
        BY <4>1, <4>2
    <3> QED
      BY <1>3, <1>6, <1>8, <3>1
  <2> QED
    BY <1>1, <1>3, <2>1, <2>2 DEF EmitOK, Covers
<1>14. TypeOK'
  BY <1>1, <1>2, <1>7, <1>11 DEF TypeOK
<1>15. GroupsOK'
  BY <1>1 DEF GroupsOK, Proper, Adds, AllBounded, Bounded, Length, IsOneOfSeveral, Piece, SentenceStarts
<1> QED
  BY <1>1, <1>12, <1>13, <1>14, <1>15, KeepsSpans
     DEF IInv, Pass, SplitOK, CutOK, JoinOK, GroupOK, WindowsOK

LEMMA EndEmitIInv == IInv /\ EndEmit => IInv'
<1> SUFFICES ASSUME IInv, EndEmit PROVE IInv'
  OBVIOUS
<1>1. /\ TypeOK /\ SpansOK /\ GroupsOK /\ ChunksOK /\ phase = "emit" /\ phase' = "done"
      /\ next > Len(groups)
      /\ UNCHANGED <<input, cut, until, current, spans, next, groups, title, chunks>>
  BY DEF IInv, EndEmit
<1>2. /\ input.length \in Nat /\ next \in Nat /\ Len(groups) \in Nat
      /\ groups \in Seq(Spans) /\ chunks \in Seq(Chunks)
  BY <1>1, InputFacts DEF TypeOK
<1>3. /\ Covers(groups, input.length) /\ next <= Len(groups) + 1 /\ Len(chunks) = next - 1
      /\ \A i \in 1 .. Len(chunks) :
           chunks[i].end = groups[i].end /\ chunks[i].start <= groups[i].start
  BY <1>1 DEF IInv, EmitOK
<1>4. Len(chunks) = Len(groups)
  BY <1>1, <1>2, <1>3
<1>5. EveryTokenIsChunked'
  <2> SUFFICES ASSUME NEW t \in 1 .. input.length
               PROVE  \E i \in 1 .. Len(chunks) : Within(t, chunks[i])
    BY <1>1 DEF EveryTokenIsChunked, Within
  <2>1. PICK i \in 1 .. Len(groups) : Within(t, groups[i])
    BY <1>3 DEF Covers
  <2>2. /\ chunks[i].end = groups[i].end /\ chunks[i].start <= groups[i].start
        /\ chunks[i].start \in Nat /\ groups[i].start \in Nat /\ groups[i].end \in Nat
    <3>1. chunks[i] \in Chunks
      BY <1>2, <1>4
    <3>2. chunks[i].start \in Nat
      BY <3>1 DEF Chunks
    <3> QED
      BY <1>2, <1>3, <1>4, <3>2, SpansFacts
  <2>3. Within(t, chunks[i])
    BY <2>1, <2>2 DEF Within
  <2> QED
    BY <1>4, <2>3
<1>6. ChunksOK'
  BY <1>1, <1>5 DEF ChunksOK, EveryChunkAdds, SizeIsBounded, Length, IsOneOfSeveral, Piece, SentenceStarts
<1>7. TypeOK'
  BY <1>1 DEF TypeOK
<1>8. GroupsOK'
  BY <1>1 DEF GroupsOK, Proper, Adds, AllBounded, Bounded, Length, IsOneOfSeveral, Piece, SentenceStarts
<1> QED
  BY <1>1, <1>6, <1>7, <1>8, KeepsSpans
     DEF IInv, Pass, SplitOK, CutOK, JoinOK, GroupOK, EmitOK, WindowsOK

LEMMA TakeWindowIInv == IInv /\ TakeWindow => IInv'
<1> SUFFICES ASSUME IInv, TakeWindow PROVE IInv'
  OBVIOUS
<1> DEFINE w == WindowEnd(cut, input.length)
           section == LeadingTitle(cut, w, 0)
           c == Chunk(cut, w, FALSE, section)
<1>1. /\ TypeOK /\ SpansOK /\ GroupsOK /\ ChunksOK /\ phase = "windows" /\ cut <= input.length
      /\ chunks' = Append(chunks, c)
      /\ IF w >= input.length
         THEN phase' = "done" /\ cut' = cut
         ELSE cut' = cut + (input.max - input.overlap) /\ phase' = phase
      /\ UNCHANGED <<input, until, current, spans, next, groups, title>>
  BY DEF IInv, TakeWindow
<1>2. /\ input.length \in Nat /\ input.max \in Nat /\ 1 <= input.max
      /\ input.overlap \in Nat /\ input.overlap < input.max
      /\ cut \in Nat /\ chunks \in Seq(Chunks) /\ Len(chunks) \in Nat
  BY <1>1, InputFacts DEF TypeOK
<1>3. /\ Covers(chunks, cut - 1) /\ 1 <= cut
      /\ EndsBefore(chunks, cut + input.overlap) /\ EndsBefore(chunks, input.length)
  BY <1>1 DEF IInv, WindowsOK
<1>4. /\ w \in Nat /\ cut <= w /\ w <= input.length /\ w <= cut + input.max - 1
      /\ w = input.length \/ w = cut + input.max - 1
  BY <1>1, <1>2, WindowFacts
<1> HIDE DEF w
<1>5. c \in Chunks /\ c.start = cut /\ c.end = w
  <2>1. section \in Nat
    BY <1>2 DEF LeadingTitle
  <2> HIDE DEF section
  <2>2. cut \in Nat /\ w \in Nat
    BY <1>2, <1>4
  <2> QED
    BY <2>1, <2>2 DEF Chunk, Chunks
<1> HIDE DEF c
<1>6. ASSUME NEW i \in 1 .. Len(chunks)
      PROVE  chunks[i].end \in Nat /\ chunks[i].end < w
  <2>1. chunks[i] \in Chunks
    BY <1>2
  <2>2. chunks[i].end \in Nat
    BY <2>1 DEF Chunks
  <2>3. chunks[i].end < cut + input.overlap /\ chunks[i].end < input.length
    BY <1>3 DEF EndsBefore
  <2> QED
    BY <1>2, <1>4, <2>2, <2>3
<1>7. EveryChunkAdds' /\ SizeIsBounded' /\ chunks' \in Seq(Chunks)
  <2>1. \A i \in 1 .. Len(chunks) : chunks[i].end < c.end
    BY <1>5, <1>6
  <2>2. Length(c) <= input.max + input.overlap
    BY <1>2, <1>4, <1>5 DEF Length
  <2> QED
    BY <1>1, <1>5, <2>1, <2>2, AppendChunk
<1>8. Covers(chunks', w)
  <2>1. c.start <= (cut - 1) + 1 /\ cut - 1 \in Int /\ w \in Int /\ w <= c.end
        /\ c.start \in Nat /\ c.end \in Nat
    BY <1>2, <1>4, <1>5
  <2> QED
    BY <1>1, <1>2, <1>3, <1>5, <2>1, AppendCovers
<1>9. GroupsOK'
  BY <1>1 DEF GroupsOK, Proper, Adds, AllBounded, Bounded, Length, IsOneOfSeveral, Piece, SentenceStarts
<1>10. CASE w >= input.length
  <2>1. phase' = "done" /\ cut' = cut
    BY <1>1, <1>10
  <2>2. w = input.length
    BY <1>2, <1>4, <1>10
  <2>3. ChunksOK'
    BY <1>1, <1>7, <1>8, <2>2 DEF ChunksOK, EveryTokenIsChunked, Covers, Within
  <2>4. TypeOK'
    BY <1>1, <1>7, <2>1 DEF TypeOK
  <2> QED
    BY <1>1, <1>9, <2>1, <2>3, <2>4, KeepsSpans
       DEF IInv, Pass, SplitOK, CutOK, JoinOK, GroupOK, EmitOK, WindowsOK
<1>11. CASE ~(w >= input.length)
  <2>1. cut' = cut + (input.max - input.overlap) /\ phase' = "windows"
    BY <1>1, <1>11
  <2>2. w = cut + input.max - 1 /\ w < input.length
    BY <1>2, <1>4, <1>11
  <2>3. /\ cut' \in Nat /\ 1 <= cut' /\ cut' <= input.length + 1
        /\ cut' - 1 <= w /\ w < cut' + input.overlap
    <3>1. 1 <= cut
      BY <1>3
    <3>2. /\ input.length \in Nat /\ input.max \in Nat /\ input.overlap \in Nat /\ cut \in Nat
          /\ input.overlap < input.max /\ cut' = cut + (input.max - input.overlap)
      BY <1>2, <2>1
    <3>3. w = cut + input.max - 1 /\ w < input.length
      BY <2>2
    <3> QED
      BY <3>1, <3>2, <3>3
  <2>4. Covers(chunks, cut - 1)'
    <3>1. cut' - 1 \in Int /\ cut' - 1 <= w
      BY <2>3
    <3>2. w \in Int
      BY <1>4
    <3>3. Covers(chunks', cut' - 1)
      BY <1>8, <3>1, <3>2, CoversLess
    <3> QED
      BY <3>3 DEF Covers, Within
  <2>5. ASSUME NEW i \in 1 .. Len(chunks') PROVE chunks'[i].end \in Nat /\ chunks'[i].end <= w
    <3>1. (i \in 1 .. Len(chunks) /\ chunks'[i] = chunks[i]) \/ chunks'[i] = c
      BY <1>1, <1>2, <1>5, AppendCases
    <3>2. CASE i \in 1 .. Len(chunks) /\ chunks'[i] = chunks[i]
      <4>1. chunks[i].end \in Nat /\ chunks[i].end < w
        BY <1>6, <3>2
      <4> QED
        BY <1>4, <3>2, <4>1
    <3>3. CASE chunks'[i] = c
      BY <1>4, <1>5, <3>3
    <3> QED
      BY <3>1, <3>2, <3>3
  <2>6. ASSUME NEW i \in 1 .. Len(chunks')
        PROVE  chunks'[i].end < cut' + input.overlap /\ chunks'[i].end < input.length
    <3>1. chunks'[i].end \in Nat /\ chunks'[i].end <= w
      BY <2>5
    <3>2. input.length \in Nat /\ input.overlap \in Nat /\ w \in Nat
      BY <1>2, <1>4
    <3> QED
      BY <2>2, <2>3, <3>1, <3>2
  <2>7. WindowsOK'
    BY <1>1, <2>3, <2>4, <2>6 DEF WindowsOK, EndsBefore
  <2>8. ChunksOK'
    BY <1>7, <2>1 DEF ChunksOK, EveryTokenIsChunked, Done
  <2>9. TypeOK'
    BY <1>1, <1>7, <2>1, <2>3 DEF TypeOK
  <2> QED
    BY <1>1, <1>9, <2>1, <2>7, <2>8, <2>9, KeepsSpans
       DEF IInv, Pass, SplitOK, CutOK, JoinOK, GroupOK, EmitOK
<1> QED
  BY <1>10, <1>11

LEMMA NoTokensIInv == IInv /\ NoTokens => IInv'
<1> SUFFICES ASSUME IInv, NoTokens PROVE IInv'
  OBVIOUS
<1>1. /\ TypeOK /\ SpansOK /\ GroupsOK /\ ChunksOK /\ input.length = 0 /\ phase' = "done"
      /\ UNCHANGED <<input, cut, until, current, spans, next, groups, title, chunks>>
  BY DEF IInv, NoTokens
<1>2. ChunksOK'
  BY <1>1 DEF ChunksOK, EveryChunkAdds, SizeIsBounded, EveryTokenIsChunked, Length,
     IsOneOfSeveral, Piece, SentenceStarts
<1>3. TypeOK'
  BY <1>1 DEF TypeOK
<1>4. GroupsOK'
  BY <1>1 DEF GroupsOK, Proper, Adds, AllBounded, Bounded, Length, IsOneOfSeveral, Piece, SentenceStarts
<1> QED
  BY <1>1, <1>2, <1>3, <1>4, KeepsSpans
     DEF IInv, Pass, SplitOK, CutOK, JoinOK, GroupOK, EmitOK, WindowsOK

LEMMA StutterIInv == IInv /\ UNCHANGED vars => IInv'
<1> SUFFICES ASSUME IInv, UNCHANGED vars PROVE IInv'
  OBVIOUS
<1>1. TypeOK' /\ SpansOK' /\ GroupsOK' /\ Pass'
  BY KeepsSpans DEF vars, IInv, TypeOK, GroupsOK, Pass, Proper, Adds, AllBounded, Bounded, Length,
     IsOneOfSeveral, Piece, SentenceStarts
<1>2. ChunksOK'
  BY DEF vars, IInv, ChunksOK, EveryChunkAdds, SizeIsBounded, EveryTokenIsChunked, Done, Within,
     Length, IsOneOfSeveral, Piece, SentenceStarts
<1>3. SplitOK' /\ CutOK' /\ JoinOK'
  BY DEF vars, IInv, SplitOK, CutOK, JoinOK, Covers, EndsBefore, EndsBlock, Within, Length, Step, Bounded,
     IsOneOfSeveral, Piece, SentenceStarts
<1>4. GroupOK' /\ EmitOK' /\ WindowsOK'
  BY DEF vars, IInv, GroupOK, EmitOK, WindowsOK, Kept, Covers, EndsBefore, Within, Length
<1> QED
  BY <1>1, <1>2, <1>3, <1>4 DEF IInv

LEMMA NextIInv == IInv /\ [Next]_vars => IInv'
  BY KeepBlockIInv, BeginWindowsIInv, BeginSentencesIInv, CutWindowIInv, JoinSentenceIInv,
     EndBlockIInv, EndSplitIInv, BeginGroupIInv, GroupIInv, EndGroupIInv, EmitIInv, EndEmitIInv,
     TakeWindowIInv, NoTokensIInv, StutterIInv DEF Next

-----------------------------------------------------------------------------
\* The headings that open a chunk, and the spans, groups and chunks that carry them.

\* A heading whose block fits or has several sentences.
Opens(h) ==
  /\ h \in input.headings
  /\ \E end \in h .. input.length :
       /\ Piece(input.blocks, h, end)
       /\ Fits(h, end) \/ \E t \in (h + 1) .. end : t \in input.sentences

OpenedBy(span, h) == span.start = h /\ span.heading
Opened(s, h) == \E i \in 1 .. Len(s) : OpenedBy(s[i], h)

TitledBy(chunk, h) ==
  OpenedBy(chunk, h) /\ (<<h, chunk.end>> \in input.titles => chunk.title = h)

\* Each pass has kept the headings it is past.
SpansOpen ==
  /\ phase = "split" => \A h \in input.headings : Opens(h) /\ h < cut => Opened(spans, h)
  /\ phase = "cut" => \A h \in input.headings : Opens(h) /\ h <= until => Opened(spans, h)
  /\ phase = "join" =>
       \A h \in input.headings : Opens(h) /\ h <= until => Opened(spans, h) \/ OpenedBy(current, h)
  /\ phase = "group" => \A h \in input.headings : Opens(h) => Opened(spans, h)

GroupsOpen ==
  /\ phase = "group" =>
       \A i \in 1 .. next - 1 : spans[i].heading =>
         Opened(groups, spans[i].start) \/ OpenedBy(current, spans[i].start)
  /\ phase = "emit" =>
       /\ \A h \in input.headings : Opens(h) => Opened(groups, h)
       /\ \A i \in 1 .. next - 1 : groups[i].heading /\ groups[i].start \in input.headings =>
            TitledBy(chunks[i], groups[i].start)

ChunksOpen ==
  /\ input.structured => phase # "windows"
  /\ Done /\ input.structured =>
       \A h \in input.headings : Opens(h) => \E i \in 1 .. Len(chunks) : TitledBy(chunks[i], h)

HeadingsKept == SpansOpen /\ GroupsOpen /\ ChunksOpen

LEMMA OpensStays ==
  ASSUME UNCHANGED input
  PROVE  \A h : Opens(h)' <=> Opens(h)
  BY DEF Opens, Piece, Fits

LEMMA AppendOpened ==
  ASSUME NEW S, NEW s \in Seq(S), NEW e \in S, NEW h
  PROVE  /\ Opened(s, h) => Opened(Append(s, e), h)
         /\ OpenedBy(e, h) => Opened(Append(s, e), h)
<1>1. /\ Len(s) \in Nat /\ Len(Append(s, e)) = Len(s) + 1
      /\ \A i \in 1 .. Len(s) : Append(s, e)[i] = s[i]
      /\ Append(s, e)[Len(s) + 1] = e
  BY AppendFacts
<1>2. Len(s) + 1 \in 1 .. Len(Append(s, e)) /\ \A i \in 1 .. Len(s) : i \in 1 .. Len(Append(s, e))
  BY <1>1
<1>3. ASSUME Opened(s, h) PROVE Opened(Append(s, e), h)
  <2>1. PICK i \in 1 .. Len(s) : OpenedBy(s[i], h)
    BY <1>3 DEF Opened
  <2> QED
    BY <1>1, <1>2, <2>1 DEF Opened
<1>4. ASSUME OpenedBy(e, h) PROVE Opened(Append(s, e), h)
  BY <1>1, <1>2, <1>4 DEF Opened
<1> QED
  BY <1>3, <1>4

\* A block has one end, and no heading but the one it may start with.
LEMMA BlockFacts ==
  ASSUME input \in Inputs, NEW a \in Nat, NEW end \in a .. input.length,
         Piece(input.blocks, a, end)
  PROVE  /\ \A other \in a .. input.length : Piece(input.blocks, a, other) => other = end
         /\ \A h \in input.headings : h <= end => h <= a
<1>1. /\ input.length \in Nat /\ input.headings \subseteq input.blocks
      /\ input.blocks \subseteq 1 .. input.length
  BY InputsAssumption
<1>2. ASSUME NEW other \in a .. input.length, Piece(input.blocks, a, other) PROVE other = end
  <2>1. ~(other < end)
    <3> SUFFICES ASSUME other < end PROVE FALSE
      OBVIOUS
    <3>1. other + 1 \in (a + 1) .. end
      BY <1>1
    <3>2. other # input.length
      BY <1>1
    <3> QED
      BY <1>2, <3>1, <3>2 DEF Piece
  <2>2. ~(end < other)
    <3> SUFFICES ASSUME end < other PROVE FALSE
      OBVIOUS
    <3>1. end + 1 \in (a + 1) .. other
      BY <1>1
    <3>2. end # input.length
      BY <1>1
    <3> QED
      BY <1>2, <3>1, <3>2 DEF Piece
  <2> QED
    BY <1>1, <2>1, <2>2
<1>3. ASSUME NEW h \in input.headings, h <= end PROVE h <= a
  <2>1. h \in Nat /\ h \in input.blocks
    BY <1>1
  <2>2. h \notin (a + 1) .. end
    BY <2>1 DEF Piece
  <2> QED
    BY <1>1, <1>3, <2>1, <2>2
<1> QED
  BY <1>2, <1>3

LEMMA InitHeadings == Init => HeadingsKept
<1> SUFFICES ASSUME Init PROVE HeadingsKept
  OBVIOUS
<1>1. \A h \in input.headings : h \in Nat /\ ~(h < cut)
  BY InputsAssumption DEF Init
<1>2. SpansOpen
  BY <1>1 DEF Init, SpansOpen
<1> QED
  BY <1>2 DEF Init, GroupsOpen, ChunksOpen, HeadingsKept, Done

LEMMA KeepBlockHeadings == IInv /\ HeadingsKept /\ KeepBlock => HeadingsKept'
<1> SUFFICES ASSUME IInv, HeadingsKept, KeepBlock PROVE HeadingsKept'
  OBVIOUS
<1>1. /\ TypeOK /\ phase = "split"
      /\ UNCHANGED <<input, phase, until, current, next, groups, title, chunks>>
  BY DEF IInv, KeepBlock
<1>2. /\ input \in Inputs /\ input.length \in Nat /\ cut \in Nat /\ spans \in Seq(Spans)
      /\ \A h \in input.headings : h \in Nat
  BY <1>1, InputFacts, InputsAssumption DEF TypeOK
<1>3. PICK end \in cut .. input.length :
        /\ Piece(input.blocks, cut, end) /\ Fits(cut, end)
        /\ spans' = Append(spans, Span(cut, end, cut \in input.headings))
        /\ cut' = end + 1
  BY DEF KeepBlock
<1> DEFINE e == Span(cut, end, cut \in input.headings)
<1>4. e \in Spans /\ e.start = cut /\ e.heading = (cut \in input.headings)
  BY <1>2 DEF Spans, Span
<1>5. spans' = Append(spans, e)
  BY <1>3
<1> HIDE DEF e
<1>6. ASSUME NEW h \in input.headings, Opens(h), h < cut' PROVE Opened(spans', h)
  <2>1. h <= cut
    BY <1>2, <1>3, <1>6, BlockFacts
  <2>2. CASE h < cut
    <3>1. Opened(spans, h)
      BY <1>1, <1>6, <2>2 DEF HeadingsKept, SpansOpen
    <3> QED
      BY <1>2, <1>4, <1>5, <3>1, AppendOpened
  <2>3. CASE h = cut
    <3>1. OpenedBy(e, h)
      BY <1>4, <2>3 DEF OpenedBy
    <3> QED
      BY <1>2, <1>4, <1>5, <3>1, AppendOpened
  <2> QED
    BY <1>2, <2>1, <2>2, <2>3
<1>7. SpansOpen'
  BY <1>1, <1>6, OpensStays DEF SpansOpen, Opened, OpenedBy
<1> QED
  BY <1>1, <1>7 DEF HeadingsKept, GroupsOpen, ChunksOpen, Done

LEMMA BeginWindowsHeadings == IInv /\ HeadingsKept /\ BeginWindows => HeadingsKept'
<1> SUFFICES ASSUME IInv, HeadingsKept, BeginWindows PROVE HeadingsKept'
  OBVIOUS
<1>1. /\ TypeOK /\ phase = "split" /\ phase' = "cut"
      /\ UNCHANGED <<input, cut, current, spans, next, groups, title, chunks>>
  BY DEF IInv, BeginWindows
<1>2. /\ input \in Inputs /\ input.length \in Nat /\ cut \in Nat
      /\ \A h \in input.headings : h \in Nat
  BY <1>1, InputFacts, InputsAssumption DEF TypeOK
<1>3. PICK end \in cut .. input.length :
        /\ Piece(input.blocks, cut, end) /\ ~Fits(cut, end)
        /\ OneSentence(cut, end) /\ until' = end
  BY DEF BeginWindows
<1>4. ASSUME NEW h \in input.headings, Opens(h), h <= until' PROVE Opened(spans, h)
  <2>1. h <= cut
    BY <1>2, <1>3, <1>4, BlockFacts
  <2>2. h # cut
    <3> SUFFICES ASSUME h = cut PROVE FALSE
      OBVIOUS
    <3>1. PICK last \in cut .. input.length :
            /\ Piece(input.blocks, cut, last)
            /\ Fits(cut, last) \/ \E t \in (cut + 1) .. last : t \in input.sentences
      BY <1>4 DEF Opens
    <3>2. last = end
      BY <1>2, <1>3, <3>1, BlockFacts
    <3> QED
      BY <1>3, <3>1, <3>2 DEF OneSentence, Piece, SentenceStarts
  <2>3. h < cut
    BY <1>2, <2>1, <2>2
  <2> QED
    BY <1>1, <1>4, <2>3 DEF HeadingsKept, SpansOpen
<1>5. SpansOpen'
  BY <1>1, <1>4, OpensStays DEF SpansOpen, Opened, OpenedBy
<1> QED
  BY <1>1, <1>5 DEF HeadingsKept, GroupsOpen, ChunksOpen, Done

LEMMA CutWindowHeadings == IInv /\ HeadingsKept /\ CutWindow => HeadingsKept'
<1> SUFFICES ASSUME IInv, HeadingsKept, CutWindow PROVE HeadingsKept'
  OBVIOUS
<1> DEFINE e == Span(cut, WindowEnd(cut, until), FALSE)
<1>1. /\ TypeOK /\ phase = "cut" /\ cut <= until /\ 1 <= cut
      /\ spans' = Append(spans, e)
      /\ phase' = "cut" \/ (phase' = "split" /\ cut' = until + 1)
      /\ UNCHANGED <<input, until, current, next, groups, title, chunks>>
  BY DEF IInv, CutOK, CutWindow
<1>2. /\ input \in Inputs /\ input.max \in Nat /\ 1 <= input.max /\ cut \in Nat /\ until \in Nat
      /\ spans \in Seq(Spans) /\ \A h \in input.headings : h \in Nat
  <2>1. input \in Inputs /\ cut \in Nat /\ until \in Nat /\ spans \in Seq(Spans)
    BY <1>1 DEF TypeOK
  <2> QED
    BY <2>1, InputFacts, InputsAssumption
<1>3. e \in Spans
  <2>1. WindowEnd(cut, until) \in Nat
    BY <1>1, <1>2, WindowFacts
  <2> QED
    BY <1>2, <2>1, SpanFields
<1> HIDE DEF e
<1>4. ASSUME NEW h \in input.headings, Opens(h), h <= until PROVE Opened(spans', h)
  <2>1. Opened(spans, h)
    BY <1>1, <1>4 DEF HeadingsKept, SpansOpen
  <2> QED
    BY <1>1, <1>2, <1>3, <2>1, AppendOpened
<1>5. \A h \in input.headings : h < until + 1 => h <= until
  BY <1>2
<1>6. SpansOpen'
  BY <1>1, <1>4, <1>5, OpensStays DEF SpansOpen, Opened, OpenedBy
<1> QED
  BY <1>1, <1>6 DEF HeadingsKept, GroupsOpen, ChunksOpen, Done

LEMMA BeginSentencesHeadings == IInv /\ HeadingsKept /\ BeginSentences => HeadingsKept'
<1> SUFFICES ASSUME IInv, HeadingsKept, BeginSentences PROVE HeadingsKept'
  OBVIOUS
<1>1. /\ TypeOK /\ phase = "split" /\ phase' = "join"
      /\ UNCHANGED <<input, spans, next, groups, title, chunks>>
  BY DEF IInv, BeginSentences
<1>2. /\ input \in Inputs /\ input.length \in Nat /\ cut \in Nat
      /\ \A h \in input.headings : h \in Nat
  BY <1>1, InputFacts, InputsAssumption DEF TypeOK
<1>3. PICK end \in cut .. input.length :
        /\ Piece(input.blocks, cut, end) /\ until' = end
        /\ \E last \in cut .. end : current' = Span(cut, last, cut \in input.headings)
  BY DEF BeginSentences
<1>4. ASSUME NEW h \in input.headings, Opens(h), h <= until'
      PROVE  Opened(spans, h) \/ OpenedBy(current', h)
  <2>1. h <= cut
    BY <1>2, <1>3, <1>4, BlockFacts
  <2>2. CASE h < cut
    BY <1>1, <1>4, <2>2 DEF HeadingsKept, SpansOpen
  <2>3. CASE h = cut
    <3>1. PICK last \in cut .. end : current' = Span(cut, last, cut \in input.headings)
      BY <1>3
    <3>2. cut \in input.headings
      BY <2>3
    <3> QED
      BY <2>3, <3>1, <3>2 DEF OpenedBy, Span
  <2> QED
    BY <1>2, <2>1, <2>2, <2>3
<1>5. SpansOpen'
  BY <1>1, <1>4, OpensStays DEF SpansOpen, Opened, OpenedBy
<1> QED
  BY <1>1, <1>5 DEF HeadingsKept, GroupsOpen, ChunksOpen, Done

LEMMA JoinSentenceHeadings == IInv /\ HeadingsKept /\ JoinSentence => HeadingsKept'
<1> SUFFICES ASSUME IInv, HeadingsKept, JoinSentence PROVE HeadingsKept'
  OBVIOUS
<1>1. /\ TypeOK /\ phase = "join"
      /\ UNCHANGED <<input, phase, until, next, groups, title, chunks>>
  BY DEF IInv, JoinSentence
<1>2. spans \in Seq(Spans) /\ current \in Spans
  BY <1>1 DEF TypeOK
<1>3. PICK last \in cut .. until :
        \/ current' = [current EXCEPT !.end = last] /\ spans' = spans
        \/ spans' = Append(spans, current)
  BY DEF JoinSentence
<1>4. ASSUME NEW h \in input.headings, Opens(h), h <= until
      PROVE  Opened(spans', h) \/ OpenedBy(current', h)
  <2>1. Opened(spans, h) \/ OpenedBy(current, h)
    BY <1>1, <1>4 DEF HeadingsKept, SpansOpen
  <2>2. CASE current' = [current EXCEPT !.end = last] /\ spans' = spans
    BY <1>2, <2>1, <2>2 DEF OpenedBy, Opened, Spans
  <2>3. CASE spans' = Append(spans, current)
    BY <1>2, <2>1, <2>3, AppendOpened
  <2> QED
    BY <1>3, <2>2, <2>3
<1>5. SpansOpen'
  BY <1>1, <1>4, OpensStays DEF SpansOpen, Opened, OpenedBy
<1> QED
  BY <1>1, <1>5 DEF HeadingsKept, GroupsOpen, ChunksOpen, Done

LEMMA EndBlockHeadings == IInv /\ HeadingsKept /\ EndBlock => HeadingsKept'
<1> SUFFICES ASSUME IInv, HeadingsKept, EndBlock PROVE HeadingsKept'
  OBVIOUS
<1>1. /\ TypeOK /\ phase = "join" /\ phase' = "split" /\ cut <= until + 1
      /\ spans' = Append(spans, current)
      /\ UNCHANGED <<input, cut, until, next, groups, title, chunks>>
  BY DEF IInv, JoinOK, EndBlock
<1>2. /\ spans \in Seq(Spans) /\ current \in Spans /\ cut \in Nat /\ until \in Nat
      /\ \A h \in input.headings : h \in Nat
  BY <1>1, InputsAssumption DEF TypeOK
<1>3. ASSUME NEW h \in input.headings, Opens(h), h < cut PROVE Opened(spans', h)
  <2>1. h <= until
    BY <1>1, <1>2, <1>3
  <2>2. Opened(spans, h) \/ OpenedBy(current, h)
    BY <1>1, <1>3, <2>1 DEF HeadingsKept, SpansOpen
  <2> QED
    BY <1>1, <1>2, <2>2, AppendOpened
<1>4. SpansOpen'
  BY <1>1, <1>3, OpensStays DEF SpansOpen, Opened, OpenedBy
<1> QED
  BY <1>1, <1>4 DEF HeadingsKept, GroupsOpen, ChunksOpen, Done

LEMMA EndSplitHeadings == IInv /\ HeadingsKept /\ EndSplit => HeadingsKept'
<1> SUFFICES ASSUME IInv, HeadingsKept, EndSplit PROVE HeadingsKept'
  OBVIOUS
<1>1. /\ TypeOK /\ phase = "split" /\ phase' = "group" /\ cut > input.length /\ next = 1
      /\ UNCHANGED <<input, cut, until, current, spans, next, groups, title, chunks>>
  BY DEF IInv, Pass, EndSplit
<1>2. input.length \in Nat /\ cut \in Nat /\ \A h \in input.headings : h \in 1 .. input.length
  BY <1>1, InputFacts, InputsAssumption DEF TypeOK
<1>3. \A h \in input.headings : Opens(h) => Opened(spans, h)
  BY <1>1, <1>2 DEF HeadingsKept, SpansOpen
<1>4. SpansOpen'
  BY <1>1, <1>3, OpensStays DEF SpansOpen, Opened, OpenedBy
<1>5. GroupsOpen'
  BY <1>1 DEF GroupsOpen
<1> QED
  BY <1>1, <1>4, <1>5 DEF HeadingsKept, ChunksOpen, Done

LEMMA BeginGroupHeadings == IInv /\ HeadingsKept /\ BeginGroup => HeadingsKept'
<1> SUFFICES ASSUME IInv, HeadingsKept, BeginGroup PROVE HeadingsKept'
  OBVIOUS
<1>1. /\ phase = "group" /\ current' = spans[1] /\ next' = 2
      /\ UNCHANGED <<input, phase, cut, until, spans, groups, title, chunks>>
  BY DEF IInv, BeginGroup
<1>2. SpansOpen'
  BY <1>1, OpensStays DEF HeadingsKept, SpansOpen, Opened, OpenedBy
<1>3. \A i \in 1 .. next' - 1 : i = 1
  BY <1>1
<1>4. GroupsOpen'
  BY <1>1, <1>3 DEF GroupsOpen, OpenedBy
<1> QED
  BY <1>1, <1>2, <1>4 DEF HeadingsKept, ChunksOpen, Done

LEMMA GroupHeadings == IInv /\ HeadingsKept /\ Group => HeadingsKept'
<1> SUFFICES ASSUME IInv, HeadingsKept, Group PROVE HeadingsKept'
  OBVIOUS
<1>1. /\ TypeOK /\ phase = "group" /\ next \in 2 .. Len(spans) /\ next' = next + 1
      /\ \/ /\ ~spans[next].heading
            /\ current' = [current EXCEPT !.end = spans[next].end] /\ groups' = groups
         \/ current' = spans[next] /\ groups' = Append(groups, current)
      /\ UNCHANGED <<input, phase, cut, until, spans, title, chunks>>
  BY DEF IInv, Group, Joins
<1>2. groups \in Seq(Spans) /\ current \in Spans /\ next \in Nat
  BY <1>1 DEF TypeOK
<1>3. SpansOpen'
  BY <1>1, OpensStays DEF HeadingsKept, SpansOpen, Opened, OpenedBy
<1>4. ASSUME NEW i \in 1 .. next' - 1, spans[i].heading
      PROVE  Opened(groups', spans[i].start) \/ OpenedBy(current', spans[i].start)
  <2>1. ASSUME i \in 1 .. next - 1
        PROVE  Opened(groups, spans[i].start) \/ OpenedBy(current, spans[i].start)
    BY <1>1, <1>4, <2>1 DEF HeadingsKept, GroupsOpen
  <2>2. i \in 1 .. next - 1 \/ i = next
    BY <1>1, <1>2
  <2>3. CASE /\ ~spans[next].heading
             /\ current' = [current EXCEPT !.end = spans[next].end] /\ groups' = groups
    <3>1. i \in 1 .. next - 1
      BY <1>4, <2>2, <2>3
    <3> QED
      BY <1>2, <2>1, <2>3, <3>1 DEF OpenedBy, Opened, Spans
  <2>4. CASE current' = spans[next] /\ groups' = Append(groups, current)
    <3>1. CASE i = next
      BY <1>4, <2>4, <3>1 DEF OpenedBy
    <3>2. CASE i \in 1 .. next - 1
      BY <1>2, <2>1, <2>4, <3>2, AppendOpened
    <3> QED
      BY <2>2, <3>1, <3>2
  <2> QED
    BY <1>1, <2>3, <2>4
<1>5. GroupsOpen'
  BY <1>1, <1>4 DEF GroupsOpen, Opened, OpenedBy
<1> QED
  BY <1>1, <1>3, <1>5 DEF HeadingsKept, ChunksOpen, Done

LEMMA EndGroupHeadings == IInv /\ HeadingsKept /\ EndGroup => HeadingsKept'
<1> SUFFICES ASSUME IInv, HeadingsKept, EndGroup PROVE HeadingsKept'
  OBVIOUS
<1>1. /\ TypeOK /\ phase = "group" /\ phase' = "emit" /\ next > Len(spans)
      /\ next' = 1 /\ next <= Len(spans) + 1
      /\ spans # << >> => groups' = Append(groups, current)
      /\ UNCHANGED <<input, cut, until, spans, title, chunks>>
  BY DEF IInv, GroupOK, EndGroup, AllGroups
<1>2. /\ groups \in Seq(Spans) /\ current \in Spans /\ spans \in Seq(Spans)
      /\ next \in Nat /\ Len(spans) \in Nat
  BY <1>1 DEF TypeOK
<1>3. next = Len(spans) + 1
  BY <1>1, <1>2
<1>4. ASSUME NEW h \in input.headings, Opens(h) PROVE Opened(groups', h)
  <2>1. PICK i \in 1 .. Len(spans) : spans[i].start = h /\ spans[i].heading
    BY <1>1, <1>4 DEF HeadingsKept, SpansOpen, Opened, OpenedBy
  <2>2. groups' = Append(groups, current)
    BY <1>1, <1>2, <2>1
  <2>3. Opened(groups, h) \/ OpenedBy(current, h)
    BY <1>1, <1>2, <1>3, <2>1 DEF HeadingsKept, GroupsOpen
  <2> QED
    BY <1>2, <2>2, <2>3, AppendOpened
<1>5. GroupsOpen'
  BY <1>1, <1>4, OpensStays DEF GroupsOpen, Opened, OpenedBy
<1> QED
  BY <1>1, <1>5 DEF HeadingsKept, SpansOpen, ChunksOpen, Done

\* A group that is a heading reaches back for nothing, and no title before it is kept when
\* its own text has one.
LEMMA EmitHeadings == IInv /\ HeadingsKept /\ Emit => HeadingsKept'
<1> SUFFICES ASSUME IInv, HeadingsKept, Emit PROVE HeadingsKept'
  OBVIOUS
<1> DEFINE first == OverlappedStart(next)
           section == LeadingTitle(first, groups[next].end, title)
           c == Chunk(first, groups[next].end, groups[next].heading, section)
<1>1. /\ phase = "emit" /\ next <= Len(groups)
      /\ chunks' = Append(chunks, c) /\ next' = next + 1
      /\ UNCHANGED <<input, phase, cut, until, current, spans, groups>>
  BY DEF Emit
<1>2. TypeOK' /\ TypeOK /\ 1 <= next /\ Len(chunks) = next - 1
  BY <1>1, EmitIInv DEF IInv, EmitOK
<1>3. /\ next \in Nat /\ chunks \in Seq(Chunks) /\ chunks' \in Seq(Chunks)
      /\ Len(chunks) \in Nat
  BY <1>2 DEF TypeOK
<1>4. /\ Len(chunks') = next /\ chunks'[next] = c
      /\ \A i \in 1 .. next - 1 : chunks'[i] = chunks[i]
  <2>1. /\ Len(chunks') = Len(chunks) + 1 /\ chunks'[Len(chunks) + 1] = c
        /\ \A i \in 1 .. Len(chunks) : chunks'[i] = chunks[i]
    BY <1>1, <1>3
  <2>2. Len(chunks) + 1 = next
    BY <1>2, <1>3
  <2> QED
    BY <1>2, <2>1, <2>2
<1>5. ASSUME NEW i \in 1 .. next' - 1, groups[i].heading, groups[i].start \in input.headings
      PROVE  TitledBy(chunks'[i], groups[i].start)
  <2>1. i \in 1 .. next - 1 \/ i = next
    BY <1>1, <1>3
  <2>2. CASE i \in 1 .. next - 1
    BY <1>1, <1>4, <1>5, <2>2 DEF HeadingsKept, GroupsOpen
  <2>3. CASE i = next
    <3>1. first = groups[i].start
      BY <1>5, <2>3 DEF OverlappedStart
    <3>2. <<groups[i].start, groups[i].end>> \in input.titles => section = groups[i].start
      BY <2>3, <3>1 DEF LeadingTitle
    <3> QED
      BY <1>1, <1>4, <1>5, <2>3, <3>1, <3>2 DEF Chunk, TitledBy, OpenedBy
  <2> QED
    BY <2>1, <2>2, <2>3
<1>6. GroupsOpen'
  BY <1>1, <1>5, OpensStays DEF HeadingsKept, GroupsOpen, Opened, OpenedBy, TitledBy
<1> QED
  BY <1>1, <1>6 DEF HeadingsKept, SpansOpen, ChunksOpen, Done

LEMMA EndEmitHeadings == IInv /\ HeadingsKept /\ EndEmit => HeadingsKept'
<1> SUFFICES ASSUME IInv, HeadingsKept, EndEmit PROVE HeadingsKept'
  OBVIOUS
<1>1. /\ TypeOK /\ phase = "emit" /\ phase' = "done" /\ next > Len(groups)
      /\ next <= Len(groups) + 1 /\ Len(chunks) = next - 1
      /\ UNCHANGED <<input, cut, until, current, spans, next, groups, title, chunks>>
  BY DEF IInv, EmitOK, EndEmit
<1>2. next \in Nat /\ Len(groups) \in Nat
  BY <1>1 DEF TypeOK
<1>3. next - 1 = Len(groups) /\ Len(chunks) = Len(groups)
  BY <1>1, <1>2
<1>4. ASSUME NEW h \in input.headings, Opens(h)
      PROVE  \E i \in 1 .. Len(chunks) : TitledBy(chunks[i], h)
  <2>1. PICK i \in 1 .. Len(groups) : groups[i].start = h /\ groups[i].heading
    BY <1>1, <1>4 DEF HeadingsKept, GroupsOpen, Opened, OpenedBy
  <2>2. TitledBy(chunks[i], h)
    BY <1>1, <1>3, <2>1 DEF HeadingsKept, GroupsOpen
  <2> QED
    BY <1>3, <2>1, <2>2
<1>5. ChunksOpen'
  BY <1>1, <1>4, OpensStays DEF ChunksOpen, TitledBy, OpenedBy
<1> QED
  BY <1>1, <1>5 DEF HeadingsKept, SpansOpen, GroupsOpen

\* The other strategy has no headed chunks to keep.
LEMMA WindowsHeadings ==
  HeadingsKept /\ (TakeWindow \/ NoTokens) => HeadingsKept'
<1> SUFFICES ASSUME HeadingsKept, TakeWindow \/ NoTokens PROVE HeadingsKept'
  OBVIOUS
<1>1. phase = "windows" /\ phase' \in {"windows", "done"} /\ input' = input
  BY DEF TakeWindow, NoTokens
<1>2. ~input.structured
  BY <1>1 DEF HeadingsKept, ChunksOpen
<1> QED
  BY <1>1, <1>2 DEF HeadingsKept, SpansOpen, GroupsOpen, ChunksOpen

LEMMA NextHeadings == IInv /\ HeadingsKept /\ [Next]_vars => HeadingsKept'
<1>1. ASSUME HeadingsKept, UNCHANGED vars PROVE HeadingsKept'
  BY <1>1, OpensStays DEF vars, HeadingsKept, SpansOpen, GroupsOpen, ChunksOpen, Opened, OpenedBy,
     TitledBy, Done
<1> QED
  BY <1>1, KeepBlockHeadings, BeginWindowsHeadings, BeginSentencesHeadings, CutWindowHeadings,
     JoinSentenceHeadings, EndBlockHeadings, EndSplitHeadings, BeginGroupHeadings, GroupHeadings,
     EndGroupHeadings, EmitHeadings, EndEmitHeadings, WindowsHeadings DEF Next

-----------------------------------------------------------------------------
\* The inductive invariant of the three passes and of the plain windows: what the spans, the
\* groups and the chunks made so far hold, and how each begins and ends.
THEOREM Invariance == Spec => []IInv
  BY InitIInv, NextIInv, PTL DEF Spec

\* Whatever the text and the sizes, no token of it is missing from the chunks.
THEOREM NoTokenIsLost == Spec => []EveryTokenIsChunked
<1>1. IInv => EveryTokenIsChunked
  BY DEF IInv, ChunksOK
<1> QED
  BY <1>1, Invariance, PTL

\* Whatever the text and the sizes, a chunk reaches further than all before it.
THEOREM NoChunkRepeats == Spec => []EveryChunkAdds
<1>1. IInv => EveryChunkAdds
  BY DEF IInv, ChunksOK
<1> QED
  BY <1>1, Invariance, PTL

\* Whatever the text and the sizes, only a sentence that is too long, and one of several of
\* its block, makes a chunk too long.
THEOREM ChunksAreBounded == Spec => []SizeIsBounded
<1>1. IInv => SizeIsBounded
  BY DEF IInv, ChunksOK
<1> QED
  BY <1>1, Invariance, PTL

\* Whatever the text and the sizes, and whatever becomes of it when it is normalised, a
\* heading that no window has cut off opens a chunk, with nothing before it in the chunk,
\* and is its title if the normalised text still opens with one.
THEOREM SectionsOpenChunks == Spec => []SectionOpensChunk
<1>1. HeadingsKept => SectionOpensChunk
  BY DEF HeadingsKept, ChunksOpen, Opens, TitledBy, OpenedBy, SectionOpensChunk
<1>2. Spec => []HeadingsKept
  BY InitHeadings, NextHeadings, Invariance, PTL DEF Spec
<1> QED
  BY <1>1, <1>2, PTL
=============================================================================

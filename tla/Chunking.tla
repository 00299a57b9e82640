------------------------------ MODULE Chunking ------------------------------
(***************************************************************************)
(* How the text of a document is cut into chunks                           *)
(* (pipeline/orchestrator.py, called by services/chunking.py).  The text   *)
(* is a row of tokens 1 .. length; what the patterns find in it is where   *)
(* its blocks, sentences and headings start.  Blocks start at lines and    *)
(* sentences after white space, so that neither cuts a token.              *)
(*                                                                         *)
(* The structure-aware strategy takes three passes: blocks become spans    *)
(* that fit, spans are grouped, and groups become chunks that reach back   *)
(* into the text before them.  A step takes one block, sentence, window,   *)
(* span or group.                                                          *)
(***************************************************************************)
EXTENDS Integers, Sequences

CONSTANT Inputs  \* the documents and settings a behaviour may start with

\* blocks, sentences, headings: where they start; a heading's line starts a block.
\* titles: where a chunk would start and end whose text, once normalised, opens with a
\* heading.  The headings are sought in the text as it came: normalising turns runs of
\* spaces into separators, and a chunk may open or close within a line.
\* max, overlap: chunk_max_tokens, chunk_overlap_tokens; structured: the strategy.
ASSUME InputsAssumption ==
  \A in \in Inputs :
    /\ in.length \in Nat /\ in.max \in Nat \ {0} /\ in.overlap \in 0 .. in.max - 1
    /\ in.blocks \subseteq 1 .. in.length
    /\ in.length > 0 => 1 \in in.blocks
    /\ in.sentences \subseteq 2 .. in.length
    /\ in.headings \subseteq in.blocks
    /\ in.titles \subseteq (1 .. in.length) \X (1 .. in.length)
    /\ in.structured \in BOOLEAN

VARIABLES
  input,    \* the document and the settings
  phase,    \* what the builder does
  cut,      \* the first token it has not put into a span
  until,    \* the end of the block that it cuts into pieces
  current,  \* the span or group under construction, Nothing before the first
  spans,    \* the spans of the first pass
  next,     \* the span or group the later passes take next
  groups,   \* the groups of the second pass
  title,    \* the section the last chunk was in: its first token, 0 before the first
  chunks    \* the chunks

vars == <<input, phase, cut, until, current, spans, next, groups, title, chunks>>

Span(start, end, heading) == [start |-> start, end |-> end, heading |-> heading]
Nothing == Span(1, 0, FALSE)
Length(span) == span.end - span.start + 1

Fits(start, end) == end - start + 1 <= input.max

\* The tokens from start to end are one of the pieces that begin at starts.
Piece(starts, start, end) ==
  /\ end = input.length \/ end + 1 \in starts
  /\ \A t \in (start + 1) .. end : t \notin starts

SentenceStarts == input.blocks \cup input.sentences

\* Variant for testing SizeIsBounded: one sentence is a sequence of sentences, too.
NeverOne(start, end) == FALSE

OneSentence(start, end) == Piece(SentenceStarts, start, end)

Step == IF input.max - input.overlap > 1 THEN input.max - input.overlap ELSE 1

WindowEnd(start, end) == IF Fits(start, end) THEN end ELSE start + input.max - 1

-----------------------------------------------------------------------------
Init ==
  /\ input \in Inputs
  /\ phase = IF input.structured THEN "split" ELSE "windows"
  /\ cut = 1
  /\ until = 0
  /\ current = Nothing
  /\ spans = << >>
  /\ next = 1
  /\ groups = << >>
  /\ title = 0
  /\ chunks = << >>

\* First pass: a block that fits is a span; one that does not is cut into windows if it
\* is a single sentence, and else made of the sentences it starts with.
KeepBlock ==
  /\ phase = "split"
  /\ \E end \in cut .. input.length :
       /\ Piece(input.blocks, cut, end) /\ Fits(cut, end)
       /\ spans' = Append(spans, Span(cut, end, cut \in input.headings))
       /\ cut' = end + 1
  /\ UNCHANGED <<input, phase, until, current, next, groups, title, chunks>>

BeginWindows ==
  /\ phase = "split"
  /\ \E end \in cut .. input.length :
       /\ Piece(input.blocks, cut, end) /\ ~Fits(cut, end)
       /\ OneSentence(cut, end)
       /\ until' = end
  /\ phase' = "cut"
  /\ UNCHANGED <<input, cut, current, spans, next, groups, title, chunks>>

BeginSentences ==
  /\ phase = "split"
  /\ \E end \in cut .. input.length : \E last \in cut .. end :
       /\ Piece(input.blocks, cut, end) /\ ~Fits(cut, end)
       /\ ~OneSentence(cut, end) /\ Piece(SentenceStarts, cut, last)
       /\ until' = end
       /\ current' = Span(cut, last, cut \in input.headings)
       /\ cut' = last + 1
  /\ phase' = "join"
  /\ UNCHANGED <<input, spans, next, groups, title, chunks>>

\* The last window of a block may lie within the one before.
CutWindow ==
  /\ phase = "cut"
  /\ spans' = Append(spans, Span(cut, WindowEnd(cut, until), FALSE))
  /\ IF cut + Step > until
     THEN cut' = until + 1 /\ phase' = "split"
     ELSE cut' = cut + Step /\ UNCHANGED phase
  /\ UNCHANGED <<input, until, current, next, groups, title, chunks>>

\* Sentences are joined while they fit; one that is too long stays whole.
JoinSentence ==
  /\ phase = "join"
  /\ \E last \in cut .. until :
       /\ Piece(SentenceStarts, cut, last)
       /\ cut' = last + 1
       /\ IF Fits(current.start, last)
          THEN /\ current' = [current EXCEPT !.end = last]
               /\ UNCHANGED spans
          ELSE /\ current' = Span(cut, last, FALSE)
               /\ spans' = Append(spans, current)
  /\ UNCHANGED <<input, phase, until, next, groups, title, chunks>>

EndBlock ==
  /\ phase = "join" /\ cut > until
  /\ spans' = Append(spans, current)
  /\ current' = Nothing
  /\ phase' = "split"
  /\ UNCHANGED <<input, cut, until, next, groups, title, chunks>>

EndSplit ==
  /\ phase = "split" /\ cut > input.length
  /\ phase' = "group"
  /\ UNCHANGED <<input, cut, until, current, spans, next, groups, title, chunks>>

-----------------------------------------------------------------------------
\* Variant for testing SectionOpensChunk: headings are grouped like other spans.
JoinsAny(span) == Fits(current.start, span.end)

\* Variant for testing EveryChunkAdds: only what follows the group joins it.
JoinsAfter(span) == /\ ~span.heading
                    /\ span.start > current.end /\ Fits(current.start, span.end)

\* Second pass: a span joins the group unless it is a heading or does not fit.
Joins(span) == ~span.heading /\ Fits(current.start, span.end)

BeginGroup ==
  /\ phase = "group" /\ next = 1 /\ spans # << >>
  /\ current' = spans[1]
  /\ next' = 2
  /\ UNCHANGED <<input, phase, cut, until, spans, groups, title, chunks>>

Group ==
  /\ phase = "group" /\ next \in 2 .. Len(spans)
  /\ next' = next + 1
  /\ IF Joins(spans[next])
     THEN /\ current' = [current EXCEPT !.end = spans[next].end]
          /\ UNCHANGED groups
     ELSE /\ current' = spans[next]
          /\ groups' = Append(groups, current)
  /\ UNCHANGED <<input, phase, cut, until, spans, title, chunks>>

\* Variant for testing EveryTokenIsChunked: the group under construction is forgotten.
FinishedGroups == groups

\* The groups and the one under construction.
AllGroups == IF spans = << >> THEN groups ELSE Append(groups, current)

EndGroup ==
  /\ phase = "group" /\ next > Len(spans)
  /\ groups' = AllGroups
  /\ current' = Nothing
  /\ phase' = "emit"
  /\ next' = 1
  /\ UNCHANGED <<input, cut, until, spans, title, chunks>>

-----------------------------------------------------------------------------
\* A chunk is titled by the heading its normalised text opens with, and else by the section
\* of the chunk before it.
LeadingTitle(start, end, inherited) ==
  IF <<start, end>> \in input.titles THEN start ELSE inherited

\* Third pass: a group that is neither the first nor a heading reaches back.
OverlappedStart(i) ==
  IF i = 1 \/ groups[i].heading THEN groups[i].start
  ELSE IF groups[i].start > input.overlap THEN groups[i].start - input.overlap ELSE 1

Chunk(start, end, heading, section) ==
  [start |-> start, end |-> end, heading |-> heading, title |-> section]

Emit ==
  /\ phase = "emit" /\ next <= Len(groups)
  /\ LET start == OverlappedStart(next)
         section == LeadingTitle(start, groups[next].end, title)
     IN /\ chunks' = Append(chunks, Chunk(start, groups[next].end, groups[next].heading, section))
        /\ title' = section
  /\ next' = next + 1
  /\ UNCHANGED <<input, phase, cut, until, current, spans, groups>>

EndEmit ==
  /\ phase = "emit" /\ next > Len(groups)
  /\ phase' = "done"
  /\ UNCHANGED <<input, cut, until, current, spans, next, groups, title, chunks>>

\* The other strategy: windows over the whole text, each titled on its own, that stop
\* at the first that reaches its end.
TakeWindow ==
  /\ phase = "windows" /\ cut <= input.length
  /\ LET end == WindowEnd(cut, input.length) IN
     /\ chunks' = Append(chunks, Chunk(cut, end, FALSE, LeadingTitle(cut, end, 0)))
     /\ IF end >= input.length
        THEN phase' = "done" /\ UNCHANGED cut
        ELSE cut' = cut + (input.max - input.overlap) /\ UNCHANGED phase
  /\ UNCHANGED <<input, until, current, spans, next, groups, title>>

NoTokens ==
  /\ phase = "windows" /\ input.length = 0
  /\ phase' = "done"
  /\ UNCHANGED <<input, cut, until, current, spans, next, groups, title, chunks>>

Next ==
  \/ KeepBlock \/ BeginWindows \/ BeginSentences \/ CutWindow \/ JoinSentence
  \/ EndBlock \/ EndSplit \/ BeginGroup \/ Group \/ EndGroup \/ Emit \/ EndEmit \/ TakeWindow \/ NoTokens

Spec == Init /\ [][Next]_vars

-----------------------------------------------------------------------------
Done == phase = "done"
Within(t, span) == t \in span.start .. span.end

\* No token is lost between blocks, sentences, windows and groups: when the builder is
\* done, every token of the text is in a chunk.
EveryTokenIsChunked ==
  Done => \A t \in 1 .. input.length : \E i \in 1 .. Len(chunks) : Within(t, chunks[i])

\* Every chunk reaches further than those before it, so that none repeats only what the
\* others hold, although the last window of a block may.
EveryChunkAdds ==
  \A i, j \in 1 .. Len(chunks) : i < j => chunks[i].end < chunks[j].end

\* The tokens from start to end are one sentence of a block that has others.
IsOneOfSeveral(start, end) ==
  /\ start \in SentenceStarts /\ Piece(SentenceStarts, start, end)
  /\ start \notin input.blocks \/ ~Piece(input.blocks, start, end)

\* A chunk holds no more than the maximum and the overlap, unless it ends with a sentence
\* that is too long by itself and one of several in its block: a block of one sentence is
\* cut up, however long it is.
SizeIsBounded ==
  \A i \in 1 .. Len(chunks) :
    \/ Length(chunks[i]) <= input.max + input.overlap
    \/ \E s \in chunks[i].start .. chunks[i].end :
         s <= chunks[i].start + input.overlap /\ IsOneOfSeveral(s, chunks[i].end)

\* The heading of a block that fits, or has several sentences, opens a chunk of its own,
\* which says so and holds nothing before it; when the chunk's normalised text opens with
\* a heading as well, that is its title, whatever section the chunks before it are in.
SectionOpensChunk ==
  Done /\ input.structured =>
    \A h \in input.headings : \A end \in h .. input.length :
      /\ Piece(input.blocks, h, end)
      /\ Fits(h, end) \/ \E t \in (h + 1) .. end : t \in input.sentences
      => \E i \in 1 .. Len(chunks) :
           /\ chunks[i].start = h /\ chunks[i].heading
           /\ <<h, chunks[i].end>> \in input.titles => chunks[i].title = h

=============================================================================

----------------------------- MODULE ChunkingMC -----------------------------
(***************************************************************************)
(* Instances of Chunking for TLC: every text of at most MaxLength tokens,  *)
(* each of which may start a block, a headed block, or a sentence, and     *)
(* of the chunks that open with a heading once normalised: those that open *)
(* with one as it is, not the first of them, one elsewhere as well, and    *)
(* only those that go on after its first token.                            *)
(***************************************************************************)
EXTENDS Chunking, FiniteSets

CONSTANTS MaxLength, Sizes

TextsOf(n) ==
  {[length |-> n,
    blocks |-> {t \in 1 .. n : k[t] \in {"block", "headed"}},
    headings |-> {t \in 1 .. n : k[t] = "headed"},
    sentences |-> {t \in 1 .. n : k[t] = "sentence"}] :
   k \in {f \in [1 .. n -> {"inner", "sentence", "block", "headed"}] :
            n > 0 => f[1] \in {"block", "headed"}}}

Texts == UNION {TextsOf(n) : n \in 0 .. MaxLength}

From(starts, n) == {p \in starts \X (1 .. n) : p[1] <= p[2]}

Titles(x, kind) ==
  CASE kind = "same" -> From(x.headings, x.length)
    [] kind = "fewer" -> From(x.headings \ {1}, x.length)
    [] kind = "more" -> From(x.headings \cup ({3} \cap (1 .. x.length)), x.length)
    [] kind = "longer" -> {p \in From(x.headings, x.length) : p[1] < p[2]}

SomeInputs ==
  {[length |-> x.length, blocks |-> x.blocks, headings |-> x.headings,
    sentences |-> x.sentences, titles |-> Titles(x, kind),
    max |-> s[1], overlap |-> s[2], structured |-> b] :
   x \in Texts, kind \in {"same", "fewer", "more", "longer"}, s \in Sizes, b \in BOOLEAN}

ThreeSizes == {<<2, 1>>, <<3, 0>>, <<3, 2>>}
=============================================================================

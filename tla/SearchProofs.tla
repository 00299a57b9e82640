-------------------------- MODULE SearchProofs ----------------------------
(***************************************************************************)
(* Proofs about Retrieval, for any chunks, limits and searches, and about  *)
(* QueryPlanning, for any texts, windows and number of turns; before them  *)
(* what the operators of Orderings return.                                 *)
(***************************************************************************)
EXTENDS QueryPlanning, Retrieval, FiniteSetTheorems, SequenceTheorems, TLAPS

\* A strict total order on a set, as the pairs that are in order.
StrictOrder(S, before) ==
  /\ \A x \in S : <<x, x>> \notin before
  /\ \A x, y, z \in S : <<x, y>> \in before /\ <<y, z>> \in before => <<x, z>> \in before
  /\ \A x, y \in S : x = y \/ <<x, y>> \in before \/ <<y, x>> \in before

-----------------------------------------------------------------------------
\* The places of the elements are a numbering of the set, and the sequence its inverse.
LEMMA SortFacts ==
  ASSUME NEW S, IsFiniteSet(S), NEW before, StrictOrder(S, before)
  PROVE  /\ Sort(S, before) \in [1 .. Cardinality(S) -> S]
         /\ \A x \in S : \E i \in 1 .. Cardinality(S) : Sort(S, before)[i] = x
         /\ \A i, j \in 1 .. Cardinality(S) : i < j =>
              /\ Sort(S, before)[i] # Sort(S, before)[j]
              /\ <<Sort(S, before)[i], Sort(S, before)[j]>> \in before
<1> DEFINE n == Cardinality(S)
           Down(x) == {y \in S : y = x \/ <<y, x>> \in before}
           place == [x \in S |-> Place(S, before, x)]
           f == Sort(S, before)
<1>1. n \in Nat
  BY FS_CardinalityType
<1>2. ASSUME NEW x \in S
      PROVE  /\ IsFiniteSet(Down(x)) /\ Cardinality(Down(x)) \in 1 .. n
             /\ place[x] = Cardinality(Down(x))
  <2>1. Down(x) \in SUBSET S /\ x \in Down(x)
    OBVIOUS
  <2>2. IsFiniteSet(Down(x)) /\ Cardinality(Down(x)) <= n
    BY <2>1, FS_Subset
  <2>3. Cardinality(Down(x)) \in Nat /\ Cardinality(Down(x)) # 0
    BY <2>1, <2>2, FS_CardinalityType, FS_EmptySet
  <2>4. place[x] = Cardinality(Down(x))
    BY DEF Place
  <2> QED
    BY <1>1, <2>2, <2>3, <2>4
<1>3. ASSUME NEW x \in S, NEW y \in S, <<x, y>> \in before
      PROVE  place[x] < place[y]
  <2>1. Down(x) \in SUBSET Down(y)
    BY <1>3 DEF StrictOrder
  <2>2. y \in Down(y) /\ y \notin Down(x)
    BY <1>3 DEF StrictOrder
  <2>3. Cardinality(Down(x)) <= Cardinality(Down(y)) /\ Cardinality(Down(x)) # Cardinality(Down(y))
    BY <1>2, <2>1, <2>2, FS_Subset
  <2> HIDE DEF Down, place, n
  <2>4. /\ place[x] = Cardinality(Down(x)) /\ place[y] = Cardinality(Down(y))
        /\ Cardinality(Down(x)) \in Int /\ Cardinality(Down(y)) \in Int
    BY <1>1, <1>2
  <2> QED
    BY <2>3, <2>4
<1>4. place \in Injection(S, 1 .. n)
  <2>1. place \in [S -> 1 .. n]
    BY <1>2
  <2>2. ASSUME NEW x \in S, NEW y \in S, place[x] = place[y] PROVE x = y
    <3>1. ~(place[x] < place[y]) /\ ~(place[y] < place[x])
      BY <1>1, <2>1, <2>2
    <3> HIDE DEF place
    <3> QED
      BY <1>3, <3>1 DEF StrictOrder
  <2> HIDE DEF place
  <2> QED
    BY <2>1, <2>2 DEF Injection, IsInjective
<1>5. place \in Surjection(S, 1 .. n)
  <2>1. IsFiniteSet(1 .. n) /\ Cardinality(1 .. n) = n
    BY <1>1, FS_Interval
  <2> HIDE DEF place
  <2> QED
    BY <1>4, <2>1, FS_Injection
<1>6. f = [i \in 1 .. n |-> CHOOSE x \in S : place[x] = i]
  BY DEF Sort
<1> HIDE DEF place, n, Down, f
<1>7. ASSUME NEW i \in 1 .. n PROVE f[i] \in S /\ place[f[i]] = i
  <2>1. \E x \in S : place[x] = i
    BY <1>5 DEF Surjection
  <2> QED
    BY <1>6, <2>1
<1>8. f \in [1 .. n -> S]
  BY <1>6, <1>7
<1>9. ASSUME NEW x \in S PROVE \E i \in 1 .. n : f[i] = x
  <2>1. place[x] \in 1 .. n
    BY <1>4 DEF Injection
  <2>2. place[f[place[x]]] = place[x] /\ f[place[x]] \in S
    BY <1>7, <2>1
  <2> QED
    BY <1>4, <2>1, <2>2 DEF Injection, IsInjective
<1>10. ASSUME NEW i \in 1 .. n, NEW j \in 1 .. n, i < j
       PROVE  f[i] # f[j] /\ <<f[i], f[j]>> \in before
  <2>1. /\ f[i] \in S /\ f[j] \in S /\ place[f[i]] = i /\ place[f[j]] = j
    BY <1>7
  <2>2. f[i] # f[j]
    BY <1>10, <2>1
  <2>3. ~(j < i)
    BY <1>1, <1>10
  <2>4. <<f[j], f[i]>> \notin before
    BY <1>3, <2>1, <2>3
  <2> QED
    BY <2>1, <2>2, <2>4 DEF StrictOrder
<1> QED
  BY <1>8, <1>9, <1>10 DEF f, n

LEMMA AscendingFacts ==
  ASSUME NEW S \in SUBSET Nat, IsFiniteSet(S)
  PROVE  /\ Cardinality(S) \in Nat
         /\ Ascending(S) \in [1 .. Cardinality(S) -> S]
         /\ \A x \in S : \E i \in 1 .. Cardinality(S) : Ascending(S)[i] = x
         /\ \A i, j \in 1 .. Cardinality(S) : i < j => Ascending(S)[i] < Ascending(S)[j]
<1> DEFINE before == {p \in S \X S : p[1] < p[2]}
<1>1. \A x, y \in S : <<x, y>> \in before <=> x < y
  OBVIOUS
<1>2. Ascending(S) = Sort(S, before)
  BY DEF Ascending
<1> HIDE DEF before
<1>3. StrictOrder(S, before)
  BY <1>1 DEF StrictOrder
<1>4. Cardinality(S) \in Nat
  BY FS_CardinalityType
<1>5. /\ Ascending(S) \in [1 .. Cardinality(S) -> S]
      /\ \A x \in S : \E i \in 1 .. Cardinality(S) : Ascending(S)[i] = x
      /\ \A i, j \in 1 .. Cardinality(S) : i < j =>
           <<Ascending(S)[i], Ascending(S)[j]>> \in before
  BY <1>2, <1>3, SortFacts
<1> QED
  BY <1>1, <1>4, <1>5

\* The places of the smallest elements of a range of numbers.
LEMMA AscendingRange ==
  ASSUME NEW a \in Nat, NEW b \in Nat, a <= b + 1, NEW i \in 1 .. (b + 1 - a)
  PROVE  Cardinality(a .. b) = b + 1 - a /\ Ascending(a .. b)[i] = a + i - 1
<1> DEFINE S == a .. b
           before == {p \in S \X S : p[1] < p[2]}
           place == [x \in S |-> Place(S, before, x)]
<1>1. IsFiniteSet(S) /\ Cardinality(S) = b + 1 - a
  BY FS_Interval
<1>2. ASSUME NEW x \in S PROVE place[x] = x + 1 - a
  <2>1. {y \in S : y = x \/ <<y, x>> \in before} = a .. x
    OBVIOUS
  <2>2. x \in Int /\ a <= x
    OBVIOUS
  <2>3. Cardinality(a .. x) = x - a + 1
    BY <2>2, FS_Interval
  <2>4. place[x] = Cardinality(a .. x)
    BY <2>1 DEF Place
  <2> HIDE DEF place
  <2> QED
    BY <2>2, <2>3, <2>4
<1>3. Ascending(S) = [k \in 1 .. Cardinality(S) |-> CHOOSE x \in S : place[x] = k]
  BY DEF Ascending, Sort
<1>4. i \in 1 .. Cardinality(S)
  BY <1>1
<1>5. a + i - 1 \in S /\ \A x \in S : x + 1 - a = i => x = a + i - 1
  OBVIOUS
<1> HIDE DEF place, S
<1>6. (CHOOSE x \in S : place[x] = i) = a + i - 1
  <2>1. place[a + i - 1] = a + i - 1 + 1 - a
    BY <1>2, <1>5
  <2>2. place[a + i - 1] = i
    BY <2>1
  <2>3. \A x \in S : place[x] = i => x = a + i - 1
    BY <1>2, <1>5
  <2> QED
    BY <1>5, <2>2, <2>3
<1> QED
  BY <1>1, <1>3, <1>4, <1>6 DEF S

-----------------------------------------------------------------------------
\* The elements of a sequence at some of its places.
LEMMA PickedFacts ==
  ASSUME NEW A, NEW s \in Seq(A), NEW at \in SUBSET DOMAIN s
  PROVE  /\ Cardinality(at) \in Nat
         /\ Picked(s, at) \in Seq(A) /\ Len(Picked(s, at)) = Cardinality(at)
         /\ \A i \in 1 .. Cardinality(at) :
              Ascending(at)[i] \in at /\ Picked(s, at)[i] = s[Ascending(at)[i]]
         /\ \A k \in at : \E i \in 1 .. Cardinality(at) : Ascending(at)[i] = k
         /\ \A i, j \in 1 .. Cardinality(at) : i < j => Ascending(at)[i] < Ascending(at)[j]
         /\ ToSet(Picked(s, at)) = {s[k] : k \in at}
         /\ IsInjective(s) => IsInjective(Picked(s, at))
<1> DEFINE n == Cardinality(at)
           o == Ascending(at)
           p == Picked(s, at)
<1>1. DOMAIN s = 1 .. Len(s) /\ Len(s) \in Nat /\ \A k \in DOMAIN s : s[k] \in A
  BY LenProperties
<1>2. at \in SUBSET Nat /\ IsFiniteSet(at)
  <2>1. IsFiniteSet(DOMAIN s)
    BY <1>1, FS_Interval
  <2> QED
    BY <1>1, <2>1, FS_Subset
<1>3. /\ n \in Nat /\ o \in [1 .. n -> at]
      /\ \A k \in at : \E i \in 1 .. n : o[i] = k
      /\ \A i, j \in 1 .. n : i < j => o[i] < o[j]
  BY <1>2, AscendingFacts
<1>4. p = [i \in 1 .. n |-> s[o[i]]]
  BY DEF Picked
<1> HIDE DEF n, o, p
<1>5. p \in [1 .. n -> A] /\ \A i \in 1 .. n : p[i] = s[o[i]]
  BY <1>1, <1>3, <1>4
<1>6. p \in Seq(A) /\ Len(p) = n /\ DOMAIN p = 1 .. n
  BY <1>3, <1>5, SeqDef, LenProperties
<1>7. ToSet(p) = {s[k] : k \in at}
  <2>1. ASSUME NEW i \in 1 .. n PROVE p[i] \in {s[k] : k \in at}
    BY <1>3, <1>5
  <2>2. ASSUME NEW k \in at PROVE \E i \in 1 .. n : p[i] = s[k]
    BY <1>3, <1>5
  <2> QED
    BY <1>6, <2>1, <2>2 DEF ToSet
<1>8. IsInjective(s) => IsInjective(p)
  <2> SUFFICES ASSUME IsInjective(s), NEW i \in 1 .. n, NEW j \in 1 .. n, p[i] = p[j] PROVE i = j
    BY <1>6 DEF IsInjective
  <2>1. o[i] = o[j] /\ o[i] \in Nat
    BY <1>2, <1>3, <1>5 DEF IsInjective
  <2>2. ~(i < j) /\ ~(j < i)
    BY <1>3, <2>1
  <2> QED
    BY <1>3, <2>2
<1> QED
  BY <1>3, <1>5, <1>6, <1>7, <1>8 DEF n, o, p

LEMMA AmongFacts ==
  ASSUME NEW A, NEW s \in Seq(A), NEW S
  PROVE  /\ Among(s, S) \in Seq(A)
         /\ ToSet(Among(s, S)) = ToSet(s) \cap S
         /\ IsInjective(s) => IsInjective(Among(s, S))
<1> DEFINE at == {i \in DOMAIN s : s[i] \in S}
<1>1. at \in SUBSET DOMAIN s /\ Among(s, S) = Picked(s, at)
  BY DEF Among
<1>2. {s[k] : k \in at} = ToSet(s) \cap S
  BY DEF ToSet
<1> QED
  BY <1>1, <1>2, PickedFacts

-----------------------------------------------------------------------------
\* Sequences without repetition.
Hits(s) == s \in Seq(Chunks) /\ IsInjective(s)

LEMMA SmallerFacts ==
  ASSUME NEW a \in Int, NEW b \in Int
  PROVE  /\ Smaller(a, b) = IF a <= b THEN a ELSE b
         /\ Larger(a, b) = IF a <= b THEN b ELSE a
<1>1. PICK x \in {a, b} : \A y \in {a, b} : x =< y
  OBVIOUS
<1>2. Smaller(a, b) \in {a, b} /\ \A y \in {a, b} : Smaller(a, b) =< y
  BY <1>1 DEF Smaller, Min
<1>3. PICK z \in {a, b} : \A y \in {a, b} : z >= y
  OBVIOUS
<1>4. Larger(a, b) \in {a, b} /\ \A y \in {a, b} : Larger(a, b) >= y
  BY <1>3 DEF Larger, Max
<1> QED
  BY <1>2, <1>4

LEMMA TopFacts ==
  ASSUME NEW A, NEW s \in Seq(A), NEW n \in Nat
  PROVE  /\ Top(s, n) \in Seq(A) /\ Len(Top(s, n)) = Smaller(n, Len(s))
         /\ Len(Top(s, n)) = IF n <= Len(s) THEN n ELSE Len(s)
         /\ \A i \in 1 .. Len(Top(s, n)) : i \in DOMAIN s /\ Top(s, n)[i] = s[i]
         /\ ToSet(Top(s, n)) \subseteq ToSet(s)
         /\ IsInjective(s) => IsInjective(Top(s, n))
         /\ n # 0 /\ s # <<>> => Top(s, n) # <<>>
<1> DEFINE m == Smaller(n, Len(s))
           t == Top(s, n)
<1>1. /\ DOMAIN s = 1 .. Len(s) /\ Len(s) \in Nat
  BY LenProperties
<1>2. m = IF n <= Len(s) THEN n ELSE Len(s)
  BY <1>1, SmallerFacts
<1>3. t = SubSeq(s, 1, m)
  BY DEF Top
<1> HIDE DEF t, m
<1>4. m \in Nat /\ m <= Len(s)
  <2>1. CASE n <= Len(s)
    BY <1>2, <2>1
  <2>2. CASE ~(n <= Len(s))
    BY <1>1, <1>2, <2>2
  <2> QED
    BY <2>1, <2>2
<1>5. t \in Seq(A) /\ Len(t) = m /\ \A i \in 1 .. m : t[i] = s[i]
  <2>1. \A i \in 1 .. m : s[i] \in A
    BY <1>1, <1>4
  <2>2. /\ t \in Seq(A) /\ Len(t) = IF 1 <= m THEN m - 1 + 1 ELSE 0
        /\ \A i \in 1 .. m - 1 + 1 : t[i] = s[1 + i - 1]
    BY <1>3, <1>4, <2>1, SubSeqProperties
  <2> QED
    BY <1>1, <1>4, <2>2
<1>6. \A i \in 1 .. Len(t) : i \in DOMAIN s /\ t[i] = s[i]
  BY <1>1, <1>4, <1>5
<1>7. DOMAIN t = 1 .. Len(t)
  BY <1>5
<1>8. ToSet(t) \subseteq ToSet(s)
  BY <1>6, <1>7 DEF ToSet
<1>9. IsInjective(s) => IsInjective(t)
  BY <1>6, <1>7 DEF IsInjective
<1>10. n # 0 /\ s # <<>> => t # <<>>
  <2>1. s # <<>> => Len(s) # 0
    OBVIOUS
  <2>2. t = <<>> => Len(t) = 0
    OBVIOUS
  <2> QED
    BY <1>2, <1>5, <2>1, <2>2
<1> QED
  BY <1>2, <1>5, <1>6, <1>8, <1>9, <1>10 DEF m, t

\* Sequences of a set's elements, and those that join two of them.
LEMMA SequenceSize ==
  ASSUME NEW A, NEW s \in Seq(A), IsInjective(s)
  PROVE  IsFiniteSet(ToSet(s)) /\ Cardinality(ToSet(s)) = Len(s)
<1>1. Len(s) \in Nat /\ DOMAIN s = 1 .. Len(s)
  BY LenProperties
<1>2. IsFiniteSet(1 .. Len(s)) /\ Cardinality(1 .. Len(s)) = Len(s)
  BY <1>1, FS_Interval
<1>3. s \in Bijection(1 .. Len(s), ToSet(s))
  BY <1>1 DEF ToSet, Bijection, Injection, Surjection, IsInjective
<1> QED
  BY <1>2, <1>3, FS_Bijection DEF ExistsBijection

LEMMA OrdersFacts ==
  ASSUME NEW S \in SUBSET Chunks, NEW s \in Orders[S]
  PROVE  Hits(s) /\ ToSet(s) = S /\ Len(s) = Cardinality(S) /\ IsFiniteSet(S)
<1> DEFINE n == Cardinality(S)
<1>1. IsFiniteSet(S) /\ n \in Nat
  BY ChunksAssumption, FS_Subset, FS_CardinalityType
<1>2. s \in [1 .. n -> S] /\ \A i, j \in 1 .. n : i # j => s[i] # s[j]
  BY DEF Orders, SetToSeqs
<1>3. s \in Seq(S) /\ Len(s) = n /\ DOMAIN s = 1 .. n
  BY <1>1, <1>2, SeqDef, LenProperties
<1>4. s \in Seq(Chunks)
  BY <1>3, SeqMonotonic
<1>5. s \in Injection(1 .. n, S) /\ IsInjective(s)
  BY <1>2, <1>3 DEF Injection, IsInjective
<1>6. s \in Surjection(1 .. n, S)
  BY <1>1, <1>5, FS_Injection, FS_Interval
<1>7. ToSet(s) = S
  BY <1>2, <1>3, <1>6 DEF ToSet, Surjection
<1> QED
  BY <1>1, <1>3, <1>4, <1>5, <1>7 DEF Hits

LEMMA JoinFacts ==
  ASSUME NEW A, NEW s \in Seq(A), NEW t \in Seq(A)
  PROVE  /\ s \o t \in Seq(A) /\ Len(s \o t) = Len(s) + Len(t)
         /\ \A i \in 1 .. Len(s) : (s \o t)[i] = s[i]
         /\ \A i \in 1 .. Len(t) : (s \o t)[Len(s) + i] = t[i]
         /\ ToSet(s \o t) = ToSet(s) \cup ToSet(t)
         /\ IsInjective(s) /\ IsInjective(t) /\ ToSet(s) \cap ToSet(t) = {} => IsInjective(s \o t)
<1> DEFINE u == s \o t
<1>1. /\ u \in Seq(A) /\ Len(u) = Len(s) + Len(t)
      /\ \A i \in 1 .. Len(s) : u[i] = s[i]
      /\ \A i \in 1 .. Len(t) : u[Len(s) + i] = t[i]
  OBVIOUS
<1> HIDE DEF u
<1>2. /\ DOMAIN s = 1 .. Len(s) /\ DOMAIN t = 1 .. Len(t) /\ DOMAIN u = 1 .. Len(u)
      /\ Len(s) \in Nat /\ Len(t) \in Nat
  BY <1>1, LenProperties
<1>3. ASSUME NEW i \in DOMAIN u
      PROVE  \/ i \in DOMAIN s /\ u[i] = s[i]
             \/ i - Len(s) \in DOMAIN t /\ u[i] = t[i - Len(s)]
  <2>1. CASE i <= Len(s)
    BY <1>1, <1>2, <2>1
  <2>2. CASE i > Len(s)
    <3>1. i - Len(s) \in 1 .. Len(t) /\ Len(s) + (i - Len(s)) = i
      BY <1>1, <1>2, <2>2
    <3> QED
      BY <1>1, <1>2, <3>1
  <2> QED
    BY <1>1, <1>2, <2>1, <2>2
<1>4. ToSet(u) = ToSet(s) \cup ToSet(t)
  <2>1. ToSet(u) \subseteq ToSet(s) \cup ToSet(t)
    BY <1>3 DEF ToSet
  <2>2. ToSet(s) \subseteq ToSet(u)
    BY <1>1, <1>2 DEF ToSet
  <2>3. ASSUME NEW i \in DOMAIN t PROVE t[i] \in ToSet(u)
    <3>1. Len(s) + i \in DOMAIN u /\ u[Len(s) + i] = t[i]
      BY <1>1, <1>2
    <3> QED
      BY <3>1 DEF ToSet
  <2> QED
    BY <2>1, <2>2, <2>3 DEF ToSet
<1>5. ASSUME IsInjective(s), IsInjective(t), ToSet(s) \cap ToSet(t) = {} PROVE IsInjective(u)
  <2> SUFFICES ASSUME NEW i \in DOMAIN u, NEW j \in DOMAIN u, u[i] = u[j] PROVE i = j
    BY DEF IsInjective
  <2>1. CASE i \in DOMAIN s /\ u[i] = s[i] /\ j \in DOMAIN s /\ u[j] = s[j]
    BY <1>5, <2>1 DEF IsInjective
  <2>2. CASE i \in DOMAIN s /\ u[i] = s[i] /\ j - Len(s) \in DOMAIN t /\ u[j] = t[j - Len(s)]
    BY <1>5, <2>2 DEF ToSet
  <2>3. CASE j \in DOMAIN s /\ u[j] = s[j] /\ i - Len(s) \in DOMAIN t /\ u[i] = t[i - Len(s)]
    BY <1>5, <2>3 DEF ToSet
  <2>4. CASE /\ i - Len(s) \in DOMAIN t /\ u[i] = t[i - Len(s)]
             /\ j - Len(s) \in DOMAIN t /\ u[j] = t[j - Len(s)]
    <3>1. i - Len(s) = j - Len(s)
      BY <1>5, <2>4 DEF IsInjective
    <3> QED
      BY <1>1, <1>2, <3>1
  <2> QED
    BY <1>3, <2>1, <2>2, <2>3, <2>4
<1> QED
  BY <1>1, <1>4, <1>5 DEF u

-----------------------------------------------------------------------------
\* The least of a finite set of numbers.
LEMMA MinFacts ==
  ASSUME NEW S \in SUBSET Nat, IsFiniteSet(S), S # {}
  PROVE  Min(S) \in S /\ \A y \in S : Min(S) <= y
<1>1. /\ Cardinality(S) \in Nat
      /\ Ascending(S) \in [1 .. Cardinality(S) -> S]
      /\ \A x \in S : \E i \in 1 .. Cardinality(S) : Ascending(S)[i] = x
      /\ \A i, j \in 1 .. Cardinality(S) : i < j => Ascending(S)[i] < Ascending(S)[j]
  BY AscendingFacts
<1>2. 1 \in 1 .. Cardinality(S)
  <2>1. Cardinality(S) # 0
    BY FS_EmptySet
  <2> QED
    BY <1>1, <2>1
<1>3. Ascending(S)[1] \in S
  BY <1>1, <1>2
<1>4. ASSUME NEW y \in S PROVE Ascending(S)[1] <= y
  <2>1. PICK i \in 1 .. Cardinality(S) : Ascending(S)[i] = y
    BY <1>1
  <2>2. CASE i = 1
    BY <1>3, <2>1, <2>2
  <2>3. CASE 1 < i
    <3>1. Ascending(S)[1] < y
      BY <1>1, <1>2, <2>1, <2>3
    <3>2. Ascending(S)[1] \in Nat /\ y \in Nat
      BY <1>3
    <3> QED
      BY <3>1, <3>2
  <2> QED
    BY <2>2, <2>3
<1> QED
  BY <1>3, <1>4 DEF Min

-----------------------------------------------------------------------------
\* A whole number of parts that two numbers divide, divided by them.
LEMMA Quotients ==
  ASSUME NEW W \in Nat \ {0}, NEW x \in Nat \ {0}, W % x = 0
  PROVE  W \div x \in Nat \ {0} /\ x * (W \div x) = W
  OBVIOUS

LEMMA SmallerQuotient ==
  ASSUME NEW x \in Nat \ {0}, NEW y \in Nat \ {0}, NEW p \in Nat \ {0}, NEW q \in Nat \ {0},
         x * p = y * q, x < y
  PROVE  q < p
  OBVIOUS

LEMMA PlaceFacts ==
  ASSUME NEW s, Hits(s), NEW c \in ToSet(s)
  PROVE  /\ PlaceOf(s, c) \in DOMAIN s /\ s[PlaceOf(s, c)] = c
         /\ PlaceOf(s, c) \in 1 .. Cardinality(Chunks)
         /\ \A i \in DOMAIN s : s[i] = c => i = PlaceOf(s, c)
<1>1. PlaceOf(s, c) \in DOMAIN s /\ s[PlaceOf(s, c)] = c
  BY DEF PlaceOf, ToSet
<1>2. /\ s \in Seq(Chunks) /\ IsInjective(s) /\ Len(s) \in Nat /\ DOMAIN s = 1 .. Len(s)
  BY LenProperties DEF Hits
<1>3. Len(s) <= Cardinality(Chunks) /\ Cardinality(Chunks) \in Nat
  <2>1. ToSet(s) \in SUBSET Chunks
    BY <1>2 DEF ToSet
  <2> QED
    BY <1>2, <2>1, SequenceSize, ChunksAssumption, FS_Subset, FS_CardinalityType
<1>4. PlaceOf(s, c) \in 1 .. Cardinality(Chunks)
  BY <1>1, <1>2, <1>3
<1> QED
  BY <1>1, <1>2, <1>4 DEF IsInjective

LEMMA ShareFacts ==
  ASSUME NEW s, Hits(s), NEW a
  PROVE  /\ Share(s, a) \in Nat
         /\ a \in ToSet(s) => Share(s, a) > 0
         /\ a \notin ToSet(s) => Share(s, a) = 0
         /\ \A b : /\ a \in ToSet(s) /\ b \in ToSet(s) /\ PlaceOf(s, a) < PlaceOf(s, b)
                   => Share(s, b) < Share(s, a)
<1>1. ASSUME NEW c \in ToSet(s)
      PROVE  /\ PlaceOf(s, c) \in Nat \ {0} /\ RrfK + PlaceOf(s, c) \in Nat \ {0}
             /\ Share(s, c) \in Nat \ {0} /\ (RrfK + PlaceOf(s, c)) * Share(s, c) = Whole
  <2>1. PlaceOf(s, c) \in 1 .. Cardinality(Chunks)
    BY PlaceFacts
  <2>2. PlaceOf(s, c) \in Nat \ {0} /\ RrfK + PlaceOf(s, c) \in Nat \ {0}
    BY <2>1, LimitsAssumption
  <2>3. Whole \in Nat \ {0} /\ Whole % (RrfK + PlaceOf(s, c)) = 0
    BY <2>1, WholeAssumption
  <2>4. Share(s, c) = Whole \div (RrfK + PlaceOf(s, c))
    BY DEF Share
  <2> QED
    BY <2>2, <2>3, <2>4, Quotients
<1>2. a \notin ToSet(s) => Share(s, a) = 0
  BY DEF Share
<1>3. ASSUME NEW b, a \in ToSet(s), b \in ToSet(s), PlaceOf(s, a) < PlaceOf(s, b)
      PROVE  Share(s, b) < Share(s, a)
  <2> DEFINE x == RrfK + PlaceOf(s, a)
             y == RrfK + PlaceOf(s, b)
  <2>1. x < y
    BY <1>1, <1>3, LimitsAssumption
  <2>2. x * Share(s, a) = y * Share(s, b) /\ x \in Nat \ {0} /\ y \in Nat \ {0}
        /\ Share(s, a) \in Nat \ {0} /\ Share(s, b) \in Nat \ {0}
    BY <1>1, <1>3
  <2> HIDE DEF x, y
  <2> QED
    BY <2>1, <2>2, SmallerQuotient
<1> QED
  BY <1>1, <1>2, <1>3

\* The fusion has every chunk of the two once, in the order of their scores.
LEMMA FusionFacts ==
  ASSUME NEW s, NEW d, Hits(s), Hits(d)
  PROVE  /\ Hits(Fusion(s, d)) /\ ToSet(Fusion(s, d)) = ToSet(s) \cup ToSet(d)
         /\ \A i, j \in DOMAIN Fusion(s, d) :
              LET a == Fusion(s, d)[i]
                  b == Fusion(s, d)[j]
              IN Share(s, b) + Share(d, b) < Share(s, a) + Share(d, a) => i < j
<1> DEFINE hits == ToSet(s) \cup ToSet(d)
           score == [c \in hits |-> Share(s, c) + Share(d, c)]
           Before(a, b) == \/ score[a] > score[b]
                           \/ score[a] = score[b] /\ Index[a] < Index[b]
                           \/ score[a] = score[b] /\ Index[a] = Index[b] /\ a < b
           before == {p \in hits \X hits : Before(p[1], p[2])}
           f == Fusion(s, d)
           n == Cardinality(hits)
<1>1. f = Sort(hits, before)
  BY DEF Fusion
<1>2. hits \in SUBSET Chunks
  BY DEF Hits, ToSet
<1>3. IsFiniteSet(hits) /\ n \in Nat
  BY <1>2, ChunksAssumption, FS_Subset, FS_CardinalityType
<1>4. \A c \in hits : score[c] \in Nat /\ score[c] = Share(s, c) + Share(d, c)
  BY ShareFacts
<1>5. \A c \in hits : Index[c] \in Nat /\ c \in Nat
  BY <1>2, ChunksAssumption
<1>6. \A a, b \in hits : <<a, b>> \in before <=> Before(a, b)
  OBVIOUS
<1> HIDE DEF score, before, hits, f, n
<1>7. StrictOrder(hits, before)
  <2>1. \A x \in hits : <<x, x>> \notin before
    BY <1>4, <1>5, <1>6
  <2>2. ASSUME NEW x \in hits, NEW y \in hits, x # y
        PROVE  <<x, y>> \in before \/ <<y, x>> \in before
    <3>1. score[x] \in Nat /\ score[y] \in Nat /\ Index[x] \in Nat /\ Index[y] \in Nat
      BY <1>4, <1>5
    <3>2. x < y \/ y < x
      BY <1>5, <2>2
    <3>3. Before(x, y) \/ Before(y, x)
      BY <3>1, <3>2
    <3> QED
      BY <1>6, <3>3
  <2>3. \A x, y, z \in hits : <<x, y>> \in before /\ <<y, z>> \in before => <<x, z>> \in before
    BY <1>4, <1>5, <1>6
  <2> QED
    BY <2>1, <2>2, <2>3 DEF StrictOrder
<1>8. /\ f \in [1 .. n -> hits]
      /\ \A x \in hits : \E i \in 1 .. n : f[i] = x
      /\ \A i, j \in 1 .. n : i < j => f[i] # f[j] /\ <<f[i], f[j]>> \in before
  BY <1>1, <1>3, <1>7, SortFacts DEF n
<1>9. f \in Seq(Chunks) /\ DOMAIN f = 1 .. n
  BY <1>2, <1>3, <1>8, SeqDef
<1>10. ASSUME NEW i \in 1 .. n, NEW j \in 1 .. n, f[i] = f[j] PROVE i = j
  <2>1. ~(i < j) /\ ~(j < i)
    BY <1>8, <1>10
  <2> QED
    BY <1>3, <2>1
<1>11. ASSUME NEW i \in 1 .. n, NEW j \in 1 .. n, score[f[j]] < score[f[i]] PROVE i < j
  <2>1. f[i] \in hits /\ f[j] \in hits
    BY <1>8
  <2>2. i # j
    BY <1>4, <1>11, <2>1
  <2>3. ~(j < i)
    <3>1. ~Before(f[j], f[i])
      BY <1>4, <1>11, <2>1
    <3> QED
      BY <1>6, <1>8, <2>1, <3>1
  <2> QED
    BY <1>3, <2>2, <2>3
<1>12. ToSet(f) = hits
  BY <1>8, <1>9 DEF ToSet
<1>13. Hits(f)
  BY <1>9, <1>10 DEF Hits, IsInjective
<1>14. ASSUME NEW i \in DOMAIN f, NEW j \in DOMAIN f,
              Share(s, f[j]) + Share(d, f[j]) < Share(s, f[i]) + Share(d, f[i])
       PROVE  i < j
  <2>1. f[i] \in hits /\ f[j] \in hits
    BY <1>8, <1>9
  <2> QED
    BY <1>4, <1>9, <1>11, <1>14, <2>1
<1> QED
  BY <1>12, <1>13, <1>14 DEF f, hits

-----------------------------------------------------------------------------
\* What is said of the hits goes over to a sequence of chunks in ascending order.
LEMMA AscendingHits ==
  ASSUME NEW S \in SUBSET Chunks
  PROVE  Hits(Ascending(S)) /\ ToSet(Ascending(S)) = S
<1> DEFINE n == Cardinality(S)
           a == Ascending(S)
<1>1. IsFiniteSet(S) /\ S \in SUBSET Nat
  BY ChunksAssumption, FS_Subset
<1>2. /\ n \in Nat /\ a \in [1 .. n -> S]
      /\ \A x \in S : \E i \in 1 .. n : a[i] = x
      /\ \A i, j \in 1 .. n : i < j => a[i] < a[j]
  BY <1>1, AscendingFacts
<1> HIDE DEF n, a
<1>3. a \in Seq(S) /\ DOMAIN a = 1 .. n
  BY <1>2, SeqDef
<1>4. a \in Seq(Chunks)
  BY <1>3, SeqMonotonic
<1>5. ASSUME NEW i \in 1 .. n, NEW j \in 1 .. n, a[i] = a[j] PROVE i = j
  <2>1. a[i] \in Nat
    BY <1>1, <1>2
  <2>2. ~(i < j) /\ ~(j < i)
    BY <1>2, <1>5, <2>1
  <2> QED
    BY <1>2, <2>2
<1>6. ToSet(a) = S
  BY <1>2, <1>3 DEF ToSet
<1> QED
  BY <1>3, <1>4, <1>5, <1>6 DEF a, Hits, IsInjective

LEMMA HitsFacts ==
  ASSUME NEW s, Hits(s)
  PROVE  /\ s \in Seq(Chunks) /\ IsInjective(s) /\ ToSet(s) \in SUBSET Chunks
         /\ Len(s) \in Nat /\ DOMAIN s = 1 .. Len(s)
         /\ IsFiniteSet(ToSet(s)) /\ Cardinality(ToSet(s)) = Len(s)
         /\ s = <<>> <=> ToSet(s) = {}
         /\ s = <<>> <=> Len(s) = 0
         /\ s # <<>> => 1 \in DOMAIN s /\ s[1] \in ToSet(s)
<1>1. s \in Seq(Chunks) /\ IsInjective(s) /\ Len(s) \in Nat /\ DOMAIN s = 1 .. Len(s)
  BY LenProperties DEF Hits
<1>2. ToSet(s) \in SUBSET Chunks
  BY <1>1 DEF ToSet
<1>3. s = <<>> <=> Len(s) = 0
  BY <1>1
<1>4. s # <<>> => 1 \in DOMAIN s /\ s[1] \in ToSet(s)
  BY <1>1, <1>3 DEF ToSet
<1>5. s = <<>> <=> ToSet(s) = {}
  <2>1. s = <<>> => DOMAIN s = {}
    BY <1>1, <1>3
  <2>2. DOMAIN s = {} => ToSet(s) = {}
    BY DEF ToSet
  <2>3. s # <<>> => ToSet(s) # {}
    BY <1>4
  <2> QED
    BY <2>1, <2>2, <2>3
<1> QED
  BY <1>1, <1>2, <1>3, <1>4, <1>5, SequenceSize

\* The first hit of every document.
LEMMA RepresentativesFacts ==
  ASSUME NEW ranked, Hits(ranked)
  PROVE  /\ Hits(Representatives(ranked))
         /\ ToSet(Representatives(ranked)) \subseteq ToSet(ranked)
         /\ Docs(Representatives(ranked)) = Docs(ranked)
         /\ \A a, b \in ToSet(Representatives(ranked)) : Doc[a] = Doc[b] => a = b
<1> DEFINE first == {i \in DOMAIN ranked : \A j \in 1 .. (i - 1) : Doc[ranked[j]] # Doc[ranked[i]]}
           reps == Representatives(ranked)
<1>1. /\ ranked \in Seq(Chunks) /\ IsInjective(ranked) /\ Len(ranked) \in Nat
      /\ DOMAIN ranked = 1 .. Len(ranked)
  BY HitsFacts
<1>2. /\ reps \in Seq(Chunks) /\ IsInjective(reps) /\ ToSet(reps) = {ranked[k] : k \in first}
  <2>1. first \in SUBSET DOMAIN ranked /\ reps = Picked(ranked, first)
    BY DEF Representatives
  <2> QED
    BY <1>1, <2>1, PickedFacts
<1> HIDE DEF reps
<1>3. ToSet(reps) \subseteq ToSet(ranked)
  BY <1>2 DEF ToSet
<1>4. ASSUME NEW k \in first, NEW l \in first, Doc[ranked[k]] = Doc[ranked[l]] PROVE k = l
  <2>1. k \in Nat /\ l \in Nat /\ k # 0 /\ l # 0
    BY <1>1
  <2>2. ~(k < l) /\ ~(l < k)
    <3>1. ASSUME k < l PROVE FALSE
      <4>1. k \in 1 .. (l - 1)
        BY <2>1, <3>1
      <4> QED
        BY <1>4, <4>1
    <3>2. ASSUME l < k PROVE FALSE
      <4>1. l \in 1 .. (k - 1)
        BY <2>1, <3>2
      <4> QED
        BY <1>4, <4>1
    <3> QED
      BY <3>1, <3>2
  <2> QED
    BY <2>1, <2>2
<1>5. ASSUME NEW i \in DOMAIN ranked PROVE \E k \in first : Doc[ranked[k]] = Doc[ranked[i]]
  <2> DEFINE same == {j \in DOMAIN ranked : Doc[ranked[j]] = Doc[ranked[i]]}
             k == Min(same)
  <2>1. same \in SUBSET Nat /\ IsFiniteSet(same) /\ same # {}
    <3>1. IsFiniteSet(DOMAIN ranked)
      BY <1>1, FS_Interval
    <3> QED
      BY <1>1, <3>1, FS_Subset
  <2>2. k \in same /\ \A j \in same : k <= j
    BY <2>1, MinFacts
  <2> HIDE DEF k
  <2>3. ASSUME NEW j \in 1 .. (k - 1) PROVE Doc[ranked[j]] # Doc[ranked[k]]
    <3>1. j \in DOMAIN ranked /\ ~(k <= j)
      BY <1>1, <2>2
    <3> QED
      BY <2>2, <3>1
  <2> QED
    BY <2>2, <2>3
<1>6. Docs(reps) = Docs(ranked)
  <2>1. Docs(reps) \subseteq Docs(ranked)
    BY <1>3 DEF Docs
  <2>2. ASSUME NEW i \in DOMAIN ranked PROVE Doc[ranked[i]] \in Docs(reps)
    BY <1>2, <1>5 DEF Docs
  <2> QED
    BY <2>1, <2>2 DEF Docs, ToSet
<1>7. \A a, b \in ToSet(reps) : Doc[a] = Doc[b] => a = b
  BY <1>2, <1>4
<1> QED
  BY <1>2, <1>3, <1>6, <1>7 DEF reps, Hits

\* Chunks of different documents are as many as their documents.
LEMMA AsManyDocs ==
  ASSUME NEW s, Hits(s), \A a, b \in ToSet(s) : Doc[a] = Doc[b] => a = b
  PROVE  Cardinality(Docs(s)) = Cardinality(ToSet(s))
<1> DEFINE f == [c \in ToSet(s) |-> Doc[c]]
<1>1. f \in Bijection(ToSet(s), Docs(s))
  BY DEF Docs, Bijection, Injection, Surjection, IsInjective
<1> QED
  BY <1>1, HitsFacts, FS_Bijection DEF ExistsBijection

LEMMA DocsFacts ==
  ASSUME NEW s, Hits(s)
  PROVE  /\ IsFiniteSet(Docs(s)) /\ Cardinality(Docs(s)) \in Nat
         /\ Cardinality(Docs(s)) = 0 <=> s = <<>>
<1> DEFINE f == [c \in ToSet(s) |-> Doc[c]]
<1>1. f \in Surjection(ToSet(s), Docs(s))
  BY DEF Docs, Surjection
<1>2. IsFiniteSet(Docs(s))
  BY <1>1, HitsFacts, FS_Surjection
<1>3. Docs(s) = {} <=> s = <<>>
  BY HitsFacts DEF Docs
<1> QED
  BY <1>2, <1>3, FS_CardinalityType, FS_EmptySet

-----------------------------------------------------------------------------
(***************************************************************************)
(* The evidence of any kind of query.                                      *)
(***************************************************************************)

\* Some of the hits, each once.
Some(e, ranked) == Hits(e) /\ e # <<>> /\ ToSet(e) \subseteq ToSet(ranked)

LEMMA InPositionFacts ==
  ASSUME NEW S \in SUBSET Chunks, NEW e \in InPosition(S)
  PROVE  Hits(e) /\ ToSet(e) = S
  BY OrdersFacts DEF InPosition

LEMMA LimitFacts ==
  /\ EvidenceLimit \in Nat \ {0} /\ StructuredLimit \in Nat \ {0}
  /\ Larger(3, Smaller(StructuredLimit, 5)) \in Nat \ {0}
  /\ Larger(EvidenceLimit, 5) \in Nat \ {0}
  /\ \A p, enterprise : ExactSupportLimit(p, enterprise) \in Nat \ {0}
<1>1. ASSUME NEW a \in Nat \ {0}, NEW b \in Nat \ {0}
      PROVE  Smaller(a, b) \in Nat \ {0} /\ Larger(a, b) \in Nat \ {0}
  BY <1>1, SmallerFacts
<1>2. EvidenceLimit \in Nat \ {0}
  BY EvidenceLimitAssumption
<1>3. StructuredLimit \in Nat \ {0}
  <2>1. Smaller(EvidenceLimit, 4) \in Nat \ {0}
    BY <1>1, <1>2
  <2> QED
    BY <1>1, <2>1 DEF StructuredLimit
<1>4. Larger(3, Smaller(StructuredLimit, 5)) \in Nat \ {0}
  <2>1. Smaller(StructuredLimit, 5) \in Nat \ {0}
    BY <1>1, <1>3
  <2> QED
    BY <1>1, <2>1
<1>5. Larger(EvidenceLimit, 5) \in Nat \ {0}
  BY <1>1, <1>2
<1>6. Smaller(Larger(EvidenceLimit, 2), 3) \in Nat \ {0}
  <2>1. Larger(EvidenceLimit, 2) \in Nat \ {0}
    BY <1>1, <1>2
  <2> QED
    BY <1>1, <2>1
<1>7. ASSUME NEW p, NEW enterprise PROVE ExactSupportLimit(p, enterprise) \in Nat \ {0}
  <2>1. ExactSupportLimit(p, enterprise) \in {1, 2, 3, Smaller(Larger(EvidenceLimit, 2), 3)}
    BY DEF ExactSupportLimit
  <2> QED
    BY <1>6, <2>1
<1> QED
  BY <1>2, <1>3, <1>4, <1>5, <1>7

\* The first hit is always taken.
LEMMA FirstAndFacts ==
  ASSUME NEW ranked, Hits(ranked), ranked # <<>>, NEW others, NEW enough \in Nat \ {0},
         NEW e \in FirstAnd(ranked, others, enough)
  PROVE  Some(e, ranked) /\ ToSet(e) \subseteq {ranked[1]} \cup others
<1> DEFINE one == <<ranked[1]>>
<1>1. PICK picked \in SUBSET (others \ {ranked[1]}) :
        e = one \o Top(Among(ranked, picked), enough - 1)
  BY DEF FirstAnd
<1> DEFINE more == Top(Among(ranked, picked), enough - 1)
<1>2. /\ ranked \in Seq(Chunks) /\ IsInjective(ranked) /\ ToSet(ranked) \in SUBSET Chunks
      /\ ranked[1] \in ToSet(ranked)
  BY HitsFacts
<1>3. one \in Seq(Chunks) /\ IsInjective(one) /\ ToSet(one) = {ranked[1]}
  <2>1. one \in Seq(Chunks) /\ DOMAIN one = {1} /\ one[1] = ranked[1]
    BY <1>2
  <2> QED
    BY <2>1 DEF IsInjective, ToSet
<1>4. /\ Among(ranked, picked) \in Seq(Chunks) /\ IsInjective(Among(ranked, picked))
      /\ ToSet(Among(ranked, picked)) = ToSet(ranked) \cap picked
  BY <1>2, AmongFacts
<1>5. /\ more \in Seq(Chunks) /\ IsInjective(more)
      /\ ToSet(more) \subseteq ToSet(ranked) \cap picked
  BY <1>4, TopFacts
<1> HIDE DEF one, more
<1>6. /\ e \in Seq(Chunks) /\ ToSet(e) = ToSet(one) \cup ToSet(more) /\ IsInjective(e)
  BY <1>1, <1>3, <1>5, JoinFacts DEF more
<1>7. Hits(e)
  BY <1>6 DEF Hits
<1>8. e # <<>>
  BY <1>3, <1>6, <1>7, HitsFacts
<1> QED
  BY <1>2, <1>3, <1>5, <1>6, <1>7, <1>8 DEF Some

LEMMA ExactQaFacts ==
  ASSUME NEW ranked, Hits(ranked), ranked # <<>>, NEW p, NEW enterprise,
         NEW e \in SelectExactQaHits(ranked, p, enterprise)
  PROVE  /\ Some(e, ranked)
         /\ ~enterprise => ToSet(e) \subseteq SameDocument(ranked)
<1> DEFINE others == IF enterprise THEN ToSet(ranked) ELSE SameDocument(ranked)
           limit == ExactSupportLimit(p, enterprise)
<1>1. PICK s \in FirstAnd(ranked, others, limit) : e \in InPosition(ToSet(s))
  BY DEF SelectExactQaHits
<1>2. limit \in Nat \ {0}
  BY LimitFacts
<1> HIDE DEF limit, others
<1>3. Some(s, ranked) /\ ToSet(s) \subseteq {ranked[1]} \cup others
  BY <1>1, <1>2, FirstAndFacts
<1>4. ToSet(s) \in SUBSET Chunks /\ ToSet(s) # {}
  BY <1>3, HitsFacts DEF Some
<1>5. Hits(e) /\ ToSet(e) = ToSet(s)
  BY <1>1, <1>4, InPositionFacts
<1>6. Some(e, ranked)
  BY <1>3, <1>4, <1>5, HitsFacts DEF Some
<1>7. ranked[1] \in SameDocument(ranked)
  BY HitsFacts DEF SameDocument
<1> QED
  BY <1>3, <1>5, <1>6, <1>7 DEF others

LEMMA StructuredFacts ==
  ASSUME NEW ranked, Hits(ranked), ranked # <<>>, NEW p, NEW enterprise,
         NEW e \in SelectStructuredBundleHits(ranked, p, enterprise)
  PROVE  /\ Some(e, ranked)
         /\ ~enterprise => ToSet(e) \subseteq SameDocument(ranked)
<1>1. CASE ~enterprise
  <2>1. e \in FirstAnd(ranked, SameDocument(ranked), StructuredLimit)
    BY <1>1 DEF SelectStructuredBundleHits
  <2>2. Some(e, ranked) /\ ToSet(e) \subseteq {ranked[1]} \cup SameDocument(ranked)
    BY <2>1, LimitFacts, FirstAndFacts
  <2>3. ranked[1] \in SameDocument(ranked)
    BY HitsFacts DEF SameDocument
  <2> QED
    BY <2>2, <2>3
<1>2. CASE enterprise
  <2> DEFINE limit == Larger(3, Smaller(StructuredLimit, 5))
             contrasts == IF IsComparison(p) THEN Tail(ranked) ELSE <<>>
             Led(c) == <<ranked[1], c>> \o Among(ranked, ToSet(ranked) \ {ranked[1], c})
  <2>1. \/ e \in FirstAnd(ranked, ToSet(ranked), limit)
        \/ \E c \in ToSet(contrasts) : e \in FirstAnd(Led(c), ToSet(ranked), limit)
    BY <1>2 DEF SelectStructuredBundleHits, SelectEnterpriseBundleHits
  <2>2. limit \in Nat \ {0}
    BY LimitFacts
  <2>3. /\ ranked \in Seq(Chunks) /\ IsInjective(ranked) /\ Len(ranked) \in Nat
        /\ DOMAIN ranked = 1 .. Len(ranked) /\ ToSet(ranked) \in SUBSET Chunks
        /\ 1 \in DOMAIN ranked /\ ranked[1] \in ToSet(ranked)
    BY HitsFacts
  <2>4. ASSUME NEW c \in ToSet(contrasts) PROVE c \in ToSet(ranked) /\ c # ranked[1]
    <3>1. c \in ToSet(Tail(ranked))
      BY <2>4 DEF ToSet
    <3>2. PICK i \in DOMAIN Tail(ranked) : c = Tail(ranked)[i]
      BY <3>1 DEF ToSet
    <3>3. i + 1 \in DOMAIN ranked /\ c = ranked[i + 1] /\ i + 1 # 1
      BY <2>3, <3>2, HeadTailProperties
    <3> QED
      BY <2>3, <3>3 DEF ToSet, IsInjective
  <2>5. ASSUME NEW c \in ToSet(contrasts)
        PROVE  /\ Hits(Led(c)) /\ Led(c) # <<>> /\ ToSet(Led(c)) \subseteq ToSet(ranked)
    <3> DEFINE two == <<ranked[1], c>>
               rest == Among(ranked, ToSet(ranked) \ {ranked[1], c})
    <3>1. c \in Chunks /\ ranked[1] \in Chunks /\ c # ranked[1] /\ c \in ToSet(ranked)
      BY <2>3, <2>4, <2>5
    <3>2. two \in Seq(Chunks) /\ IsInjective(two) /\ ToSet(two) = {ranked[1], c}
      <4>1. two \in Seq(Chunks) /\ DOMAIN two = {1, 2} /\ two[1] = ranked[1] /\ two[2] = c
        BY <3>1
      <4> QED
        BY <3>1, <4>1 DEF IsInjective, ToSet
    <3>3. /\ rest \in Seq(Chunks) /\ IsInjective(rest)
          /\ ToSet(rest) = ToSet(ranked) \cap (ToSet(ranked) \ {ranked[1], c})
      BY <2>3, AmongFacts
    <3> HIDE DEF two, rest
    <3>4. /\ two \o rest \in Seq(Chunks) /\ IsInjective(two \o rest)
          /\ ToSet(two \o rest) = ToSet(two) \cup ToSet(rest)
      BY <3>2, <3>3, JoinFacts
    <3>5. Hits(two \o rest) /\ two \o rest # <<>> /\ ToSet(two \o rest) \subseteq ToSet(ranked)
      BY <2>3, <3>1, <3>2, <3>3, <3>4, HitsFacts DEF Hits
    <3> QED
      BY <3>5 DEF two, rest
  <2> HIDE DEF limit, contrasts, Led
  <2>6. Some(e, ranked)
    BY <2>1, <2>2, <2>5, FirstAndFacts DEF Some
  <2> QED
    BY <1>2, <2>6
<1> QED
  BY <1>1, <1>2

\* The diverse hits are as many as they may be.
LEMMA DiverseFacts ==
  ASSUME NEW ranked, Hits(ranked), ranked # <<>>, NEW limit \in Nat \ {0},
         NEW e \in SelectDiverseHits(ranked, limit)
  PROVE  Some(e, ranked) /\ Cardinality(ToSet(e)) = Smaller(limit, Len(ranked))
<1>1. /\ ToSet(ranked) \in SUBSET Chunks /\ Len(ranked) \in Nat /\ Len(ranked) # 0
  BY HitsFacts
<1>2. PICK S \in kSubset(Smaller(limit, Len(ranked)), ToSet(ranked)) : e \in Orders[S]
  BY DEF SelectDiverseHits
<1>3. S \in SUBSET ToSet(ranked) /\ Cardinality(S) = Smaller(limit, Len(ranked))
  BY <1>2 DEF kSubset
<1>4. S \in SUBSET Chunks
  BY <1>1, <1>3
<1>5. Hits(e) /\ ToSet(e) = S /\ Len(e) = Cardinality(S)
  BY <1>2, <1>4, OrdersFacts
<1>6. Smaller(limit, Len(ranked)) # 0
  BY <1>1, SmallerFacts
<1>7. e # <<>>
  BY <1>3, <1>5, <1>6, HitsFacts
<1> QED
  BY <1>3, <1>5, <1>7 DEF Some

\* A summary of several documents has a hit of each, of one document some of its hits.
LEMMA SummaryFacts ==
  ASSUME NEW ranked, Hits(ranked), ranked # <<>>, NEW e \in SelectSummaryHits(ranked)
  PROVE  /\ Some(e, ranked)
         /\ Cardinality(Docs(e)) = Smaller(EvidenceLimit, Cardinality(Docs(ranked)))
<1>1. EvidenceLimit \in Nat \ {0}
  BY LimitFacts
<1>2. Cardinality(Docs(ranked)) \in Nat \ {0} /\ IsFiniteSet(Docs(ranked))
  BY DocsFacts
<1>3. CASE Cardinality(Docs(ranked)) <= 1
  <2>1. PICK s \in SelectDiverseHits(ranked, EvidenceLimit) : e \in InPosition(ToSet(s))
    BY <1>3 DEF SelectSummaryHits
  <2>2. Some(s, ranked) /\ ToSet(s) \in SUBSET Chunks
    BY <1>1, <2>1, DiverseFacts, HitsFacts DEF Some
  <2>3. Hits(e) /\ ToSet(e) = ToSet(s)
    BY <2>1, <2>2, InPositionFacts
  <2>4. Some(e, ranked)
    BY <2>2, <2>3, HitsFacts DEF Some
  <2>5. Docs(e) \in SUBSET Docs(ranked)
    BY <2>4 DEF Some, Docs
  <2>6. Cardinality(Docs(e)) \in Nat /\ Cardinality(Docs(e)) # 0
    BY <2>4, DocsFacts DEF Some
  <2>7. Cardinality(Docs(e)) <= Cardinality(Docs(ranked))
    BY <1>2, <2>5, FS_Subset
  <2>8. Cardinality(Docs(e)) = 1 /\ Cardinality(Docs(ranked)) = 1
    BY <1>2, <1>3, <2>6, <2>7
  <2>9. Smaller(EvidenceLimit, 1) = 1
    BY <1>1, SmallerFacts
  <2> QED
    BY <2>4, <2>8, <2>9
<1>4. CASE ~(Cardinality(Docs(ranked)) <= 1)
  <2> DEFINE reps == Representatives(ranked)
  <2>1. e \in SelectDiverseHits(reps, EvidenceLimit)
    BY <1>4 DEF SelectSummaryHits
  <2>2. /\ Hits(reps) /\ ToSet(reps) \subseteq ToSet(ranked) /\ Docs(reps) = Docs(ranked)
        /\ \A a, b \in ToSet(reps) : Doc[a] = Doc[b] => a = b
    BY RepresentativesFacts
  <2>3. reps # <<>>
    BY <1>2, <2>2, DocsFacts
  <2> HIDE DEF reps
  <2>4. Some(e, reps) /\ Cardinality(ToSet(e)) = Smaller(EvidenceLimit, Len(reps))
    BY <1>1, <2>1, <2>2, <2>3, DiverseFacts
  <2>5. Len(reps) = Cardinality(Docs(ranked))
    BY <2>2, AsManyDocs, HitsFacts
  <2>6. Cardinality(Docs(e)) = Cardinality(ToSet(e))
    BY <2>2, <2>4, AsManyDocs DEF Some
  <2> QED
    BY <2>2, <2>4, <2>5, <2>6 DEF Some
<1> QED
  BY <1>3, <1>4

\* Evidence of one document.
LEMMA OneDocument ==
  ASSUME NEW ranked, NEW e, ToSet(e) \subseteq SameDocument(ranked), Hits(e)
  PROVE  Cardinality(Docs(e)) <= 1
<1>1. Docs(e) \in SUBSET {Doc[ranked[1]]}
  BY DEF Docs, SameDocument
<1>2. IsFiniteSet({Doc[ranked[1]]}) /\ Cardinality({Doc[ranked[1]]}) = 1
  BY FS_Singleton
<1> QED
  BY <1>1, <1>2, FS_Subset

LEMMA EvidenceFacts ==
  ASSUME NEW hits, Hits(hits), NEW p, NEW enterprise \in BOOLEAN,
         NEW e \in PackageEvidence(hits, p, enterprise)
  PROVE  /\ Hits(e) /\ ToSet(e) \subseteq ToSet(hits)
         /\ e = <<>> <=> hits = <<>>
         /\ ~enterprise /\ FinalAnswerMode(p) \in {"exact_lookup", "list_or_recommendation"} =>
              Cardinality(Docs(e)) <= 1
         /\ IsSummary(p) =>
              Cardinality(Docs(e)) = Smaller(EvidenceLimit, Cardinality(Docs(hits)))
<1>1. CASE hits = <<>>
  <2>1. e = <<>> /\ Docs(e) = Docs(hits)
    BY <1>1 DEF PackageEvidence
  <2>2. Cardinality(Docs(e)) = 0
    BY <1>1, <2>1, DocsFacts
  <2>3. Smaller(EvidenceLimit, 0) = 0
    BY LimitFacts, SmallerFacts
  <2> QED
    BY <1>1, <2>1, <2>2, <2>3
<1>2. CASE hits # <<>>
  <2>1. PICK ranked \in RankHits(hits) : e \in SelectHits(ranked, p, enterprise)
    BY <1>2 DEF PackageEvidence
  <2>2. Hits(ranked) /\ ToSet(ranked) = ToSet(hits) /\ ranked # <<>>
    BY <1>2, <2>1, OrdersFacts, HitsFacts DEF RankHits
  <2>3. Docs(ranked) = Docs(hits)
    BY <2>2 DEF Docs
  <2>4. IsSummary(p) <=> FinalAnswerMode(p) = "summary"
    BY DEF FinalAnswerMode
  <2> DEFINE mode == FinalAnswerMode(p)
  <2>5. CASE mode = "exact_lookup"
    <3>1. e \in SelectExactQaHits(ranked, p, enterprise)
      BY <2>1, <2>5 DEF SelectHits
    <3>2. Some(e, ranked) /\ (~enterprise => ToSet(e) \subseteq SameDocument(ranked))
      BY <2>2, <3>1, ExactQaFacts
    <3> QED
      BY <1>2, <2>2, <2>4, <2>5, <3>2, OneDocument DEF Some
  <2>6. CASE mode = "list_or_recommendation"
    <3>1. e \in SelectStructuredBundleHits(ranked, p, enterprise)
      BY <2>1, <2>6 DEF SelectHits
    <3>2. Some(e, ranked) /\ (~enterprise => ToSet(e) \subseteq SameDocument(ranked))
      BY <2>2, <3>1, StructuredFacts
    <3> QED
      BY <1>2, <2>2, <2>4, <2>6, <3>2, OneDocument DEF Some
  <2>7. CASE mode = "summary"
    <3>1. e \in SelectSummaryHits(ranked)
      BY <2>1, <2>7 DEF SelectHits
    <3> QED
      BY <1>2, <2>2, <2>3, <2>7, <3>1, SummaryFacts DEF Some
  <2>8. CASE mode \notin {"exact_lookup", "list_or_recommendation", "summary"}
    <3>1. \/ \E limit \in Nat \ {0} : e \in SelectDiverseHits(ranked, limit)
          \/ e \in SelectStructuredBundleHits(ranked, p, enterprise)
      BY <2>1, <2>8, LimitFacts DEF SelectHits
    <3>2. Some(e, ranked)
      BY <2>2, <3>1, DiverseFacts, StructuredFacts
    <3> QED
      BY <1>2, <2>2, <2>4, <2>8, <3>2 DEF Some
  <2> QED
    BY <2>5, <2>6, <2>7, <2>8
<1> QED
  BY <1>1, <1>2

-----------------------------------------------------------------------------
(***************************************************************************)
(* The invariant.                                                          *)
(***************************************************************************)
Hit == [chunk : Chunks, rank : 1 .. MaxFound]

Phases == {"searching", "fused", "leading", "gathered", "reranked", "dated", "retrieved",
           "packaged", "failed", "escaped"}
WithHits == {"fused", "leading", "gathered", "reranked", "dated", "retrieved", "packaged"}

Types ==
  /\ job \in Jobs /\ phase \in Phases
  /\ sparse \in Seq(Hit) /\ dense \in Seq(Hit)
  /\ Hits(fused)

\* What the searches found is not lost, and nothing is put in the place of nothing but
\* the lead chunks of a summary.
FoundIsKept ==
  phase \in WithHits =>
    /\ found # {} => fused # <<>>
    /\ found = {} /\ ~IsSummary(job.profile) => fused = <<>>

IInv ==
  /\ Types
  /\ FoundIsKept
  /\ phase = "leading" => IsSummary(job.profile)
  /\ phase \notin {"retrieved", "packaged"} => model = NoModel
  /\ phase = "packaged" => evidence \in PackageEvidence(fused, job.profile, job.enterprise)

-----------------------------------------------------------------------------
\* Searches and their fusion.
LEMMA RankedFacts ==
  ASSUME NEW s \in Searches \cup {<<>>}
  PROVE  Ranked(s) \in Seq(Hit)
<1>1. CASE s = <<>>
  <2>1. Ranked(s) = <<>>
    BY <1>1 DEF Ranked
  <2> QED
    BY <2>1
<1>2. CASE s \in Searches
  <2> DEFINE small == UNION {kSubset(k, Chunks) : k \in 0 .. MaxFound}
  <2>0. PICK S \in small : s \in SetToSeqs(S)
    BY <1>2 DEF Searches
  <2>1. PICK k \in 0 .. MaxFound : S \in kSubset(k, Chunks)
    BY <2>0
  <2>2. S \in SUBSET Chunks /\ Cardinality(S) = k
    BY <2>1 DEF kSubset
  <2>3. s \in [1 .. k -> Chunks]
    BY <2>0, <2>2 DEF SetToSeqs
  <2>4. k \in Nat /\ MaxFound \in Nat /\ \A i \in 1 .. k : i \in 1 .. MaxFound
    BY LimitsAssumption
  <2>5. Ranked(s) \in [1 .. k -> Hit]
    BY <2>3, <2>4 DEF Ranked, Hit
  <2> QED
    BY <2>4, <2>5, SeqDef
<1> QED
  BY <1>1, <1>2

LEMMA IdsFacts ==
  ASSUME NEW hits \in Seq(Hit)
  PROVE  Ids(hits) \in SUBSET Chunks
<1>1. \A i \in DOMAIN hits : hits[i] \in Hit
  BY LenProperties
<1> QED
  BY <1>1 DEF Ids, Hit

LEMMA BestRankFacts ==
  ASSUME NEW hits \in Seq(Hit), NEW c \in Ids(hits)
  PROVE  BestRank(hits, c) \in Nat
<1> DEFINE ranks == {hits[i].rank : i \in {j \in DOMAIN hits : hits[j].chunk = c}}
<1>1. ranks \in SUBSET (1 .. MaxFound)
  <2>1. \A i \in DOMAIN hits : hits[i] \in Hit
    BY LenProperties
  <2>2. \A h \in Hit : h.rank \in 1 .. MaxFound
    BY DEF Hit
  <2> QED
    BY <2>1, <2>2
<1>2. IsFiniteSet(ranks) /\ ranks \in SUBSET Nat
  <2>1. IsFiniteSet(1 .. MaxFound)
    BY LimitsAssumption, FS_Interval
  <2> HIDE DEF ranks
  <2>2. IsFiniteSet(ranks)
    BY <1>1, <2>1, FS_Subset
  <2>3. \A i \in 1 .. MaxFound : i \in Nat
    BY LimitsAssumption
  <2> QED
    BY <1>1, <2>2, <2>3
<1>3. ranks # {}
  BY DEF Ids
<1> HIDE DEF ranks
<1>4. Min(ranks) \in ranks
  BY <1>2, <1>3, MinFacts
<1> QED
  BY <1>2, <1>4 DEF BestRank, ranks

LEMMA DedupeFacts ==
  ASSUME NEW hits \in Seq(Hit), NEW s \in Dedupe(hits)
  PROVE  /\ Hits(s) /\ ToSet(s) = Ids(hits)
         /\ \A a, b \in Ids(hits) :
              BestRank(hits, a) < BestRank(hits, b) => PlaceOf(s, a) < PlaceOf(s, b)
<1>1. Hits(s) /\ ToSet(s) = Ids(hits)
  BY IdsFacts, OrdersFacts DEF Dedupe
<1>2. ASSUME NEW a \in Ids(hits), NEW b \in Ids(hits), BestRank(hits, a) < BestRank(hits, b)
      PROVE  PlaceOf(s, a) < PlaceOf(s, b)
  <2> DEFINE i == PlaceOf(s, a)
             j == PlaceOf(s, b)
  <2>1. /\ i \in DOMAIN s /\ s[i] = a /\ i \in 1 .. Cardinality(Chunks)
        /\ j \in DOMAIN s /\ s[j] = b /\ j \in 1 .. Cardinality(Chunks)
    BY <1>1, PlaceFacts
  <2>2. j < i => BestRank(hits, s[j]) <= BestRank(hits, s[i])
    BY <2>1 DEF Dedupe
  <2>3. BestRank(hits, a) \in Nat /\ BestRank(hits, b) \in Nat
    BY BestRankFacts
  <2>4. a # b
    BY <1>2, <2>3
  <2> HIDE DEF i, j
  <2>5. ~(j < i) /\ i # j
    BY <1>2, <2>1, <2>2, <2>3, <2>4
  <2> QED
    BY <2>1, <2>5 DEF i, j
<1> QED
  BY <1>1, <1>2

LEMMA InitIInv == Init => IInv
<1> SUFFICES ASSUME Init PROVE IInv
  OBVIOUS
<1>1. <<>> \in Seq(Hit) /\ <<>> \in Seq(Chunks) /\ IsInjective(<<>>)
  BY DEF IsInjective
<1> QED
  BY <1>1 DEF Init, IInv, Types, Hits, Phases, FoundIsKept, WithHits

LEMMA SearchIInv == ASSUME IInv, Search PROVE IInv'
<1>1. /\ Types /\ phase = "searching" /\ model = NoModel
      /\ UNCHANGED <<job, phase, found, fused, model, evidence>>
  BY DEF IInv, Search
<1>2. sparse' \in Seq(Hit)
  <2>1. PICK s \in Searches \cup {<<>>} : sparse' = sparse \o Ranked(s)
    BY DEF Search
  <2>2. Ranked(s) \in Seq(Hit)
    BY RankedFacts
  <2> QED
    BY <1>1, <2>1, <2>2, ConcatProperties DEF Types
<1>3. dense' \in Seq(Hit)
  <2>1. PICK s \in Searches : dense' = dense \o Ranked(s)
    BY DEF Search
  <2>2. Ranked(s) \in Seq(Hit)
    BY RankedFacts
  <2> QED
    BY <1>1, <2>1, <2>2, ConcatProperties DEF Types
<1> QED
  BY <1>1, <1>2, <1>3 DEF IInv, Types, Hits, FoundIsKept, WithHits

LEMMA FuseIInv == ASSUME IInv, Fuse PROVE IInv'
<1>1. /\ Types /\ phase = "searching" /\ model = NoModel
      /\ found' = Ids(sparse) \cup Ids(dense) /\ sparse' = <<>> /\ dense' = <<>>
      /\ phase' = "fused" /\ UNCHANGED <<job, asked, model, evidence>>
  BY DEF IInv, Fuse
<1>2. PICK s \in Dedupe(sparse), d \in Dedupe(dense) : fused' = Fusion(s, d)
  BY DEF Fuse
<1>3. Hits(s) /\ ToSet(s) = Ids(sparse) /\ Hits(d) /\ ToSet(d) = Ids(dense)
  BY <1>1, DedupeFacts DEF Types
<1>4. Hits(fused') /\ ToSet(fused') = found'
  BY <1>1, <1>2, <1>3, FusionFacts
<1>5. fused' = <<>> <=> found' = {}
  BY <1>4, HitsFacts
<1>6. Types'
  BY <1>1, <1>4 DEF Types, Phases, Hits
<1> QED
  BY <1>1, <1>5, <1>6 DEF IInv, FoundIsKept

-----------------------------------------------------------------------------
\* A step that gives up.
LEMMA FailsIInv ==
  ASSUME IInv, Fails, phase \notin {"retrieved", "packaged"}
  PROVE  IInv'
  BY DEF IInv, Types, Hits, Phases, Fails, FoundIsKept, WithHits

\* A step that puts other hits in the place of those there are.
LEMMA HitsIInv ==
  ASSUME IInv, phase \in WithHits \ {"packaged"}, phase' \in WithHits \ {"leading", "packaged"},
         Hits(fused'), fused # <<>> => fused' # <<>>,
         ~IsSummary(job.profile) /\ fused = <<>> => fused' = <<>>,
         UNCHANGED <<job, sparse, dense, found>>,
         phase' \notin {"retrieved", "packaged"} => model' = NoModel
  PROVE  IInv'
<1>1. Types'
  BY DEF IInv, Types, Hits, Phases, WithHits
<1>2. FoundIsKept'
  BY DEF IInv, FoundIsKept
<1> QED
  BY <1>1, <1>2 DEF IInv, WithHits

LEMMA WithRowsFacts ==
  ASSUME Hits(fused), NEW rows \in SUBSET Chunks
  PROVE  /\ Hits(WithRows(rows))
         /\ fused # <<>> => WithRows(rows) # <<>>
         /\ fused = <<>> /\ rows = {} => WithRows(rows) = <<>>
<1> DEFINE more == Ascending(rows \ ToSet(fused))
<1>1. Hits(more) /\ ToSet(more) = rows \ ToSet(fused)
  BY AscendingHits
<1>2. WithRows(rows) = fused \o more
  BY DEF WithRows
<1> HIDE DEF more
<1>3. Hits(fused \o more) /\ ToSet(fused \o more) = ToSet(fused) \cup ToSet(more)
  BY <1>1, JoinFacts DEF Hits
<1>4. fused = <<>> <=> ToSet(fused) = {}
  BY HitsFacts
<1>5. fused \o more = <<>> <=> ToSet(fused \o more) = {}
  BY <1>3, HitsFacts
<1> QED
  BY <1>1, <1>2, <1>3, <1>4, <1>5

\* Of no hits there are no documents, so that nothing is near them.
LEMMA NothingNearNothing ==
  ASSUME fused = <<>>, NEW section \in Sections
  PROVE  Nearby \cup section = {}
<1>1. Hits(<<>>)
  BY DEF Hits, IsInjective
<1>2. Top(fused, 5) = <<>>
  <2>1. Hits(Top(fused, 5)) /\ ToSet(Top(fused, 5)) \subseteq ToSet(fused)
    BY <1>1, TopFacts DEF Hits
  <2> QED
    BY <1>1, <2>1, HitsFacts
<1>3. Representatives(<<>>) = <<>>
  <2>1. Hits(Representatives(<<>>)) /\ ToSet(Representatives(<<>>)) \subseteq ToSet(<<>>)
    BY <1>1, RepresentativesFacts
  <2> QED
    BY <1>1, <2>1, HitsFacts
<1>4. TopDocs = <<>>
  BY <1>2, <1>3 DEF TopDocs
<1>5. Top(TopDocs, 3) = <<>>
  <2>1. TopDocs \in Seq(Nat)
    BY <1>4
  <2>2. ToSet(Top(TopDocs, 3)) \subseteq ToSet(TopDocs) /\ Top(TopDocs, 3) \in Seq(Nat)
    BY <2>1, TopFacts
  <2>3. ToSet(TopDocs) = {}
    BY <1>4 DEF ToSet
  <2>4. ToSet(Top(TopDocs, 3)) = {}
    BY <2>2, <2>3
  <2>5. DOMAIN Top(TopDocs, 3) = {}
    BY <2>4 DEF ToSet
  <2> QED
    BY <2>2, <2>5
<1>6. ToSet(<<>>) = {}
  BY <1>1, HitsFacts
<1>7. Nearby = {}
  BY <1>2, <1>5, <1>6 DEF Nearby
<1>8. section = {}
  BY <1>4, <1>6 DEF Sections
<1> QED
  BY <1>7, <1>8

LEMMA AddContextIInv == ASSUME IInv, AddContext PROVE IInv'
<1>1. /\ Types /\ phase = "fused" /\ model = NoModel
      /\ phase' = IF IsSummary(job.profile) THEN "leading" ELSE "gathered"
      /\ UNCHANGED <<job, asked, sparse, dense, found, model, evidence>>
  BY DEF IInv, AddContext
<1>2. PICK section \in Sections : fused' = WithRows(Nearby \cup section)
  BY DEF AddContext
<1>3. Nearby \cup section \in SUBSET Chunks
  BY DEF Nearby, Sections
<1>4. Hits(fused') /\ (fused # <<>> => fused' # <<>>) /\ (fused = <<>> => fused' = <<>>)
  BY <1>1, <1>2, <1>3, WithRowsFacts, NothingNearNothing DEF Types
<1>5. Types'
  BY <1>1, <1>4 DEF Types, Hits, Phases
<1>6. FoundIsKept'
  BY <1>1, <1>4 DEF IInv, FoundIsKept, WithHits
<1> QED
  BY <1>1, <1>5, <1>6 DEF IInv

LEMMA AddLeadsIInv == ASSUME IInv, AddLeads PROVE IInv'
<1>1. /\ Types /\ phase = "leading" /\ model = NoModel /\ IsSummary(job.profile)
      /\ phase' = "gathered" /\ fused' = WithRows(ToSet(LeadRows))
      /\ UNCHANGED <<job, asked, sparse, dense, found, model, evidence>>
  BY DEF IInv, AddLeads
<1>2. ToSet(LeadRows) \in SUBSET Chunks
  <2> DEFINE S == {c \in Chunks : Index[c] <= 1}
             n == Larger(FinalLimit, EvidenceLimit * 2)
  <2>1. Hits(Ascending(S)) /\ ToSet(Ascending(S)) = S
    BY AscendingHits
  <2>2. n \in Nat
    BY LimitsAssumption, EvidenceLimitAssumption, SmallerFacts
  <2> HIDE DEF S, n
  <2>3. ToSet(Top(Ascending(S), n)) \subseteq S
    BY <2>1, <2>2, TopFacts DEF Hits
  <2> QED
    BY <2>3 DEF LeadRows, S, n
<1>3. Hits(fused') /\ (fused # <<>> => fused' # <<>>)
  BY <1>1, <1>2, WithRowsFacts DEF Types
<1> QED
  BY <1>1, <1>3, HitsIInv DEF WithHits

LEMMA RerankForQueryIInv == ASSUME IInv, RerankForQuery PROVE IInv'
<1>1. /\ Types /\ phase = "gathered" /\ model = NoModel /\ phase' = "reranked"
      /\ UNCHANGED <<job, asked, sparse, dense, found, model, evidence>>
  BY DEF IInv, RerankForQuery
<1>2. PICK order \in Orders[ToSet(fused)] : fused' = Top(order, Larger(FinalLimit, RerankPool))
  BY DEF RerankForQuery
<1>3. Hits(order) /\ ToSet(order) = ToSet(fused)
  BY <1>1, <1>2, HitsFacts, OrdersFacts DEF Types
<1>4. Larger(FinalLimit, RerankPool) \in Nat \ {0}
  BY LimitsAssumption, SmallerFacts
<1>5. Hits(fused') /\ ToSet(fused') \subseteq ToSet(order) /\ (order # <<>> => fused' # <<>>)
  BY <1>2, <1>3, <1>4, TopFacts DEF Hits
<1>6. (fused = <<>> <=> ToSet(fused) = {}) /\ (order = <<>> <=> ToSet(order) = {})
      /\ (fused' = <<>> <=> ToSet(fused') = {})
  BY <1>1, <1>3, <1>5, HitsFacts DEF Types
<1>7. (fused # <<>> => fused' # <<>>) /\ (fused = <<>> => fused' = <<>>)
  BY <1>3, <1>5, <1>6
<1> QED
  BY <1>1, <1>5, <1>7, HitsIInv DEF WithHits

LEMMA ApplyFreshnessIInv == ASSUME IInv, ApplyFreshness PROVE IInv'
<1>1. /\ Types /\ phase = "reranked" /\ model = NoModel /\ phase' = "dated"
      /\ UNCHANGED <<job, asked, sparse, dense, found, model, evidence>>
      /\ fused' \in Orders[ToSet(fused)] \/ fused' = fused
  BY DEF IInv, ApplyFreshness
<1>2. Hits(fused') /\ ToSet(fused') = ToSet(fused)
  BY <1>1, HitsFacts, OrdersFacts DEF Types
<1>3. (fused = <<>> <=> ToSet(fused) = {}) /\ (fused' = <<>> <=> ToSet(fused') = {})
  BY <1>1, <1>2, HitsFacts DEF Types
<1> QED
  BY <1>1, <1>2, <1>3, HitsIInv DEF WithHits

-----------------------------------------------------------------------------
(***************************************************************************)
(* The reply of the reranker and the hits it does not name.                *)
(***************************************************************************)
LEMMA PrefixFacts ==
  ASSUME NEW A, NEW s \in Seq(A), NEW t \in Seq(A), Len(s) <= Len(t),
         \A i \in 1 .. Len(s) : s[i] = t[i]
  PROVE  IsPrefix(s, t)
<1>1. Len(s) \in Nat /\ Len(t) \in Nat
  BY LenProperties
<1>2. \A i \in 1 .. Len(s) : s[i] \in A /\ t[i] \in A
  BY <1>1, LenProperties
<1> DEFINE a == SubSeq(s, 1, Len(s))
           b == SubSeq(t, 1, Len(s))
<1>3. /\ a \in Seq(A) /\ Len(a) = (IF 1 <= Len(s) THEN Len(s) - 1 + 1 ELSE 0)
      /\ \A i \in 1 .. Len(s) - 1 + 1 : a[i] = s[1 + i - 1]
  BY <1>1, <1>2, SubSeqProperties
<1>4. /\ b \in Seq(A) /\ Len(b) = (IF 1 <= Len(s) THEN Len(s) - 1 + 1 ELSE 0)
      /\ \A i \in 1 .. Len(s) - 1 + 1 : b[i] = t[1 + i - 1]
  BY <1>1, <1>2, SubSeqProperties
<1> HIDE DEF a, b
<1>5. Len(a) = Len(s) /\ \A i \in 1 .. Len(s) : a[i] = s[i]
  BY <1>1, <1>3
<1>6. Len(b) = Len(s) /\ \A i \in 1 .. Len(s) : b[i] = t[i]
  BY <1>1, <1>4
<1>7. a = b
  <2>1. Len(a) = Len(b) /\ \A i \in 1 .. Len(a) : a[i] = b[i]
    BY <1>5, <1>6
  <2> QED
    BY <1>3, <1>4, <2>1, SeqEqual
<1> QED
  BY <1>7 DEF a, b, IsPrefix

\* The named hits and then the rest are all the hits; the rest keep their order.
NamedFirst(hits, order) == order \o Among(hits, ToSet(hits) \ ToSet(order))

LEMMA NamedFirstFacts ==
  ASSUME NEW hits, Hits(hits), NEW order, Hits(order), ToSet(order) \subseteq ToSet(hits)
  PROVE  LET all == NamedFirst(hits, order) IN
         /\ Hits(all) /\ ToSet(all) = ToSet(hits) /\ Len(all) = Len(hits)
         /\ Len(order) <= Len(all)
         /\ \A i \in 1 .. Len(order) : all[i] = order[i]
         /\ \A i, j \in DOMAIN hits :
              /\ i < j /\ hits[i] \notin ToSet(order) /\ hits[j] \notin ToSet(order)
              => \E k, l \in DOMAIN all : k < l /\ all[k] = hits[i] /\ all[l] = hits[j]
         /\ (\A i \in 1 .. Len(order) : order[i] = hits[i]) => all = hits
<1> DEFINE all == NamedFirst(hits, order)
           at == {i \in DOMAIN hits : hits[i] \in ToSet(hits) \ ToSet(order)}
           rest == Picked(hits, at)
           o == Ascending(at)
<1>1. /\ hits \in Seq(Chunks) /\ IsInjective(hits) /\ Len(hits) \in Nat
      /\ DOMAIN hits = 1 .. Len(hits) /\ Cardinality(ToSet(hits)) = Len(hits)
      /\ ToSet(hits) \in SUBSET Chunks
  BY HitsFacts
<1>2. /\ order \in Seq(Chunks) /\ IsInjective(order) /\ Len(order) \in Nat
      /\ DOMAIN order = 1 .. Len(order)
  BY HitsFacts
<1>3. all = order \o rest /\ at \in SUBSET DOMAIN hits
  BY DEF Among, NamedFirst
<1>a. {hits[k] : k \in at} = ToSet(hits) \ ToSet(order)
  BY DEF ToSet
<1>b. \A k : k \in at <=> k \in DOMAIN hits /\ hits[k] \notin ToSet(order)
  BY DEF ToSet
<1> HIDE DEF at
<1>4. /\ Cardinality(at) \in Nat
      /\ rest \in Seq(Chunks) /\ Len(rest) = Cardinality(at)
      /\ \A i \in 1 .. Cardinality(at) : o[i] \in at /\ rest[i] = hits[o[i]]
      /\ \A k \in at : \E i \in 1 .. Cardinality(at) : o[i] = k
      /\ \A i, j \in 1 .. Cardinality(at) : i < j => o[i] < o[j]
      /\ ToSet(rest) = {hits[k] : k \in at}
      /\ IsInjective(rest)
  BY <1>1, <1>3, PickedFacts
<1>5. ToSet(rest) = ToSet(hits) \ ToSet(order)
  BY <1>a, <1>4
<1> HIDE DEF o, rest, all
<1>8. /\ all \in Seq(Chunks) /\ Len(all) = Len(order) + Len(rest)
      /\ \A i \in 1 .. Len(order) : all[i] = order[i]
      /\ \A i \in 1 .. Len(rest) : all[Len(order) + i] = rest[i]
      /\ ToSet(all) = ToSet(order) \cup ToSet(rest)
      /\ IsInjective(all)
  <2>1. order \in Seq(Chunks) /\ rest \in Seq(Chunks) /\ all = order \o rest
    BY <1>2, <1>3, <1>4
  <2>2. IsInjective(order) /\ IsInjective(rest) /\ ToSet(order) \cap ToSet(rest) = {}
    BY <1>2, <1>4, <1>5
  <2> QED
    BY <2>1, <2>2, JoinFacts
<1>9. Hits(all) /\ ToSet(all) = ToSet(hits)
  BY <1>5, <1>8 DEF Hits
<1>10. Len(all) = Len(hits) /\ DOMAIN all = 1 .. Len(all) /\ Len(all) \in Nat
  BY <1>1, <1>9, HitsFacts
<1>11. Len(order) <= Len(all)
  BY <1>2, <1>4, <1>8
<1>12. ASSUME NEW i \in DOMAIN hits, NEW j \in DOMAIN hits, i < j,
              hits[i] \notin ToSet(order), hits[j] \notin ToSet(order)
       PROVE  \E k, l \in DOMAIN all : k < l /\ all[k] = hits[i] /\ all[l] = hits[j]
  <2>1. i \in at /\ j \in at
    BY <1>b, <1>12
  <2>2. PICK a \in 1 .. Cardinality(at) : o[a] = i
    BY <1>4, <2>1
  <2>3. PICK b \in 1 .. Cardinality(at) : o[b] = j
    BY <1>4, <2>1
  <2>4. a < b
    <3>1. a # b /\ ~(b < a)
      BY <1>1, <1>4, <1>12, <2>2, <2>3
    <3> QED
      BY <1>4, <3>1
  <2>5. all[Len(order) + a] = hits[i] /\ all[Len(order) + b] = hits[j]
    BY <1>4, <1>8, <2>2, <2>3
  <2>6. Len(order) + a \in DOMAIN all /\ Len(order) + b \in DOMAIN all
        /\ Len(order) + a < Len(order) + b
    <3> DEFINE m == Len(order)
               n == Cardinality(at)
    <3>1. m \in Nat /\ n \in Nat /\ DOMAIN all = 1 .. m + n
      BY <1>2, <1>4, <1>8, <1>10
    <3> HIDE DEF m, n
    <3>2. a \in 1 .. n /\ b \in 1 .. n
      BY DEF n
    <3>3. m + a \in DOMAIN all /\ m + b \in DOMAIN all /\ m + a < m + b
      BY <2>4, <3>1, <3>2
    <3> QED
      BY <3>3 DEF m
  <2> QED
    BY <2>5, <2>6
<1>13. ASSUME \A i \in 1 .. Len(order) : order[i] = hits[i] PROVE all = hits
  <2> DEFINE m == Len(order)
             n == Len(hits)
  <2>1. m <= n /\ m \in Nat /\ n \in Nat
    BY <1>1, <1>2, <1>10, <1>11
  <2>2. at = m + 1 .. n
    <3>1. ASSUME NEW k \in 1 .. n PROVE hits[k] \in ToSet(order) <=> k <= m
      <4>1. k <= m => hits[k] \in ToSet(order)
        BY <1>2, <1>13 DEF ToSet
      <4>2. ASSUME hits[k] \in ToSet(order) PROVE k <= m
        <5>1. PICK i \in 1 .. m : order[i] = hits[k]
          BY <1>2, <4>2 DEF ToSet
        <5>2. hits[i] = hits[k] /\ i \in DOMAIN hits
          BY <1>1, <1>13, <2>1, <5>1
        <5> QED
          BY <1>1, <5>1, <5>2 DEF IsInjective
      <4> QED
        BY <4>1, <4>2
    <3>2. \A k : k \in at <=> k \in 1 .. n /\ ~(k <= m)
      BY <1>1, <1>b, <3>1
    <3>3. \A k : k \in m + 1 .. n <=> k \in 1 .. n /\ ~(k <= m)
      BY <2>1
    <3> QED
      BY <3>2, <3>3
  <2>3. ASSUME NEW i \in 1 .. n PROVE all[i] = hits[i]
    <3>1. CASE i <= m
      BY <1>8, <1>13, <2>1, <3>1
    <3>2. CASE ~(i <= m)
      <4> DEFINE k == i - m
                 a == m + 1
      <4>1. k \in 1 .. n + 1 - (m + 1) /\ m + 1 <= n + 1
        BY <2>1, <3>2
      <4>a. a \in Nat /\ at = a .. n /\ o = Ascending(at)
        BY <2>1, <2>2 DEF o
      <4> HIDE DEF m, n, k, a
      <4>b. k \in 1 .. (n + 1 - a) /\ a <= n + 1 /\ n \in Nat
        BY <2>1, <4>1 DEF a
      <4>2. Cardinality(at) = n + 1 - a /\ o[k] = a + k - 1
        BY <4>a, <4>b, AscendingRange
      <4>3. o[k] = i /\ k \in 1 .. Cardinality(at) /\ m + k = i
        BY <2>1, <4>b, <4>2 DEF k, a
      <4>4. all[m + k] = rest[k] /\ rest[k] = hits[o[k]]
        BY <1>4, <1>8, <4>3 DEF m
      <4> QED
        BY <4>3, <4>4
    <3> QED
      BY <3>1, <3>2
  <2>4. \A i \in 1 .. Len(all) : all[i] = hits[i]
    BY <1>10, <2>3
  <2> QED
    BY <1>1, <1>8, <1>10, <2>4, SeqEqual
<1> QED
  BY <1>8, <1>9, <1>10, <1>11, <1>12, <1>13 DEF all

\* The hits kept of them all.
LEMMA MergedFacts ==
  ASSUME Hits(fused), NEW order, Hits(order), ToSet(order) \subseteq ToSet(fused),
         Len(order) <= FinalLimit
  PROVE  /\ Hits(Merged(order)) /\ ToSet(Merged(order)) \subseteq ToSet(fused)
         /\ Len(Merged(order)) = Smaller(FinalLimit, Len(fused))
         /\ fused # <<>> => Merged(order) # <<>>
         /\ IsPrefix(order, Merged(order))
         /\ \A i, j \in DOMAIN fused :
              /\ i < j /\ fused[i] \notin ToSet(order)
              /\ fused[j] \in ToSet(Merged(order)) \ ToSet(order)
              => \E k, l \in DOMAIN Merged(order) :
                   k < l /\ Merged(order)[k] = fused[i] /\ Merged(order)[l] = fused[j]
         /\ (\A i \in 1 .. Len(order) : order[i] = fused[i]) => IsPrefix(Merged(order), fused)
<1> DEFINE all == NamedFirst(fused, order)
           m == Merged(order)
<1>1. /\ Hits(all) /\ ToSet(all) = ToSet(fused) /\ Len(all) = Len(fused)
      /\ Len(order) <= Len(all)
      /\ \A i \in 1 .. Len(order) : all[i] = order[i]
      /\ \A i, j \in DOMAIN fused :
           /\ i < j /\ fused[i] \notin ToSet(order) /\ fused[j] \notin ToSet(order)
           => \E k, l \in DOMAIN all : k < l /\ all[k] = fused[i] /\ all[l] = fused[j]
      /\ (\A i \in 1 .. Len(order) : order[i] = fused[i]) => all = fused
  BY NamedFirstFacts
<1>2. m = Top(all, FinalLimit) /\ FinalLimit \in Nat \ {0}
  BY LimitsAssumption DEF Merged, NamedFirst
<1> HIDE DEF all, m
<1>3. /\ all \in Seq(Chunks) /\ IsInjective(all) /\ Len(all) \in Nat /\ DOMAIN all = 1 .. Len(all)
  BY <1>1, HitsFacts
<1>4. /\ order \in Seq(Chunks) /\ Len(order) \in Nat
  BY HitsFacts
<1>5. /\ m \in Seq(Chunks) /\ Len(m) = Smaller(FinalLimit, Len(all))
      /\ Len(m) = IF FinalLimit <= Len(all) THEN FinalLimit ELSE Len(all)
      /\ \A i \in 1 .. Len(m) : i \in DOMAIN all /\ m[i] = all[i]
      /\ ToSet(m) \subseteq ToSet(all)
      /\ IsInjective(m)
      /\ all # <<>> => m # <<>>
  BY <1>2, <1>3, TopFacts
<1>6. Hits(m) /\ DOMAIN m = 1 .. Len(m) /\ Len(m) \in Nat
  BY <1>5, HitsFacts DEF Hits
<1>7. fused = <<>> <=> all = <<>>
  BY <1>1, HitsFacts
<1>8. Len(order) <= Len(m) /\ Len(m) <= Len(all)
  <2>1. CASE FinalLimit <= Len(all)
    BY <1>1, <1>5, <2>1
  <2>2. CASE ~(FinalLimit <= Len(all))
    BY <1>1, <1>3, <1>5, <2>2
  <2> QED
    BY <2>1, <2>2
<1>9. IsPrefix(order, m)
  <2>1. \A i \in 1 .. Len(order) : order[i] = m[i]
    BY <1>1, <1>4, <1>5, <1>6, <1>8
  <2> QED
    BY <1>4, <1>5, <1>8, <2>1, PrefixFacts
<1>10. IsPrefix(m, all)
  BY <1>3, <1>5, <1>8, PrefixFacts
<1>11. ASSUME NEW i \in DOMAIN fused, NEW j \in DOMAIN fused, i < j,
              fused[i] \notin ToSet(order), fused[j] \in ToSet(m) \ ToSet(order)
       PROVE  \E k, l \in DOMAIN m : k < l /\ m[k] = fused[i] /\ m[l] = fused[j]
  <2>1. PICK k \in DOMAIN all, l \in DOMAIN all :
          k < l /\ all[k] = fused[i] /\ all[l] = fused[j]
    BY <1>1, <1>11
  <2>2. PICK h \in DOMAIN m : m[h] = fused[j]
    BY <1>11 DEF ToSet
  <2>3. h \in DOMAIN all /\ all[h] = fused[j]
    BY <1>5, <1>6, <2>2
  <2>4. h = l
    BY <1>3, <2>1, <2>3 DEF IsInjective
  <2>5. k \in DOMAIN m /\ l \in DOMAIN m
    BY <1>3, <1>6, <2>1, <2>4
  <2>6. m[k] = fused[i] /\ m[l] = fused[j]
    BY <1>5, <1>6, <2>1, <2>5
  <2> QED
    BY <2>1, <2>5, <2>6
<1> QED
  BY <1>1, <1>5, <1>6, <1>7, <1>9, <1>10, <1>11 DEF m

\* What the reranker answers is some of the hits, or as many as fit of the first.
LEMMA RepliesFacts ==
  ASSUME Hits(fused), NEW r \in Replies
  PROVE  /\ Hits(r.order) /\ ToSet(r.order) \subseteq ToSet(fused) /\ Len(r.order) <= FinalLimit
         /\ ~r.applied => \A i \in 1 .. Len(r.order) : r.order[i] = fused[i]
<1> DEFINE pool == Top(fused, RerankPool)
<1>1. fused \in Seq(Chunks) /\ IsInjective(fused) /\ DOMAIN fused = 1 .. Len(fused)
      /\ FinalLimit \in Nat \ {0} /\ RerankPool \in Nat
  BY HitsFacts, LimitsAssumption
<1>2. /\ pool \in Seq(Chunks) /\ IsInjective(pool) /\ ToSet(pool) \subseteq ToSet(fused)
      /\ \A i \in 1 .. Len(pool) : i \in DOMAIN fused /\ pool[i] = fused[i]
  BY <1>1, TopFacts
<1>3. DOMAIN pool = 1 .. Len(pool) /\ Len(pool) \in Nat /\ ToSet(pool) \in SUBSET Chunks
  BY <1>2, HitsFacts DEF Hits
<1>4. r \in Parsed(pool) \/ r \in PassedThrough(pool)
  BY DEF Replies
<1> HIDE DEF pool
<1>5. CASE r \in Parsed(pool)
  <2> DEFINE named == {S \in SUBSET ToSet(pool) : S # {} /\ Cardinality(S) <= FinalLimit}
  <2>1. PICK s \in UNION {Orders[S] : S \in named} : r = [applied |-> TRUE, order |-> s]
    BY <1>5 DEF Parsed
  <2>2. PICK S \in named : s \in Orders[S]
    BY <2>1
  <2>3. S \in SUBSET Chunks /\ S \subseteq ToSet(fused) /\ Cardinality(S) <= FinalLimit
    BY <1>2, <1>3, <2>2
  <2>4. Hits(s) /\ ToSet(s) = S /\ Len(s) = Cardinality(S)
    BY <2>2, <2>3, OrdersFacts
  <2> QED
    BY <2>1, <2>3, <2>4
<1>6. CASE r \in PassedThrough(pool)
  <2> DEFINE s == Top(pool, FinalLimit)
  <2>1. r = [applied |-> FALSE, order |-> s]
    BY <1>6 DEF PassedThrough
  <2>2. /\ s \in Seq(Chunks) /\ IsInjective(s) /\ ToSet(s) \subseteq ToSet(pool)
        /\ Len(s) = IF FinalLimit <= Len(pool) THEN FinalLimit ELSE Len(pool)
        /\ \A i \in 1 .. Len(s) : i \in DOMAIN pool /\ s[i] = pool[i]
    BY <1>1, <1>2, TopFacts
  <2> HIDE DEF s
  <2>3. Len(s) <= FinalLimit
    BY <1>1, <1>3, <2>2
  <2>4. \A i \in 1 .. Len(s) : s[i] = fused[i]
    BY <1>2, <1>3, <2>2
  <2> QED
    BY <1>2, <2>1, <2>2, <2>3, <2>4 DEF Hits
<1> QED
  BY <1>4, <1>5, <1>6

-----------------------------------------------------------------------------
\* The last orders and the evidence.
LEMMA RerankIInv == ASSUME IInv, Rerank PROVE IInv'
<1>1. /\ Types /\ phase = "dated" /\ phase' = "retrieved" /\ Hits(fused)
      /\ UNCHANGED <<job, asked, sparse, dense, found, evidence>>
  BY DEF IInv, Types, Rerank
<1>2. Hits(fused') /\ ToSet(fused') \subseteq ToSet(fused) /\ (fused # <<>> => fused' # <<>>)
  <2>1. ASSUME NEW r \in Replies, fused' = Merged(r.order)
        PROVE  Hits(fused') /\ ToSet(fused') \subseteq ToSet(fused) /\ (fused # <<>> => fused' # <<>>)
    BY <1>1, <2>1, RepliesFacts, MergedFacts
  <2>2. ASSUME fused' = Top(fused, FinalLimit)
        PROVE  Hits(fused') /\ ToSet(fused') \subseteq ToSet(fused) /\ (fused # <<>> => fused' # <<>>)
    BY <1>1, <2>2, LimitsAssumption, TopFacts DEF Hits
  <2> QED
    BY <2>1, <2>2 DEF Rerank
<1>3. fused = <<>> => fused' = <<>>
  BY <1>1, <1>2, HitsFacts
<1> QED
  BY <1>1, <1>2, <1>3, HitsIInv DEF WithHits

LEMMA RerankEscapesIInv == ASSUME IInv, RerankEscapes PROVE IInv'
  BY DEF IInv, Types, Hits, Phases, RerankEscapes, FoundIsKept, WithHits

LEMMA PackageIInv == ASSUME IInv, Package PROVE IInv'
<1>1. /\ phase = "retrieved" /\ phase' = "packaged"
      /\ evidence' \in PackageEvidence(fused, job.profile, job.enterprise)
      /\ UNCHANGED <<job, asked, sparse, dense, found, fused, model>>
  BY DEF Package
<1>2. Types' /\ FoundIsKept'
  BY <1>1 DEF IInv, Types, Hits, Phases, FoundIsKept, WithHits
<1> QED
  BY <1>1, <1>2 DEF IInv

LEMMA StutterIInv == ASSUME IInv, UNCHANGED vars PROVE IInv'
<1>1. UNCHANGED <<job, phase, sparse, dense, found, fused, model, evidence>>
  BY DEF vars
<1>2. Types' /\ FoundIsKept'
  BY <1>1 DEF IInv, Types, Hits, FoundIsKept
<1> QED
  BY <1>1, <1>2 DEF IInv

LEMMA NextIInv == ASSUME IInv, [Next]_vars PROVE IInv'
<1>1. CASE Search
  BY <1>1, SearchIInv
<1>2. CASE SearchFails
  BY <1>2, FailsIInv DEF SearchFails
<1>3. CASE Fuse
  BY <1>3, FuseIInv
<1>4. CASE AddContext
  BY <1>4, AddContextIInv
<1>5. CASE ContextFails
  BY <1>5, FailsIInv DEF ContextFails
<1>6. CASE AddLeads
  BY <1>6, AddLeadsIInv
<1>7. CASE LeadsFail
  BY <1>7, FailsIInv DEF LeadsFail
<1>8. CASE RerankForQuery
  BY <1>8, RerankForQueryIInv
<1>9. CASE ApplyFreshness
  BY <1>9, ApplyFreshnessIInv
<1>10. CASE FreshnessFails
  BY <1>10, FailsIInv DEF FreshnessFails
<1>11. CASE Rerank
  BY <1>11, RerankIInv
<1>12. CASE RerankEscapes
  BY <1>12, RerankEscapesIInv
<1>13. CASE Package
  BY <1>13, PackageIInv
<1>14. CASE UNCHANGED vars
  BY <1>14, StutterIInv
<1> QED
  BY <1>1, <1>2, <1>3, <1>4, <1>5, <1>6, <1>7, <1>8, <1>9, <1>10, <1>11, <1>12, <1>13, <1>14
     DEF Next

\* The hits are chunks without repetition in every phase, none of what the searches found
\* is lost altogether between the fusion and the evidence, no model has answered before
\* the reranker is asked, and the evidence is packaged from the hits retrieval returned.
THEOREM Invariance == Spec => []IInv
<1>1. Init => IInv
  BY InitIInv
<1>2. IInv /\ [Next]_vars => IInv'
  BY NextIInv
<1> QED
  BY <1>1, <1>2, PTL DEF Spec

-----------------------------------------------------------------------------
(***************************************************************************)
(* What the invariant says of the evidence.                                *)
(***************************************************************************)

\* Whatever is found, ordered anew, cut and reranked, a query whose searches found
\* something gets evidence; one whose searches found nothing gets some only as a summary.
THEOREM FoundGetsEvidence == Spec => []FoundMeansEvidence
<1>1. IInv => FoundMeansEvidence
  <2> SUFFICES ASSUME IInv, phase = "packaged"
               PROVE  /\ found # {} => evidence # <<>>
                      /\ found = {} /\ ~IsSummary(job.profile) => evidence = <<>>
    BY DEF FoundMeansEvidence
  <2>1. /\ Hits(fused) /\ job.enterprise \in BOOLEAN
        /\ evidence \in PackageEvidence(fused, job.profile, job.enterprise)
    BY JobsAssumption DEF IInv, Types
  <2>2. evidence = <<>> <=> fused = <<>>
    BY <2>1, EvidenceFacts
  <2> QED
    BY <2>2 DEF IInv, FoundIsKept, WithHits
<1> QED
  BY <1>1, Invariance, PTL

\* Whatever the hits and the kind of query, no chunk is cited twice or from outside the
\* hits, the document of an exact answer or a list is one outside Enterprise, and a
\* summary stands for as many documents as the limit lets it.
THEOREM PackagedEvidenceIsSound == Spec => []EvidenceIsSound
<1>1. IInv => EvidenceIsSound
  <2> SUFFICES ASSUME IInv, phase = "packaged" PROVE EvidenceIsSound
    BY DEF EvidenceIsSound
  <2>1. /\ Hits(fused) /\ job.enterprise \in BOOLEAN
        /\ evidence \in PackageEvidence(fused, job.profile, job.enterprise)
    BY JobsAssumption DEF IInv, Types
  <2> QED
    BY <2>1, EvidenceFacts DEF EvidenceIsSound, Hits
<1> QED
  BY <1>1, Invariance, PTL

-----------------------------------------------------------------------------
(***************************************************************************)
(* What the fusion and the reranker may do.                                *)
(***************************************************************************)

\* The share of a chunk in one kind of search, against one that is not before it there.
LEMMA SharesInOrder ==
  ASSUME NEW hits \in Seq(Hit), NEW s \in Dedupe(hits), NEW a, NEW b,
         b \in Ids(hits) => a \in Ids(hits) /\ BestRank(hits, a) < BestRank(hits, b)
  PROVE  /\ Share(s, a) \in Nat /\ Share(s, b) \in Nat
         /\ Share(s, b) <= Share(s, a)
         /\ b \in Ids(hits) => Share(s, b) < Share(s, a)
<1>1. /\ Hits(s) /\ ToSet(s) = Ids(hits)
      /\ \A x, y \in Ids(hits) :
           BestRank(hits, x) < BestRank(hits, y) => PlaceOf(s, x) < PlaceOf(s, y)
  BY DedupeFacts
<1>2. Share(s, a) \in Nat /\ Share(s, b) \in Nat
  BY <1>1, ShareFacts
<1>3. CASE b \in Ids(hits)
  <2>1. Share(s, b) < Share(s, a)
    BY <1>1, <1>3, ShareFacts
  <2> QED
    BY <1>2, <2>1
<1>4. CASE b \notin Ids(hits)
  <2>1. Share(s, b) = 0
    BY <1>1, <1>4, ShareFacts
  <2> QED
    BY <1>2, <1>4, <2>1
<1> QED
  BY <1>3, <1>4

\* A chunk better in every kind of search is better in the sum of its shares, for any
\* smoothing constant, number of rewrites and breaking of ties.
THEOREM FusionKeepsConsensus == Spec => FusionIsConsensus
<1> DEFINE Consensus ==
      phase' = "fused" =>
        /\ IsInjective(fused')
        /\ ToSet(fused') = Ids(sparse) \cup Ids(dense)
        /\ \A i, j \in DOMAIN fused' :
             (\A hits \in {sparse, dense} : fused'[j] \in Ids(hits) =>
                 /\ fused'[i] \in Ids(hits)
                 /\ BestRank(hits, fused'[i]) < BestRank(hits, fused'[j])) => i < j
<1>1. ASSUME IInv, Fuse PROVE Consensus
  <2>1. PICK s \in Dedupe(sparse), d \in Dedupe(dense) : fused' = Fusion(s, d)
    BY <1>1 DEF Fuse
  <2>2. sparse \in Seq(Hit) /\ dense \in Seq(Hit)
    BY <1>1 DEF IInv, Types
  <2>3. Hits(s) /\ ToSet(s) = Ids(sparse) /\ Hits(d) /\ ToSet(d) = Ids(dense)
    BY <2>2, DedupeFacts
  <2>4. /\ Hits(fused') /\ ToSet(fused') = Ids(sparse) \cup Ids(dense)
        /\ \A i, j \in DOMAIN fused' :
             Share(s, fused'[j]) + Share(d, fused'[j]) < Share(s, fused'[i]) + Share(d, fused'[i])
             => i < j
    BY <2>1, <2>3, FusionFacts
  <2>5. ASSUME NEW i \in DOMAIN fused', NEW j \in DOMAIN fused',
               \A hits \in {sparse, dense} : fused'[j] \in Ids(hits) =>
                 /\ fused'[i] \in Ids(hits)
                 /\ BestRank(hits, fused'[i]) < BestRank(hits, fused'[j])
        PROVE  i < j
    <3> DEFINE a == fused'[i]
               b == fused'[j]
    <3>1. b \in Ids(sparse) \/ b \in Ids(dense)
      <4>1. b \in ToSet(fused')
        BY DEF ToSet
      <4> QED
        BY <2>4, <4>1
    <3>2. /\ b \in Ids(sparse) => a \in Ids(sparse) /\ BestRank(sparse, a) < BestRank(sparse, b)
          /\ b \in Ids(dense) => a \in Ids(dense) /\ BestRank(dense, a) < BestRank(dense, b)
      BY <2>5
    <3>3. Share(s, b) + Share(d, b) < Share(s, a) + Share(d, a) => i < j
      BY <2>4
    <3> HIDE DEF a, b
    <3>4. /\ Share(s, a) \in Nat /\ Share(s, b) \in Nat /\ Share(s, b) <= Share(s, a)
          /\ b \in Ids(sparse) => Share(s, b) < Share(s, a)
      BY <2>2, <3>2, SharesInOrder
    <3>5. /\ Share(d, a) \in Nat /\ Share(d, b) \in Nat /\ Share(d, b) <= Share(d, a)
          /\ b \in Ids(dense) => Share(d, b) < Share(d, a)
      BY <2>2, <3>2, SharesInOrder
    <3> QED
      BY <3>1, <3>3, <3>4, <3>5
  <2> QED
    BY <2>4, <2>5 DEF Hits
<1>2. ASSUME IInv, [Next]_vars, ~Fuse PROVE phase' = "fused" => UNCHANGED vars
  BY <1>2 DEF Next, Fails, Search, SearchFails, AddContext, ContextFails, AddLeads, LeadsFail,
              RerankForQuery, ApplyFreshness, FreshnessFails, Rerank, RerankEscapes, Package
<1>3. IInv /\ [Next]_vars => [Consensus]_vars
  <2> HIDE DEF Consensus
  <2>1. phase' # "fused" => Consensus
    BY DEF Consensus
  <2> QED
    BY <1>1, <1>2, <2>1
<1> QED
  BY <1>3, Invariance, PTL DEF Spec, FusionIsConsensus

\* Whatever the model of the reranker answers or fails with, no hit within the limit is
\* lost for it and none is added, and those it does not name keep their order.
THEOREM RerankerKeepsHits == Spec => RerankerLosesNothing
<1> DEFINE Kept ==
      phase' = "retrieved" =>
       /\ IsInjective(fused')
       /\ ToSet(fused') \subseteq ToSet(fused)
       /\ Len(fused') = Smaller(FinalLimit, Len(fused))
       /\ IsPrefix(model'.order, fused')
       /\ \A i, j \in DOMAIN fused :
            /\ i < j /\ fused[i] \notin ToSet(model'.order)
            /\ fused[j] \in ToSet(fused') \ ToSet(model'.order)
            => \E k, l \in DOMAIN fused' : k < l /\ fused'[k] = fused[i] /\ fused'[l] = fused[j]
       /\ ~model'.applied => IsPrefix(fused', fused)
<1>1. ASSUME IInv, Rerank PROVE Kept
  <2>1. Hits(fused) /\ phase = "dated" /\ model = NoModel
    BY <1>1 DEF IInv, Types, Rerank
  <2>2. CASE \E r \in Replies : model' = r /\ fused' = Merged(r.order)
    <3>1. PICK r \in Replies : model' = r /\ fused' = Merged(r.order)
      BY <2>2
    <3>2. /\ Hits(r.order) /\ ToSet(r.order) \subseteq ToSet(fused) /\ Len(r.order) <= FinalLimit
          /\ ~r.applied => \A i \in 1 .. Len(r.order) : r.order[i] = fused[i]
      BY <2>1, RepliesFacts
    <3> QED
      BY <2>1, <3>1, <3>2, MergedFacts DEF Hits
  <2>3. CASE fused' = Top(fused, FinalLimit) /\ model' = model
    <3> DEFINE none == <<>>
    <3>1. /\ Hits(none) /\ none \in Seq(Chunks) /\ Len(none) = 0 /\ ToSet(none) = {}
          /\ model'.order = none /\ FinalLimit \in Nat
      BY <2>1, <2>3, LimitsAssumption DEF NoModel, Hits, IsInjective, ToSet
    <3> HIDE DEF none
    <3>2. \A i \in 1 .. Len(none) : none[i] = fused[i]
      BY <3>1
    <3>3. NamedFirst(fused, none) = fused
      BY <2>1, <3>1, <3>2, NamedFirstFacts
    <3>4. fused' = Merged(none)
      BY <2>3, <3>3 DEF Merged, NamedFirst
    <3>5. ToSet(none) \subseteq ToSet(fused) /\ Len(none) <= FinalLimit
      BY <3>1
    <3>6. Hits(fused') /\ ToSet(fused') \subseteq ToSet(fused)
          /\ Len(fused') = Smaller(FinalLimit, Len(fused))
          /\ IsPrefix(none, fused') /\ IsPrefix(fused', fused)
      BY <2>1, <3>1, <3>2, <3>4, <3>5, MergedFacts
    <3>7. \A i, j \in DOMAIN fused :
            /\ i < j /\ fused[i] \notin ToSet(none) /\ fused[j] \in ToSet(fused') \ ToSet(none)
            => \E k, l \in DOMAIN fused' : k < l /\ fused'[k] = fused[i] /\ fused'[l] = fused[j]
      BY <2>1, <3>1, <3>4, <3>5, MergedFacts
    <3> QED
      BY <3>1, <3>6, <3>7 DEF Hits
  <2> QED
    BY <1>1, <2>2, <2>3 DEF Rerank
<1>2. ASSUME IInv, [Next]_vars, ~Rerank PROVE phase' = "retrieved" => UNCHANGED vars
  BY <1>2 DEF Next, Fails, Search, SearchFails, Fuse, AddContext, ContextFails, AddLeads, LeadsFail,
              RerankForQuery, ApplyFreshness, FreshnessFails, RerankEscapes, Package
<1>3. IInv /\ [Next]_vars => [Kept]_vars
  <2> HIDE DEF Kept
  <2>1. phase' # "retrieved" => Kept
    BY DEF Kept
  <2> QED
    BY <1>1, <1>2, <2>1
<1> QED
  BY <1>3, Invariance, PTL DEF Spec, RerankerLosesNothing

(***************************************************************************)
(* QueryPlanning: the operators on sequences its plans are made with.      *)
(***************************************************************************)
\* The numbers from 1 to n come first in any set that has them.
LEMMA AscendingStart ==
  ASSUME NEW S \in SUBSET (Nat \ {0}), IsFiniteSet(S), NEW n \in Nat, 1 .. n \subseteq S
  PROVE  n <= Cardinality(S) /\ \A i \in 1 .. n : Ascending(S)[i] = i
<1> DEFINE before == {p \in S \X S : p[1] < p[2]}
           place == [x \in S |-> Place(S, before, x)]
<1>1. Cardinality(S) \in Nat /\ n <= Cardinality(S)
  <2>1. Cardinality(1 .. n) = n /\ Cardinality(1 .. n) <= Cardinality(S)
    BY FS_Interval, FS_Subset
  <2> QED
    BY <2>1, FS_CardinalityType
<1>2. ASSUME NEW x \in 1 .. n PROVE place[x] = x
  <2>1. {y \in S : y = x \/ <<y, x>> \in before} = 1 .. x
    <3>1. x \in S
      OBVIOUS
    <3>2. ASSUME NEW y \in S
          PROVE  y = x \/ <<y, x>> \in before <=> y \in 1 .. x
      <4>1. y \in Nat \ {0} /\ x \in Nat \ {0}
        OBVIOUS
      <4>2. y \in 1 .. x <=> y <= x
        BY <4>1
      <4>3. <<y, x>> \in before <=> y < x
        BY <3>1
      <4> QED
        BY <4>1, <4>2, <4>3
    <3>3. 1 .. x \subseteq S
      OBVIOUS
    <3> HIDE DEF before
    <3> QED
      BY <3>2, <3>3
  <2>2. Cardinality(1 .. x) = x
    BY FS_Interval
  <2>3. x \in S
    OBVIOUS
  <2> QED
    BY <2>1, <2>2, <2>3 DEF Place
<1>3. Ascending(S) = [i \in 1 .. Cardinality(S) |-> CHOOSE x \in S : place[x] = i]
  BY DEF Ascending, Sort
<1>4. ASSUME NEW i \in 1 .. n, NEW y \in S, i < y PROVE place[y] # i
  <2> DEFINE Down == {z \in S : z = y \/ <<z, y>> \in before}
  <2>1. (1 .. i) \cup {y} \subseteq Down
    BY <1>4
  <2>2. IsFiniteSet(1 .. i) /\ Cardinality(1 .. i) = i /\ y \notin 1 .. i
    BY <1>4, FS_Interval
  <2>3. Cardinality((1 .. i) \cup {y}) = i + 1
    BY <2>2, FS_AddElement
  <2>4. IsFiniteSet(Down)
    BY FS_Subset
  <2>5. place[y] = Cardinality(Down)
    BY DEF Place
  <2> HIDE DEF Down
  <2>6. Cardinality((1 .. i) \cup {y}) <= Cardinality(Down) /\ Cardinality(Down) \in Nat
    BY <2>1, <2>4, FS_Subset, FS_CardinalityType
  <2> HIDE DEF place
  <2> QED
    BY <2>3, <2>5, <2>6
<1>5. ASSUME NEW i \in 1 .. n PROVE Ascending(S)[i] = i
  <2>1. i \in S /\ i \in 1 .. Cardinality(S)
    BY <1>1
  <2>2. Ascending(S)[i] = CHOOSE x \in S : place[x] = i
    BY <1>3, <2>1
  <2> HIDE DEF place
  <2>3. PICK x \in S : x = Ascending(S)[i] /\ place[x] = i
    BY <1>2, <2>1, <2>2
  <2>4. ~(i < x)
    BY <1>4, <2>3
  <2>5. x \in 1 .. n
    BY <2>4
  <2> QED
    BY <1>2, <2>3, <2>5
<1> QED
  BY <1>1, <1>5

LEMMA PickedStart ==
  ASSUME NEW A, NEW s \in Seq(A), NEW at \in SUBSET DOMAIN s, NEW n \in Nat, 1 .. n \subseteq at
  PROVE  /\ n <= Len(Picked(s, at)) /\ Len(Picked(s, at)) <= Len(s)
         /\ \A i \in 1 .. n : Picked(s, at)[i] = s[i]
<1>1. DOMAIN s = 1 .. Len(s) /\ Len(s) \in Nat
  BY LenProperties
<1>2. IsFiniteSet(DOMAIN s) /\ Cardinality(DOMAIN s) = Len(s)
  <2>1. IsFiniteSet(1 .. Len(s)) /\ Cardinality(1 .. Len(s)) = IF 1 > Len(s) THEN 0 ELSE Len(s) - 1 + 1
    BY <1>1, FS_Interval
  <2> QED
    BY <1>1, <2>1
<1>3. IsFiniteSet(at) /\ Cardinality(at) <= Len(s) /\ at \in SUBSET (Nat \ {0})
  BY <1>1, <1>2, FS_Subset
<1>4. n <= Cardinality(at) /\ \A i \in 1 .. n : Ascending(at)[i] = i
  BY <1>3, AscendingStart
<1>5. /\ Cardinality(at) \in Nat /\ Len(Picked(s, at)) = Cardinality(at)
      /\ \A i \in 1 .. Cardinality(at) : Picked(s, at)[i] = s[Ascending(at)[i]]
  BY PickedFacts
<1> QED
  BY <1>3, <1>4, <1>5

\* What occurs more than once is kept where it occurs first.
LEMMA DistinctFacts ==
  ASSUME NEW A, NEW s \in Seq(A)
  PROVE  /\ Distinct(s) \in Seq(A) /\ IsInjective(Distinct(s))
         /\ ToSet(Distinct(s)) = ToSet(s) /\ Len(Distinct(s)) <= Len(s)
<1> DEFINE at == {i \in DOMAIN s : \A j \in 1 .. (i - 1) : s[j] # s[i]}
           d == Picked(s, at)
<1>1. d = Distinct(s)
  BY DEF Distinct
<1>2. DOMAIN s = 1 .. Len(s) /\ Len(s) \in Nat
  BY LenProperties
<1>3. at \in SUBSET DOMAIN s /\ at \in SUBSET Nat
  BY <1>2
<1>4. ASSUME NEW a \in at, NEW b \in at, s[a] = s[b] PROVE a = b
  <2>1. a \in Nat \ {0} /\ b \in Nat \ {0}
    BY <1>2
  <2>2. ~(a < b)
    BY <1>4, <2>1
  <2>3. ~(b < a)
    BY <1>4, <2>1
  <2> QED
    BY <2>1, <2>2, <2>3
<1>5. ASSUME NEW k \in DOMAIN s PROVE \E i \in at : s[i] = s[k]
  <2> DEFINE same == {i \in DOMAIN s : s[i] = s[k]}
  <2>1. same \in SUBSET Nat /\ same # {} /\ IsFiniteSet(same)
    <3>1. IsFiniteSet(DOMAIN s)
      BY <1>2, FS_Interval
    <3> QED
      BY <1>2, <3>1, FS_Subset
  <2>2. PICK m \in same : \A y \in same : m <= y
    BY <2>1, MinFacts
  <2>3. m \in at
    BY <1>2, <2>2
  <2> QED
    BY <2>2, <2>3
<1> HIDE DEF at, d
<1>6. /\ Cardinality(at) \in Nat /\ d \in Seq(A) /\ Len(d) = Cardinality(at)
      /\ \A i \in 1 .. Cardinality(at) : Ascending(at)[i] \in at /\ d[i] = s[Ascending(at)[i]]
      /\ \A i, j \in 1 .. Cardinality(at) : i < j => Ascending(at)[i] < Ascending(at)[j]
      /\ ToSet(d) = {s[k] : k \in at}
  BY <1>3, PickedFacts DEF d
<1>7. IsInjective(d)
  <2>1. DOMAIN d = 1 .. Cardinality(at)
    BY <1>6
  <2> SUFFICES ASSUME NEW i \in 1 .. Cardinality(at), NEW j \in 1 .. Cardinality(at), d[i] = d[j]
               PROVE  i = j
    BY <2>1 DEF IsInjective
  <2>2. Ascending(at)[i] = Ascending(at)[j] /\ Ascending(at)[i] \in Nat
    BY <1>3, <1>4, <1>6
  <2> QED
    BY <1>6, <2>2
<1>8. ToSet(d) = ToSet(s)
  BY <1>3, <1>5, <1>6 DEF ToSet
<1>9. Len(d) <= Len(s)
  <2>1. 0 \in Nat /\ 1 .. 0 \subseteq at
    OBVIOUS
  <2> QED
    BY <1>3, <2>1, PickedStart DEF d
<1> QED
  BY <1>1, <1>6, <1>7, <1>8, <1>9

LEMMA DistinctStart ==
  ASSUME NEW A, NEW s \in Seq(A), NEW n \in Nat, n <= Len(s),
         \A i, j \in 1 .. n : s[i] = s[j] => i = j
  PROVE  n <= Len(Distinct(s)) /\ \A i \in 1 .. n : Distinct(s)[i] = s[i]
<1> DEFINE at == {i \in DOMAIN s : \A j \in 1 .. (i - 1) : s[j] # s[i]}
<1>1. DOMAIN s = 1 .. Len(s) /\ Len(s) \in Nat
  BY LenProperties
<1>2. 1 .. n \subseteq at /\ at \in SUBSET DOMAIN s
  <2>1. ASSUME NEW i \in 1 .. n, NEW j \in 1 .. (i - 1) PROVE s[j] # s[i]
    <3>1. j \in 1 .. n /\ j # i
      OBVIOUS
    <3> QED
      BY <3>1
  <2> QED
    BY <1>1, <2>1
<1>3. Distinct(s) = Picked(s, at)
  BY DEF Distinct
<1> HIDE DEF at
<1> QED
  BY <1>2, <1>3, PickedStart

LEMMA RewritesFacts ==
  ASSUME NEW A, NEW s \in Seq(A)
  PROVE  /\ Rewrites(s) \in Seq(A) /\ IsInjective(Rewrites(s))
         /\ ToSet(Rewrites(s)) = ToSet(s) \ {<<>>} /\ Len(Rewrites(s)) <= Len(s)
<1> DEFINE kept == Among(s, ToSet(s) \ {<<>>})
           at == {i \in DOMAIN s : s[i] \in ToSet(s) \ {<<>>}}
<1>1. kept \in Seq(A) /\ ToSet(kept) = ToSet(s) \ {<<>>}
  BY AmongFacts
<1>2. Len(kept) <= Len(s)
  <2>1. kept = Picked(s, at) /\ at \in SUBSET DOMAIN s
    BY DEF Among
  <2>2. 0 \in Nat /\ 1 .. 0 \subseteq at
    OBVIOUS
  <2> HIDE DEF at, kept
  <2> QED
    BY <2>1, <2>2, PickedStart
<1>3. Rewrites(s) = Distinct(kept)
  BY DEF Rewrites
<1> HIDE DEF kept
<1>4. /\ Distinct(kept) \in Seq(A) /\ IsInjective(Distinct(kept))
      /\ ToSet(Distinct(kept)) = ToSet(kept) /\ Len(Distinct(kept)) <= Len(kept)
  BY <1>1, DistinctFacts
<1>5. Len(Distinct(kept)) \in Nat /\ Len(kept) \in Nat /\ Len(s) \in Nat
  BY <1>1, <1>4, LenProperties
<1> QED
  BY <1>1, <1>2, <1>3, <1>4, <1>5

LEMMA RewritesStart ==
  ASSUME NEW A, NEW s \in Seq(A), NEW n \in Nat, n <= Len(s),
         \A i \in 1 .. n : s[i] # <<>>,
         \A i, j \in 1 .. n : s[i] = s[j] => i = j
  PROVE  n <= Len(Rewrites(s)) /\ \A i \in 1 .. n : Rewrites(s)[i] = s[i]
<1> DEFINE kept == Among(s, ToSet(s) \ {<<>>})
           at == {i \in DOMAIN s : s[i] \in ToSet(s) \ {<<>>}}
<1>1. DOMAIN s = 1 .. Len(s) /\ Len(s) \in Nat
  BY LenProperties
<1>2. kept = Picked(s, at) /\ at \in SUBSET DOMAIN s /\ 1 .. n \subseteq at
  BY <1>1 DEF Among, ToSet
<1>3. kept \in Seq(A) /\ Rewrites(s) = Distinct(kept)
  BY AmongFacts DEF Rewrites
<1> HIDE DEF kept, at
<1>4. n <= Len(kept) /\ \A i \in 1 .. n : kept[i] = s[i]
  BY <1>2, PickedStart
<1>5. \A i, j \in 1 .. n : kept[i] = kept[j] => i = j
  BY <1>4
<1>6. n <= Len(Distinct(kept)) /\ \A i \in 1 .. n : Distinct(kept)[i] = kept[i]
  BY <1>3, <1>4, <1>5, DistinctStart
<1> QED
  BY <1>3, <1>4, <1>6

LEMMA TakeFacts ==
  ASSUME NEW A, NEW s \in Seq(A), NEW n \in Nat
  PROVE  /\ Take(s, n) \in Seq(A) /\ Len(Take(s, n)) = (IF n < Len(s) THEN n ELSE Len(s))
         /\ \A i \in 1 .. Len(Take(s, n)) : i \in DOMAIN s /\ Take(s, n)[i] = s[i]
         /\ ToSet(Take(s, n)) \subseteq ToSet(s)
         /\ IsInjective(s) => IsInjective(Take(s, n))
<1> DEFINE m == IF n < Len(s) THEN n ELSE Len(s)
           t == SubSeq(s, 1, m)
<1>1. DOMAIN s = 1 .. Len(s) /\ Len(s) \in Nat /\ \A i \in 1 .. Len(s) : s[i] \in A
  BY LenProperties
<1>2. m \in Nat /\ m <= Len(s)
  BY <1>1
<1>3. Take(s, n) = t
  BY DEF Take
<1>4. m = IF n < Len(s) THEN n ELSE Len(s)
  OBVIOUS
<1> HIDE DEF m
<1>5. t \in Seq(A) /\ Len(t) = m /\ \A i \in 1 .. m : t[i] = s[i]
  <2>1. \A i \in 1 .. m : s[i] \in A
    BY <1>1, <1>2
  <2>2. /\ t \in Seq(A) /\ Len(t) = IF 1 <= m THEN m - 1 + 1 ELSE 0
        /\ \A i \in 1 .. m - 1 + 1 : t[i] = s[1 + i - 1]
    BY <1>2, <2>1, SubSeqProperties
  <2> HIDE DEF t
  <2> QED
    BY <1>1, <1>2, <2>2
<1> HIDE DEF t
<1>6. DOMAIN t = 1 .. m /\ \A i \in 1 .. m : i \in DOMAIN s /\ t[i] = s[i]
  BY <1>1, <1>2, <1>5
<1>7. ToSet(t) \subseteq ToSet(s) /\ (IsInjective(s) => IsInjective(t))
  BY <1>6 DEF ToSet, IsInjective
<1> QED
  BY <1>3, <1>4, <1>5, <1>6, <1>7

\* The last n elements of a sequence, with its last one if n is not 0.
LEMMA RecentFacts ==
  ASSUME NEW A, NEW s \in Seq(A), NEW n \in Nat
  PROVE  /\ Recent(s, n) \in Seq(A) /\ Len(Recent(s, n)) = (IF n < Len(s) THEN n ELSE Len(s))
         /\ n # 0 /\ s # <<>> => /\ Recent(s, n) # <<>>
                                 /\ Recent(s, n)[Len(Recent(s, n))] = s[Len(s)]
<1> DEFINE m == IF n < Len(s) THEN Len(s) - n + 1 ELSE 1
           t == SubSeq(s, m, Len(s))
<1>1. Len(s) \in Nat /\ \A i \in 1 .. Len(s) : s[i] \in A
  BY LenProperties
<1>2. m \in Int /\ 1 <= m /\ m <= Len(s) + 1 /\ Len(s) - m + 1 = IF n < Len(s) THEN n ELSE Len(s)
  BY <1>1
<1>3. Recent(s, n) = t
  BY DEF Recent
<1> HIDE DEF m
<1>4. /\ t \in Seq(A) /\ Len(t) = (IF m <= Len(s) THEN Len(s) - m + 1 ELSE 0)
      /\ \A i \in 1 .. Len(s) - m + 1 : t[i] = s[m + i - 1]
  <2>1. \A i \in m .. Len(s) : s[i] \in A
    BY <1>1, <1>2
  <2> HIDE DEF t
  <2> QED
    BY <1>1, <1>2, <2>1, SubSeqProperties DEF t
<1> HIDE DEF t
<1>5. Len(t) = Len(s) - m + 1
  BY <1>1, <1>2, <1>4
<1>6. ASSUME n # 0, s # <<>> PROVE t # <<>> /\ t[Len(t)] = s[Len(s)]
  <2>1. Len(s) # 0
    BY <1>6
  <2>2. Len(t) \in 1 .. Len(s) - m + 1
    BY <1>1, <1>2, <1>5, <1>6, <2>1
  <2>3. t[Len(t)] = s[m + Len(t) - 1] /\ m + Len(t) - 1 = Len(s)
    BY <1>1, <1>2, <1>4, <1>5, <2>2
  <2>4. t # <<>>
    BY <2>2
  <2> QED
    BY <2>3, <2>4
<1> QED
  BY <1>2, <1>3, <1>4, <1>5, <1>6

LEMMA FlatFacts ==
  ASSUME NEW A, NEW ss \in Seq(Seq(A))
  PROVE  Flat(ss) \in Seq(A) /\ ToSet(Flat(ss)) \subseteq UNION {ToSet(ss[i]) : i \in DOMAIN ss}
<1> DEFINE rows == {{i} \X DOMAIN ss[i] : i \in DOMAIN ss}
           places == UNION rows
           before == {p \in places \X places :
                        \/ p[1][1] < p[2][1]
                        \/ p[1][1] = p[2][1] /\ p[1][2] < p[2][2]}
           order == Sort(places, before)
<1>1. /\ Len(ss) \in Nat /\ DOMAIN ss = 1 .. Len(ss)
      /\ \A i \in DOMAIN ss : /\ ss[i] \in Seq(A) /\ Len(ss[i]) \in Nat
                              /\ DOMAIN ss[i] = 1 .. Len(ss[i])
  BY LenProperties
<1>2. IsFiniteSet(places)
  <2>1. IsFiniteSet(DOMAIN ss)
    BY <1>1, FS_Interval
  <2>2. IsFiniteSet(rows)
    <3> DEFINE row == [i \in DOMAIN ss |-> {i} \X DOMAIN ss[i]]
    <3>1. row \in Surjection(DOMAIN ss, rows)
      BY DEF Surjection
    <3> QED
      BY <2>1, <3>1, FS_Surjection
  <2>3. ASSUME NEW i \in DOMAIN ss PROVE IsFiniteSet({i} \X DOMAIN ss[i])
    <3>1. IsFiniteSet({i}) /\ IsFiniteSet(DOMAIN ss[i])
      <4>1. Len(ss[i]) \in Int /\ 1 \in Int /\ DOMAIN ss[i] = 1 .. Len(ss[i])
        BY <1>1
      <4> HIDE <1>1
      <4> QED
        BY <4>1, FS_Singleton, FS_Interval
    <3> QED
      BY <3>1, FS_Product
  <2>4. \A R \in rows : IsFiniteSet(R)
    BY <2>3
  <2> QED
    BY <2>2, <2>4, FS_UNION
<1>3. ASSUME NEW x \in places
      PROVE  /\ x[1] \in DOMAIN ss /\ x[2] \in DOMAIN ss[x[1]] /\ x = <<x[1], x[2]>>
             /\ x[1] \in Nat /\ x[2] \in Nat
  <2>1. PICK i \in DOMAIN ss : x \in {i} \X DOMAIN ss[i]
    OBVIOUS
  <2>2. x[1] = i /\ x[2] \in DOMAIN ss[i] /\ x = <<x[1], x[2]>>
    BY <2>1
  <2> QED
    BY <1>1, <2>2
<1>4. ASSUME NEW x \in places, NEW y \in places
      PROVE  <<x, y>> \in before <=> x[1] < y[1] \/ (x[1] = y[1] /\ x[2] < y[2])
  OBVIOUS
<1> HIDE DEF rows, places, before
<1>5. StrictOrder(places, before)
  <2>1. ASSUME NEW x \in places PROVE <<x, x>> \notin before
    <3>1. x[1] \in Nat /\ x[2] \in Nat
      BY <1>3
    <3>2. <<x, x>> \in before <=> x[1] < x[1] \/ (x[1] = x[1] /\ x[2] < x[2])
      BY <1>4
    <3> QED
      BY <3>1, <3>2
  <2>2. ASSUME NEW x \in places, NEW y \in places, NEW z \in places,
               <<x, y>> \in before, <<y, z>> \in before
        PROVE  <<x, z>> \in before
    <3>1. /\ x[1] \in Nat /\ x[2] \in Nat /\ y[1] \in Nat /\ y[2] \in Nat
          /\ z[1] \in Nat /\ z[2] \in Nat
      BY <1>3
    <3>2. x[1] < y[1] \/ (x[1] = y[1] /\ x[2] < y[2])
      BY <1>4, <2>2
    <3>3. y[1] < z[1] \/ (y[1] = z[1] /\ y[2] < z[2])
      BY <1>4, <2>2
    <3>4. x[1] < z[1] \/ (x[1] = z[1] /\ x[2] < z[2])
      BY <3>1, <3>2, <3>3
    <3> QED
      BY <1>4, <3>4
  <2>3. ASSUME NEW x \in places, NEW y \in places
        PROVE  x = y \/ <<x, y>> \in before \/ <<y, x>> \in before
    <3>1. x[1] \in Nat /\ x[2] \in Nat /\ y[1] \in Nat /\ y[2] \in Nat
      BY <1>3
    <3>2. CASE x[1] = y[1] /\ x[2] = y[2]
      BY <1>3, <3>2
    <3>3. CASE x[1] < y[1] \/ (x[1] = y[1] /\ x[2] < y[2])
      BY <1>4, <3>3
    <3>4. CASE y[1] < x[1] \/ (y[1] = x[1] /\ y[2] < x[2])
      BY <1>4, <3>4
    <3> QED
      BY <3>1, <3>2, <3>3, <3>4
  <2> QED
    BY <2>1, <2>2, <2>3 DEF StrictOrder
<1>6. order \in [1 .. Cardinality(places) -> places] /\ Cardinality(places) \in Nat
  BY <1>2, <1>5, SortFacts, FS_CardinalityType
<1>7. Flat(ss) = [k \in DOMAIN order |-> ss[order[k][1]][order[k][2]]]
  BY DEF Flat, order, places, rows, before
<1> HIDE DEF order
<1>8. ASSUME NEW k \in 1 .. Cardinality(places)
      PROVE  /\ Flat(ss)[k] \in A
             /\ Flat(ss)[k] \in UNION {ToSet(ss[i]) : i \in DOMAIN ss}
  <2>1. PICK x \in places : x = order[k]
    BY <1>6
  <2>2. /\ x[1] \in DOMAIN ss /\ x[2] \in DOMAIN ss[x[1]]
        /\ Flat(ss)[k] = ss[x[1]][x[2]]
    BY <1>3, <1>6, <1>7, <2>1
  <2>3. ss[x[1]][x[2]] \in A
    BY <1>1, <2>2
  <2>4. ss[x[1]][x[2]] \in ToSet(ss[x[1]])
    BY <2>2 DEF ToSet
  <2> QED
    BY <2>2, <2>3, <2>4
<1>9. DOMAIN Flat(ss) = 1 .. Cardinality(places)
  BY <1>6, <1>7
<1>10. Flat(ss) \in [1 .. Cardinality(places) -> A]
  BY <1>6, <1>7, <1>8, <1>9
<1>11. Flat(ss) \in Seq(A)
  BY <1>6, <1>10, SeqDef
<1> QED
  BY <1>8, <1>9, <1>11 DEF ToSet

\* A sequence turned around: its last element first, and the same elements.
LEMMA ReverseFacts ==
  ASSUME NEW A, NEW s \in Seq(A)
  PROVE  /\ Reverse(s) \in Seq(A) /\ Len(Reverse(s)) = Len(s) /\ ToSet(Reverse(s)) = ToSet(s)
         /\ s # <<>> => Reverse(s) # <<>> /\ Reverse(s)[1] = s[Len(s)]
         /\ s = <<>> => Reverse(s) = <<>>
<1>1. Len(s) \in Nat /\ DOMAIN s = 1 .. Len(s) /\ \A i \in 1 .. Len(s) : s[i] \in A
  BY LenProperties
<1>2. Reverse(s) = [i \in 1 .. Len(s) |-> s[(Len(s) - i) + 1]]
  BY DEF Reverse
<1>3. \A i \in 1 .. Len(s) : (Len(s) - i) + 1 \in 1 .. Len(s)
  BY <1>1
<1>4. Reverse(s) \in [1 .. Len(s) -> A]
  BY <1>1, <1>2, <1>3
<1>5. Reverse(s) \in Seq(A) /\ Len(Reverse(s)) = Len(s)
  BY <1>1, <1>4, SeqDef, LenProperties
<1>6. ToSet(Reverse(s)) = ToSet(s)
  <2>1. ASSUME NEW i \in 1 .. Len(s) PROVE Reverse(s)[i] \in ToSet(s)
    BY <1>1, <1>2, <1>3 DEF ToSet
  <2>2. ASSUME NEW i \in 1 .. Len(s) PROVE s[i] \in ToSet(Reverse(s))
    <3>1. PICK j \in 1 .. Len(s) : i = (Len(s) - j) + 1
      <4>1. (Len(s) - i) + 1 \in 1 .. Len(s) /\ i = (Len(s) - ((Len(s) - i) + 1)) + 1
        BY <1>1
      <4> QED
        BY <4>1
    <3>2. Reverse(s)[j] = s[i]
      BY <1>2, <3>1
    <3> QED
      BY <1>4, <3>2 DEF ToSet
  <2> QED
    BY <1>1, <1>4, <2>1, <2>2 DEF ToSet
<1>7. ASSUME s # <<>> PROVE Reverse(s) # <<>> /\ Reverse(s)[1] = s[Len(s)]
  <2>1. 1 \in 1 .. Len(s)
    BY <1>1, <1>7
  <2> QED
    BY <1>1, <1>2, <1>5, <2>1
<1>8. s = <<>> => Reverse(s) = <<>>
  BY <1>2
<1> QED
  BY <1>5, <1>6, <1>7, <1>8

LEMMA JoinedFacts ==
  ASSUME NEW A, NEW s \in Seq(A), NEW t \in Seq(A)
  PROVE  s \o t \in Seq(A) /\ ToSet(s \o t) = ToSet(s) \cup ToSet(t)
<1>1. DOMAIN s = 1 .. Len(s) /\ DOMAIN t = 1 .. Len(t) /\ Len(s) \in Nat /\ Len(t) \in Nat
  BY LenProperties
<1>2. /\ s \o t \in Seq(A) /\ Len(s \o t) = Len(s) + Len(t)
      /\ \A i \in 1 .. Len(s) + Len(t) :
           (s \o t)[i] = IF i <= Len(s) THEN s[i] ELSE t[i - Len(s)]
  BY ConcatProperties
<1> DEFINE u == s \o t
<1> HIDE DEF u
<1>3. DOMAIN u = 1 .. Len(s) + Len(t)
  BY <1>2, LenProperties DEF u
<1>4. ASSUME NEW i \in DOMAIN u PROVE u[i] \in ToSet(s) \cup ToSet(t)
  <2>1. CASE i <= Len(s)
    BY <1>1, <1>2, <1>3, <2>1 DEF ToSet, u
  <2>2. CASE ~(i <= Len(s))
    <3>1. i - Len(s) \in DOMAIN t /\ u[i] = t[i - Len(s)]
      BY <1>1, <1>2, <1>3, <2>2 DEF u
    <3> QED
      BY <3>1 DEF ToSet
  <2> QED
    BY <2>1, <2>2
<1>5. ASSUME NEW i \in DOMAIN s PROVE s[i] \in ToSet(u)
  BY <1>1, <1>2, <1>3 DEF ToSet, u
<1>6. ASSUME NEW i \in DOMAIN t PROVE t[i] \in ToSet(u)
  <2>1. Len(s) + i \in DOMAIN u /\ u[Len(s) + i] = t[i]
    BY <1>1, <1>2, <1>3 DEF u
  <2> QED
    BY <2>1 DEF ToSet
<1> QED
  BY <1>2, <1>4, <1>5, <1>6 DEF ToSet, u

LEMMA JoinedStart ==
  ASSUME NEW A, NEW s \in Seq(A), NEW t \in Seq(A), s # <<>>
  PROVE  s \o t \in Seq(A) /\ s \o t # <<>> /\ (s \o t)[1] = s[1]
<1>1. Len(s) \in Nat /\ Len(t) \in Nat /\ Len(s) # 0
  BY LenProperties
<1>2. /\ s \o t \in Seq(A) /\ Len(s \o t) = Len(s) + Len(t)
      /\ \A i \in 1 .. Len(s) + Len(t) :
           (s \o t)[i] = IF i <= Len(s) THEN s[i] ELSE t[i - Len(s)]
  BY ConcatProperties
<1>3. 1 \in 1 .. Len(s) + Len(t) /\ 1 <= Len(s)
  BY <1>1
<1>4. Len(s \o t) # 0
  BY <1>1, <1>2
<1> QED
  BY <1>2, <1>3, <1>4

LEMMA SortedFacts ==
  ASSUME NEW S
  PROVE  Sorted(S) \in Seq(STRING) /\ ToSet(Sorted(S)) = ToSet(Vocabulary) \cap S
BY VocabularyAssumption, AmongFacts DEF Sorted

\* A part of a rewrite that is only there under some condition.
LEMMA WhenFacts ==
  ASSUME NEW A, NEW condition \in BOOLEAN, NEW s, condition => s \in Seq(A)
  PROVE  When(condition, s) \in Seq(A) /\ ToSet(When(condition, s)) \subseteq ToSet(s)
<1>1. <<>> \in Seq(A) /\ ToSet(<<>>) = {}
  BY DEF ToSet
<1>2. CASE condition
  BY <1>2 DEF When
<1>3. CASE ~condition
  BY <1>1, <1>3 DEF When
<1> QED
  BY <1>2, <1>3

-----------------------------------------------------------------------------
\* What is carried from a conversation: its words, nothing else.
WordsOf(p) == p.attributes \cup p.contexts \cup p.tags \cup p.terms
SaidIn(texts) == UNION {WordsOf(BuildQueryProfile(texts[i])) : i \in DOMAIN texts}
ToldIn(told) == UNION {ToSet(told[i]) : i \in DOMAIN told}
Carried(s, words) == s \in Seq(words)
CarriesOnly(c, words) ==
  Carried(c.attributes, words) /\ Carried(c.contexts, words)
  /\ Carried(c.tags, words) /\ Carried(c.focus, words)

LEMMA OfItsElements ==
  ASSUME NEW A, NEW s \in Seq(A), NEW B
  PROVE  ToSet(s) \subseteq B <=> s \in Seq(B)
<1>1. Len(s) \in Nat /\ DOMAIN s = 1 .. Len(s) /\ s = [i \in 1 .. Len(s) |-> s[i]]
  BY LenProperties
<1>2. ToSet(s) = {s[i] : i \in 1 .. Len(s)}
  BY <1>1 DEF ToSet
<1>3. ASSUME ToSet(s) \subseteq B PROVE s \in Seq(B)
  <2>1. \A i \in 1 .. Len(s) : s[i] \in B
    BY <1>2, <1>3
  <2>2. s \in [1 .. Len(s) -> B]
    BY <1>1, <2>1
  <2> QED
    BY <1>1, <2>2, SeqDef
<1>4. ASSUME s \in Seq(B) PROVE ToSet(s) \subseteq B
  BY <1>2, <1>4, LenProperties
<1> QED
  BY <1>3, <1>4

LEMMA FlatCarried ==
  ASSUME NEW words, NEW n \in Nat, NEW f, f = [i \in 1 .. n |-> f[i]],
         \A i \in 1 .. n : Carried(f[i], words)
  PROVE  Carried(Flat(f), words)
<1>1. f \in [1 .. n -> Seq(words)]
  BY DEF Carried
<1>2. f \in Seq(Seq(words))
  BY <1>1, SeqDef
<1> QED
  BY <1>2, FlatFacts DEF Carried

LEMMA CarriedFacts ==
  ASSUME NEW words
  PROVE  /\ \A s, t : Carried(s, words) /\ Carried(t, words) => Carried(s \o t, words)
         /\ \A s : Carried(s, words) => Carried(Distinct(s), words)
         /\ \A s : \A n \in Nat : Carried(s, words) => Carried(Take(s, n), words)
         /\ \A s, S : Carried(s, words) => Carried(Among(s, S), words)
         /\ \A S : S \subseteq words => Carried(Sorted(S), words)
         /\ \A s : \A b \in BOOLEAN : (b => Carried(s, words)) => Carried(When(b, s), words)
         /\ Carried(<<>>, words)
<1>1. ASSUME NEW s, NEW t, Carried(s, words), Carried(t, words) PROVE Carried(s \o t, words)
  BY <1>1, JoinedFacts DEF Carried
<1>2. ASSUME NEW s, Carried(s, words) PROVE Carried(Distinct(s), words)
  BY <1>2, DistinctFacts DEF Carried
<1>3. ASSUME NEW s, NEW n \in Nat, Carried(s, words) PROVE Carried(Take(s, n), words)
  BY <1>3, TakeFacts DEF Carried
<1>4. ASSUME NEW s, NEW S, Carried(s, words) PROVE Carried(Among(s, S), words)
  BY <1>4, AmongFacts DEF Carried
<1>5. ASSUME NEW S, S \subseteq words PROVE Carried(Sorted(S), words)
  <2>1. Sorted(S) \in Seq(STRING) /\ ToSet(Sorted(S)) \subseteq words
    BY <1>5, SortedFacts
  <2> QED
    BY <2>1, OfItsElements DEF Carried
<1>6. Carried(<<>>, words)
  BY DEF Carried, ToSet
<1>7. ASSUME NEW s, NEW b \in BOOLEAN, b => Carried(s, words) PROVE Carried(When(b, s), words)
  BY <1>6, <1>7 DEF When
<1> QED
  BY <1>1, <1>2, <1>3, <1>4, <1>5, <1>6, <1>7

LEMMA SalientCarried ==
  ASSUME NEW p, NEW words, WordsOf(p) \subseteq words
  PROVE  Carried(Salient(p), words)
<1>1. /\ p.attributes \subseteq words /\ p.contexts \subseteq words
      /\ p.terms \ Generic \subseteq words
  BY DEF WordsOf
<1>2. /\ Carried(Sorted(p.attributes), words) /\ Carried(Sorted(p.contexts), words)
      /\ Carried(Sorted(p.terms \ Generic), words)
  BY <1>1, CarriedFacts
<1>3. Carried(Sorted(p.attributes) \o Sorted(p.contexts), words)
  BY <1>2, CarriedFacts
<1> QED
  BY <1>2, <1>3, CarriedFacts DEF Salient

LEMMA ContextFacts ==
  ASSUME NEW past \in Seq(Texts), NEW told \in Seq(Seq(ToSet(Vocabulary)))
  PROVE  /\ CarriesOnly(ContextOf(past, told), SaidIn(past) \cup ToldIn(told))
         /\ ContextOf(past, told).rank = IF past = <<>> THEN 0 ELSE past[Len(past)].rank
<1> DEFINE texts == Reverse(past)
           profiles == [i \in DOMAIN texts |-> BuildQueryProfile(texts[i])]
           phrases == Flat(Reverse(told))
           words == SaidIn(past) \cup ToldIn(told)
           n == Len(texts)
           c == ContextOf(past, told)
<1>1. /\ texts \in Seq(Texts) /\ Len(texts) = Len(past) /\ ToSet(texts) = ToSet(past)
      /\ past # <<>> => texts # <<>> /\ texts[1] = past[Len(past)]
      /\ past = <<>> => texts = <<>>
  BY ReverseFacts
<1>2. n \in Nat /\ DOMAIN texts = 1 .. n
  BY <1>1, LenProperties
<1>3. /\ c.attributes = Distinct(Flat([i \in DOMAIN profiles |-> Sorted(profiles[i].attributes)]))
      /\ c.contexts = Distinct(Flat([i \in DOMAIN profiles |-> Sorted(profiles[i].contexts)])
                               \o Among(phrases, Several))
      /\ c.tags = Distinct(Flat([i \in DOMAIN profiles |-> Sorted(profiles[i].tags)]))
      /\ c.focus = Distinct(Flat([i \in DOMAIN profiles |-> Salient(profiles[i])]) \o phrases)
      /\ c.rank = IF profiles = <<>> THEN 0 ELSE profiles[1].rank
  BY DEF ContextOf
<1> HIDE DEF c
<1>4. ASSUME NEW i \in 1 .. n
      PROVE  WordsOf(profiles[i]) \subseteq words
  <2>1. PICK j \in DOMAIN past : past[j] = texts[i]
    BY <1>1, <1>2 DEF ToSet
  <2>2. profiles[i] = BuildQueryProfile(past[j])
    BY <1>2, <2>1
  <2> HIDE DEF profiles
  <2> QED
    BY <2>2 DEF SaidIn
<1>5. DOMAIN profiles = 1 .. n
  BY <1>2
<1>6. c.rank = IF past = <<>> THEN 0 ELSE past[Len(past)].rank
  <2>1. CASE past = <<>>
    <3>1. profiles = <<>>
      BY <1>1, <2>1
    <3> HIDE DEF profiles
    <3> QED
      BY <1>3, <2>1, <3>1
  <2>2. CASE past # <<>>
    <3>1. 1 \in DOMAIN texts
      BY <1>1, <1>2, <2>2
    <3>2. profiles[1].rank = texts[1].rank /\ profiles # <<>>
      BY <3>1 DEF BuildQueryProfile
    <3> HIDE DEF profiles, texts
    <3> QED
      BY <1>1, <1>3, <2>2, <3>2
  <2> QED
    BY <2>1, <2>2
<1>7. Carried(phrases, words)
  <2> DEFINE back == Reverse(told)
  <2>1. back \in Seq(Seq(ToSet(Vocabulary))) /\ ToSet(back) = ToSet(told)
    BY ReverseFacts
  <2>2. Len(back) \in Nat /\ DOMAIN back = 1 .. Len(back) /\ back = [i \in 1 .. Len(back) |-> back[i]]
    BY <2>1, LenProperties
  <2> HIDE DEF back
  <2>3. ASSUME NEW i \in 1 .. Len(back) PROVE Carried(back[i], words)
    <3>1. PICK j \in DOMAIN told : told[j] = back[i]
      BY <2>1, <2>2 DEF ToSet
    <3>2. back[i] \in Seq(ToSet(Vocabulary))
      BY <2>1, <2>2, LenProperties
    <3>3. ToSet(back[i]) \subseteq words
      BY <3>1 DEF ToldIn
    <3> HIDE DEF words
    <3> QED
      BY <3>2, <3>3, OfItsElements DEF Carried
  <2>4. Carried(Flat(back), words)
    BY <2>2, <2>3, FlatCarried
  <2> QED
    BY <2>4 DEF back
<1> HIDE DEF profiles, phrases, words, n
<1>8. ASSUME NEW i \in 1 .. n
      PROVE  /\ Carried(Sorted(profiles[i].attributes), words)
             /\ Carried(Sorted(profiles[i].contexts), words)
             /\ Carried(Sorted(profiles[i].tags), words)
             /\ Carried(Salient(profiles[i]), words)
  <2>1. /\ profiles[i].attributes \subseteq words /\ profiles[i].contexts \subseteq words
        /\ profiles[i].tags \subseteq words
    BY <1>4 DEF WordsOf
  <2> QED
    BY <1>4, <2>1, CarriedFacts, SalientCarried
<1>9. /\ Carried(Flat([i \in 1 .. n |-> Sorted(profiles[i].attributes)]), words)
      /\ Carried(Flat([i \in 1 .. n |-> Sorted(profiles[i].contexts)]), words)
      /\ Carried(Flat([i \in 1 .. n |-> Sorted(profiles[i].tags)]), words)
      /\ Carried(Flat([i \in 1 .. n |-> Salient(profiles[i])]), words)
  <2> DEFINE f1 == [i \in 1 .. n |-> Sorted(profiles[i].attributes)]
             f2 == [i \in 1 .. n |-> Sorted(profiles[i].contexts)]
             f3 == [i \in 1 .. n |-> Sorted(profiles[i].tags)]
             f4 == [i \in 1 .. n |-> Salient(profiles[i])]
  <2>1. /\ f1 = [i \in 1 .. n |-> f1[i]] /\ \A i \in 1 .. n : f1[i] = Sorted(profiles[i].attributes)
        /\ f2 = [i \in 1 .. n |-> f2[i]] /\ \A i \in 1 .. n : f2[i] = Sorted(profiles[i].contexts)
        /\ f3 = [i \in 1 .. n |-> f3[i]] /\ \A i \in 1 .. n : f3[i] = Sorted(profiles[i].tags)
        /\ f4 = [i \in 1 .. n |-> f4[i]] /\ \A i \in 1 .. n : f4[i] = Salient(profiles[i])
    OBVIOUS
  <2> HIDE DEF f1, f2, f3, f4
  <2>2. \A i \in 1 .. n : /\ Carried(f1[i], words) /\ Carried(f2[i], words)
                          /\ Carried(f3[i], words) /\ Carried(f4[i], words)
    BY <1>8, <2>1
  <2>3. Carried(Flat(f1), words)
    BY <1>2, <2>1, <2>2, FlatCarried
  <2>4. Carried(Flat(f2), words)
    BY <1>2, <2>1, <2>2, FlatCarried
  <2>5. Carried(Flat(f3), words)
    BY <1>2, <2>1, <2>2, FlatCarried
  <2>6. Carried(Flat(f4), words)
    BY <1>2, <2>1, <2>2, FlatCarried
  <2> QED
    BY <2>3, <2>4, <2>5, <2>6 DEF f1, f2, f3, f4
<1>10. /\ Carried(c.attributes, words) /\ Carried(c.contexts, words)
       /\ Carried(c.tags, words) /\ Carried(c.focus, words)
  <2> DEFINE f1 == Flat([i \in 1 .. n |-> Sorted(profiles[i].attributes)])
             f2 == Flat([i \in 1 .. n |-> Sorted(profiles[i].contexts)])
             f3 == Flat([i \in 1 .. n |-> Sorted(profiles[i].tags)])
             f4 == Flat([i \in 1 .. n |-> Salient(profiles[i])])
             multi == Among(phrases, Several)
  <2>1. c.attributes = Distinct(f1)
    BY <1>3, <1>5
  <2>2. c.contexts = Distinct(f2 \o multi)
    BY <1>3, <1>5
  <2>3. c.tags = Distinct(f3)
    BY <1>3, <1>5
  <2>4. c.focus = Distinct(f4 \o phrases)
    BY <1>3, <1>5
  <2>5. Carried(f1, words) /\ Carried(f2, words) /\ Carried(f3, words) /\ Carried(f4, words)
    BY <1>9
  <2>6. Carried(multi, words)
    BY <1>7, CarriedFacts
  <2> HIDE DEF f1, f2, f3, f4, multi
  <2>7. Carried(f2 \o multi, words) /\ Carried(f4 \o phrases, words)
    BY <1>7, <2>5, <2>6, CarriedFacts
  <2>8. \A s : Carried(s, words) => Carried(Distinct(s), words)
    BY CarriedFacts
  <2> QED
    BY <2>1, <2>2, <2>3, <2>4, <2>5, <2>7, <2>8
<1> QED
  BY <1>6, <1>10 DEF c, words, CarriesOnly

\* The context of a turn is of the windows, and its document that of the last query.
ContextBefore(past, told) ==
  IF past = <<>> THEN NoContext ELSE BuildConversationContext(past, told)
Window(past, told) == SaidIn(Recent(past, QueryWindow)) \cup ToldIn(Recent(told, ReplyWindow))

LEMMA ContextBeforeFacts ==
  ASSUME NEW past \in Seq(Texts), NEW told \in Seq(Seq(ToSet(Vocabulary)))
  PROVE  /\ CarriesOnly(ContextBefore(past, told), Window(past, told))
         /\ ContextBefore(past, told).rank = (IF past = <<>> THEN 0 ELSE past[Len(past)].rank)
         /\ ContextBefore(past, told).rank \in 0 .. 3
<1>1. CASE past = <<>>
  <2>1. /\ NoContext.attributes = <<>> /\ NoContext.contexts = <<>> /\ NoContext.tags = <<>>
        /\ NoContext.focus = <<>> /\ NoContext.rank = 0
    BY DEF NoContext
  <2>2. Carried(<<>>, Window(past, told))
    BY CarriedFacts
  <2>3. ContextBefore(past, told) = NoContext
    BY <1>1 DEF ContextBefore
  <2> QED
    BY <1>1, <2>1, <2>2, <2>3 DEF CarriesOnly
<1>2. CASE past # <<>>
  <2> DEFINE a == Recent(past, QueryWindow)
             r == Recent(told, ReplyWindow)
             c == ContextOf(a, r)
  <2>1. a \in Seq(Texts) /\ a # <<>> /\ a[Len(a)] = past[Len(past)]
    BY <1>2, RecentFacts, WindowsAssumption
  <2>2. r \in Seq(Seq(ToSet(Vocabulary)))
    BY RecentFacts, WindowsAssumption
  <2>3. ContextBefore(past, told) = c
    BY <1>2 DEF ContextBefore, BuildConversationContext
  <2>4. Window(past, told) = SaidIn(a) \cup ToldIn(r)
    BY DEF Window
  <2> HIDE DEF a, r
  <2>5. CarriesOnly(c, SaidIn(a) \cup ToldIn(r)) /\ c.rank = a[Len(a)].rank
    BY <2>1, <2>2, ContextFacts
  <2>6. a[Len(a)] \in Texts
    BY <2>1, LenProperties
  <2>7. c.rank \in 0 .. 3
    BY <2>5, <2>6, TextsAssumption
  <2> HIDE DEF c
  <2> QED
    BY <1>2, <2>1, <2>3, <2>4, <2>5, <2>7
<1> QED
  BY <1>1, <1>2

LEMMA ReferredRankFacts ==
  ASSUME NEW p, NEW rank \in 0 .. 3
  PROVE  /\ ReferredRank(p, rank) \in 0 .. 3
         /\ ReferredRank(p, rank) # 0 => /\ rank # 0
                                         /\ ReferredRank(p, rank) \in {rank - 1, rank, rank + 1}
BY DEF ReferredRank

LEMMA OrdinalsFacts ==
  ASSUME NEW r \in 1 .. 3
  PROVE  /\ Ordinals[r] \in ToSet(Ordinals)
         /\ Ordinals[r] \in DOMAIN Named \ Bare /\ Named[Ordinals[r]] = r
<1>1. DOMAIN Ordinals = 1 .. 3
  BY DEF Ordinals
<1>2. Ordinals[r] \in ToSet(Ordinals)
  BY <1>1 DEF ToSet
<1> QED
  BY <1>1, <1>2, NamedAssumption

LEMMA AddedFacts ==
  ASSUME NEW p, NEW c, NEW words, CarriesOnly(c, words), c.rank \in 0 .. 3
  PROVE  LET rank == ReferredRank(p, c.rank) IN
         /\ Carried(Added(p, c), words \cup ToSet(Scope)
                                  \cup (IF rank = 0 THEN {} ELSE {Ordinals[rank]}))
         /\ rank # 0 => Added(p, c) # <<>> /\ Added(p, c)[1] = Ordinals[rank]
<1> DEFINE rank == ReferredRank(p, c.rank)
           all == words \cup ToSet(Scope) \cup (IF rank = 0 THEN {} ELSE {Ordinals[rank]})
           w1 == When(rank # 0, SubSeq(Ordinals, rank, rank))
           w2 == When(p.attributes = {}, Take(c.attributes, 2))
           w3 == When(p.contexts = {}, Take(c.contexts, 2))
           w4 == When(p.tags = {}, Take(c.tags, 2))
           w5 == When(p.rank # 0 /\ c.kind = "summary", Scope)
           w6 == When(p.contexts = {} /\ p.kind \in {"action", "comparison", "entity", "open"},
                      Take(c.focus, 4))
<1>1. rank \in 0 .. 3
  BY ReferredRankFacts
<1>2. /\ Carried(c.attributes, all) /\ Carried(c.contexts, all)
      /\ Carried(c.tags, all) /\ Carried(c.focus, all)
  <2>1. words \subseteq all
    OBVIOUS
  <2> HIDE DEF all
  <2> QED
    BY <2>1, SeqMonotonic DEF CarriesOnly, Carried
<1>3. Added(p, c) = Distinct(w1 \o w2 \o w3 \o w4 \o w5 \o w6)
  BY DEF Added
<1>4. /\ Carried(w1, all)
      /\ rank # 0 => Len(w1) = 1 /\ w1[1] = Ordinals[rank]
  <2>1. CASE rank = 0
    <3>1. w1 = <<>>
      BY <2>1 DEF When
    <3> HIDE DEF w1, all
    <3> QED
      BY <2>1, <3>1, CarriedFacts
  <2>2. CASE rank # 0
    <3>1. rank \in 1 .. 3 /\ \A i \in rank .. rank : Ordinals[i] \in {Ordinals[rank]}
      BY <1>1, <2>2
    <3> HIDE DEF rank
    <3> DEFINE u == SubSeq(Ordinals, rank, rank)
    <3>2. /\ u \in Seq({Ordinals[rank]})
          /\ Len(u) = (IF rank <= rank THEN rank - rank + 1 ELSE 0)
          /\ \A i \in 1 .. rank - rank + 1 : u[i] = Ordinals[rank + i - 1]
      BY <3>1, SubSeqProperties
    <3> HIDE DEF u
    <3>3. Len(u) = 1 /\ u[1] = Ordinals[rank]
      BY <3>1, <3>2
    <3>4. w1 = u
      BY <2>2 DEF When, u, rank
    <3>5. {Ordinals[rank]} \subseteq all
      BY <2>2 DEF rank
    <3> HIDE DEF w1, all
    <3>6. u \in Seq(all)
      BY <3>2, <3>5, SeqMonotonic
    <3> QED
      BY <3>3, <3>4, <3>6 DEF Carried
  <2> QED
    BY <2>1, <2>2
<1> HIDE DEF w1
<1>5. Carried(Scope, all)
  <2>1. Scope \in Seq(ToSet(Scope)) /\ ToSet(Scope) \subseteq all
    <3>1. Scope \in [1 .. 3 -> ToSet(Scope)]
      BY DEF ToSet, Scope
    <3> QED
      BY <3>1, SeqDef
  <2> HIDE DEF all
  <2> QED
    BY <2>1, SeqMonotonic DEF Carried
<1>6. /\ Carried(w2, all) /\ Carried(w3, all) /\ Carried(w4, all)
      /\ Carried(w5, all) /\ Carried(w6, all)
  <2> HIDE DEF all
  <2>1. /\ Carried(Take(c.attributes, 2), all) /\ Carried(Take(c.contexts, 2), all)
        /\ Carried(Take(c.tags, 2), all) /\ Carried(Take(c.focus, 4), all)
    BY <1>2, CarriedFacts
  <2>2. Carried(<<>>, all)
    BY CarriedFacts
  <2> QED
    BY <1>5, <2>1, <2>2 DEF When
<1> HIDE DEF w2, w3, w4, w5, w6, all
<1>7. Carried(w1 \o w2 \o w3 \o w4 \o w5 \o w6, all)
  <2>1. Carried(w1 \o w2, all)
    BY <1>4, <1>6, CarriedFacts
  <2>2. Carried(w1 \o w2 \o w3, all)
    BY <1>6, <2>1, CarriedFacts
  <2>3. Carried(w1 \o w2 \o w3 \o w4, all)
    BY <1>6, <2>2, CarriedFacts
  <2>4. Carried(w1 \o w2 \o w3 \o w4 \o w5, all)
    BY <1>6, <2>3, CarriedFacts
  <2> QED
    BY <1>6, <2>4, CarriedFacts
<1>8. ASSUME rank # 0 PROVE Added(p, c) # <<>> /\ Added(p, c)[1] = Ordinals[rank]
  <2> DEFINE s == w1 \o w2 \o w3 \o w4 \o w5 \o w6
  <2>1. /\ w1 \in Seq(all) /\ w2 \in Seq(all) /\ w3 \in Seq(all)
        /\ w4 \in Seq(all) /\ w5 \in Seq(all) /\ w6 \in Seq(all)
    BY <1>4, <1>6 DEF Carried
  <2>2. Len(w1) = 1 /\ w1[1] = Ordinals[rank]
    BY <1>4, <1>8
  <2>3. w1 # <<>>
    BY <2>2
  <2>4. w1 \o w2 # <<>> /\ (w1 \o w2)[1] = w1[1] /\ w1 \o w2 \in Seq(all)
    BY <2>1, <2>3, JoinedStart
  <2>5. /\ w1 \o w2 \o w3 # <<>> /\ (w1 \o w2 \o w3)[1] = w1[1]
        /\ w1 \o w2 \o w3 \in Seq(all)
    BY <2>1, <2>4, JoinedStart
  <2>6. /\ w1 \o w2 \o w3 \o w4 # <<>> /\ (w1 \o w2 \o w3 \o w4)[1] = w1[1]
        /\ w1 \o w2 \o w3 \o w4 \in Seq(all)
    BY <2>1, <2>5, JoinedStart
  <2>7. /\ w1 \o w2 \o w3 \o w4 \o w5 # <<>> /\ (w1 \o w2 \o w3 \o w4 \o w5)[1] = w1[1]
        /\ w1 \o w2 \o w3 \o w4 \o w5 \in Seq(all)
    BY <2>1, <2>6, JoinedStart
  <2>8. s # <<>> /\ s[1] = Ordinals[rank] /\ s \in Seq(all)
    BY <2>1, <2>2, <2>7, JoinedStart
  <2> HIDE DEF s
  <2>9. Len(s) \in Nat /\ Len(s) # 0
    BY <2>8, LenProperties
  <2>10. 1 <= Len(s) /\ 1 \in Nat
    BY <2>9
  <2>11. 1 <= Len(Distinct(s)) /\ Distinct(s)[1] = s[1]
    BY <2>8, <2>10, DistinctStart
  <2>12. Distinct(s) # <<>>
    BY <2>11
  <2> QED
    BY <1>3, <2>8, <2>11, <2>12 DEF s
<1>9. Carried(Added(p, c), all)
  BY <1>3, <1>7, CarriedFacts
<1> QED
  BY <1>8, <1>9 DEF Carried, all

\* The document read from the words added is one that one of them names, and is that of
\* the first one if it is a document by number.
LEMMA RankReadFacts ==
  ASSUME NEW A, NEW s \in Seq(A)
  PROVE  /\ RankRead(s) # 0 => \E w \in ToSet(s) : w \in DOMAIN Named /\ Named[w] = RankRead(s)
         /\ \A r \in 1 .. 3 : s # <<>> /\ s[1] = Ordinals[r] => RankRead(s) = r
<1> DEFINE naming == {i \in DOMAIN s :
                        /\ s[i] \in DOMAIN Named
                        /\ s[i] \in Bare => i < Len(s) /\ s[i + 1] \in Things}
<1>1. Len(s) \in Nat /\ DOMAIN s = 1 .. Len(s)
  BY LenProperties
<1>2. naming \in SUBSET Nat /\ IsFiniteSet(naming)
  <2>1. IsFiniteSet(DOMAIN s)
    BY <1>1, FS_Interval
  <2> QED
    BY <1>1, <2>1, FS_Subset
<1>3. RankRead(s) = IF naming = {} THEN 0 ELSE Named[s[Min(naming)]]
  BY DEF RankRead
<1>4. ASSUME naming # {}
      PROVE  Min(naming) \in naming /\ \A y \in naming : Min(naming) <= y
  BY <1>2, <1>4, MinFacts
<1>5. ASSUME RankRead(s) # 0
      PROVE  \E w \in ToSet(s) : w \in DOMAIN Named /\ Named[w] = RankRead(s)
  <2>1. naming # {}
    BY <1>3, <1>5
  <2>2. Min(naming) \in DOMAIN s /\ s[Min(naming)] \in DOMAIN Named
    BY <1>4, <2>1
  <2>3. RankRead(s) = Named[s[Min(naming)]]
    BY <1>3, <2>1
  <2> QED
    BY <2>2, <2>3 DEF ToSet
<1>6. ASSUME NEW r \in 1 .. 3, s # <<>>, s[1] = Ordinals[r] PROVE RankRead(s) = r
  <2>1. Ordinals[r] \in DOMAIN Named \ Bare /\ Named[Ordinals[r]] = r
    BY OrdinalsFacts
  <2>2. 1 \in naming
    BY <1>1, <1>6, <2>1
  <2> HIDE DEF naming
  <2>3. Min(naming) <= 1 /\ Min(naming) \in naming
    BY <1>4, <2>2
  <2>4. Min(naming) \in DOMAIN s
    BY <2>3 DEF naming
  <2>5. Min(naming) = 1
    BY <1>1, <2>3, <2>4
  <2> QED
    BY <1>3, <1>6, <2>1, <2>2, <2>5
<1> QED
  BY <1>5, <1>6

-----------------------------------------------------------------------------
\* The rewrites of a query.
IsSequence(s) == s \in Seq(ToSet(s))
Starts(s, x) == IsSequence(s) /\ s # <<>> /\ s[1] = x

LEMMA IsSequenceFacts ==
  /\ \A A : \A s \in Seq(A) : IsSequence(s)
  /\ \A s, t : IsSequence(s) /\ IsSequence(t) => IsSequence(s \o t)
  /\ \A s, t, x : Starts(s, x) /\ IsSequence(t) => Starts(s \o t, x)
  /\ IsSequence(<<>>)
  /\ \A x : Starts(<<x>>, x)
  /\ \A x, y : Starts(<<x, y>>, x)
  /\ \A s : \A n \in Nat : IsSequence(s) => IsSequence(Take(s, n))
  /\ \A b \in BOOLEAN : \A s : IsSequence(s) => IsSequence(When(b, s))
<1>1. ASSUME NEW A, NEW s \in Seq(A) PROVE IsSequence(s)
  BY OfItsElements DEF IsSequence
<1>2. ASSUME NEW s, NEW t, IsSequence(s), IsSequence(t) 
      PROVE  IsSequence(s \o t) /\ (s # <<>> => s \o t # <<>> /\ (s \o t)[1] = s[1])
  <2> DEFINE A == ToSet(s) \cup ToSet(t)
  <2>1. s \in Seq(A) /\ t \in Seq(A)
    BY <1>2, SeqMonotonic DEF IsSequence
  <2> HIDE DEF A
  <2>2. s \o t \in Seq(A)
    BY <2>1, ConcatProperties
  <2>3. IsSequence(s \o t)
    BY <1>1, <2>2
  <2>4. s # <<>> => s \o t # <<>> /\ (s \o t)[1] = s[1]
    BY <2>1, JoinedStart
  <2> QED
    BY <2>3, <2>4
<1>3. IsSequence(<<>>)
  BY DEF IsSequence, ToSet
<1>4. ASSUME NEW x, NEW y PROVE Starts(<<x>>, x) /\ Starts(<<x, y>>, x)
  <2>1. <<x>> \in Seq({x, y}) /\ <<x, y>> \in Seq({x, y})
    OBVIOUS
  <2>2. IsSequence(<<x>>) /\ IsSequence(<<x, y>>)
    BY <1>1, <2>1
  <2> QED
    BY <2>2 DEF Starts
<1>5. ASSUME NEW s, NEW n \in Nat, IsSequence(s) PROVE IsSequence(Take(s, n))
  BY <1>1, <1>5, TakeFacts DEF IsSequence
<1>6. ASSUME NEW b \in BOOLEAN, NEW s, IsSequence(s) PROVE IsSequence(When(b, s))
  BY <1>3, <1>6 DEF When
<1>7. \A s, t, x : Starts(s, x) /\ IsSequence(t) => Starts(s \o t, x)
  BY <1>2 DEF Starts
<1>8. \A s, t : IsSequence(s) /\ IsSequence(t) => IsSequence(s \o t)
  BY <1>2
<1> QED
  BY <1>1, <1>3, <1>4, <1>5, <1>6, <1>7, <1>8

\* One rewrite for each element of a sequence.
LEMMA EachFacts ==
  ASSUME NEW s, IsSequence(s), NEW f, f = [i \in DOMAIN s |-> f[i]]
  PROVE  IsSequence(f)
<1>1. Len(s) \in Nat /\ DOMAIN s = 1 .. Len(s)
  BY LenProperties DEF IsSequence
<1>2. f \in [1 .. Len(s) -> {f[i] : i \in 1 .. Len(s)}]
  BY <1>1
<1>3. f \in Seq({f[i] : i \in 1 .. Len(s)})
  BY <1>1, <1>2, SeqDef
<1> QED
  BY <1>3, IsSequenceFacts

LEMMA SortedIsSequence == \A S : IsSequence(Sorted(S))
<1>1. ASSUME NEW S PROVE Sorted(S) \in Seq(STRING)
  BY SortedFacts
<1> QED
  BY <1>1, IsSequenceFacts

LEMMA OneWhen ==
  ASSUME NEW b \in BOOLEAN, NEW x
  PROVE  IsSequence(When(b, <<x>>))
BY IsSequenceFacts DEF Starts

LEMMA AttributeRewritesFacts ==
  ASSUME NEW p
  PROVE  IsSequence(AttributeRewrites(p)) /\ IsSequence(TagRewrites(p))
<1>1. IsSequence(AttributeRewrites(p))
  <2> DEFINE few == Take(Sorted(p.attributes), 2)
             others == Sorted(p.contexts) \o Sorted(p.terms)
             f == [i \in DOMAIN few |->
                     <<few[i]>> \o Take(Among(others, ToSet(others) \ {few[i]}), 5)]
  <2>1. IsSequence(few)
    BY SortedIsSequence, IsSequenceFacts
  <2>2. AttributeRewrites(p) = f
    BY DEF AttributeRewrites
  <2>3. f = [i \in DOMAIN few |-> f[i]]
    OBVIOUS
  <2> HIDE DEF few, f
  <2> QED
    BY <2>1, <2>2, <2>3, EachFacts
<1>2. IsSequence(TagRewrites(p))
  <2> DEFINE few == Take(Sorted(p.tags), 2)
             f == [i \in DOMAIN few |-> <<few[i], "synonyms">> \o Take(Sorted(p.terms), 3)]
  <2>1. IsSequence(few)
    BY SortedIsSequence, IsSequenceFacts
  <2>2. TagRewrites(p) = f
    BY DEF TagRewrites
  <2>3. f = [i \in DOMAIN few |-> f[i]]
    OBVIOUS
  <2> HIDE DEF few, f
  <2> QED
    BY <2>1, <2>2, <2>3, EachFacts
<1> QED
  BY <1>1, <1>2

LEMMA AboutFacts ==
  ASSUME NEW few, IsSequence(few), NEW before, NEW after
  PROVE  IsSequence(About(few, before, after))
<1> DEFINE f == [i \in DOMAIN few |-> before \o <<few[i]>> \o after]
<1>1. About(few, before, after) = f
  BY DEF About
<1>2. f = [i \in DOMAIN few |-> f[i]]
  OBVIOUS
<1> HIDE DEF f
<1> QED
  BY <1>1, <1>2, EachFacts

\* Rewriting what starts with a text keeps that first, unless it is empty.
LEMMA RewritesOf ==
  ASSUME NEW s, NEW base, Starts(s, base)
  PROVE  /\ IsSequence(Rewrites(s)) /\ IsInjective(Rewrites(s)) /\ <<>> \notin ToSet(Rewrites(s))
         /\ Len(Rewrites(s)) <= Len(s)
         /\ base # <<>> => Rewrites(s) # <<>> /\ Rewrites(s)[1] = base
<1>1. s \in Seq(ToSet(s)) /\ s # <<>> /\ s[1] = base
  BY DEF Starts, IsSequence
<1>2. /\ Rewrites(s) \in Seq(ToSet(s)) /\ IsInjective(Rewrites(s))
      /\ ToSet(Rewrites(s)) = ToSet(s) \ {<<>>} /\ Len(Rewrites(s)) <= Len(s)
  BY <1>1, RewritesFacts
<1>3. IsSequence(Rewrites(s))
  BY <1>2, IsSequenceFacts
<1>4. ASSUME base # <<>> PROVE Rewrites(s) # <<>> /\ Rewrites(s)[1] = base
  <2>1. Len(s) \in Nat /\ Len(s) # 0
    BY <1>1, LenProperties
  <2>2. /\ 1 \in Nat /\ 1 <= Len(s) /\ \A i \in 1 .. 1 : s[i] # <<>>
        /\ \A i, j \in 1 .. 1 : s[i] = s[j] => i = j
    BY <1>1, <1>4, <2>1
  <2>3. 1 <= Len(Rewrites(s)) /\ Rewrites(s)[1] = s[1]
    BY <1>1, <2>2, RewritesStart
  <2>4. Rewrites(s) # <<>>
    BY <2>3
  <2> QED
    BY <1>1, <2>3, <2>4
<1> QED
  BY <1>2, <1>3, <1>4

LEMMA VariantsFacts ==
  ASSUME NEW p, NEW base
  PROVE  LET v == Variants(p, base) IN
         /\ IsSequence(v) /\ IsInjective(v) /\ <<>> \notin ToSet(v)
         /\ IsExactQa(p) => Len(v) <= 2
         /\ base # <<>> => v # <<>> /\ v[1] = base
<1> DEFINE v == Variants(p, base)
           core == Sorted(p.terms)
           context == Sorted(p.contexts)
           attributes == Sorted(p.attributes)
           subjects == Of(attributes, core)
           few == <<base>> \o AttributeRewrites(p) \o TagRewrites(p)
           w1 == When(IsDefinition(p) /\ subjects # <<>>, <<subjects \o <<"definition", "meaning">>>>)
           w2 == When(IsSummary(p),
                      <<<<"dataset", "document", "overview", "summary", "abstract", "title">>>>)
           w3 == When(IsCollection(p) /\ subjects # <<>>, <<subjects \o <<"list", "items">>>>)
           w4 == When(IsAction(p),
                      <<Take(context, 3)
                        \o Take(IF attributes # <<>> THEN attributes ELSE <<"responsibilities">>, 2)
                        \o <<"responsibilities", "contributions", "tasks">>>>)
           w5 == When(IsEntity(p), <<Take(context, 3) \o Take(core, 3) \o <<"work", "project", "mention">>>>)
           w6 == When(IsComparison(p),
                      <<Take(context, 3) \o Take(subjects, 2) \o <<"compare", "other", "another">>>>)
           w7 == When(IsBoolean(p), <<attributes \o context>>)
           many == <<base, Expanded(p, base)>> \o AttributeRewrites(p) \o TagRewrites(p)
                   \o w1 \o w2 \o w3 \o w4 \o w5 \o w6 \o w7
<1>1. v = IF IsExactQa(p) THEN Rewrites(Take(few, 2)) ELSE Rewrites(many)
  BY DEF Variants
<1>2. /\ IsSequence(w1) /\ IsSequence(w2) /\ IsSequence(w3) /\ IsSequence(w4)
      /\ IsSequence(w5) /\ IsSequence(w6) /\ IsSequence(w7)
  <2>1. IsSequence(w1) /\ IsSequence(w3)
    BY OneWhen
  <2>2. IsSequence(w2)
    BY OneWhen DEF IsSummary
  <2>3. IsSequence(w4)
    BY OneWhen DEF IsAction
  <2>4. IsSequence(w5)
    BY OneWhen DEF IsEntity
  <2>5. IsSequence(w6)
    BY OneWhen DEF IsComparison
  <2>6. IsSequence(w7)
    <3>1. IsBoolean(p) \in BOOLEAN
      BY DEF IsBoolean
    <3> QED
      BY <3>1, OneWhen
  <2> QED
    BY <2>1, <2>2, <2>3, <2>4, <2>5, <2>6
<1> HIDE DEF w1, w2, w3, w4, w5, w6, w7, v
<1>3. Starts(few, base) /\ Starts(Take(few, 2), base) /\ Len(Take(few, 2)) <= 2
  <2>1. Starts(<<base>> \o AttributeRewrites(p), base)
    BY AttributeRewritesFacts, IsSequenceFacts
  <2>2. Starts(few, base)
    BY <2>1, AttributeRewritesFacts, IsSequenceFacts
  <2> HIDE DEF few
  <2>3. few \in Seq(ToSet(few)) /\ Len(few) \in Nat /\ Len(few) # 0
    BY <2>2, LenProperties DEF Starts, IsSequence
  <2>4. /\ Take(few, 2) \in Seq(ToSet(few))
        /\ Len(Take(few, 2)) = (IF 2 < Len(few) THEN 2 ELSE Len(few))
        /\ \A i \in 1 .. Len(Take(few, 2)) : Take(few, 2)[i] = few[i]
    BY <2>3, TakeFacts
  <2>5. Len(Take(few, 2)) \in 1 .. 2 /\ Len(Take(few, 2)) <= 2
    <3> DEFINE n == Len(few)
               k == Len(Take(few, 2))
    <3>1. n \in Nat /\ n # 0 /\ k = IF 2 < n THEN 2 ELSE n
      BY <2>3, <2>4
    <3> HIDE DEF n, k
    <3>2. k \in 1 .. 2 /\ k <= 2
      BY <3>1
    <3> QED
      BY <3>2 DEF k
  <2>6. Take(few, 2)[1] = few[1] /\ Take(few, 2) # <<>>
    BY <2>4, <2>5
  <2>7. IsSequence(Take(few, 2))
    BY <2>4, IsSequenceFacts
  <2>8. Starts(Take(few, 2), base)
    BY <2>2, <2>6, <2>7 DEF Starts
  <2> QED
    BY <2>2, <2>5, <2>8
<1>4. Starts(many, base)
  <2> DEFINE m1 == <<base, Expanded(p, base)>> \o AttributeRewrites(p)
             m2 == m1 \o TagRewrites(p)
             m3 == m2 \o w1
             m4 == m3 \o w2
             m5 == m4 \o w3
             m6 == m5 \o w4
             m7 == m6 \o w5
             m8 == m7 \o w6
  <2>1. many = m8 \o w7
    OBVIOUS
  <2>2. \A s, t, x : Starts(s, x) /\ IsSequence(t) => Starts(s \o t, x)
    BY IsSequenceFacts
  <2>3. Starts(<<base, Expanded(p, base)>>, base)
    BY IsSequenceFacts
  <2>4. Starts(m2, base)
    BY <2>2, <2>3, AttributeRewritesFacts
  <2> HIDE DEF m2, many
  <2>5. Starts(m4, base)
    BY <1>2, <2>2, <2>4
  <2> HIDE DEF m4
  <2>6. Starts(m6, base)
    BY <1>2, <2>2, <2>5
  <2> HIDE DEF m6
  <2>7. Starts(m8, base)
    BY <1>2, <2>2, <2>6
  <2> HIDE DEF m8
  <2> QED
    BY <1>2, <2>1, <2>2, <2>7
<1> HIDE DEF few, many
<1>5. CASE IsExactQa(p)
  <2> DEFINE r == Rewrites(Take(few, 2))
  <2>1. v = r
    BY <1>1, <1>5
  <2>2. /\ IsSequence(r) /\ IsInjective(r) /\ <<>> \notin ToSet(r)
        /\ Len(r) <= Len(Take(few, 2))
        /\ base # <<>> => r # <<>> /\ r[1] = base
    BY <1>3, RewritesOf
  <2>3. Len(r) \in Nat /\ Len(Take(few, 2)) \in Nat
    BY <1>3, <2>2, LenProperties DEF Starts, IsSequence
  <2> HIDE DEF r
  <2>4. Len(r) <= 2
    BY <1>3, <2>2, <2>3
  <2> QED
    BY <2>1, <2>2, <2>4 DEF v
<1>6. CASE ~IsExactQa(p)
  <2>1. v = Rewrites(many)
    BY <1>1, <1>6
  <2> QED
    BY <1>4, <1>6, <2>1, RewritesOf DEF v
<1> QED
  BY <1>5, <1>6

LEMMA AdditionsFacts ==
  ASSUME NEW p, NEW inContext \in BOOLEAN
  PROVE  IsSequence(Additions(p, inContext))
<1> DEFINE core == Sorted(p.terms)
           context == Sorted(p.contexts)
           attributes == Sorted(p.attributes)
           focus == IF attributes # <<>> THEN Take(attributes, 2) ELSE Take(core, 2)
           each == About(Take(attributes, 2), Take(context, 2), <<"compare", "difference">>)
           both == When(context # <<>> \/ attributes # <<>>,
                        <<Take(context, 3) \o focus \o <<"versus">>>>)
           w1 == When(IsComparison(p), each \o both)
           w2 == When(IsAction(p),
                      <<Take(context, 3)
                        \o (IF attributes # <<>> THEN Take(attributes, 2) ELSE <<"responsibilities">>)
                        \o <<"responsibilities", "contributions", "deliverables">>>>)
           w3 == When(IsEntity(p), <<Take(context, 3) \o Take(core, 3) \o <<"mention", "evidence">>>>)
           w4 == When(p.rank # 0,
                      <<<<Ordinals[p.rank]>> \o Take(attributes, 2) \o Take(context, 2) \o <<"summary">>>>)
           details == About(Take(attributes, 2), <<>>, Take(context, 2) \o <<"details">>)
           w5 == When(Len(attributes) >= 2 /\ p.kind \in {"lookup", "list", "comparison"}, details)
           w6 == When(inContext /\ (context # <<>> \/ core # <<>>),
                      <<(IF context # <<>> THEN Take(context, 3) ELSE Take(core, 3))
                        \o focus \o <<"follow up">>>>)
<1>1. Additions(p, inContext) = w1 \o w2 \o w3 \o w4 \o w5 \o w6
  BY DEF Additions
<1>2. IsSequence(Take(attributes, 2))
  BY SortedIsSequence, IsSequenceFacts
<1>3. IsSequence(each) /\ IsSequence(details)
  BY <1>2, AboutFacts
<1>4. IsSequence(w1)
  <2>1. IsSequence(both)
    BY OneWhen
  <2> HIDE DEF each, both
  <2>2. IsSequence(each \o both)
    BY <1>3, <2>1, IsSequenceFacts
  <2>3. IsComparison(p) \in BOOLEAN
    BY DEF IsComparison
  <2> QED
    BY <2>2, <2>3, IsSequenceFacts
<1>5. IsSequence(w2) /\ IsSequence(w3)
  BY OneWhen DEF IsAction, IsEntity
<1>6. IsSequence(w4)
  BY OneWhen
<1>7. IsSequence(w5)
  <2> DEFINE b == Len(attributes) >= 2 /\ p.kind \in {"lookup", "list", "comparison"}
  <2>1. b \in BOOLEAN
    OBVIOUS
  <2> HIDE DEF b, details
  <2>2. IsSequence(When(b, details))
    BY <1>3, <2>1, IsSequenceFacts
  <2> QED
    BY <2>2 DEF b
<1>8. IsSequence(w6)
  BY OneWhen
<1> HIDE DEF w1, w2, w3, w4, w5, w6
<1>9. \A s, t : IsSequence(s) /\ IsSequence(t) => IsSequence(s \o t)
  BY IsSequenceFacts
<1> QED
  BY <1>1, <1>4, <1>5, <1>6, <1>7, <1>8, <1>9

LEMMA DecomposedFacts ==
  ASSUME NEW p
  PROVE  IsSequence(Decomposed(p))
<1> DEFINE context == Sorted(p.contexts)
           attributes == Sorted(p.attributes)
           dates == <<Take(context, 2) \o <<"start", "date">>, Take(context, 2) \o <<"end", "date">>>>
           doing == <<Take(context, 3) \o <<"responsibilities">>, Take(context, 3) \o <<"tasks">>>>
           each == About(Take(attributes, 3), <<>>, Take(context, 2))
           b1 == p.kind = "lookup" /\ {"start", "end"} \subseteq p.terms
           b2 == Len(attributes) >= 2 /\ p.kind \in {"lookup", "list", "open"}
           b3 == p.kind = "action" /\ "compound" \in p.marks
           s == When(b1, dates) \o When(b2, each) \o When(b3, doing)
<1>1. Decomposed(p) = Rewrites(s)
  BY DEF Decomposed
<1>2. IsSequence(dates) /\ IsSequence(doing)
  BY IsSequenceFacts DEF Starts
<1>3. IsSequence(each)
  <2>1. IsSequence(Take(attributes, 3))
    BY SortedIsSequence, IsSequenceFacts
  <2> QED
    BY <2>1, AboutFacts
<1>4. b1 \in BOOLEAN /\ b2 \in BOOLEAN /\ b3 \in BOOLEAN
  OBVIOUS
<1> HIDE DEF b1, b2, b3, dates, doing, each
<1>5. IsSequence(When(b1, dates)) /\ IsSequence(When(b2, each)) /\ IsSequence(When(b3, doing))
  BY <1>2, <1>3, <1>4, IsSequenceFacts
<1>6. IsSequence(s)
  <2>1. \A u, t : IsSequence(u) /\ IsSequence(t) => IsSequence(u \o t)
    BY IsSequenceFacts
  <2> QED
    BY <1>5, <2>1
<1> HIDE DEF s
<1>7. Rewrites(s) \in Seq(ToSet(s))
  BY <1>6, RewritesFacts DEF IsSequence
<1> QED
  BY <1>1, <1>7, IsSequenceFacts

\* What was rewritten before stays in front, up to the limit.
LEMMA EnterpriseFacts ==
  ASSUME NEW p, NEW inContext \in BOOLEAN,
         NEW v, IsSequence(v), IsInjective(v), <<>> \notin ToSet(v)
  PROVE  LET e == EnterpriseVariants(p, v, inContext) IN
         /\ IsInjective(e) /\ Len(e) <= EnterpriseLimit
         /\ IsPrefix(Take(v, EnterpriseLimit), e)
<1> DEFINE more == Additions(p, inContext)
           other == Decomposed(p)
           s == v \o more \o other
           A == ToSet(v) \cup ToSet(more) \cup ToSet(other)
           r == Rewrites(s)
           n == Len(v)
           e == Take(r, 6)
<1>1. EnterpriseVariants(p, v, inContext) = e
  BY DEF EnterpriseVariants, EnterpriseLimit
<1>2. v \in Seq(A) /\ more \in Seq(A) /\ other \in Seq(A)
  <2>1. v \in Seq(ToSet(v)) /\ more \in Seq(ToSet(more)) /\ other \in Seq(ToSet(other))
    BY AdditionsFacts, DecomposedFacts DEF IsSequence
  <2> QED
    BY <2>1, SeqMonotonic
<1> HIDE DEF more, other, A, n
<1>3. n \in Nat /\ DOMAIN v = 1 .. n
  BY <1>2, LenProperties DEF n
<1>4. s \in Seq(A) /\ n <= Len(s) /\ \A i \in 1 .. n : s[i] = v[i]
  <2> DEFINE u == v \o more
  <2>1. /\ u \in Seq(A) /\ Len(u) = n + Len(more)
        /\ \A i \in 1 .. n + Len(more) : u[i] = IF i <= n THEN v[i] ELSE more[i - n]
    BY <1>2, ConcatProperties DEF n
  <2>2. Len(more) \in Nat /\ Len(other) \in Nat
    BY <1>2, LenProperties
  <2>3. /\ u \o other \in Seq(A) /\ Len(u \o other) = Len(u) + Len(other)
        /\ \A i \in 1 .. Len(u) + Len(other) :
             (u \o other)[i] = IF i <= Len(u) THEN u[i] ELSE other[i - Len(u)]
    BY <1>2, <2>1, ConcatProperties
  <2> HIDE DEF u
  <2>4. n <= Len(u) /\ \A i \in 1 .. n : u[i] = v[i]
    BY <1>3, <2>1, <2>2
  <2>5. n <= Len(u \o other) /\ \A i \in 1 .. n : (u \o other)[i] = v[i]
    BY <1>3, <2>1, <2>2, <2>3, <2>4
  <2> QED
    BY <2>3, <2>5 DEF u
<1> HIDE DEF s
<1>5. \A i \in 1 .. n : s[i] # <<>>
  BY <1>3, <1>4 DEF ToSet
<1>6. \A i, j \in 1 .. n : s[i] = s[j] => i = j
  BY <1>3, <1>4 DEF IsInjective
<1>7. r \in Seq(A) /\ IsInjective(r)
  BY <1>4, RewritesFacts
<1>8. n <= Len(r) /\ \A i \in 1 .. n : r[i] = v[i]
  <2>1. n <= Len(r) /\ \A i \in 1 .. n : r[i] = s[i]
    BY <1>3, <1>4, <1>5, <1>6, RewritesStart
  <2> QED
    BY <1>4, <2>1
<1> HIDE DEF r
<1>9. /\ e \in Seq(A) /\ Len(e) = (IF 6 < Len(r) THEN 6 ELSE Len(r))
      /\ \A i \in 1 .. Len(e) : e[i] = r[i]
      /\ IsInjective(e)
  <2>1. r \in Seq(A) /\ 6 \in Nat
    BY <1>7
  <2>2. /\ e \in Seq(A) /\ Len(e) = (IF 6 < Len(r) THEN 6 ELSE Len(r))
        /\ \A i \in 1 .. Len(e) : i \in DOMAIN r /\ e[i] = r[i]
        /\ ToSet(e) \subseteq ToSet(r)
        /\ IsInjective(r) => IsInjective(e)
    BY <2>1, TakeFacts
  <2> HIDE DEF e
  <2> QED
    BY <1>7, <2>2
<1> DEFINE t == Take(v, 6)
<1>10. /\ t \in Seq(A) /\ Len(t) = (IF 6 < n THEN 6 ELSE n)
       /\ \A i \in 1 .. Len(t) : t[i] = v[i]
  BY <1>2, TakeFacts DEF n
<1> HIDE DEF t, e
<1>11. Len(r) \in Nat
  BY <1>7, LenProperties
<1>12. Len(e) \in Nat /\ Len(t) \in Nat
  BY <1>9, <1>10, LenProperties
<1> DEFINE k == Len(t)
           l == Len(e)
           m == Len(r)
<1>13. k <= l /\ k <= n /\ l <= 6
  <2>1. /\ k \in Nat /\ l \in Nat /\ m \in Nat /\ n \in Nat /\ n <= m
        /\ k = (IF 6 < n THEN 6 ELSE n) /\ l = (IF 6 < m THEN 6 ELSE m)
    BY <1>3, <1>8, <1>9, <1>10, <1>11, <1>12
  <2> HIDE DEF k, l, m
  <2> QED
    BY <2>1
<1>14. \A i \in 1 .. k : t[i] = e[i]
  <2>1. ASSUME NEW i \in 1 .. k PROVE t[i] = e[i]
    <3>1. i \in 1 .. n /\ i \in 1 .. l
      BY <1>3, <1>12, <1>13
    <3> QED
      BY <1>8, <1>9, <1>10, <3>1
  <2> QED
    BY <2>1
<1>15. IsPrefix(t, e)
  BY <1>9, <1>10, <1>13, <1>14, PrefixFacts
<1> QED
  BY <1>1, <1>9, <1>13, <1>15 DEF t, EnterpriseLimit

-----------------------------------------------------------------------------
\* A turn.  Whatever the turns before it were, its plan has the properties: all they need
\* of the state is its type.
PlanTypes == queries \in Seq(Texts) /\ replies \in Seq(Seq(ToSet(Vocabulary)))

\* The turn in which t is past and, with its context, is read as r.
BaseOf(t, fragments) ==
  When("no words" \notin t.marks, <<t.name>>)
  \o When(fragments # <<>>, <<"context">> \o fragments)
TurnOf(t, r, fragments) ==
  LET p == BuildQueryProfile(r)
      variants == Variants(p, BaseOf(t, fragments))
  IN /\ r \in IF fragments = <<>> THEN {t} ELSE Readings(t, fragments)
     /\ turn' = [text |-> t, added |-> fragments, told |-> Recent(replies, ReplyWindow)]
     /\ plan' = [profile |-> p, queries |-> variants]
     /\ refined' = [profile |-> p, queries |-> EnterpriseVariants(p, variants, fragments # <<>>)]
     /\ queries' = Append(queries, t)

LEMMA TurnIsOf ==
  ASSUME PlanTypes, Turn
  PROVE  /\ PlanTypes'
         /\ \E t \in Texts : \E r :
              TurnOf(t, r, Fragments(BuildQueryProfile(t), ContextBefore(queries, replies)))
<1> DEFINE c == ContextBefore(queries, replies)
           fragments(t) == Fragments(BuildQueryProfile(t), c)
<1>1. PICK t \in Texts :
        /\ \E r \in IF fragments(t) = <<>> THEN {t} ELSE Readings(t, fragments(t)) :
             TurnOf(t, r, fragments(t))
        /\ queries' = Append(queries, t)
  BY DEF Turn, TurnOf, BaseOf, ContextBefore
<1>2. queries' \in Seq(Texts)
  BY <1>1, AppendProperties DEF PlanTypes
<1>3. replies' \in Seq(Seq(ToSet(Vocabulary)))
  <2>1. replies' = replies \/ \E told \in Remarks : replies' = Append(replies, told)
    BY DEF Turn
  <2>2. ASSUME NEW told \in Remarks, replies' = Append(replies, told)
        PROVE  replies' \in Seq(Seq(ToSet(Vocabulary)))
    BY <2>2, RemarksAssumption, AppendProperties DEF PlanTypes
  <2> QED
    BY <2>1, <2>2 DEF PlanTypes
<1> QED
  BY <1>1, <1>2, <1>3 DEF PlanTypes

LEMMA TypesStutter ==
  ASSUME PlanTypes, UNCHANGED turns PROVE PlanTypes'
BY DEF PlanTypes, turns

\* What was said before a turn: the queries without its own, in the windows.
LEMMA SaidBefore ==
  ASSUME PlanTypes, NEW t \in Texts, NEW r, NEW fragments, TurnOf(t, r, fragments)
  PROVE  /\ Said' \cup Told' = Window(queries, replies)
         /\ (IF Len(queries') > 1 THEN queries'[Len(queries') - 1].rank ELSE 0)
            = ContextBefore(queries, replies).rank
<1>1. /\ queries' = Append(queries, t) /\ turn'.told = Recent(replies, ReplyWindow)
  BY DEF TurnOf
<1>2. /\ queries' \in Seq(Texts) /\ Len(queries') = Len(queries) + 1 /\ Len(queries) \in Nat
      /\ \A i \in 1 .. Len(queries) : queries'[i] = queries[i]
  BY <1>1, AppendProperties, LenProperties DEF PlanTypes
<1>3. Earlier(queries') = queries
  <2> DEFINE e == SubSeq(queries', 1, Len(queries') - 1)
             n == Len(queries)
  <2>1. n \in Nat /\ Len(queries') - 1 = n /\ e = SubSeq(queries', 1, n)
    BY <1>2
  <2>2. \A i \in 1 .. n : queries'[i] \in Texts
    BY <1>2
  <2> HIDE DEF n
  <2> DEFINE f == SubSeq(queries', 1, n)
  <2>3. /\ f \in Seq(Texts) /\ Len(f) = (IF 1 <= n THEN n - 1 + 1 ELSE 0)
        /\ \A i \in 1 .. n - 1 + 1 : f[i] = queries'[1 + i - 1]
    BY <2>1, <2>2, SubSeqProperties
  <2> HIDE DEF f
  <2>4. Len(f) = n /\ \A i \in 1 .. n : f[i] = queries[i]
    BY <1>2, <2>1, <2>3 DEF n
  <2>5. f = queries
    <3>1. Len(f) = Len(queries) /\ \A i \in 1 .. Len(f) : f[i] = queries[i]
      BY <2>4 DEF n
    <3> QED
      BY <2>3, <3>1, SeqEqual DEF PlanTypes
  <2> QED
    BY <2>1, <2>5 DEF Earlier, f
<1>4. Said' = SaidIn(Recent(queries, QueryWindow))
  BY <1>3 DEF Said, SaidIn, WordsOf
<1>5. Told' = ToldIn(Recent(replies, ReplyWindow))
  BY <1>1 DEF Told, ToldIn
<1>6. ContextBefore(queries, replies).rank
      = (IF queries = <<>> THEN 0 ELSE queries[Len(queries)].rank)
  BY ContextBeforeFacts DEF PlanTypes
<1>7. (IF Len(queries') > 1 THEN queries'[Len(queries') - 1].rank ELSE 0)
      = (IF queries = <<>> THEN 0 ELSE queries[Len(queries)].rank)
  <2>1. CASE queries = <<>>
    <3>1. Len(queries') = 1
      BY <1>2, <2>1
    <3> QED
      BY <2>1, <3>1
  <2>2. CASE queries # <<>>
    <3>1. Len(queries) # 0
      BY <2>2 DEF PlanTypes
    <3>2. Len(queries') > 1 /\ Len(queries') - 1 = Len(queries) /\ Len(queries) \in 1 .. Len(queries)
      BY <1>2, <3>1
    <3> QED
      BY <1>2, <2>2, <3>2
  <2> QED
    BY <2>1, <2>2
<1> QED
  BY <1>4, <1>5, <1>6, <1>7 DEF Window

LEMMA ReadingRank ==
  ASSUME NEW t \in Texts, NEW fragments, NEW r \in Readings(t, fragments)
  PROVE  r.rank = IF t.rank # 0 THEN t.rank ELSE RankRead(fragments)
<1>1. PICK w, a, c, m : r = ReadAs(t, fragments, w, a, c, m)
  BY DEF Readings
<1>2. t \in [name : STRING, terms : SUBSET ToSet(Vocabulary),
              attributes : SUBSET ToSet(Vocabulary), contexts : SUBSET ToSet(Vocabulary),
              tags : SUBSET ToSet(Vocabulary), rank : 0 .. 3, marks : SUBSET Marks]
  BY TextsAssumption
<1> QED
  BY <1>1, <1>2 DEF ReadAs

\* The words added, and what they come to.
LEMMA FragmentsFacts ==
  ASSUME PlanTypes, NEW p
  PROVE  LET c == ContextBefore(queries, replies)
             fragments == Fragments(p, c)
             rank == ReferredRank(p, c.rank)
         IN /\ Carried(fragments, Window(queries, replies) \cup ToSet(Scope)
                                    \cup (IF rank = 0 THEN {} ELSE {Ordinals[rank]}))
            /\ IsFollowUpLike(p) /\ rank # 0 =>
                 fragments # <<>> /\ fragments[1] = Ordinals[rank]
            /\ ~IsFollowUpLike(p) => fragments = <<>>
            /\ c.rank \in 0 .. 3
<1> DEFINE c == ContextBefore(queries, replies)
           fragments == Fragments(p, c)
           rank == ReferredRank(p, c.rank)
           words == Window(queries, replies)
           all == words \cup ToSet(Scope) \cup (IF rank = 0 THEN {} ELSE {Ordinals[rank]})
<1>1. CarriesOnly(c, words) /\ c.rank \in 0 .. 3
  BY ContextBeforeFacts DEF PlanTypes
<1>2. CASE IsFollowUpLike(p)
  <2>1. fragments = Added(p, c)
    BY <1>2 DEF Fragments
  <2> HIDE DEF c, words, fragments
  <2>2. /\ Carried(Added(p, c), all)
        /\ rank # 0 => Added(p, c) # <<>> /\ Added(p, c)[1] = Ordinals[rank]
    BY <1>1, AddedFacts
  <2> QED
    BY <1>1, <1>2, <2>1, <2>2 DEF c, fragments, words
<1>3. CASE ~IsFollowUpLike(p)
  <2>1. fragments = <<>>
    BY <1>3 DEF Fragments
  <2> HIDE DEF fragments, all, c
  <2>2. Carried(<<>>, all)
    BY CarriedFacts
  <2> QED
    BY <1>1, <1>3, <2>1, <2>2 DEF c, fragments, all
<1> QED
  BY <1>2, <1>3

LEMMA TurnOwnRank ==
  ASSUME PlanTypes, NEW t \in Texts, NEW r,
         TurnOf(t, r, Fragments(BuildQueryProfile(t), ContextBefore(queries, replies)))
  PROVE  OwnRankWins'
<1> DEFINE p == BuildQueryProfile(t)
           c == ContextBefore(queries, replies)
           fragments == Fragments(p, c)
           last == IF Len(queries') > 1 THEN queries'[Len(queries') - 1].rank ELSE 0
           k == ReferredRank(p, c.rank)
           alone == When("no words" \notin p.marks, <<t.name>>)
<1>1. /\ r \in IF fragments = <<>> THEN {t} ELSE Readings(t, fragments)
      /\ turn'.text = t
      /\ plan' = [profile |-> BuildQueryProfile(r),
                  queries |-> Variants(BuildQueryProfile(r), BaseOf(t, fragments))]
  BY DEF TurnOf
<1>2. Said' \cup Told' = Window(queries, replies) /\ last = c.rank
  BY SaidBefore
<1>3. p.rank = t.rank /\ p.marks = t.marks /\ plan'.profile.rank = r.rank
  BY <1>1 DEF BuildQueryProfile
<1>4. /\ Carried(fragments, Window(queries, replies) \cup ToSet(Scope)
                              \cup (IF k = 0 THEN {} ELSE {Ordinals[k]}))
      /\ IsFollowUpLike(p) /\ k # 0 => fragments # <<>> /\ fragments[1] = Ordinals[k]
      /\ ~IsFollowUpLike(p) => fragments = <<>>
      /\ c.rank \in 0 .. 3
  BY FragmentsFacts
<1>5. k \in 0 .. 3 /\ (k # 0 => c.rank # 0 /\ k \in {c.rank - 1, c.rank, c.rank + 1})
  BY <1>4, ReferredRankFacts
<1> HIDE DEF c, fragments, last, k
<1>6. /\ fragments = <<>> => r = t
      /\ fragments # <<>> => r.rank = IF t.rank # 0 THEN t.rank ELSE RankRead(fragments)
  BY <1>1, ReadingRank
<1>7. t.rank # 0 => r.rank = t.rank
  BY <1>6
<1>8. ASSUME t.rank = 0, c.rank # 0, t.marks \cap {"refers", "back", "on", "no words"} = {"refers"}
      PROVE  r.rank = c.rank
  <2>1. "refers" \in p.marks /\ "back" \notin p.marks /\ "on" \notin p.marks /\ "no words" \notin p.marks
    <3> DEFINE four == {"refers", "back", "on", "no words"}
    <3>1. /\ "refers" \in four /\ "back" \in four /\ "on" \in four /\ "no words" \in four
          /\ "back" \notin {"refers"} /\ "on" \notin {"refers"} /\ "no words" \notin {"refers"}
      OBVIOUS
    <3>2. t.marks \cap four = {"refers"}
      BY <1>8
    <3> HIDE DEF four
    <3>3. /\ "refers" \in t.marks /\ "back" \notin t.marks /\ "on" \notin t.marks
          /\ "no words" \notin t.marks
      BY <3>1, <3>2
    <3> QED
      BY <1>3, <3>3
  <2>2. IsFollowUpLike(p)
    BY <2>1 DEF IsFollowUpLike
  <2>3. k = c.rank
    BY <1>3, <1>8, <2>1 DEF ReferredRank, k
  <2>4. fragments # <<>> /\ fragments[1] = Ordinals[c.rank] /\ c.rank \in 1 .. 3
    <3>1. c.rank \in 1 .. 3
      <4> DEFINE z == c.rank
      <4>1. z \in 0 .. 3 /\ z # 0
        BY <1>4, <1>8
      <4> HIDE DEF z
      <4>2. z \in 1 .. 3
        BY <4>1
      <4> QED
        BY <4>2 DEF z
    <3> HIDE DEF p
    <3> QED
      BY <1>4, <1>8, <2>2, <2>3, <3>1
  <2>5. RankRead(fragments) = c.rank
    BY <1>4, <2>4, RankReadFacts DEF Carried
  <2> QED
    BY <1>6, <1>8, <2>4, <2>5
<1>9. ASSUME t.rank = 0, r.rank # 0
      PROVE  \/ c.rank # 0 /\ r.rank \in {c.rank - 1, c.rank, c.rank + 1}
             \/ \E w \in Window(queries, replies) : w \in DOMAIN Named /\ Named[w] = r.rank
  <2>1. fragments # <<>> /\ RankRead(fragments) = r.rank
    BY <1>6, <1>9
  <2>2. PICK w \in ToSet(fragments) : w \in DOMAIN Named /\ Named[w] = r.rank
    BY <1>4, <1>9, <2>1, RankReadFacts DEF Carried
  <2>3. ToSet(fragments) \subseteq Window(queries, replies) \cup ToSet(Scope)
                                   \cup (IF k = 0 THEN {} ELSE {Ordinals[k]})
    BY <1>4, OfItsElements DEF Carried
  <2>4. w \notin ToSet(Scope)
    BY <2>2, NamedAssumption
  <2>5. CASE w \in Window(queries, replies)
    BY <2>2, <2>5
  <2>6. CASE k # 0 /\ w = Ordinals[k]
    <3>1. k \in 1 .. 3
      BY <1>5, <2>6
    <3>2. Named[w] = k
      BY <2>6, <3>1, OrdinalsFacts
    <3> QED
      BY <1>5, <2>2, <2>6, <3>2
  <2> QED
    BY <2>2, <2>3, <2>4, <2>5, <2>6
<1>10. ASSUME ~IsFollowUpLike(p)
       PROVE  plan' = [profile |-> p, queries |-> Variants(p, alone)]
  <2>1. fragments = <<>> /\ r = t
    BY <1>4, <1>6, <1>10
  <2>2. BaseOf(t, fragments) = alone
    <3>1. BaseOf(t, fragments) = alone \o <<>>
      BY <1>3, <2>1 DEF BaseOf, When
    <3>2. alone \in Seq({t.name})
      <4>1. alone = <<t.name>> \/ alone = <<>>
        BY DEF When
      <4>2. \A x : <<x>> \in Seq({x}) /\ <<>> \in Seq({x})
        OBVIOUS
      <4> HIDE DEF alone
      <4> QED
        BY <4>1, <4>2
    <3> HIDE DEF alone
    <3> QED
      BY <3>1, <3>2, ConcatEmptySeq
  <2> HIDE DEF alone
  <2> QED
    BY <1>1, <2>1, <2>2
<1>11. SUFFICES LET own == t.rank
                    rank == plan'.profile.rank
                IN /\ own # 0 => rank = own
                   /\ own = 0 /\ last # 0
                      /\ p.marks \cap {"refers", "back", "on", "no words"} = {"refers"} =>
                        rank = last
                   /\ own = 0 /\ rank # 0 =>
                        \/ last # 0 /\ rank \in {last - 1, last, last + 1}
                        \/ \E w \in Said' \cup Told' : w \in DOMAIN Named /\ Named[w] = rank
                   /\ ~IsFollowUpLike(p) => plan' = [profile |-> p, queries |-> Variants(p, alone)]
  <2>1. turn'.text.rank = t.rank /\ BuildQueryProfile(turn'.text) = p
    BY <1>1
  <2> QED
    BY <1>1, <2>1 DEF OwnRankWins, last
<1> HIDE DEF p, alone
<1> QED
  BY <1>2, <1>3, <1>7, <1>8, <1>9, <1>10

LEMMA TurnContextIsRecent ==
  ASSUME PlanTypes, NEW t \in Texts, NEW r,
         TurnOf(t, r, Fragments(BuildQueryProfile(t), ContextBefore(queries, replies)))
  PROVE  ContextIsRecent'
<1> DEFINE p == BuildQueryProfile(t)
           c == ContextBefore(queries, replies)
           fragments == Fragments(p, c)
           k == ReferredRank(p, c.rank)
           named == IF k = 0 THEN {} ELSE {Ordinals[k]}
<1>1. turn'.added = fragments
  BY DEF TurnOf
<1>2. Said' \cup Told' = Window(queries, replies)
  BY SaidBefore
<1>3. Carried(fragments, Window(queries, replies) \cup ToSet(Scope) \cup named) /\ c.rank \in 0 .. 3
  BY FragmentsFacts
<1>4. k \in 0 .. 3
  BY <1>3, ReferredRankFacts
<1>5. named \subseteq ToSet(Ordinals)
  <2> HIDE DEF k
  <2>1. k # 0 => Ordinals[k] \in ToSet(Ordinals)
    BY <1>4, OrdinalsFacts
  <2> QED
    BY <2>1
<1> HIDE DEF c, fragments, k, named
<1>6. ToSet(fragments) \subseteq Window(queries, replies) \cup ToSet(Scope) \cup named
  BY <1>3, OfItsElements DEF Carried
<1> QED
  BY <1>1, <1>2, <1>5, <1>6 DEF ContextIsRecent

LEMMA TurnRewritesAreOrdered ==
  ASSUME PlanTypes, NEW t \in Texts, NEW r,
         TurnOf(t, r, Fragments(BuildQueryProfile(t), ContextBefore(queries, replies)))
  PROVE  RewritesAreOrdered'
<1> DEFINE p == BuildQueryProfile(t)
           c == ContextBefore(queries, replies)
           fragments == Fragments(p, c)
           q == BuildQueryProfile(r)
           base == BaseOf(t, fragments)
           v == Variants(q, base)
           e == EnterpriseVariants(q, v, fragments # <<>>)
<1>1. /\ turn'.text = t /\ plan'.queries = v /\ plan'.profile = q /\ refined'.queries = e
  BY DEF TurnOf
<1>2. IsSequence(fragments)
  BY FragmentsFacts, IsSequenceFacts DEF Carried
<1> HIDE DEF c, fragments
<1>3. ASSUME "no words" \notin t.marks PROVE base # <<>> /\ base[1] = t.name
  <2>1. Starts(<<t.name>>, t.name) /\ IsSequence(<<"context">> \o fragments)
    BY <1>2, IsSequenceFacts DEF Starts
  <2>2. (fragments # <<>>) \in BOOLEAN
    OBVIOUS
  <2>3. IsSequence(When(fragments # <<>>, <<"context">> \o fragments))
    BY <2>1, <2>2, IsSequenceFacts
  <2>4. base = <<t.name>> \o When(fragments # <<>>, <<"context">> \o fragments)
    <3>1. When("no words" \notin t.marks, <<t.name>>) = <<t.name>>
      BY <1>3 DEF When
    <3> QED
      BY <3>1 DEF BaseOf
  <2>5. Starts(base, t.name)
    BY <2>1, <2>3, <2>4, IsSequenceFacts
  <2> QED
    BY <2>5 DEF Starts
<1> HIDE DEF base, q
<1>4. /\ IsSequence(v) /\ IsInjective(v) /\ <<>> \notin ToSet(v)
      /\ IsExactQa(q) => Len(v) <= 2
      /\ base # <<>> => v # <<>> /\ v[1] = base
  BY VariantsFacts
<1> HIDE DEF v
<1>5. /\ IsInjective(e) /\ Len(e) <= EnterpriseLimit
      /\ IsPrefix(Take(v, EnterpriseLimit), e)
  BY <1>4, EnterpriseFacts
<1> HIDE DEF e
<1> QED
  BY <1>1, <1>3, <1>4, <1>5 DEF RewritesAreOrdered

LEMMA TypesHold == Conversation => []PlanTypes
<1>1. Begin => PlanTypes
  BY DEF Begin, PlanTypes
<1>2. ASSUME PlanTypes, [Turn]_turns PROVE PlanTypes'
  BY <1>2, TurnIsOf, TypesStutter
<1> QED
  BY <1>1, <1>2, PTL DEF Conversation

\* A query that names a document means that one, one that refers to one that of the last
\* query; no other document is meant than was said in the windows or is next to that of
\* the last query; and a query that stands on its own is planned alone
\* (_resolve_follow_up_context, build_query_plan).
THEOREM OwnRankAlwaysWins == Conversation => []OwnRankWins
<1>1. Begin => OwnRankWins
  BY DEF Begin, OwnRankWins, Planned
<1>2. ASSUME PlanTypes, OwnRankWins, [Turn]_turns PROVE OwnRankWins'
  <2>1. CASE Turn
    BY <1>2, <2>1, TurnIsOf, TurnOwnRank
  <2>2. CASE UNCHANGED turns
    BY <1>2, <2>2 DEF turns, OwnRankWins, Planned, Said, Told, Earlier
  <2> QED
    BY <1>2, <2>1, <2>2
<1> QED
  BY <1>1, <1>2, TypesHold, PTL DEF Conversation

\* Nothing is added to a query that was not said in the last four queries or the last two
\* replies, apart from the fixed words (build_conversation_context).
THEOREM ContextStaysRecent == Conversation => []ContextIsRecent
<1>1. Begin => ContextIsRecent
  BY DEF Begin, ContextIsRecent, Planned
<1>2. ASSUME PlanTypes, ContextIsRecent, [Turn]_turns PROVE ContextIsRecent'
  <2>1. CASE Turn
    BY <1>2, <2>1, TurnIsOf, TurnContextIsRecent
  <2>2. CASE UNCHANGED turns
    BY <1>2, <2>2 DEF turns, ContextIsRecent, Planned, Said, Told, Earlier
  <2> QED
    BY <1>2, <2>1, <2>2
<1> QED
  BY <1>1, <1>2, TypesHold, PTL DEF Conversation

\* The query itself is searched for first, nothing twice, and the Enterprise tier's
\* rewrites come after those of every tier, within its limit
\* (_build_retrieval_query_variants, _build_enterprise_retrieval_query_variants).
THEOREM RewritesKeepTheirOrder == Conversation => []RewritesAreOrdered
<1>1. Begin => RewritesAreOrdered
  BY DEF Begin, RewritesAreOrdered, Planned
<1>2. ASSUME PlanTypes, RewritesAreOrdered, [Turn]_turns PROVE RewritesAreOrdered'
  <2>1. CASE Turn
    BY <1>2, <2>1, TurnIsOf, TurnRewritesAreOrdered
  <2>2. CASE UNCHANGED turns
    BY <1>2, <2>2 DEF turns, RewritesAreOrdered, Planned
  <2> QED
    BY <1>2, <2>1, <2>2
<1> QED
  BY <1>1, <1>2, TypesHold, PTL DEF Conversation
=============================================================================

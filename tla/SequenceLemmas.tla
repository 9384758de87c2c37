--------------------------- MODULE SequenceLemmas ---------------------------
(***************************************************************************)
(* What the proofs need of Append and RemoveAt, element by element, and of *)
(* counting those ahead of an element to find its place in an order.       *)
(***************************************************************************)
EXTENDS Integers, SequencesExt, SequenceTheorems, FiniteSetTheorems, TLAPS

LEMMA AppendAt ==
  ASSUME NEW S, NEW s \in Seq(S), NEW x \in S
  PROVE  /\ Append(s, x) \in Seq(S) /\ Len(s) \in Nat /\ DOMAIN s = 1..Len(s)
         /\ Len(Append(s, x)) = Len(s) + 1 /\ DOMAIN Append(s, x) = 1..Len(s) + 1
         /\ \A i \in 1..Len(s) : Append(s, x)[i] = s[i]
         /\ Append(s, x)[Len(s) + 1] = x
BY AppendProperties, LenProperties

\* What is left without the i-th element keeps its order.
LEMMA RemoveAtAt ==
  ASSUME NEW S, NEW s \in Seq(S), NEW i \in DOMAIN s
  PROVE  /\ RemoveAt(s, i) \in Seq(S) /\ DOMAIN RemoveAt(s, i) = 1..Len(s) - 1
         /\ Len(s) \in Nat /\ DOMAIN s = 1..Len(s) /\ i \in 1..Len(s)
         /\ \A j \in 1..Len(s) - 1 : RemoveAt(s, i)[j] = s[IF j < i THEN j ELSE j + 1]
<1>0. Len(s) \in Nat /\ DOMAIN s = 1..Len(s) /\ i \in 1..Len(s)
  BY LenProperties
<1> DEFINE a == SubSeq(s, 1, i - 1)
           b == SubSeq(s, i + 1, Len(s))
<1>1. /\ a \in Seq(S) /\ Len(a) = i - 1 /\ \A j \in 1..i - 1 : a[j] = s[j]
  <2>1. \A j \in 1..i - 1 : s[j] \in S
    BY <1>0, ElementOfSeq
  <2>2. i - 1 \in Int /\ 1 \in Int /\ (i - 1) - 1 + 1 = i - 1
    BY <1>0
  <2>3. /\ SubSeq(s, 1, i - 1) \in Seq(S)
        /\ Len(SubSeq(s, 1, i - 1)) = IF 1 <= i - 1 THEN (i - 1) - 1 + 1 ELSE 0
        /\ \A j \in 1..(i - 1) - 1 + 1 : SubSeq(s, 1, i - 1)[j] = s[1 + j - 1]
    BY <2>1, <2>2, SubSeqProperties
  <2> QED BY <1>0, <2>3
<1>2. /\ b \in Seq(S) /\ Len(b) = Len(s) - i
      /\ \A j \in 1..Len(s) - i : b[j] = s[i + j]
  <2>1. \A j \in i + 1..Len(s) : s[j] \in S
    BY <1>0, ElementOfSeq
  <2>2. i + 1 \in Int /\ Len(s) \in Int
    BY <1>0
  <2>3. /\ SubSeq(s, i + 1, Len(s)) \in Seq(S)
        /\ Len(SubSeq(s, i + 1, Len(s))) = IF i + 1 <= Len(s) THEN Len(s) - (i + 1) + 1 ELSE 0
        /\ \A j \in 1..Len(s) - (i + 1) + 1 : SubSeq(s, i + 1, Len(s))[j] = s[i + 1 + j - 1]
    BY <2>1, <2>2, SubSeqProperties
  <2> QED BY <1>0, <2>3
<1> HIDE DEF a, b
<1>3. /\ a \o b \in Seq(S) /\ Len(a \o b) = Len(a) + Len(b)
      /\ \A j \in 1..Len(a) + Len(b) : (a \o b)[j] = IF j <= Len(a) THEN a[j] ELSE b[j - Len(a)]
  BY <1>1, <1>2, ConcatProperties
<1>4. DOMAIN (a \o b) = 1..Len(s) - 1
  <2>1. DOMAIN (a \o b) = 1..Len(a \o b)
    BY <1>3, LenProperties
  <2>2. Len(a \o b) = Len(s) - 1
    BY <1>0, <1>1, <1>2, <1>3
  <2> QED BY <2>1, <2>2
<1>5. \A j \in 1..Len(s) - 1 : (a \o b)[j] = s[IF j < i THEN j ELSE j + 1]
  <2> TAKE j \in 1..Len(s) - 1
  <2>1. CASE j < i
    <3>1. j <= Len(a) /\ j \in 1..i - 1 /\ j \in 1..Len(a) + Len(b)
      BY <1>0, <1>1, <1>2, <2>1
    <3>2. (a \o b)[j] = a[j]
      BY <1>3, <3>1
    <3> QED BY <1>1, <2>1, <3>1, <3>2
  <2>2. CASE ~(j < i)
    <3>1. j - (i - 1) \in 1..Len(s) - i /\ ~(j <= i - 1) /\ i + (j - (i - 1)) = j + 1
      BY <1>0, <2>2
    <3>2. j \in 1..Len(a) + Len(b) /\ Len(a) = i - 1
      BY <1>0, <1>1, <1>2
    <3>3. (a \o b)[j] = b[j - (i - 1)]
      BY <1>3, <3>1, <3>2
    <3> QED BY <1>2, <2>2, <3>1, <3>3
  <2> QED BY <2>1, <2>2
<1> QED BY <1>0, <1>3, <1>4, <1>5 DEF RemoveAt, a, b

\* In a strict total order of a finite set, each place from the first to the
\* last is that of one element, by the number of those ahead of it.
LEMMA Ranked ==
  ASSUME NEW S, IsFiniteSet(S), NEW ahead \in [S -> SUBSET S],
         \A x \in S : x \notin ahead[x],
         \A x, y \in S : x \in ahead[y] => ahead[x] \subseteq ahead[y],
         \A x, y \in S : x # y => x \in ahead[y] \/ y \in ahead[x]
  PROVE  /\ Cardinality(S) \in Nat
         /\ \A x \in S : Cardinality(ahead[x]) \in 0..Cardinality(S) - 1
         /\ \A x, y \in S : Cardinality(ahead[x]) = Cardinality(ahead[y]) => x = y
         /\ \A k \in 1..Cardinality(S) : \E x \in S : Cardinality(ahead[x]) = k - 1
<1> DEFINE N == Cardinality(S)
           place == [x \in S |-> Cardinality(ahead[x])]
<1>1. N \in Nat
  BY FS_CardinalityType
<1>2. \A x \in S : IsFiniteSet(ahead[x]) /\ Cardinality(ahead[x]) \in Nat
                /\ Cardinality(ahead[x]) <= N /\ Cardinality(ahead[x]) # N
  <2> TAKE x \in S
  <2>1. ahead[x] \in SUBSET S /\ ahead[x] # S
    OBVIOUS
  <2>2. /\ IsFiniteSet(ahead[x]) /\ Cardinality(ahead[x]) <= N
        /\ Cardinality(S) = Cardinality(ahead[x]) => S = ahead[x]
    BY <2>1, FS_Subset
  <2>3. Cardinality(ahead[x]) \in Nat
    BY <2>2, FS_CardinalityType
  <2> QED BY <2>1, <2>2, <2>3
<1>3. \A x \in S : Cardinality(ahead[x]) \in 0..N - 1
  <2> HIDE DEF N
  <2> QED BY <1>1, <1>2
<1>4. \A x, y \in S : x \in ahead[y] => Cardinality(ahead[x]) # Cardinality(ahead[y])
  <2> SUFFICES ASSUME NEW x \in S, NEW y \in S, x \in ahead[y]
               PROVE  Cardinality(ahead[x]) # Cardinality(ahead[y])
    OBVIOUS
  <2>1. ahead[x] \in SUBSET ahead[y] /\ ahead[x] # ahead[y]
    OBVIOUS
  <2>2. Cardinality(ahead[y]) = Cardinality(ahead[x]) => ahead[y] = ahead[x]
    BY <1>2, <2>1, FS_Subset
  <2> QED BY <2>1, <2>2
<1>5. \A x, y \in S : Cardinality(ahead[x]) = Cardinality(ahead[y]) => x = y
  BY <1>4
<1>6. \A k \in 1..N : \E x \in S : Cardinality(ahead[x]) = k - 1
  <2>1. place \in Injection(S, 0..N - 1)
    <3>1. place \in [S -> 0..N - 1]
      BY <1>3
    <3> QED BY <1>5, <3>1 DEF Injection, IsInjective
  <2>2. IsFiniteSet(0..N - 1) /\ Cardinality(0..N - 1) = N
    <3> HIDE DEF N
    <3>1. 0 \in Int /\ N - 1 \in Int
      BY <1>1
    <3>2. IsFiniteSet(0..N - 1) /\ Cardinality(0..N - 1) = IF 0 > N - 1 THEN 0 ELSE N - 1 - 0 + 1
      BY <3>1, FS_Interval
    <3> QED BY <1>1, <3>2
  <2>3. place \in Surjection(S, 0..N - 1)
    <3> HIDE DEF place
    <3> QED BY <2>1, <2>2, FS_Injection
  <2>4. \A k \in 0..N - 1 : \E x \in S : place[x] = k
    BY <2>3 DEF Surjection
  <2>5. \A k \in 1..N : k - 1 \in 0..N - 1
    <3> HIDE DEF N
    <3> QED BY <1>1
  <2> QED BY <2>4, <2>5
<1> QED BY <1>1, <1>3, <1>5, <1>6
=============================================================================

------------------------- MODULE RoutingTableProofs --------------------------
(***************************************************************************)
(* What holds of a bucket of any capacity, for any set of contacts and any *)
(* thresholds.  The lists are kept in order by retain, remove and push;    *)
(* the lemmas say so of Within, from which the model builds all of them.   *)
(***************************************************************************)
EXTENDS RoutingTable, FiniteSetTheorems, SequenceTheorems, TLAPS

\* at says where the elements of list that are in T stand, in their order.
Places(at, list, T) ==
  /\ at \in [1..Len(Within(list, T)) -> 1..Len(list)]
  /\ \A k \in 1..Len(Within(list, T)) : Within(list, T)[k] = list[at[k]] /\ list[at[k]] \in T
  /\ \A k, l \in 1..Len(Within(list, T)) : k < l => at[k] < at[l]
  /\ \A i \in 1..Len(list) : list[i] \in T => \E k \in 1..Len(Within(list, T)) : at[k] = i

\* Within(list, T) has the elements of list that are in T, all of them, in the
\* order they have in list, and is shorter by one if only one is not in T.
LEMMA WithinAt ==
  ASSUME NEW S, NEW list \in Seq(S), NEW T
  PROVE  /\ Within(list, T) \in Seq(S)
         /\ Len(Within(list, T)) \in Nat /\ Len(Within(list, T)) <= Len(list)
         /\ \A p \in 1..Len(list) :
              (\A i \in 1..Len(list) : list[i] \in T <=> i # p)
                => Len(Within(list, T)) = Len(list) - 1
         /\ \E at : Places(at, list, T)
<1> DEFINE kept == {i \in DOMAIN list : list[i] \in T}
           size == Cardinality(kept)
           below(i) == {j \in kept : j <= i}
           rank == [i \in kept |-> Cardinality(below(i))]
           at == [k \in 1..size |-> CHOOSE i \in kept : Cardinality(below(i)) = k]
<1>1. Len(list) \in Nat /\ DOMAIN list = 1..Len(list) /\ \A i \in 1..Len(list) : list[i] \in S
  BY LenProperties, ElementOfSeq
<1>2. /\ IsFiniteSet(1..Len(list)) /\ Cardinality(1..Len(list)) = Len(list)
      /\ kept \in SUBSET (1..Len(list))
  <2>1. IsFiniteSet(1..Len(list)) /\ Cardinality(1..Len(list)) = Len(list)
    <3>1. 1 \in Int /\ Len(list) \in Int
      BY <1>1
    <3>2. IsFiniteSet(1..Len(list)) /\ Cardinality(1..Len(list)) = IF 1 > Len(list) THEN 0 ELSE Len(list) - 1 + 1
      BY <3>1, FS_Interval
    <3> QED BY <1>1, <3>2
  <2> QED BY <1>1, <2>1
<1>3. /\ IsFiniteSet(kept) /\ size \in Nat /\ size <= Len(list)
      /\ IsFiniteSet(1..size) /\ Cardinality(1..size) = size
  <2>1. IsFiniteSet(kept) /\ size <= Len(list)
    BY <1>2, FS_Subset
  <2>2. size \in Nat
    BY <2>1, FS_CardinalityType
  <2> QED BY <2>1, <2>2, FS_Interval
<1>4. \A i \in kept : /\ below(i) \in SUBSET kept /\ i \in below(i)
                      /\ IsFiniteSet(below(i)) /\ rank[i] = Cardinality(below(i))
                      /\ rank[i] \in 1..size
  <2> TAKE i \in kept
  <2>1. below(i) \in SUBSET kept /\ i \in below(i) /\ rank[i] = Cardinality(below(i))
    BY <1>1
  <2>2. IsFiniteSet(below(i)) /\ Cardinality(below(i)) <= size
    BY <1>3, <2>1, FS_Subset
  <2>3. Cardinality(below(i)) \in Nat
    BY <2>2, FS_CardinalityType
  <2>4. Cardinality(below(i)) # 0
    BY <2>1, <2>2, FS_EmptySet
  <2> HIDE DEF below, kept
  <2> QED BY <1>3, <2>1, <2>2, <2>3, <2>4
<1>5. \A i, j \in kept : i < j => rank[i] < rank[j]
  <2> SUFFICES ASSUME NEW i \in kept, NEW j \in kept, i < j PROVE rank[i] < rank[j]
    OBVIOUS
  <2>1. below(i) \in SUBSET below(j) /\ j \in below(j) /\ j \notin below(i)
    BY <1>1
  <2>2. Cardinality(below(i)) <= Cardinality(below(j))
    BY <1>4, <2>1, FS_Subset
  <2>3. Cardinality(below(j)) # Cardinality(below(i))
    BY <1>4, <2>1, FS_Subset
  <2>4. rank[i] <= rank[j] /\ rank[i] # rank[j] /\ rank[i] \in Nat /\ rank[j] \in Nat
    <3>1. rank[i] \in 1..size /\ rank[j] \in 1..size
      BY <1>4
    <3>2. rank[i] = Cardinality(below(i)) /\ rank[j] = Cardinality(below(j))
      BY <1>4
    <3> HIDE DEF rank, size, below
    <3> QED BY <1>3, <2>2, <2>3, <3>1, <3>2
  <2> HIDE DEF rank
  <2> QED BY <2>4
<1>6. \A k \in 1..size : \E i \in kept : Cardinality(below(i)) = k
  <2>1. rank \in [kept -> 1..size]
    BY <1>4
  <2>2. \A i, j \in kept : rank[i] = rank[j] => i = j
    <3>1. \A i \in kept : i \in Nat /\ rank[i] \in Nat
      <4>1. \A i \in kept : i \in 1..Len(list) /\ rank[i] \in 1..size
        BY <1>2, <1>4
      <4> HIDE DEF kept, rank, size
      <4> QED BY <1>1, <1>3, <4>1
    <3> HIDE DEF kept, rank
    <3> QED BY <1>5, <3>1
  <2>3. rank \in Injection(kept, 1..size)
    BY <2>1, <2>2 DEF Injection, IsInjective
  <2>4. size = Cardinality(1..size) /\ IsFiniteSet(1..size)
    BY <1>3
  <2>5. rank \in Surjection(kept, 1..size)
    <3> HIDE DEF rank
    <3> QED BY <2>3, <2>4, FS_Injection
  <2>6. \A k \in 1..size : \E i \in kept : rank[i] = k
    BY <2>5 DEF Surjection
  <2> QED BY <1>4, <2>6
<1>7. \A k \in 1..size : at[k] \in kept /\ rank[at[k]] = k
  <2> TAKE k \in 1..size
  <2>1. at[k] \in kept /\ Cardinality(below(at[k])) = k
    BY <1>6
  <2> HIDE DEF at
  <2> QED BY <2>1
<1>8. Within(list, T) = [k \in 1..size |-> list[at[k]]]
  BY DEF Within
<1>9. \A k \in 1..size : list[at[k]] \in S /\ list[at[k]] \in T /\ at[k] \in 1..Len(list)
  <2>1. \A i \in kept : list[i] \in S /\ list[i] \in T /\ i \in 1..Len(list)
    BY <1>1
  <2> HIDE DEF at, kept
  <2> QED BY <1>7, <2>1
<1>10. Within(list, T) \in Seq(S) /\ Len(Within(list, T)) = size
  <2> HIDE DEF at, kept, size
  <2>1. [k \in 1..size |-> list[at[k]]] \in Seq(S)
    BY <1>3, <1>9
  <2> QED BY <1>3, <1>8, <2>1
<1>11. \A k \in 1..size : Within(list, T)[k] = list[at[k]]
  <2> HIDE DEF at, kept, size
  <2> QED BY <1>8
<1>12. \A k, l \in 1..size : k < l => at[k] < at[l]
  <2> SUFFICES ASSUME NEW k \in 1..size, NEW l \in 1..size, k < l PROVE at[k] < at[l]
    OBVIOUS
  <2>1. at[k] \in Nat /\ at[l] \in Nat
    <3>1. at[k] \in 1..Len(list) /\ at[l] \in 1..Len(list)
      BY <1>9
    <3> HIDE DEF at
    <3> QED BY <1>1, <3>1
  <2>2. ~(at[l] < at[k]) /\ at[l] # at[k]
    <3>1. rank[at[k]] = k /\ rank[at[l]] = l /\ at[k] \in kept /\ at[l] \in kept
      BY <1>7
    <3> HIDE DEF at, kept, rank
    <3> QED BY <1>3, <1>5, <3>1
  <2> HIDE DEF at
  <2> QED BY <2>1, <2>2
<1>13. \A i \in 1..Len(list) : list[i] \in T => \E k \in 1..size : at[k] = i
  <2> SUFFICES ASSUME NEW i \in 1..Len(list), list[i] \in T PROVE \E k \in 1..size : at[k] = i
    OBVIOUS
  <2>1. i \in kept /\ rank[i] \in 1..size
    BY <1>1, <1>4
  <2>2. at[rank[i]] \in kept /\ rank[at[rank[i]]] = rank[i]
    BY <1>7, <2>1
  <2>3. at[rank[i]] \in Nat /\ i \in Nat /\ rank[i] \in Nat
    BY <1>1, <2>1, <2>2
  <2>4. at[rank[i]] = i
    <3> HIDE DEF at, kept, rank
    <3> QED BY <1>5, <2>1, <2>2, <2>3
  <2> QED BY <2>1, <2>4
<1>14. ASSUME NEW p \in 1..Len(list), \A i \in 1..Len(list) : list[i] \in T <=> i # p
       PROVE  size = Len(list) - 1
  <2>1. kept = (1..Len(list)) \ {p}
    BY <1>1, <1>14
  <2>2. Cardinality((1..Len(list)) \ {p}) = Cardinality(1..Len(list)) - 1
    BY <1>2, FS_RemoveElement
  <2> HIDE DEF kept
  <2> QED BY <1>2, <2>1, <2>2
<1>15. Places(at, list, T)
  <2>1. at \in [1..size -> 1..Len(list)]
    BY <1>9
  <2> HIDE DEF at, size, kept
  <2> QED BY <1>9, <1>10, <1>11, <1>12, <1>13, <2>1 DEF Places
<1> HIDE DEF at, size
<1> QED BY <1>3, <1>10, <1>14, <1>15

LEMMA InSet ==
  ASSUME NEW S, NEW list \in Seq(S)
  PROVE  /\ \A i \in 1..Len(list) : list[i] \in ToSet(list)
         /\ \A x \in ToSet(list) : \E i \in 1..Len(list) : list[i] = x
         /\ ToSet(list) \subseteq S
BY LenProperties, ElementOfSeq DEF ToSet

\* What places say of Within, without them: its elements, that it has none
\* twice if the list has none twice, and how they are ordered.
LEMMA WithinSet ==
  ASSUME NEW S, NEW list \in Seq(S), NEW T
  PROVE  /\ Within(list, T) \in Seq(S)
         /\ Len(Within(list, T)) \in Nat /\ Len(Within(list, T)) <= Len(list)
         /\ ToSet(Within(list, T)) = ToSet(list) \cap T
         /\ IsInjective(list) => IsInjective(Within(list, T))
<1> DEFINE w == Within(list, T)
<1>1. w \in Seq(S) /\ Len(w) \in Nat /\ Len(w) <= Len(list)
  BY WithinAt
<1>2. PICK at : Places(at, list, T)
  BY WithinAt
<1>3. /\ DOMAIN list = 1..Len(list) /\ Len(list) \in Nat /\ DOMAIN w = 1..Len(w)
  BY <1>1, LenProperties
<1>4. /\ at \in [1..Len(w) -> 1..Len(list)]
      /\ \A k \in 1..Len(w) : w[k] = list[at[k]] /\ list[at[k]] \in T
      /\ \A k, l \in 1..Len(w) : k < l => at[k] < at[l]
      /\ \A i \in 1..Len(list) : list[i] \in T => \E k \in 1..Len(w) : at[k] = i
  BY <1>2 DEF Places
<1> HIDE DEF w
<1>5. ToSet(w) = ToSet(list) \cap T
  <2>1. \A k \in 1..Len(w) : at[k] \in 1..Len(list) /\ w[k] = list[at[k]] /\ w[k] \in T
    BY <1>4
  <2>2. \A i \in 1..Len(list) : list[i] \in T => \E k \in 1..Len(w) : w[k] = list[i]
    BY <1>4
  <2>3. \A x \in ToSet(w) : x \in ToSet(list) \cap T
    BY <1>1, <2>1, InSet
  <2>4. \A x \in ToSet(list) \cap T : x \in ToSet(w)
    BY <1>1, <2>2, InSet
  <2> QED BY <2>3, <2>4
<1>6. ASSUME IsInjective(list), NEW k \in 1..Len(w), NEW l \in 1..Len(w), w[k] = w[l]
      PROVE  k = l
  <2>1. at[k] \in 1..Len(list) /\ at[l] \in 1..Len(list) /\ list[at[k]] = list[at[l]]
    BY <1>4, <1>6
  <2>2. at[k] = at[l]
    BY <1>3, <1>6, <2>1 DEF IsInjective
  <2>3. k \in Nat /\ l \in Nat /\ at[k] \in Nat /\ at[l] \in Nat
    BY <1>1, <1>3, <2>1
  <2> QED BY <1>4, <2>2, <2>3
<1>7. IsInjective(list) => IsInjective(w)
  BY <1>3, <1>6 DEF IsInjective
<1> QED BY <1>1, <1>5, <1>7 DEF w

\* A new element at the end.
LEMMA AppendSet ==
  ASSUME NEW S, NEW list \in Seq(S), NEW x \in S
  PROVE  /\ Append(list, x) \in Seq(S) /\ Len(Append(list, x)) = Len(list) + 1
         /\ ToSet(Append(list, x)) = ToSet(list) \cup {x}
         /\ IsInjective(list) /\ x \notin ToSet(list) => IsInjective(Append(list, x))
<1>1. /\ Append(list, x) \in Seq(S) /\ Len(Append(list, x)) = Len(list) + 1
      /\ \A i \in 1..Len(list) : Append(list, x)[i] = list[i]
      /\ Append(list, x)[Len(list) + 1] = x
  BY AppendProperties
<1>2. /\ DOMAIN list = 1..Len(list) /\ Len(list) \in Nat
      /\ DOMAIN Append(list, x) = 1..Len(Append(list, x))
  BY <1>1, LenProperties
<1>3. \A i \in 1..Len(list) + 1 : i \in 1..Len(list) \/ i = Len(list) + 1
  BY <1>2
<1>4. Len(list) + 1 \in 1..Len(list) + 1 /\ \A i \in 1..Len(list) : i \in 1..Len(list) + 1
  BY <1>2
<1>5. ToSet(Append(list, x)) = ToSet(list) \cup {x}
  BY <1>1, <1>2, <1>3, <1>4 DEF ToSet
<1>6. IsInjective(list) /\ x \notin ToSet(list) => IsInjective(Append(list, x))
  BY <1>1, <1>2, <1>3, <1>4 DEF ToSet, IsInjective
<1> QED BY <1>1, <1>5, <1>6

\* Removing the only entry of x and pushing x again keeps the length and the
\* elements.
LEMMA MovedToEnd ==
  ASSUME NEW S, NEW list \in Seq(S), IsInjective(list), NEW x \in S
  PROVE  /\ Append(Without(list, {x}), x) \in Seq(S)
         /\ IsInjective(Append(Without(list, {x}), x))
         /\ ToSet(Append(Without(list, {x}), x)) = ToSet(list) \cup {x}
         /\ x \in ToSet(list) => Len(Append(Without(list, {x}), x)) = Len(list)
<1> DEFINE T == ToSet(list) \ {x}
           w == Within(list, T)
<1>1. /\ w \in Seq(S) /\ Len(w) \in Nat /\ Len(w) <= Len(list)
      /\ ToSet(w) = ToSet(list) \cap T /\ IsInjective(w)
  BY WithinSet
<1>2. w = Without(list, {x})
  BY DEF Without
<1> HIDE DEF w
<1>3. ToSet(w) = ToSet(list) \ {x}
  BY <1>1
<1>4. /\ Append(w, x) \in Seq(S) /\ Len(Append(w, x)) = Len(w) + 1
      /\ ToSet(Append(w, x)) = ToSet(w) \cup {x}
      /\ IsInjective(Append(w, x))
  BY <1>1, <1>3, AppendSet
<1>5. ASSUME x \in ToSet(list) PROVE Len(w) = Len(list) - 1
  <2>1. /\ DOMAIN list = 1..Len(list) /\ Len(list) \in Nat
    BY LenProperties
  <2>2. PICK p \in 1..Len(list) : list[p] = x
    BY <1>5, <2>1 DEF ToSet
  <2>3. \A i \in 1..Len(list) : list[i] \in T <=> i # p
    BY <2>1, <2>2 DEF ToSet, IsInjective
  <2> HIDE DEF T
  <2> QED BY <2>3, WithinAt DEF w
<1>6. x \in ToSet(list) => Len(Append(w, x)) = Len(list)
  <2>1. Len(list) \in Nat
    BY LenProperties
  <2> QED BY <1>1, <1>4, <1>5, <2>1
<1> QED BY <1>2, <1>3, <1>4, <1>6

\* SubSeq from the start: a prefix, and what follows it.
LEMMA Prefix ==
  ASSUME NEW S, NEW list \in Seq(S), NEW m \in 0..Len(list)
  PROVE  /\ SubSeq(list, 1, m) \in Seq(S) /\ Len(SubSeq(list, 1, m)) = m
         /\ \A i \in 1..m : SubSeq(list, 1, m)[i] = list[i]
         /\ ToSet(SubSeq(list, 1, m)) \subseteq ToSet(list)
         /\ \A k \in 1..Len(list) : list[k] \in ToSet(SubSeq(list, 1, m)) \/ k > m
         /\ IsInjective(list) => IsInjective(SubSeq(list, 1, m))
<1>1. Len(list) \in Nat /\ DOMAIN list = 1..Len(list) /\ \A i \in 1..Len(list) : list[i] \in S
  BY LenProperties, ElementOfSeq
<1>2. 1 \in Int /\ m \in Int /\ m \in Nat /\ m <= Len(list) /\ \A i \in 1..m : list[i] \in S
  BY <1>1
<1>3. /\ SubSeq(list, 1, m) \in Seq(S)
      /\ Len(SubSeq(list, 1, m)) = IF 1 <= m THEN m - 1 + 1 ELSE 0
      /\ \A i \in 1..m - 1 + 1 : SubSeq(list, 1, m)[i] = list[1 + i - 1]
  BY <1>2, SubSeqProperties
<1>4. /\ Len(SubSeq(list, 1, m)) = m
      /\ \A i \in 1..m : SubSeq(list, 1, m)[i] = list[i]
  BY <1>2, <1>3
<1>5. DOMAIN SubSeq(list, 1, m) = 1..m
  BY <1>3, <1>4, LenProperties
<1>6. \A i \in 1..m : i \in 1..Len(list)
  BY <1>1, <1>2
<1>7. \A k \in 1..Len(list) : k \in 1..m \/ k > m
  BY <1>1, <1>2
<1> QED BY <1>1, <1>3, <1>4, <1>5, <1>6, <1>7 DEF ToSet, IsInjective

\* Reverse turns positions round.
LEMMA ReverseAt ==
  ASSUME NEW S, NEW list \in Seq(S)
  PROVE  /\ Reverse(list) \in Seq(S) /\ Len(Reverse(list)) = Len(list)
         /\ \A i \in 1..Len(list) : /\ Reverse(list)[i] = list[Len(list) - i + 1]
                                   /\ Len(list) - i + 1 \in 1..Len(list)
         /\ ToSet(Reverse(list)) = ToSet(list)
         /\ IsInjective(list) => IsInjective(Reverse(list))
<1>1. Len(list) \in Nat /\ DOMAIN list = 1..Len(list) /\ \A i \in 1..Len(list) : list[i] \in S
  BY LenProperties, ElementOfSeq
<1>2. \A i \in 1..Len(list) : Len(list) - i + 1 \in 1..Len(list)
  BY <1>1
<1>3. /\ Reverse(list) = [i \in 1..Len(list) |-> list[Len(list) - i + 1]]
      /\ DOMAIN Reverse(list) = 1..Len(list)
      /\ \A i \in 1..Len(list) : Reverse(list)[i] = list[Len(list) - i + 1]
  BY <1>1 DEF Reverse
<1>4. [i \in 1..Len(list) |-> list[Len(list) - i + 1]] \in Seq(S)
  BY <1>1, <1>2
<1>5. Reverse(list) \in Seq(S) /\ Len(Reverse(list)) = Len(list)
  BY <1>1, <1>3, <1>4, LenProperties
<1>6. \A i \in 1..Len(list) : \E k \in 1..Len(list) : Len(list) - k + 1 = i
  <2> TAKE i \in 1..Len(list)
  <2>1. Len(list) - i + 1 \in 1..Len(list) /\ Len(list) - (Len(list) - i + 1) + 1 = i
    BY <1>1
  <2> QED BY <2>1
<1>7. ToSet(Reverse(list)) = ToSet(list)
  <2>1. ToSet(list) \subseteq ToSet(Reverse(list))
    <3>1. \A i \in 1..Len(list) : \E k \in 1..Len(list) : Reverse(list)[k] = list[i]
      BY <1>3, <1>6
    <3>2. \A k \in 1..Len(list) : Reverse(list)[k] \in ToSet(Reverse(list))
      BY <1>5, InSet
    <3>3. \A x \in ToSet(list) : \E i \in 1..Len(list) : list[i] = x
      BY InSet
    <3> QED BY <3>1, <3>2, <3>3
  <2>2. ToSet(Reverse(list)) \subseteq ToSet(list)
    BY <1>1, <1>2, <1>3 DEF ToSet
  <2> QED BY <2>1, <2>2
<1>8. ASSUME IsInjective(list), NEW i \in 1..Len(list), NEW k \in 1..Len(list),
             Reverse(list)[i] = Reverse(list)[k]
      PROVE  i = k
  <2>1. Len(list) - i + 1 = Len(list) - k + 1
    BY <1>1, <1>2, <1>3, <1>8 DEF IsInjective
  <2> QED BY <1>1, <2>1
<1>9. IsInjective(list) => IsInjective(Reverse(list))
  BY <1>3, <1>8 DEF IsInjective
<1> QED BY <1>2, <1>3, <1>5, <1>7, <1>9

\* Two lists one after the other.
LEMMA ConcatSet ==
  ASSUME NEW S, NEW a \in Seq(S), NEW b \in Seq(S)
  PROVE  /\ a \o b \in Seq(S) /\ Len(a \o b) = Len(a) + Len(b)
         /\ ToSet(a \o b) = ToSet(a) \cup ToSet(b)
         /\ IsInjective(a \o b) <=> /\ IsInjective(a) /\ IsInjective(b)
                                   /\ ToSet(a) \cap ToSet(b) = {}
<1>1. /\ Len(a) \in Nat /\ DOMAIN a = 1..Len(a)
      /\ Len(b) \in Nat /\ DOMAIN b = 1..Len(b)
  BY LenProperties
<1>2. /\ a \o b \in Seq(S) /\ Len(a \o b) = Len(a) + Len(b)
      /\ \A i \in 1..Len(a) + Len(b) :
           (a \o b)[i] = IF i <= Len(a) THEN a[i] ELSE b[i - Len(a)]
  BY ConcatProperties
<1>3. DOMAIN (a \o b) = 1..Len(a) + Len(b)
  BY <1>2, LenProperties
<1>4. \A i \in 1..Len(a) : i \in 1..Len(a) + Len(b) /\ (a \o b)[i] = a[i]
  BY <1>1, <1>2
<1>5. \A i \in 1..Len(b) : /\ Len(a) + i \in 1..Len(a) + Len(b)
                          /\ Len(a) + i \notin 1..Len(a)
                          /\ (a \o b)[Len(a) + i] = b[i]
  <2> TAKE i \in 1..Len(b)
  <2>1. /\ Len(a) + i \in 1..Len(a) + Len(b) /\ ~(Len(a) + i <= Len(a))
        /\ (Len(a) + i) - Len(a) = i /\ Len(a) + i \notin 1..Len(a)
    BY <1>1
  <2> QED BY <1>2, <2>1
<1>6. \A i \in 1..Len(a) + Len(b) :
        i \in 1..Len(a) \/ \E k \in 1..Len(b) : i = Len(a) + k
  <2> TAKE i \in 1..Len(a) + Len(b)
  <2>1. i \in 1..Len(a) \/ (i - Len(a) \in 1..Len(b) /\ i = Len(a) + (i - Len(a)))
    BY <1>1
  <2> QED BY <2>1
<1> DEFINE c == a \o b
<1>7. \A i \in 1..Len(a) : i \in DOMAIN c /\ c[i] = a[i]
  BY <1>3, <1>4
<1>8. \A i \in 1..Len(b) : Len(a) + i \in DOMAIN c /\ c[Len(a) + i] = b[i]
  BY <1>3, <1>5
<1>9. \A i \in DOMAIN c : i \in 1..Len(a) \/ \E k \in 1..Len(b) : i = Len(a) + k
  BY <1>3, <1>6
<1>10. \A k, l \in 1..Len(b) : Len(a) + k = Len(a) + l => k = l
  BY <1>1
<1> HIDE DEF c
<1>11. ToSet(c) = ToSet(a) \cup ToSet(b)
  BY SMTT(20), <1>1, <1>7, <1>8, <1>9 DEF ToSet
<1>12. ASSUME IsInjective(c)
       PROVE  IsInjective(a) /\ IsInjective(b) /\ ToSet(a) \cap ToSet(b) = {}
  <2>1. IsInjective(a)
    BY <1>1, <1>7, <1>12 DEF IsInjective
  <2>2. IsInjective(b)
    BY <1>1, <1>8, <1>10, <1>12 DEF IsInjective
  <2>3. \A i \in 1..Len(a), k \in 1..Len(b) : a[i] # b[k]
    BY <1>5, <1>7, <1>8, <1>12 DEF IsInjective
  <2> QED BY <1>1, <2>1, <2>2, <2>3 DEF ToSet
<1>13. ASSUME IsInjective(a), IsInjective(b), ToSet(a) \cap ToSet(b) = {}
       PROVE  IsInjective(c)
  <2>1. \A i \in 1..Len(a), k \in 1..Len(b) : a[i] # b[k]
    BY <1>1, <1>13 DEF ToSet
  <2> SUFFICES ASSUME NEW i \in DOMAIN c, NEW j \in DOMAIN c, c[i] = c[j] PROVE i = j
    BY DEF IsInjective
  <2>2. CASE i \in 1..Len(a) /\ j \in 1..Len(a)
    BY <1>1, <1>7, <1>13, <2>2 DEF IsInjective
  <2>3. CASE i \in 1..Len(a) /\ \E k \in 1..Len(b) : j = Len(a) + k
    BY <1>7, <1>8, <2>1, <2>3
  <2>4. CASE j \in 1..Len(a) /\ \E k \in 1..Len(b) : i = Len(a) + k
    BY <1>7, <1>8, <2>1, <2>4
  <2>5. ASSUME NEW k \in 1..Len(b), NEW l \in 1..Len(b), i = Len(a) + k, j = Len(a) + l
        PROVE  i = j
    <3>1. b[k] = b[l]
      BY <1>8, <2>5
    <3>2. k = l
      BY <1>1, <1>13, <3>1 DEF IsInjective
    <3> QED BY <2>5, <3>2
  <2> QED BY <1>9, <2>2, <2>3, <2>4, <2>5
<1> QED BY <1>2, <1>11, <1>12, <1>13 DEF c

-----------------------------------------------------------------------------
(* The inductive invariant *)

\* An entry is in one list, recency has those of both, and nobody waits while
\* there is room.
Shape ==
  /\ active \in Seq(Node) /\ candidates \in Seq(Node) /\ recency \in Seq(Node)
  /\ Len(active) <= K /\ Len(candidates) <= K
  /\ IsInjective(active) /\ IsInjective(candidates) /\ IsInjective(recency)
  /\ ToSet(active) \cap ToSet(candidates) = {}
  /\ ToSet(recency) = Known
  /\ candidates # <<>> => Len(active) = K

Ages == seenAge \in [Node -> 0..Old] /\ pinged \in [Node -> {Never} \cup 0..Old]

\* No element of a list has a smaller value than one after it.
Falls(f, list) == \A i, j \in 1..Len(list) : i < j => f[list[j]] <= f[list[i]]

\* recency agrees with the ages: the entries seen longest ago come first.
Ordered == Falls(seenAge, recency)

Bucket == Shape /\ Ages /\ Ordered /\ pings \subseteq Node

LEMMA BucketSays == Bucket => TypeOK /\ ListsAgree
<1> SUFFICES ASSUME Bucket PROVE TypeOK /\ ListsAgree
  OBVIOUS
<1>1. IsInjective(active \o candidates)
  BY ConcatSet DEF Bucket, Shape
<1> QED BY <1>1 DEF Bucket, Shape, Ages, TypeOK, ListsAgree

LEMMA WithinFalls ==
  ASSUME NEW S, NEW list \in Seq(S), NEW T, NEW f, Falls(f, list)
  PROVE  Falls(f, Within(list, T))
<1>1. PICK at : Places(at, list, T)
  BY WithinAt
<1> DEFINE w == Within(list, T)
<1>2. /\ \A k \in 1..Len(w) : w[k] = list[at[k]] /\ at[k] \in 1..Len(list)
      /\ \A k, l \in 1..Len(w) : k < l => at[k] < at[l]
  BY <1>1 DEF Places
<1> HIDE DEF w
<1>3. Falls(f, w)
  BY <1>2 DEF Falls
<1> QED BY <1>3 DEF w

\* add_node: a new entry, or one that moves to the end of its list, is the
\* latest seen; the list it goes to has room for it.
LEMMA AddNodeKeeps ==
  ASSUME Bucket, NEW n \in Node, AddNode(n)
  PROVE  /\ Shape' /\ Ages' /\ Ordered'
         /\ ToSet(active) \subseteq ToSet(active') /\ ToPing(n) \subseteq Node
<1> USE RoutingAssumption
<1> DEFINE rest == Without(recency, {n})
           current == Append(rest, n)
<1>1. Shape /\ Ages /\ Ordered
  BY DEF Bucket
<1>2. /\ Len(active) \in Nat /\ Len(candidates) \in Nat
      /\ n \in Known <=> n \in ToSet(active) \/ n \in ToSet(candidates)
      /\ \A x \in Known : x \in ToSet(active) \/ x \in ToSet(candidates)
  BY <1>1, LenProperties DEF Shape, Known
<1>3. current \in Seq(Node) /\ IsInjective(current) /\ ToSet(current) = Known \cup {n}
  BY <1>1, MovedToEnd DEF Shape
<1>4. /\ rest \in Seq(Node) /\ Len(rest) \in Nat /\ ToSet(rest) = Known \ {n}
      /\ Falls(seenAge, rest)
  BY <1>1, WithinSet, WithinFalls DEF Shape, Ordered, Without
<1>5. seenAge' = [seenAge EXCEPT ![n] = 0] /\ Placed(n)
  BY DEF AddNode
<1>6. /\ \A x \in Node : seenAge[x] \in Nat /\ seenAge'[x] \in Nat
      /\ \A x \in Node : x # n => seenAge'[x] = seenAge[x]
      /\ seenAge'[n] = 0 /\ seenAge' \in [Node -> 0..Old]
  BY <1>1, <1>5 DEF Ages, Old
<1>7. Ages'
  BY <1>1, <1>6 DEF Ages, AddNode, Old
<1>8. Falls(seenAge', current)
  <2>1. /\ Len(current) = Len(rest) + 1 /\ current[Len(rest) + 1] = n
        /\ \A i \in 1..Len(rest) : current[i] = rest[i]
    BY <1>4, AppendProperties
  <2>2. \A i \in 1..Len(rest) : rest[i] \in Node /\ rest[i] # n
    BY <1>4, InSet
  <2> HIDE DEF rest, current
  <2> SUFFICES ASSUME NEW i \in 1..Len(current), NEW j \in 1..Len(current), i < j
               PROVE  seenAge'[current[j]] <= seenAge'[current[i]]
    BY DEF Falls
  <2>3. i \in 1..Len(rest) /\ (j \in 1..Len(rest) \/ j = Len(rest) + 1)
    BY <1>4, <2>1
  <2>4. CASE j \in 1..Len(rest)
    BY <1>4, <1>6, <2>1, <2>2, <2>3, <2>4 DEF Falls
  <2>5. CASE j = Len(rest) + 1
    <3>1. seenAge'[current[j]] = 0 /\ seenAge'[current[i]] \in Nat
      BY <1>6, <2>1, <2>2, <2>3, <2>5
    <3> QED BY <3>1
  <2> QED BY <2>3, <2>4, <2>5
<1>9. ToPing(n) \subseteq Node
  <2>1. Pingable \in Seq(Node)
    BY <1>1, WithinSet DEF Pingable, Shape
  <2> QED BY <2>1, HeadTailProperties DEF ToPing
<1> HIDE DEF current
<1> SUFFICES Shape' /\ Ordered' /\ ToSet(active) \subseteq ToSet(active')
  BY <1>7, <1>9
<1>14. CASE /\ n \in ToSet(active)
           /\ active' = Append(Without(active, {n}), n)
           /\ recency' = current /\ UNCHANGED candidates
  <2>1. /\ active' \in Seq(Node) /\ IsInjective(active') /\ Len(active') = Len(active)
        /\ ToSet(active') = ToSet(active)
    <3>1. active \in Seq(Node) /\ IsInjective(active)
      BY <1>1 DEF Shape
    <3>2. ToSet(active) \cup {n} = ToSet(active)
      BY <1>14
    <3> DEFINE moved == Append(Without(active, {n}), n)
    <3>3. /\ moved \in Seq(Node) /\ IsInjective(moved) /\ ToSet(moved) = ToSet(active) \cup {n}
          /\ Len(moved) = Len(active)
      BY ZenonT(30), <1>14, <3>1, MovedToEnd
    <3>4. active' = moved
      BY <1>14
    <3> HIDE DEF moved
    <3> QED BY <3>2, <3>3, <3>4
  <2>2. Known' = Known /\ Known \cup {n} = Known
    BY <1>2, <1>14, <2>1 DEF Known
  <2>3. Shape'
    BY <1>1, <1>3, <1>14, <2>1, <2>2 DEF Shape
  <2> QED BY <1>8, <1>14, <2>1, <2>3 DEF Ordered
<1>10. CASE /\ n \in ToSet(candidates)
            /\ candidates' = Append(Without(candidates, {n}), n)
            /\ recency' = current /\ UNCHANGED active
  <2>1. /\ candidates' \in Seq(Node) /\ IsInjective(candidates')
        /\ Len(candidates') = Len(candidates) /\ ToSet(candidates') = ToSet(candidates)
    <3>1. candidates \in Seq(Node) /\ IsInjective(candidates)
      BY <1>1 DEF Shape
    <3>2. ToSet(candidates) \cup {n} = ToSet(candidates)
      BY <1>10
    <3> DEFINE moved == Append(Without(candidates, {n}), n)
    <3>3. /\ moved \in Seq(Node) /\ IsInjective(moved) /\ ToSet(moved) = ToSet(candidates) \cup {n}
          /\ Len(moved) = Len(candidates)
      BY ZenonT(30), <1>10, <3>1, MovedToEnd
    <3>4. candidates' = moved
      BY <1>10
    <3> HIDE DEF moved
    <3> QED BY <3>2, <3>3, <3>4
  <2>2. Known' = Known /\ Known \cup {n} = Known
    BY <1>2, <1>10, <2>1 DEF Known
  <2>3. Len(active) = K
    BY <1>1, <1>10, InSet, EmptySeq DEF Shape
  <2>4. Shape'
    BY <1>1, <1>3, <1>10, <2>1, <2>2, <2>3 DEF Shape
  <2> QED BY <1>8, <1>10, <2>4 DEF Ordered
<1>11. CASE /\ n \notin Known /\ Len(active) < K
            /\ active' = Append(active, n)
            /\ recency' = current /\ UNCHANGED candidates
  <2>1. /\ active' \in Seq(Node) /\ IsInjective(active') /\ Len(active') = Len(active) + 1
        /\ ToSet(active') = ToSet(active) \cup {n}
    BY <1>1, <1>2, <1>11, AppendSet DEF Shape
  <2>2. Known' = Known \cup {n} /\ ToSet(active') \cap ToSet(candidates') = {}
    BY <1>1, <1>2, <1>11, <2>1 DEF Known, Shape
  <2>3. candidates = <<>> /\ Len(active') <= K
    BY <1>1, <1>2, <1>11, <2>1 DEF Shape
  <2>4. Shape'
    BY <1>1, <1>3, <1>11, <2>1, <2>2, <2>3 DEF Shape
  <2> QED BY <1>8, <1>11, <2>1, <2>4 DEF Ordered
<1>12. CASE /\ n \notin Known /\ Len(active) = K /\ Len(candidates) < K
            /\ candidates' = Append(candidates, n)
            /\ recency' = current /\ UNCHANGED active
  <2>1. /\ candidates' \in Seq(Node) /\ IsInjective(candidates')
        /\ Len(candidates') = Len(candidates) + 1
        /\ ToSet(candidates') = ToSet(candidates) \cup {n}
    BY <1>1, <1>2, <1>12, AppendSet DEF Shape
  <2>2. Known' = Known \cup {n} /\ ToSet(active') \cap ToSet(candidates') = {}
    BY <1>1, <1>2, <1>12, <2>1 DEF Known, Shape
  <2>3. Len(candidates') <= K
    BY <1>2, <1>12, <2>1
  <2>4. Shape'
    BY <1>1, <1>3, <1>12, <2>1, <2>2, <2>3 DEF Shape
  <2> QED BY <1>8, <1>12, <2>4 DEF Ordered
<1>13. CASE n \notin Known /\ UNCHANGED lists
  <2>1. Shape'
    BY <1>1, <1>13 DEF Shape, Known, lists
  <2>2. \A i \in 1..Len(recency) : recency[i] \in Node /\ recency[i] # n
    BY <1>1, <1>13, InSet DEF Shape
  <2>3. Ordered'
    BY <1>1, <1>6, <1>13, <2>2 DEF Ordered, Falls, lists
  <2> QED BY <1>13, <2>1, <2>3 DEF lists
<1> QED BY <1>5, <1>10, <1>11, <1>12, <1>13, <1>14 DEF Placed, current

\* What evict_stale has to choose from: the active entries that are not stale,
\* and the entries that wait, none of them among the former.
LEMMA WaitingShape ==
  ASSUME Shape
  PROVE  /\ Current \in Seq(Node) /\ IsInjective(Current) /\ Len(Current) \in 0..K
         /\ ToSet(Current) = {n \in ToSet(active) : ~IsStale(n)}
         /\ Waiting \in Seq(Node) /\ IsInjective(Waiting) /\ Len(Waiting) \in 0..K
         /\ ToSet(Waiting) \subseteq Known /\ ToSet(Current) \cap ToSet(Waiting) = {}
<1> USE RoutingAssumption
<1> DEFINE fresh == Within(candidates, {n \in Node : seenAge[n] < Stale})
           demoted == Within(active, {n \in Node : IsStale(n)})
           room == K - Len(fresh)
           m == IF Len(demoted) < room THEN Len(demoted) ELSE room
           first == SubSeq(demoted, 1, m)
<1>1. /\ active \in Seq(Node) /\ candidates \in Seq(Node)
      /\ IsInjective(active) /\ IsInjective(candidates)
      /\ ToSet(active) \cap ToSet(candidates) = {}
      /\ ToSet(active) \subseteq Node
      /\ Len(active) \in Nat /\ Len(active) <= K
      /\ Len(candidates) \in Nat /\ Len(candidates) <= K
  BY LenProperties, InSet DEF Shape
<1>2. /\ Current \in Seq(Node) /\ IsInjective(Current) /\ Len(Current) \in 0..K
      /\ ToSet(Current) = {n \in ToSet(active) : ~IsStale(n)}
  <2> DEFINE T == ToSet(active) \ {n \in Node : IsStale(n)}
  <2>1. /\ Within(active, T) \in Seq(Node) /\ IsInjective(Within(active, T))
        /\ Len(Within(active, T)) \in Nat /\ Len(Within(active, T)) <= Len(active)
        /\ ToSet(Within(active, T)) = ToSet(active) \cap T
    BY <1>1, WithinSet
  <2>2. ToSet(active) \cap T = {n \in ToSet(active) : ~IsStale(n)}
    BY <1>1
  <2>3. Current = Within(active, T)
    BY DEF Current, Without
  <2> HIDE DEF T
  <2> QED BY <1>1, <2>1, <2>2, <2>3
<1>3. /\ fresh \in Seq(Node) /\ IsInjective(fresh) /\ Len(fresh) \in Nat /\ Len(fresh) <= K
      /\ ToSet(fresh) \subseteq ToSet(candidates)
  BY <1>1, WithinSet
<1>4. /\ demoted \in Seq(Node) /\ IsInjective(demoted) /\ Len(demoted) \in Nat
      /\ ToSet(demoted) \subseteq ToSet(active)
      /\ \A n \in ToSet(demoted) : IsStale(n)
  <2>1. /\ demoted \in Seq(Node) /\ IsInjective(demoted) /\ Len(demoted) \in Nat
        /\ ToSet(demoted) = ToSet(active) \cap {n \in Node : IsStale(n)}
    BY <1>1, WithinSet
  <2> HIDE DEF demoted
  <2> QED BY <2>1
<1> HIDE DEF fresh, demoted
<1>5. m \in 0..Len(demoted) /\ m + Len(fresh) \in 0..K
  BY <1>3, <1>4
<1>6. first \in Seq(Node) /\ IsInjective(first) /\ Len(first) = m /\ ToSet(first) \subseteq ToSet(demoted)
  BY <1>4, <1>5, Prefix
<1> HIDE DEF first, m
<1>7. /\ fresh \o first \in Seq(Node) /\ Len(fresh \o first) = Len(fresh) + m
      /\ ToSet(fresh \o first) = ToSet(fresh) \cup ToSet(first)
      /\ IsInjective(fresh \o first)
  <2>1. ToSet(fresh) \cap ToSet(first) = {}
    BY <1>1, <1>3, <1>4, <1>6
  <2> QED BY <1>3, <1>6, <2>1, ConcatSet
<1>8. Waiting = fresh \o first
  BY DEF Waiting, fresh, first, m, demoted
<1>9. Len(Waiting) \in 0..K
  BY <1>3, <1>5, <1>7, <1>8
<1>10. ToSet(Waiting) \subseteq Known /\ ToSet(Current) \cap ToSet(Waiting) = {}
  BY <1>1, <1>2, <1>3, <1>4, <1>6, <1>7, <1>8 DEF Known
<1> QED BY <1>2, <1>7, <1>8, <1>9, <1>10

\* Those that move up: as many as there is room for, or all that wait, and none
\* of them seen before one that stays.
LEMMA PromotedShape ==
  ASSUME Shape, Ages, Ordered
  PROVE  /\ Promoted \in Seq(Node) /\ IsInjective(Promoted)
         /\ ToSet(Promoted) \subseteq ToSet(Waiting)
         /\ Len(Current) + Len(Promoted) \in 0..K
         /\ Len(Current) + Len(Promoted) = K \/ ToSet(Promoted) = ToSet(Waiting)
         /\ \A n \in ToSet(Promoted), m \in ToSet(Waiting) \ ToSet(Promoted) :
              seenAge[n] <= seenAge[m]
<1> USE RoutingAssumption
<1> DEFINE byAge == Within(recency, ToSet(Waiting))
           byFreshness == Reverse(byAge)
           room == K - Len(Current)
           many == IF Len(byFreshness) < room THEN Len(byFreshness) ELSE room
           N == Len(byAge)
<1>1. Len(Current) \in 0..K /\ ToSet(Waiting) \subseteq Known
  BY WaitingShape
<1>2. /\ byAge \in Seq(Node) /\ IsInjective(byAge) /\ N \in Nat
      /\ ToSet(byAge) = ToSet(Waiting) /\ Falls(seenAge, byAge)
  <2>1. recency \in Seq(Node) /\ IsInjective(recency) /\ ToSet(recency) = Known
    BY DEF Shape
  <2>2. /\ byAge \in Seq(Node) /\ IsInjective(byAge) /\ N \in Nat
        /\ ToSet(byAge) = ToSet(recency) \cap ToSet(Waiting)
    BY <2>1, WithinSet
  <2>3. Falls(seenAge, byAge)
    BY <2>1, WithinFalls DEF Ordered
  <2> QED BY <1>1, <2>1, <2>2, <2>3
<1> HIDE DEF byAge, N
<1>3. /\ byFreshness \in Seq(Node) /\ Len(byFreshness) = N /\ IsInjective(byFreshness)
      /\ \A i \in 1..N : byFreshness[i] = byAge[N - i + 1] /\ N - i + 1 \in 1..N
      /\ ToSet(byFreshness) = ToSet(Waiting)
  BY <1>2, ReverseAt DEF N
<1> HIDE DEF byFreshness
<1>4. /\ many \in 0..Len(byFreshness) /\ Len(Current) + many \in 0..K
      /\ Len(Current) + many = K \/ many = N
  BY <1>1, <1>2, <1>3
<1>5. Promoted = SubSeq(byFreshness, 1, many)
  BY DEF Promoted, byFreshness, byAge, many
<1> HIDE DEF many
<1>6. /\ Promoted \in Seq(Node) /\ IsInjective(Promoted) /\ Len(Promoted) = many
      /\ \A i \in 1..many : Promoted[i] = byFreshness[i]
      /\ ToSet(Promoted) \subseteq ToSet(byFreshness)
      /\ \A k \in 1..N : byFreshness[k] \in ToSet(Promoted) \/ k > many
  BY <1>3, <1>4, <1>5, Prefix
<1>7. many = N => ToSet(Promoted) = ToSet(Waiting)
  <2> SUFFICES ASSUME many = N, NEW x \in ToSet(byFreshness) PROVE x \in ToSet(Promoted)
    BY <1>3, <1>6
  <2>1. PICK k \in 1..N : byFreshness[k] = x
    BY <1>3, InSet
  <2>2. ~(k > many)
    BY <1>2, <2>1
  <2> QED BY <1>6, <2>1, <2>2
<1>8. ASSUME NEW n \in ToSet(Promoted), NEW m \in ToSet(Waiting) \ ToSet(Promoted)
      PROVE  seenAge[n] <= seenAge[m]
  <2>1. PICK k \in 1..many : Promoted[k] = n
    BY <1>6, InSet
  <2>2. PICK l \in 1..N : byFreshness[l] = m
    BY <1>3, InSet
  <2>3. l > many
    BY <1>6, <1>8, <2>2
  <2>4. k \in 1..N /\ N - l + 1 < N - k + 1 /\ many \in Nat
    BY <1>2, <1>3, <1>4, <2>1, <2>2, <2>3
  <2>5. /\ byAge[N - k + 1] = n /\ byAge[N - l + 1] = m
        /\ N - k + 1 \in 1..N /\ N - l + 1 \in 1..N
    BY <1>3, <1>6, <2>1, <2>2, <2>4
  <2> QED BY <1>2, <2>4, <2>5 DEF Falls, N
<1> QED BY <1>3, <1>4, <1>6, <1>7, <1>8

\* evict_stale keeps what holds of a bucket, drops no active entry that is not
\* old, and fills the active list with the freshest.
LEMMA EvictStaleKeeps ==
  ASSUME Bucket, EvictStale
  PROVE  Shape' /\ Ages' /\ Ordered' /\ DropsOnlyOld /\ PrefersFreshest
<1> USE RoutingAssumption
<1>0. Shape /\ Ages /\ Ordered
  BY DEF Bucket
<1>1. /\ active' = Current \o Promoted
      /\ candidates' = Within(Waiting, ToSet(Waiting) \ ToSet(Promoted))
      /\ recency' = Within(recency, ToSet(active') \cup ToSet(candidates'))
      /\ UNCHANGED <<seenAge, pinged>>
  BY DEF EvictStale, Without
<1>2. /\ Current \in Seq(Node) /\ IsInjective(Current) /\ Len(Current) \in 0..K
      /\ ToSet(Current) = {n \in ToSet(active) : ~IsStale(n)}
      /\ Waiting \in Seq(Node) /\ IsInjective(Waiting) /\ Len(Waiting) \in 0..K
      /\ ToSet(Waiting) \subseteq Known /\ ToSet(Current) \cap ToSet(Waiting) = {}
  BY <1>0, WaitingShape
<1>3. /\ Promoted \in Seq(Node) /\ IsInjective(Promoted)
      /\ ToSet(Promoted) \subseteq ToSet(Waiting)
      /\ Len(Current) + Len(Promoted) \in 0..K
      /\ Len(Current) + Len(Promoted) = K \/ ToSet(Promoted) = ToSet(Waiting)
      /\ \A n \in ToSet(Promoted), m \in ToSet(Waiting) \ ToSet(Promoted) :
           seenAge[n] <= seenAge[m]
  BY <1>0, PromotedShape
<1>4. /\ active' \in Seq(Node) /\ IsInjective(active')
      /\ Len(active') = Len(Current) + Len(Promoted)
      /\ ToSet(active') = ToSet(Current) \cup ToSet(Promoted)
  <2>1. ToSet(Current) \cap ToSet(Promoted) = {}
    BY <1>2, <1>3
  <2>2. /\ Current \o Promoted \in Seq(Node) /\ IsInjective(Current \o Promoted)
        /\ Len(Current \o Promoted) = Len(Current) + Len(Promoted)
        /\ ToSet(Current \o Promoted) = ToSet(Current) \cup ToSet(Promoted)
    BY <1>2, <1>3, <2>1, ConcatSet
  <2> QED BY <1>1, <2>2
<1>5. /\ candidates' \in Seq(Node) /\ IsInjective(candidates') /\ Len(candidates') <= K
      /\ ToSet(candidates') = ToSet(Waiting) \ ToSet(Promoted)
  <2> DEFINE T == ToSet(Waiting) \ ToSet(Promoted)
             left == Within(Waiting, T)
  <2>1. /\ left \in Seq(Node) /\ IsInjective(left)
        /\ Len(left) \in Nat /\ Len(left) <= Len(Waiting)
        /\ ToSet(left) = ToSet(Waiting) \cap T
    BY <1>2, WithinSet
  <2>2. candidates' = left /\ ToSet(Waiting) \cap T = T
    BY <1>1
  <2>3. Len(left) <= K
    <3> HIDE DEF left
    <3> QED BY <1>2, <2>1
  <2> HIDE DEF left
  <2> QED BY <2>1, <2>2, <2>3
<1>6. /\ ToSet(active') \cap ToSet(candidates') = {}
      /\ Known' = ToSet(active') \cup ToSet(candidates') /\ Known' \subseteq Known
  BY <1>2, <1>3, <1>4, <1>5 DEF Known
<1>7. candidates' # <<>> => Len(active') = K
  <2> SUFFICES ASSUME candidates' # <<>>, ToSet(Promoted) = ToSet(Waiting) PROVE FALSE
    BY <1>3, <1>4
  <2>1. ToSet(candidates') = {} /\ Len(candidates') \in Nat \ {0}
    BY <1>5, EmptySeq
  <2>2. candidates'[1] \in ToSet(candidates')
    BY <1>5, <2>1, InSet
  <2> QED BY <2>1, <2>2
<1>8. /\ recency' \in Seq(Node) /\ IsInjective(recency') /\ ToSet(recency') = Known'
      /\ Falls(seenAge, recency')
  <2>1. recency \in Seq(Node) /\ IsInjective(recency) /\ ToSet(recency) = Known
    BY <1>0 DEF Shape
  <2> DEFINE T == ToSet(active') \cup ToSet(candidates')
             left == Within(recency, T)
  <2>2. left \in Seq(Node) /\ IsInjective(left) /\ ToSet(left) = ToSet(recency) \cap T
    BY <2>1, WithinSet
  <2>3. Falls(seenAge, left)
    BY <1>0, <2>1, WithinFalls DEF Ordered
  <2>4. recency' = left /\ ToSet(recency) \cap T = Known'
    BY <1>1, <1>6, <2>1
  <2> HIDE DEF left
  <2> QED BY <2>2, <2>3, <2>4
<1>9. Shape'
  BY <1>3, <1>4, <1>5, <1>6, <1>7, <1>8 DEF Shape
<1>10. Ages' /\ Ordered'
  BY <1>0, <1>1, <1>8 DEF Ages, Ordered
<1>11. DropsOnlyOld
  <2> SUFFICES ASSUME NEW n \in ToSet(active) \ ToSet(active') PROVE seenAge[n] > Stale
    BY DEF DropsOnlyOld
  <2>1. IsStale(n) /\ n \in Node
    BY <1>0, <1>2, <1>4, InSet DEF Shape
  <2>2. pinged[n] > Stale /\ seenAge[n] >= pinged[n]
    BY <2>1 DEF IsStale
  <2>3. seenAge[n] \in Int /\ pinged[n] \in Int
    BY <1>0, <2>1 DEF Ages, Old, Never
  <2> QED BY <2>2, <2>3
<1>12. PrefersFreshest
  <2> SUFFICES ASSUME NEW n \in ToSet(active'), NEW m \in ToSet(candidates'),
                      n \notin ToSet(active) \/ IsStale(n)
               PROVE  seenAge[n] <= seenAge[m]
    BY DEF PrefersFreshest
  <2> QED BY <1>2, <1>3, <1>4, <1>5
<1> QED BY <1>9, <1>10, <1>11, <1>12

\* A tick makes nobody fresher than before.
LEMMA TickKeeps ==
  ASSUME Bucket, Tick
  PROVE  Shape' /\ Ages' /\ Ordered'
<1> USE RoutingAssumption
<1>1. Shape /\ Ages /\ Ordered /\ UNCHANGED lists
  BY DEF Bucket, Tick
<1>2. Shape'
  BY <1>1 DEF Shape, Known, lists
<1>3. \A n \in Node : seenAge[n] \in 0..Old /\ pinged[n] \in {Never} \cup 0..Old
  BY <1>1 DEF Ages
<1>4. seenAge' \in [Node -> 0..Old]
  <2>1. \A n \in Node : (IF n \in Known THEN Aged(seenAge[n]) ELSE 0) \in 0..Old
    BY <1>3 DEF Aged, Old, Never
  <2> QED BY <2>1 DEF Tick
<1>5. pinged' \in [Node -> {Never} \cup 0..Old]
  <2>1. \A n \in Node : (IF n \in Known THEN Aged(pinged[n]) ELSE Never) \in {Never} \cup 0..Old
    BY <1>3 DEF Aged, Old, Never
  <2> QED BY <2>1 DEF Tick
<1>6. \A i \in 1..Len(recency) : /\ recency[i] \in Node
                                /\ seenAge'[recency[i]] = Aged(seenAge[recency[i]])
  <2>1. \A n \in Known : n \in Node /\ seenAge'[n] = Aged(seenAge[n])
    BY <1>1, InSet DEF Shape, Tick, Known
  <2> QED BY <1>1, <2>1, InSet DEF Shape
<1>7. \A a, b \in 0..Old : a <= b => Aged(a) <= Aged(b)
  BY DEF Aged, Old, Never
<1>8. Ordered'
  BY <1>1, <1>3, <1>6, <1>7 DEF Ordered, Falls, lists
<1> QED BY <1>2, <1>4, <1>5, <1>8 DEF Ages

-----------------------------------------------------------------------------
\* Every step keeps what holds of a bucket, and takes from the active list only
\* entries that are old.
LEMMA StepKeeps ==
  ASSUME Bucket, [Next]_vars
  PROVE  Bucket' /\ DropsOnlyOld
<1>1. ASSUME NEW n \in Node, AddNode(n),
             pings' \subseteq pings \cup ToPing(n)
      PROVE  Bucket' /\ DropsOnlyOld
  BY <1>1, AddNodeKeeps DEF Bucket, DropsOnlyOld
<1>2. ASSUME NEW n \in Node, Heard(n) PROVE Bucket' /\ DropsOnlyOld
  BY <1>1, <1>2 DEF Heard
<1>3. ASSUME NEW n \in Node, Answered(n) PROVE Bucket' /\ DropsOnlyOld
  BY <1>1, <1>3 DEF Answered
<1>4. ASSUME NEW n \in Node, Pong(n) PROVE Bucket' /\ DropsOnlyOld
  BY <1>1, <1>4 DEF Pong
<1>5. ASSUME UNCHANGED <<lists, seenAge, pinged>>, pings' \subseteq pings
      PROVE  Bucket' /\ DropsOnlyOld
  BY <1>5 DEF Bucket, Shape, Known, Ages, Ordered, Falls, lists, DropsOnlyOld
<1>6. ASSUME NEW n \in Node, PingLost(n) PROVE Bucket' /\ DropsOnlyOld
  BY <1>5, <1>6 DEF PingLost
<1>7. CASE EvictStale
  BY <1>7, EvictStaleKeeps DEF Bucket, EvictStale
<1>8. CASE Tick
  BY <1>8, TickKeeps DEF Bucket, Tick, lists, DropsOnlyOld
<1>9. CASE UNCHANGED vars
  BY <1>5, <1>9 DEF vars
<1> QED BY <1>2, <1>3, <1>4, <1>6, <1>7, <1>8, <1>9 DEF Next

LEMMA BucketHolds == Spec => []Bucket
<1>1. Init => Bucket
  <2> SUFFICES ASSUME Init PROVE Bucket
    OBVIOUS
  <2>1. \A s : s = <<>> => s \in Seq(Node) /\ Len(s) = 0 /\ ToSet(s) = {} /\ IsInjective(s)
    <3>1. <<>> \in Seq(Node) /\ Len(<<>>) = 0 /\ DOMAIN <<>> = {}
      BY EmptySeq
    <3> QED BY <3>1 DEF ToSet, IsInjective
  <2>2. Shape
    BY <2>1, RoutingAssumption DEF Init, Shape, Known
  <2>3. Ages /\ Ordered
    BY <2>1, RoutingAssumption DEF Init, Ages, Ordered, Falls, Old, Never
  <2> QED BY <2>2, <2>3 DEF Init, Bucket
<1>2. Bucket /\ [Next]_vars => Bucket'
  BY StepKeeps
<1> QED BY <1>1, <1>2, PTL DEF Spec

\* The lists stay within their capacity, and recency has every entry once.
THEOREM TypeCorrect == Spec => []TypeOK
BY BucketHolds, BucketSays, PTL

\* Whatever add_node and evict_stale do in turn, a contact has one entry in the
\* bucket, and none waits among the candidates while the active list has room.
THEOREM OneEntryEach == Spec => []ListsAgree
BY BucketHolds, BucketSays, PTL

\* No contact heard of within STALE_THRESHOLD leaves the active list.
THEOREM CurrentStay == Spec => CurrentKept
<1>1. Bucket /\ [Next]_vars => DropsOnlyOld
  BY StepKeeps
<1>2. Bucket /\ [Next]_vars => [DropsOnlyOld]_vars
  BY <1>1
<1> QED BY <1>2, BucketHolds, PTL DEF Spec, CurrentKept

\* evict_stale fills the active list with the candidates seen last.
THEOREM FreshestMoveUp == Spec => FreshestPromoted
<1>1. Bucket /\ [Next]_vars => [PrefersFreshest]_vars
  BY EvictStaleKeeps DEF PrefersFreshest
<1> QED BY <1>1, BucketHolds, PTL DEF Spec, FreshestPromoted
=============================================================================

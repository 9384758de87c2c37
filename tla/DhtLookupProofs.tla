--------------------------- MODULE DhtLookupProofs ---------------------------
(***************************************************************************)
(* What is proved of DhtLookup for every set of nodes, whoever of them is  *)
(* alive and whatever their tables hold, and every series of lookups.      *)
(***************************************************************************)
EXTENDS DhtLookup, SequenceLemmas, NaturalsInduction, WellFoundedInduction, TLAPS

LEMMA NoneIsNobody ==
  /\ None \notin Node /\ None \notin Identifier /\ Alive \subseteq Node
  /\ Node \subseteq Identifier /\ Zero \in Identifier /\ Zero \notin Node
BY DhtAssumption

-----------------------------------------------------------------------------
(* The order of distances *)

\* Distances to a target are in a strict total order: identifiers that differ
\* are at different distances.
LEMMA NearerOrders ==
  ASSUME NEW t \in Identifier
  PROVE  /\ \A a \in Identifier : ~Nearer(t, a, a)
         /\ \A a, b, c \in Identifier : Nearer(t, a, b) /\ Nearer(t, b, c) => Nearer(t, a, c)
         /\ \A a, b \in Identifier : a # b => Nearer(t, a, b) \/ Nearer(t, b, a)
<1> DEFINE Agree(a, b, i) == \A j \in 0..i - 1 : BitOf[a][j] = BitOf[b][j]
           At(a, b, i) == /\ BitOf[a][i] = BitOf[t][i] /\ BitOf[b][i] # BitOf[t][i]
                          /\ Agree(a, b, i)
<1>1. \A a, b \in Identifier : Nearer(t, a, b) <=> \E i \in 0..Bits - 1 : At(a, b, i)
  BY DEF Nearer, Ascending
<1>2. /\ Bits \in Nat \ {0} /\ BitOf \in [Identifier -> [0..Bits - 1 -> {0, 1}]]
      /\ \A a, b \in Identifier : BitOf[a] = BitOf[b] => a = b
  BY IdentifierAssumption
<1>3. \A i, j \in 0..Bits - 1 : /\ i \in Nat /\ j \in Nat
                                /\ i < j => i \in 0..j - 1
                                /\ i < j \/ i = j \/ j < i
  BY <1>2
<1>4. \A i \in 0..Bits - 1 : \A j \in 0..i - 1 : j \in 0..Bits - 1
  BY <1>2
<1>5. \A a \in Identifier : ~Nearer(t, a, a)
  BY <1>1
<1>6. ASSUME NEW a \in Identifier, NEW b \in Identifier, NEW c \in Identifier,
             Nearer(t, a, b), Nearer(t, b, c)
      PROVE  Nearer(t, a, c)
  <2>1. PICK i \in 0..Bits - 1 : At(a, b, i)
    BY <1>1, <1>6
  <2>2. PICK k \in 0..Bits - 1 : At(b, c, k)
    BY <1>1, <1>6
  <2>3. CASE i < k
    <3>1. i \in 0..k - 1 /\ \A j \in 0..i - 1 : j \in 0..k - 1
      BY <1>2, <2>3
    <3>2. At(a, c, i)
      BY <2>1, <2>2, <3>1
    <3> QED BY <1>1, <3>2
  <2>4. CASE k < i
    <3>1. k \in 0..i - 1 /\ \A j \in 0..k - 1 : j \in 0..i - 1
      BY <1>2, <2>4
    <3>2. At(a, c, k)
      BY <2>1, <2>2, <3>1
    <3> QED BY <1>1, <3>2
  <2>5. CASE i = k
    BY <2>1, <2>2, <2>5
  <2> QED BY <1>3, <2>3, <2>4, <2>5
<1>7. ASSUME NEW a \in Identifier, NEW b \in Identifier, a # b
      PROVE  Nearer(t, a, b) \/ Nearer(t, b, a)
  <2> DEFINE differing == {i \in 0..Bits - 1 : BitOf[a][i] # BitOf[b][i]}
  <2>1. differing # {} /\ differing \subseteq Nat
    <3>1. BitOf[a] \in [0..Bits - 1 -> {0, 1}] /\ BitOf[b] \in [0..Bits - 1 -> {0, 1}]
          /\ BitOf[a] # BitOf[b]
      BY <1>2, <1>7
    <3>2. \E i \in 0..Bits - 1 : BitOf[a][i] # BitOf[b][i]
      <4> DEFINE Places == 0..Bits - 1
      <4>1. \A f, g \in [Places -> {0, 1}] : (\A i \in Places : f[i] = g[i]) => f = g
        <5> HIDE DEF Places
        <5> QED OBVIOUS
      <4> QED BY <3>1, <4>1
    <3> QED BY <1>3, <3>2
  <2>2. IsWellFoundedOn({ss \in Nat \X Nat : ss[1] < ss[2]}, Nat)
    BY NatLessThanWellFounded DEF OpToRel
  <2>3. PICK i \in differing : \A j \in differing : ~(<<j, i>> \in {ss \in Nat \X Nat : ss[1] < ss[2]})
    <3> HIDE DEF differing
    <3> QED BY <2>1, <2>2, WFMin
  <2>4. i \in 0..Bits - 1 /\ BitOf[a][i] # BitOf[b][i] /\ Agree(a, b, i) /\ Agree(b, a, i)
    <3>1. \A j \in 0..i - 1 : j \in 0..Bits - 1 /\ j \in Nat /\ i \in Nat /\ j < i
      BY <1>2, <2>3
    <3>2. \A j \in 0..i - 1 : <<j, i>> \in {ss \in Nat \X Nat : ss[1] < ss[2]}
      BY <3>1
    <3>3. \A j \in 0..i - 1 : j \notin differing
      <4> HIDE DEF differing
      <4> QED BY <2>3, <3>2
    <3> QED BY <2>3, <3>1, <3>3
  <2>5. BitOf[a][i] \in {0, 1} /\ BitOf[b][i] \in {0, 1} /\ BitOf[t][i] \in {0, 1}
    BY <1>2, <2>4
  <2>6. At(a, b, i) \/ At(b, a, i)
    BY <2>4, <2>5
  <2> QED BY <1>1, <2>4, <2>6
<1> QED BY <1>5, <1>6, <1>7

\* Those of S nearer to a target than x.
LEMMA NearerRanked ==
  ASSUME NEW t \in Identifier, NEW S \in SUBSET Identifier
  PROVE  LET nearer(x) == {y \in S : Nearer(t, y, x)} IN
         /\ IsFiniteSet(S) /\ Cardinality(S) \in Nat
         /\ \A x \in S : IsFiniteSet(nearer(x)) /\ Cardinality(nearer(x)) \in 0..Cardinality(S) - 1
         /\ \A x, y \in S : Cardinality(nearer(x)) = Cardinality(nearer(y)) => x = y
         /\ \A k \in 1..Cardinality(S) : \E x \in S : Cardinality(nearer(x)) = k - 1
<1> DEFINE ahead == [x \in S |-> {y \in S : Nearer(t, y, x)}]
<1>1. IsFiniteSet(S)
  BY IdentifierAssumption, FS_Subset
<1>2. /\ ahead \in [S -> SUBSET S] /\ \A x \in S : x \notin ahead[x]
      /\ \A x, y \in S : x \in ahead[y] => ahead[x] \subseteq ahead[y]
      /\ \A x, y \in S : x # y => x \in ahead[y] \/ y \in ahead[x]
  BY NearerOrders
<1>3. \A x \in S : ahead[x] = {y \in S : Nearer(t, y, x)}
  OBVIOUS
<1> HIDE DEF ahead
<1>4. /\ Cardinality(S) \in Nat
      /\ \A x \in S : Cardinality(ahead[x]) \in 0..Cardinality(S) - 1
      /\ \A x, y \in S : Cardinality(ahead[x]) = Cardinality(ahead[y]) => x = y
      /\ \A k \in 1..Cardinality(S) : \E x \in S : Cardinality(ahead[x]) = k - 1
  BY <1>1, <1>2, Ranked
<1>5. \A x \in S : IsFiniteSet(ahead[x])
  BY <1>1, <1>2, FS_Subset
<1> QED BY <1>1, <1>3, <1>4, <1>5

-----------------------------------------------------------------------------
(* Shortlists *)

LEMMA EntryFields ==
  /\ \A e \in Entry : e.id \in Identifier /\ e.id \in Node \cup {Zero} /\ e.addr \in Node
  /\ \A e \in Entry : e.id \in Node => e.addr = e.id
  /\ \A n \in Node : [id |-> n, addr |-> n] \in Entry
  /\ \A n \in Node : [id |-> Zero, addr |-> n] \in Entry
BY NoneIsNobody DEF Entry

LEMMA IdsOf ==
  ASSUME NEW list \in Seq(Entry)
  PROVE  /\ Len(list) \in Nat /\ DOMAIN list = 1..Len(list)
         /\ Ids(list) \subseteq Node \cup {Zero} /\ Ids(list) \subseteq Identifier
         /\ \A i \in 1..Len(list) : list[i] \in Entry /\ list[i].id \in Ids(list)
         /\ \A n \in Ids(list) : \E i \in 1..Len(list) : list[i].id = n
<1>1. /\ Len(list) \in Nat /\ DOMAIN list = 1..Len(list)
      /\ \A i \in 1..Len(list) : list[i] \in Entry
  BY LenProperties, ElementOfSeq
<1> QED BY <1>1, EntryFields DEF Ids

\* sort_by_key: the entries that are not skipped, all of them, the nearest first.
LEMMA Sorted ==
  ASSUME NEW list \in Seq(Entry), NEW skip, NEW t \in Identifier
  PROVE  LET s == ByDistance(list, skip, t) IN
         /\ s \in Seq(Entry) /\ Len(s) \in Nat
         /\ \A k \in 1..Len(s) : s[k].id \in Ids(list)
         /\ \A n \in Ids(list) \ skip : Len(s) > 0 /\ ~Nearer(t, n, s[1].id)
<1> DEFINE kept == {i \in DOMAIN list : list[i].id \notin skip}
           ahead(i) == {j \in kept : \/ Nearer(t, list[j].id, list[i].id)
                                     \/ (list[j].id = list[i].id /\ j < i)}
           before == [i \in kept |-> ahead(i)]
           at == [k \in 1..Cardinality(kept) |->
                    CHOOSE i \in kept : Cardinality(ahead(i)) = k - 1]
           N == Cardinality(kept)
           s == ByDistance(list, skip, t)
<1>1. /\ Len(list) \in Nat /\ DOMAIN list = 1..Len(list)
      /\ \A i \in 1..Len(list) : list[i] \in Entry /\ list[i].id \in Ids(list)
                                 /\ list[i].id \in Identifier
      /\ \A n \in Ids(list) : \E i \in 1..Len(list) : list[i].id = n
  BY IdsOf, EntryFields
<1>2. \A i \in kept : /\ i \in 1..Len(list) /\ i \in Nat /\ list[i].id \in Identifier
                      /\ list[i] \in Entry /\ list[i].id \in Ids(list)
  BY <1>1
<1>3. IsFiniteSet(kept)
  <2>1. 1 \in Int /\ Len(list) \in Int
    BY <1>1
  <2>2. IsFiniteSet(1..Len(list)) /\ kept \in SUBSET (1..Len(list))
    <3>1. IsFiniteSet(1..Len(list))
      BY <2>1, FS_Interval
    <3> QED BY <1>2, <3>1
  <2> QED BY <2>2, FS_Subset
<1>4. before \in [kept -> SUBSET kept] /\ \A i \in kept : before[i] = ahead(i)
  OBVIOUS
<1> HIDE DEF kept
<1>5. \A i \in kept : i \notin before[i]
  BY <1>2, NearerOrders
<1>6. \A i, j \in kept : i \in before[j] => before[i] \subseteq before[j]
  <2> SUFFICES ASSUME NEW i \in kept, NEW j \in kept, i \in ahead(j), NEW k \in ahead(i)
               PROVE  k \in ahead(j)
    OBVIOUS
  <2>1. k \in kept /\ i \in Nat /\ j \in Nat /\ k \in Nat
    BY <1>2
  <2>2. list[i].id \in Identifier /\ list[j].id \in Identifier /\ list[k].id \in Identifier
    BY <1>2
  <2>3. CASE Nearer(t, list[i].id, list[j].id)
    BY <2>1, <2>2, <2>3, NearerOrders
  <2>4. CASE list[i].id = list[j].id /\ i < j /\ Nearer(t, list[k].id, list[i].id)
    BY <2>1, <2>4
  <2>5. CASE list[i].id = list[j].id /\ i < j /\ list[k].id = list[i].id /\ k < i
    BY <2>1, <2>5
  <2> QED BY <2>3, <2>4, <2>5
<1>7. \A i, j \in kept : i # j => i \in before[j] \/ j \in before[i]
  <2> SUFFICES ASSUME NEW i \in kept, NEW j \in kept, i # j PROVE i \in ahead(j) \/ j \in ahead(i)
    OBVIOUS
  <2>1. i < j \/ j < i
    BY <1>2
  <2> QED BY <1>2, <2>1, NearerOrders
<1> HIDE DEF before
<1>8. /\ N \in Nat
      /\ \A i \in kept : Cardinality(before[i]) \in 0..N - 1
      /\ \A k \in 1..N : \E i \in kept : Cardinality(before[i]) = k - 1
  BY <1>3, <1>4, <1>5, <1>6, <1>7, Ranked
<1>9. \A k \in 1..N : at[k] \in kept /\ Cardinality(ahead(at[k])) = k - 1
  <2> TAKE k \in 1..N
  <2>1. \E i \in kept : Cardinality(ahead(i)) = k - 1
    BY <1>4, <1>8
  <2>2. at[k] = CHOOSE i \in kept : Cardinality(ahead(i)) = k - 1
    OBVIOUS
  <2> HIDE DEF at, ahead
  <2> QED BY <2>1, <2>2
<1>10. s = [k \in 1..N |-> list[at[k]]]
  BY DEF ByDistance, kept
<1> HIDE DEF at, N, s, ahead
<1>11. /\ s \in Seq(Entry) /\ Len(s) = N
       /\ \A k \in 1..N : s[k] = list[at[k]]
  <2>1. \A k \in 1..N : list[at[k]] \in Entry
    BY <1>2, <1>9
  <2> QED BY <1>8, <1>10, <2>1
<1>12. \A k \in 1..Len(s) : s[k].id \in Ids(list)
  BY <1>2, <1>9, <1>11
<1>13. ASSUME NEW n \in Ids(list) \ skip PROVE Len(s) > 0 /\ ~Nearer(t, n, s[1].id)
  <2>1. PICK i \in 1..Len(list) : list[i].id = n
    BY <1>1
  <2>2. i \in kept
    BY <1>1, <1>13, <2>1 DEF kept
  <2>3. Cardinality(before[i]) \in 0..N - 1
    BY <1>8, <2>2
  <2>4. 1 \in 1..N
    BY <1>8, <2>3
  <2>5. at[1] \in kept /\ Cardinality(before[at[1]]) = 0 /\ before[at[1]] \in SUBSET kept
    BY <1>4, <1>9, <2>4
  <2>6. IsFiniteSet(before[at[1]])
    BY <1>3, <2>5, FS_Subset
  <2>7. before[at[1]] = {}
    BY <2>5, <2>6, FS_EmptySet
  <2>8. ~Nearer(t, list[i].id, list[at[1]].id)
    BY <1>4, <2>2, <2>5, <2>7 DEF ahead
  <2> QED BY <1>8, <1>11, <2>1, <2>4, <2>8
<1> QED BY <1>8, <1>11, <1>12, <1>13 DEF s

\* The entries pushed for the nodes of a reply.
LEMMA EntriesOf ==
  ASSUME NEW nodes \in SUBSET Node, NEW t \in Identifier
  PROVE  /\ Entries(nodes, t) \in Seq(Entry)
         /\ Len(Entries(nodes, t)) = Cardinality(nodes)
         /\ Ids(Entries(nodes, t)) = nodes
<1> DEFINE N == Cardinality(nodes)
           nearer(x) == {y \in nodes : Nearer(t, y, x)}
           at == [k \in 1..N |-> CHOOSE x \in nodes : Cardinality(nearer(x)) = k - 1]
           s == [k \in 1..N |-> [id |-> at[k], addr |-> at[k]]]
<1>0. nodes \in SUBSET Identifier
  BY NoneIsNobody
<1>1. /\ N \in Nat
      /\ \A x \in nodes : Cardinality(nearer(x)) \in 0..N - 1
      /\ \A x, y \in nodes : Cardinality(nearer(x)) = Cardinality(nearer(y)) => x = y
      /\ \A k \in 1..N : \E x \in nodes : Cardinality(nearer(x)) = k - 1
  <2>1. /\ IsFiniteSet(nodes) /\ N \in Nat
        /\ \A x \in nodes : IsFiniteSet(nearer(x)) /\ Cardinality(nearer(x)) \in 0..N - 1
        /\ \A x, y \in nodes : Cardinality(nearer(x)) = Cardinality(nearer(y)) => x = y
        /\ \A k \in 1..N : \E x \in nodes : Cardinality(nearer(x)) = k - 1
    BY <1>0, NearerRanked, Zenon
  <2> HIDE DEF N, nearer
  <2> QED BY <2>1
<1>2. \A k \in 1..N : at[k] \in nodes /\ Cardinality(nearer(at[k])) = k - 1
  BY <1>1
<1>3. Entries(nodes, t) = s
  BY DEF Entries
<1>4. \A x \in nodes : \E k \in 1..N : at[k] = x
  <2> SUFFICES ASSUME NEW x \in nodes PROVE \E k \in 1..N : at[k] = x
    OBVIOUS
  <2>1. Cardinality(nearer(x)) + 1 \in 1..N /\ Cardinality(nearer(x)) + 1 - 1 = Cardinality(nearer(x))
    <3>1. Cardinality(nearer(x)) \in 0..N - 1
      BY <1>1
    <3> HIDE DEF N, nearer
    <3> QED BY <1>1, <3>1
  <2>2. PICK k \in 1..N : k = Cardinality(nearer(x)) + 1
    BY <2>1
  <2>3. at[k] \in nodes /\ Cardinality(nearer(at[k])) = Cardinality(nearer(x))
    <3>1. at[k] \in nodes /\ Cardinality(nearer(at[k])) = k - 1
      BY <1>2
    <3>2. k - 1 = Cardinality(nearer(x))
      <4> DEFINE c == Cardinality(nearer(x))
      <4>1. c \in 0..N - 1 /\ k = c + 1
        BY <1>1, <2>2
      <4> HIDE DEF c
      <4>2. c \in Int
        BY <4>1
      <4>3. k - 1 = c
        BY <4>1, <4>2
      <4> QED BY <4>3 DEF c
    <3> QED BY <3>1, <3>2
  <2>4. at[k] = x
    <3> HIDE DEF at, nearer
    <3> QED BY <1>1, <2>3
  <2> QED BY <2>4
<1> HIDE DEF at, N
<1>5. \A k \in 1..N : s[k] \in Entry /\ s[k].id = at[k]
  BY <1>2, EntryFields
<1>6. s \in Seq(Entry) /\ Len(s) = N
  <2> HIDE DEF nearer
  <2> QED BY <1>1, <1>5
<1> HIDE DEF s
<1>7. Ids(s) = nodes
  <2>1. \A x \in nodes : \E k \in 1..Len(s) : s[k].id = x
    BY <1>4, <1>5, <1>6
  <2>2. \A k \in 1..Len(s) : s[k].id \in nodes
    BY <1>2, <1>5, <1>6
  <2>3. \A n \in Ids(s) : \E k \in 1..Len(s) : s[k].id = n
    BY <1>6, IdsOf
  <2>4. \A k \in 1..Len(s) : s[k].id \in Ids(s)
    BY <1>6, IdsOf
  <2> QED BY <2>1, <2>2, <2>3, <2>4
<1> QED BY <1>3, <1>6, <1>7 DEF N

\* No more than n of a set are its n closest.
LEMMA ClosestCount ==
  ASSUME NEW S \in SUBSET Identifier, NEW t \in Identifier, NEW n \in Nat
  PROVE  Closest(S, t, n) \subseteq S /\ Cardinality(Closest(S, t, n)) <= n
<1> DEFINE nearer(x) == {y \in S : Nearer(t, y, x)}
           C == Closest(S, t, n)
           place == [x \in C |-> Cardinality(nearer(x))]
<1>1. /\ \A x \in S : Cardinality(nearer(x)) \in Nat
      /\ \A x, y \in S : Cardinality(nearer(x)) = Cardinality(nearer(y)) => x = y
  <2>1. /\ IsFiniteSet(S) /\ Cardinality(S) \in Nat
        /\ \A x \in S : IsFiniteSet(nearer(x)) /\ Cardinality(nearer(x)) \in 0..Cardinality(S) - 1
        /\ \A x, y \in S : Cardinality(nearer(x)) = Cardinality(nearer(y)) => x = y
        /\ \A k \in 1..Cardinality(S) : \E x \in S : Cardinality(nearer(x)) = k - 1
    BY NearerRanked, Zenon
  <2> HIDE DEF nearer
  <2> QED BY <2>1
<1>2. C \subseteq S /\ \A x \in C : Cardinality(nearer(x)) < n
  BY DEF Closest
<1> HIDE DEF C, nearer
<1>3. place \in Injection(C, 0..n - 1)
  <2>1. \A x \in C : Cardinality(nearer(x)) \in 0..n - 1
    BY <1>1, <1>2
  <2>2. place \in [C -> 0..n - 1]
    BY <2>1
  <2> QED BY <1>1, <1>2, <2>2 DEF Injection, IsInjective
<1> HIDE DEF place
<1>4. IsFiniteSet(0..n - 1) /\ Cardinality(0..n - 1) = n
  <2>1. 0 \in Int /\ n - 1 \in Int
    OBVIOUS
  <2>2. IsFiniteSet(0..n - 1) /\ Cardinality(0..n - 1) = IF 0 > n - 1 THEN 0 ELSE n - 1 - 0 + 1
    BY <2>1, FS_Interval
  <2> QED BY <2>2
<1>5. Cardinality(C) <= Cardinality(0..n - 1)
  BY <1>3, <1>4, FS_Injection
<1> QED BY <1>2, <1>4, <1>5 DEF C

\* closest_nodes answers with at most n nodes of the table.
LEMMA ClosestNodesOf ==
  ASSUME NEW S \in SUBSET Identifier, NEW local, NEW t \in Identifier, NEW n \in Nat
  PROVE  /\ ClosestNodes(S, local, t, n) \subseteq S
         /\ Cardinality(ClosestNodes(S, local, t, n)) <= n
<1>1. PICK r : ClosestNodes(S, local, t, n) = Closest(Gathered(S, local, t, r), t, n)
  BY DEF ClosestNodes
<1>2. Gathered(S, local, t, r) \in SUBSET S
  BY DEF Gathered
<1>3. Gathered(S, local, t, r) \in SUBSET Identifier
  BY <1>2
<1>4. /\ Closest(Gathered(S, local, t, r), t, n) \subseteq Gathered(S, local, t, r)
      /\ Cardinality(Closest(Gathered(S, local, t, r), t, n)) <= n
  BY <1>3, ClosestCount
<1> QED BY <1>1, <1>2, <1>4

LEMMA MinOf ==
  ASSUME NEW S \in SUBSET Nat, S # {}
  PROVE  Min(S) \in S /\ \A j \in S : Min(S) <= j
<1>1. IsWellFoundedOn({ss \in Nat \X Nat : ss[1] < ss[2]}, Nat)
  BY NatLessThanWellFounded DEF OpToRel
<1>2. PICK i \in S : \A j \in S : ~(<<j, i>> \in {ss \in Nat \X Nat : ss[1] < ss[2]})
  BY <1>1, WFMin
<1>3. \A j \in S : i <= j
  <2> SUFFICES ASSUME NEW j \in S PROVE i <= j
    OBVIOUS
  <2>1. i \in Nat /\ j \in Nat /\ ~(<<j, i>> \in {ss \in Nat \X Nat : ss[1] < ss[2]})
    BY <1>2
  <2>2. ~(j < i)
    BY <2>1
  <2> QED BY <2>1, <2>2
<1> QED BY <1>2, <1>3 DEF Min

\* The bucket of x is where its bits first leave those of the local identifier.
LEMMA BucketBits ==
  ASSUME NEW local \in Identifier, NEW x \in Identifier
  PROVE  /\ Bucket(local, x) \in 0..Bits - 1
         /\ \A j \in 0..Bucket(local, x) - 1 : BitOf[x][j] = BitOf[local][j]
         /\ Bucket(local, x) < Bits - 1
              => BitOf[x][Bucket(local, x)] # BitOf[local][Bucket(local, x)]
<1> DEFINE differing == {i \in 0..Bits - 1 : BitOf[local][i] # BitOf[x][i]}
<1>0. Bits \in Nat /\ Bits > 0
  BY IdentifierAssumption
<1>1. CASE differing = {}
  <2>1. Bucket(local, x) = Bits - 1
    BY <1>1 DEF Bucket
  <2>2. \A j \in 0..Bits - 1 : BitOf[x][j] = BitOf[local][j]
    BY <1>1
  <2>3. \A j \in 0..(Bits - 1) - 1 : j \in 0..Bits - 1
    BY <1>0
  <2> HIDE DEF differing
  <2> QED BY <1>0, <2>1, <2>2, <2>3
<1>2. CASE differing # {}
  <2>1. Bucket(local, x) = Min(differing)
    BY <1>2 DEF Bucket
  <2>2. differing \subseteq 0..Bits - 1 /\ differing \subseteq Nat
    BY <1>0
  <2> HIDE DEF differing
  <2>3. Min(differing) \in differing /\ \A j \in differing : Min(differing) <= j
    BY <1>2, <2>2, MinOf
  <2> DEFINE s == Min(differing)
  <2>4. s \in 0..Bits - 1 /\ \A j \in 0..s - 1 : j \in 0..Bits - 1 /\ j \notin differing
    <3>1. s \in 0..Bits - 1
      BY <2>2, <2>3
    <3>2. \A j \in differing : s <= j
      BY <2>3
    <3> HIDE DEF s
    <3> QED BY <1>0, <3>1, <3>2
  <2>5. s \in differing
    BY <2>3
  <2> HIDE DEF s
  <2>6. /\ BitOf[x][s] # BitOf[local][s]
        /\ \A j \in 0..s - 1 : BitOf[x][j] = BitOf[local][j]
    BY <2>4, <2>5 DEF differing
  <2>7. Bucket(local, x) = s
    BY <2>1 DEF s
  <2> QED BY <2>4, <2>6, <2>7
<1> QED BY <1>1, <1>2

\* Nodes of the target's own bucket are nearer to it than all others.
LEMMA OwnBucketNearer ==
  ASSUME NEW local \in Identifier, NEW t \in Identifier,
         NEW a \in Identifier, NEW b \in Identifier,
         Bucket(local, a) = Bucket(local, t), Bucket(local, b) # Bucket(local, t)
  PROVE  Nearer(t, a, b)
<1> DEFINE s == Bucket(local, t)
           u == Bucket(local, b)
<1>0. Bits \in Nat /\ BitOf \in [Identifier -> [0..Bits - 1 -> {0, 1}]]
  BY IdentifierAssumption
<1>1. /\ s \in 0..Bits - 1 /\ u \in 0..Bits - 1 /\ s # u
      /\ \A j \in 0..s - 1 : BitOf[t][j] = BitOf[local][j] /\ BitOf[a][j] = BitOf[local][j]
      /\ \A j \in 0..u - 1 : BitOf[b][j] = BitOf[local][j]
      /\ s < Bits - 1 => BitOf[t][s] # BitOf[local][s] /\ BitOf[a][s] # BitOf[local][s]
      /\ u < Bits - 1 => BitOf[b][u] # BitOf[local][u]
  BY BucketBits
<1> HIDE DEF s, u
<1>2. \A i \in 0..Bits - 1 : /\ BitOf[local][i] \in {0, 1} /\ BitOf[t][i] \in {0, 1}
                             /\ BitOf[a][i] \in {0, 1} /\ BitOf[b][i] \in {0, 1}
  BY <1>0
<1>3. CASE u < s
  <2>1. u \in 0..s - 1 /\ u < Bits - 1 /\ \A j \in 0..u - 1 : j \in 0..s - 1
    BY <1>0, <1>1, <1>3
  <2>2. BitOf[a][u] = BitOf[t][u] /\ BitOf[b][u] # BitOf[t][u]
    BY <1>1, <2>1
  <2>3. \A j \in 0..u - 1 : BitOf[a][j] = BitOf[b][j]
    BY <1>1, <2>1
  <2> QED BY <1>1, <2>2, <2>3 DEF Nearer, Ascending
<1>4. CASE s < u
  <2>1. s \in 0..u - 1 /\ s < Bits - 1 /\ \A j \in 0..s - 1 : j \in 0..u - 1
    BY <1>0, <1>1, <1>4
  <2>2. BitOf[b][s] = BitOf[local][s] /\ BitOf[t][s] # BitOf[local][s]
        /\ BitOf[a][s] # BitOf[local][s]
    BY <1>1, <2>1
  <2>3. BitOf[a][s] = BitOf[t][s] /\ BitOf[b][s] # BitOf[t][s]
    BY <1>1, <1>2, <2>2
  <2>4. \A j \in 0..s - 1 : BitOf[a][j] = BitOf[b][j]
    BY <1>1, <2>1
  <2> QED BY <1>1, <2>3, <2>4 DEF Nearer, Ascending
<1>5. s < u \/ u < s
  BY <1>1
<1> QED BY <1>3, <1>4, <1>5

\* What closest_nodes makes of the target's own bucket, in any table.
LEMMA OwnBucketFirst ==
  ASSUME NEW S \in SUBSET Node, NEW local \in Identifier, NEW t \in Identifier,
         NEW n \in Nat \ {0}
  PROVE  LET own == {a \in S : Bucket(local, a) = Bucket(local, t)}
             answer == ClosestNodes(S, local, t, n)
         IN IF Cardinality(own) >= n THEN answer = Closest(S, t, n) ELSE own \subseteq answer
<1> DEFINE own == {a \in S : Bucket(local, a) = Bucket(local, t)}
           G(r) == Gathered(S, local, t, r)
           nearer(T, a) == {b \in T : Nearer(t, b, a)}
           enough == {r \in 0..Bits : Cardinality(G(r)) >= n \/ r = Bits}
<1>0. S \in SUBSET Identifier /\ Bits \in Nat
  BY NoneIsNobody, IdentifierAssumption
<1>1. IsFiniteSet(S) /\ IsFiniteSet(own) /\ own \subseteq S /\ Cardinality(own) \in Nat
  <2>1. IsFiniteSet(S)
    BY <1>0, IdentifierAssumption, FS_Subset
  <2>2. own \subseteq S
    OBVIOUS
  <2> HIDE DEF own
  <2>3. IsFiniteSet(own)
    BY <2>1, <2>2, FS_Subset
  <2> QED BY <2>1, <2>2, <2>3, FS_CardinalityType
<1>2. /\ \A r \in Nat : own \subseteq G(r) /\ G(r) \subseteq S
      /\ G(0) = own
  <2>1. Bucket(local, t) \in Int /\ \A a \in S : Bucket(local, a) \in Int
    BY <1>0, BucketBits
  <2>2. \A s \in Int : s \in s - 0..s + 0 /\ \A r \in Nat : s \in s - r..s + r
    OBVIOUS
  <2>3. \A s, u \in Int : u \in s - 0..s + 0 => u = s
    OBVIOUS
  <2> QED BY <2>1, <2>2, <2>3 DEF Gathered
<1>3. \A a \in own : \A b \in S \ own : Nearer(t, a, b) /\ ~Nearer(t, b, a)
  <2> SUFFICES ASSUME NEW a \in own, NEW b \in S \ own
               PROVE  Nearer(t, a, b) /\ ~Nearer(t, b, a)
    OBVIOUS
  <2>1. a \in Identifier /\ b \in Identifier
    BY <1>0
  <2>2. Nearer(t, a, b)
    BY <2>1, OwnBucketNearer
  <2> QED BY <2>1, <2>2, NearerOrders
<1>4. ClosestNodes(S, local, t, n) = Closest(G(Min(enough)), t, n)
  BY DEF ClosestNodes
<1>5. enough \in SUBSET Nat /\ Bits \in enough
  BY <1>0
<1>6. Min(enough) \in enough /\ \A r \in enough : Min(enough) <= r
  <2> HIDE DEF enough
  <2> QED BY <1>5, MinOf
<1> HIDE DEF G, own
<1>7. CASE Cardinality(own) >= n
  <2>1. 0 \in enough
    BY <1>0, <1>2, <1>7
  <2>2. Min(enough) = 0
    <3>1. Min(enough) \in Nat /\ Min(enough) <= 0
      <4> HIDE DEF enough
      <4> QED BY <1>5, <1>6, <2>1
    <3> HIDE DEF enough
    <3> QED BY <3>1
  <2>3. ClosestNodes(S, local, t, n) = Closest(own, t, n)
    <3> HIDE DEF enough
    <3> QED BY <1>2, <1>4, <2>2
  <2>4. \A a \in own : nearer(S, a) = nearer(own, a)
    BY <1>1, <1>3
  <2>5. ASSUME NEW a \in S \ own PROVE ~(Cardinality(nearer(S, a)) < n)
    <3>1. own \subseteq nearer(S, a) /\ nearer(S, a) \subseteq S
      BY <1>1, <1>3
    <3> HIDE DEF nearer
    <3>2. IsFiniteSet(nearer(S, a))
      BY <1>1, <3>1, FS_Subset
    <3>3. Cardinality(own) <= Cardinality(nearer(S, a)) /\ Cardinality(nearer(S, a)) \in Nat
      BY <3>1, <3>2, FS_Subset, FS_CardinalityType
    <3> QED BY <1>1, <1>7, <3>3
  <2>6. Closest(S, t, n) = Closest(own, t, n)
    <3>1. /\ Closest(S, t, n) = {a \in S : Cardinality(nearer(S, a)) < n}
          /\ Closest(own, t, n) = {a \in own : Cardinality(nearer(own, a)) < n}
      BY DEF Closest
    <3> HIDE DEF nearer
    <3> QED BY <1>1, <2>4, <2>5, <3>1
  <2> QED BY <1>7, <2>3, <2>6 DEF own
<1>8. CASE ~(Cardinality(own) >= n)
  <2> DEFINE T == G(Min(enough))
  <2>1. own \subseteq T /\ T \subseteq S
    <3>1. Min(enough) \in Nat
      <4> HIDE DEF enough
      <4> QED BY <1>5, <1>6
    <3> HIDE DEF enough
    <3> QED BY <1>2, <3>1
  <2> HIDE DEF T
  <2>2. ASSUME NEW a \in own PROVE Cardinality(nearer(T, a)) < n
    <3>1. nearer(T, a) \subseteq own
      BY <1>3, <2>1
    <3> HIDE DEF nearer
    <3>2. Cardinality(nearer(T, a)) <= Cardinality(own) /\ IsFiniteSet(nearer(T, a))
      BY <1>1, <3>1, FS_Subset
    <3>3. Cardinality(nearer(T, a)) \in Nat
      BY <3>2, FS_CardinalityType
    <3> QED BY <1>1, <1>8, <3>2, <3>3
  <2>3. own \subseteq Closest(T, t, n)
    BY <2>1, <2>2 DEF Closest
  <2>4. own \subseteq ClosestNodes(S, local, t, n)
    BY <1>4, <2>3 DEF T
  <2> QED BY <1>8, <2>4 DEF own
<1> QED BY <1>7, <1>8

\* What handle_response leaves of the shortlist: at most K entries, of nodes it
\* had or was told, and the nearest of them all.
LEMMA ShortenedOf ==
  ASSUME NEW list \in Seq(Entry), NEW nodes \in SUBSET Node, NEW t \in Identifier
  PROVE  /\ Shortened(list, nodes, t) \in Seq(Entry) /\ Len(Shortened(list, nodes, t)) <= K
         /\ Ids(Shortened(list, nodes, t)) \subseteq Ids(list) \cup nodes
         /\ \A n \in Ids(list) \cup nodes :
              (\A m \in Ids(list) \cup nodes : ~Nearer(t, m, n)) => n \in Ids(Shortened(list, nodes, t))
<1> DEFINE told == Entries(nodes, t)
           both == list \o told
           all == ByDistance(both, {}, t)
           k == IF Len(all) < K THEN Len(all) ELSE K
           s == SubSeq(all, 1, k)
<1>1. told \in Seq(Entry) /\ Ids(told) = nodes
  BY EntriesOf
<1> HIDE DEF told
<1>2. /\ both \in Seq(Entry) /\ Len(both) = Len(list) + Len(told)
      /\ \A i \in 1..Len(list) + Len(told) :
           both[i] = IF i <= Len(list) THEN list[i] ELSE told[i - Len(list)]
  BY <1>1, ConcatProperties
<1> HIDE DEF both
<1>3. Ids(both) = Ids(list) \cup nodes
  <2>1. /\ Len(list) \in Nat
        /\ \A i \in 1..Len(list) : list[i].id \in Ids(list)
        /\ \A n \in Ids(list) : \E i \in 1..Len(list) : list[i].id = n
    BY IdsOf
  <2>2. /\ Len(told) \in Nat
        /\ \A i \in 1..Len(told) : told[i].id \in nodes
        /\ \A n \in nodes : \E i \in 1..Len(told) : told[i].id = n
    BY <1>1, IdsOf
  <2>3. /\ \A i \in 1..Len(both) : both[i].id \in Ids(both)
        /\ \A n \in Ids(both) : \E i \in 1..Len(both) : both[i].id = n
    BY <1>2, IdsOf
  <2>4. Ids(both) \subseteq Ids(list) \cup nodes
    <3> SUFFICES ASSUME NEW n \in Ids(both) PROVE n \in Ids(list) \cup nodes
      OBVIOUS
    <3>1. PICK i \in 1..Len(list) + Len(told) : both[i].id = n
      BY <1>2, <2>3
    <3>2. CASE i <= Len(list)
      <4>1. i \in 1..Len(list) /\ both[i] = list[i]
        BY <1>2, <2>1, <2>2, <3>2
      <4> QED BY <2>1, <3>1, <4>1
    <3>3. CASE ~(i <= Len(list))
      <4>1. i - Len(list) \in 1..Len(told) /\ both[i] = told[i - Len(list)]
        BY <1>2, <2>1, <2>2, <3>3
      <4> QED BY <2>2, <3>1, <4>1
    <3> QED BY <3>2, <3>3
  <2>5. ASSUME NEW n \in Ids(list) PROVE n \in Ids(both)
    <3>1. PICK i \in 1..Len(list) : list[i].id = n
      BY <2>1
    <3>2. i \in 1..Len(list) + Len(told) /\ i <= Len(list)
      BY <2>1, <2>2
    <3> QED BY <1>2, <2>3, <3>1, <3>2
  <2>6. ASSUME NEW n \in nodes PROVE n \in Ids(both)
    <3>1. PICK i \in 1..Len(told) : told[i].id = n
      BY <2>2
    <3>2. /\ i + Len(list) \in 1..Len(list) + Len(told) /\ ~(i + Len(list) <= Len(list))
          /\ i + Len(list) - Len(list) = i
      BY <2>1, <2>2
    <3>3. both[i + Len(list)] = told[i]
      BY <1>2, <3>2
    <3> QED BY <1>2, <2>3, <3>1, <3>2, <3>3
  <2> QED BY <2>4, <2>5, <2>6
<1>4. /\ all \in Seq(Entry) /\ Len(all) \in Nat
      /\ \A i \in 1..Len(all) : all[i].id \in Ids(both)
      /\ \A n \in Ids(both) : Len(all) > 0 /\ ~Nearer(t, n, all[1].id)
  BY <1>2, Sorted
<1>5. Shortened(list, nodes, t) = s
  BY DEF Shortened, told, both
<1> HIDE DEF all
<1>6. /\ k \in Nat /\ k <= K /\ k <= Len(all) /\ (Len(all) > 0 => k >= 1)
  BY <1>4, DhtAssumption
<1> HIDE DEF k
<1>7. /\ s \in Seq(Entry) /\ Len(s) = k /\ \A i \in 1..k : s[i] = all[i]
  <2>1. \A i \in 1..k : all[i] \in Entry
    <3>1. \A i \in 1..k : i \in 1..Len(all)
      BY <1>4, <1>6
    <3> QED BY <1>4, <3>1, ElementOfSeq
  <2>2. 1 \in Int /\ k \in Int
    BY <1>6
  <2>3. /\ s \in Seq(Entry) /\ Len(s) = IF 1 <= k THEN k - 1 + 1 ELSE 0
        /\ \A i \in 1..k - 1 + 1 : s[i] = all[1 + i - 1]
    BY <2>1, <2>2, SubSeqProperties
  <2> QED BY <1>6, <2>3
<1> HIDE DEF s
<1>8. /\ \A i \in 1..k : s[i].id \in Ids(s)
      /\ \A n \in Ids(s) : \E i \in 1..k : s[i].id = n
  BY <1>7, IdsOf
<1>9. Ids(s) \subseteq Ids(list) \cup nodes
  <2>1. \A i \in 1..k : all[i].id \in Ids(both)
    <3>1. \A i \in 1..k : i \in 1..Len(all)
      BY <1>4, <1>6
    <3> QED BY <1>4, <3>1
  <2> QED BY <1>3, <1>7, <1>8, <2>1
<1>10. ASSUME NEW n \in Ids(list) \cup nodes,
              \A m \in Ids(list) \cup nodes : ~Nearer(t, m, n)
       PROVE  n \in Ids(s)
  <2>1. Len(all) > 0 /\ ~Nearer(t, n, all[1].id)
    BY <1>3, <1>4
  <2>2. 1 \in 1..k /\ 1 \in 1..Len(all)
    BY <1>4, <1>6, <2>1
  <2>3. all[1].id \in Ids(both)
    BY <1>4, <2>2
  <2>4. Ids(both) \subseteq Identifier
    BY <1>2, IdsOf
  <2>5. n = all[1].id
    BY <1>3, <1>10, <2>1, <2>3, <2>4, NearerOrders
  <2> QED BY <1>7, <1>8, <2>2, <2>5
<1> QED BY <1>5, <1>6, <1>7, <1>9, <1>10


-----------------------------------------------------------------------------
(* Types *)

\* What follows the end of a lookup are requests to store.
LEMMA StoresOf ==
  ASSUME NEW list \in Seq(Entry), NEW op \in Operation
  PROVE  Stores(list, op) \subseteq
           [to : Node, kind : {"node", "value", "store"}, target : Identifier]
<1>1. op.target \in Identifier /\ \A i \in DOMAIN list : list[i].addr \in Node
  BY IdsOf, EntryFields DEF Operation
<1> QED BY <1>1 DEF Stores

\* What next_query leaves: a node to ask, now marked as queried, or none to ask
\* because every entry of the list has been queried.
LEMMA NextQueryOf ==
  ASSUME NEW list \in Seq(Entry), NEW told, NEW done, NEW op \in Operation,
         NextQuery(list, told, done, op)
  PROVE  /\ shortlist' = list /\ known' = (IF turn' = turn THEN known ELSE {}) \cup told
         /\ asking' \in Node \cup {None}
         /\ done \subseteq queried' /\ queried' \subseteq done \cup Ids(list)
         /\ asking' = None => Ids(list) \subseteq queried'
         /\ requests' \subseteq requests \cup
              [to : Node, kind : {"node", "value", "store"}, target : Identifier]
<1> DEFINE open == Unqueried(list, done, op.target)
           Request == [to : Node, kind : {"node", "value", "store"}, target : Identifier]
<1>1. op.target \in Identifier
  BY DEF Operation
<1>2. /\ open \in Seq(Entry) /\ Len(open) \in Nat
      /\ \A k \in 1..Len(open) : open[k].id \in Ids(list)
      /\ \A n \in Ids(list) \ done : Len(open) > 0
  BY <1>1, Sorted DEF Unqueried
<1>3. /\ \A i \in DOMAIN list : list[i].addr \in Node
      /\ \A e \in Entry : e.addr \in Node
  BY IdsOf, EntryFields
<1>4. /\ shortlist' = list /\ known' = (IF turn' = turn THEN known ELSE {}) \cup told
      /\ \/ /\ open # <<>>
            /\ \E e \in {Head(open)} :
                 /\ asking' = e.addr /\ queried' = done \cup {e.id}
                 /\ requests' = requests \cup {Query(e.addr, op)}
         \/ /\ open = <<>>
            /\ asking' = None /\ queried' = done
            /\ requests' = requests \cup Stores(list, op)
  BY DEF NextQuery
<1> HIDE DEF open
<1>5. CASE open # <<>>
  <2>1. /\ 1 \in 1..Len(open) /\ Head(open) = open[1] /\ Head(open) \in Entry
    BY <1>2, <1>5, HeadTailProperties, ElementOfSeq
  <2>2. /\ asking' = Head(open).addr /\ queried' = done \cup {Head(open).id}
        /\ requests' = requests \cup {Query(Head(open).addr, op)}
    BY <1>4, <1>5
  <2>3. Head(open).addr \in Node /\ Head(open).id \in Ids(list)
    BY <1>2, <1>3, <2>1
  <2>4. Query(Head(open).addr, op) \in Request
    BY <1>1, <2>3 DEF Query
  <2> QED BY <1>4, <2>2, <2>3, <2>4, NoneIsNobody
<1>6. CASE open = <<>>
  <2>1. /\ asking' = None /\ queried' = done
        /\ requests' = requests \cup Stores(list, op)
    BY <1>4, <1>6
  <2>2. requests' \subseteq requests \cup Request
    BY <2>1, StoresOf
  <2>3. Len(open) = 0
    BY <1>6, EmptySeq
  <2>4. Ids(list) \subseteq done
    BY <1>2, <2>3
  <2> QED BY <1>4, <2>1, <2>2, <2>4
<1> QED BY <1>5, <1>6

\* A lookup has been started before anybody is asked.
StartedFirst == turn = 0 => asking = None

\* What a node answers.
LEMMA AnswerTyped ==
  ASSUME TypeOK, NEW q \in requests
  PROVE  Answer(q) \in [from : Node, target : Identifier, kind : {"node", "value", "ack"},
                        value : {None} \cup Identifier, nodes : SUBSET Node]
<1>1. q.to \in Node /\ q.kind \in {"node", "value", "store"} /\ q.target \in Identifier
  BY DEF TypeOK
<1> DEFINE entries == Knows[q.to] \cup (IF q.to \in met THEN {Me} ELSE {})
<1>2. entries \in SUBSET Identifier /\ entries \ {Me} \subseteq Node /\ K \in Nat
  BY <1>1, DhtAssumption
<1> HIDE DEF entries
<1>3. ClosestNodes(entries, q.to, q.target, K) \ {Me} \subseteq Node
  BY <1>1, <1>2, ClosestNodesOf
<1>4. Named(q) \in SUBSET Node
  BY <1>3 DEF Named, entries
<1> HIDE DEF TypeOK
<1> QED BY <1>1, <1>4 DEF Answer

\* The shortlist a lookup begins with.
LEMMA StartList ==
  ASSUME TypeOK, NEW op \in Operation, NEW list,
         list \in {IF op.kind = "join" THEN [i \in DOMAIN Seeds |-> [id |-> Zero, addr |-> Seeds[i]]]
                   ELSE Entries(ClosestNodes(table, Me, op.target, K), op.target)}
  PROVE  list \in Seq(Entry) /\ (op.kind # "join" => Len(list) <= K)
<1>1. CASE op.kind = "join"
  <2>1. list = [i \in DOMAIN Seeds |-> [id |-> Zero, addr |-> Seeds[i]]]
    BY <1>1
  <2>2. /\ DOMAIN Seeds = 1..Len(Seeds) /\ Len(Seeds) \in Nat
        /\ \A i \in 1..Len(Seeds) : Seeds[i] \in Node
    BY DhtAssumption, LenProperties, ElementOfSeq
  <2>3. \A i \in 1..Len(Seeds) : [id |-> Zero, addr |-> Seeds[i]] \in Entry
    BY <2>2, EntryFields
  <2>4. list \in Seq(Entry)
    BY <2>1, <2>2, <2>3
  <2> QED BY <1>1, <2>4
<1>2. CASE op.kind # "join"
  <2>1. /\ table \in SUBSET Node /\ table \in SUBSET Identifier
        /\ op.target \in Identifier /\ K \in Nat
    BY DhtAssumption DEF TypeOK, Operation
  <2>2. /\ ClosestNodes(table, Me, op.target, K) \subseteq table
        /\ Cardinality(ClosestNodes(table, Me, op.target, K)) <= K
    BY <2>1, ClosestNodesOf
  <2>3. /\ Entries(ClosestNodes(table, Me, op.target, K), op.target) \in Seq(Entry)
        /\ Len(Entries(ClosestNodes(table, Me, op.target, K), op.target))
             = Cardinality(ClosestNodes(table, Me, op.target, K))
    BY <2>1, <2>2, EntriesOf
  <2> QED BY <1>2, <2>2, <2>3
<1> QED BY <1>1, <1>2

\* What a reply adds to the table is a node.
LEMMA LearnTyped ==
  ASSUME TypeOK, NEW r \in replies
  PROVE  Learn(r) \subseteq Node
<1>1. table \subseteq Node /\ r.from \in Node /\ r.nodes \subseteq Node
  BY DEF TypeOK
<1> QED BY <1>1 DEF Learn


-----------------------------------------------------------------------------
(* The nearest node is asked *)

\* The shortlist is of nodes the lookup heard of, and the nearest of all it heard
\* of is in it or has been queried; when nobody is left to ask, all of it has.
ShortlistKnown ==
  turn > 0 /\ found = None =>
    /\ Ids(shortlist) \subseteq known
    /\ \A n \in known : (\A m \in known : ~Nearer(Current.target, m, n)) =>
         n \in Ids(shortlist) \cup queried
    /\ asking = None => Ids(shortlist) \subseteq queried

LookupInv == TypeOK /\ StartedFirst /\ ShortlistKnown

LEMMA CurrentTyped ==
  ASSUME TypeOK
  PROVE  /\ turn > 0 => Current \in Operation
         /\ turn < Len(Plan) => Plan[turn + 1] \in Operation /\ turn + 1 \in 0..Len(Plan) /\ turn + 1 > 0
         /\ turn \in Nat /\ Len(Plan) \in Nat
<1>1. /\ turn \in 0..Len(Plan) /\ Len(Plan) \in Nat
      /\ \A i \in 1..Len(Plan) : Plan[i] \in Operation
  BY DhtAssumption, LenProperties, ElementOfSeq DEF TypeOK
<1> QED BY <1>1 DEF Current

LEMMA LookupInit == Init => LookupInv
<1> SUFFICES ASSUME Init PROVE LookupInv
  OBVIOUS
<1>1. <<>> \in Seq(Entry) /\ Len(Plan) \in Nat /\ K \in Nat /\ MaxExpired \in Nat
  BY DhtAssumption
<1>2. TypeOK
  <2>1. /\ turn \in 0..Len(Plan) /\ ~(turn > 0) /\ expired \in 0..MaxExpired
    BY <1>1 DEF Init
  <2>2. holds \in [Node -> SUBSET Identifier]
    BY DEF Init
  <2>3. shortlist \in Seq(Entry) /\ late \in BOOLEAN /\ asking \in Node \cup {None}
    BY <1>1 DEF Init
  <2> QED BY <2>1, <2>2, <2>3 DEF Init, TypeOK
<1> QED BY <1>2 DEF Init, LookupInv, StartedFirst, ShortlistKnown

LEMMA LookupStart == LookupInv /\ Start => LookupInv'
<1> SUFFICES ASSUME LookupInv, Start PROVE LookupInv'
  OBVIOUS
<1> DEFINE op == Plan[turn + 1]
<1>1. TypeOK
  BY DEF LookupInv
<1>2. /\ asking = None /\ turn < Len(Plan) /\ turn' = turn + 1 /\ found' = None
      /\ had' = {n \in Alive : op.target \in holds[n]}
      /\ UNCHANGED <<table, replies, holds, met, expired, late>>
  BY DEF Start
<1>3. op \in Operation /\ turn' \in 0..Len(Plan) /\ turn' > 0 /\ turn' # turn
  BY <1>1, <1>2, CurrentTyped
<1>4. PICK list : /\ list \in {IF op.kind = "join"
                                 THEN [i \in DOMAIN Seeds |-> [id |-> Zero, addr |-> Seeds[i]]]
                                 ELSE Entries(ClosestNodes(table, Me, op.target, K), op.target)}
                  /\ NextQuery(list, Ids(list), {}, op)
  BY DEF Start
<1>5. Current' = op
  BY <1>2 DEF Current
<1> HIDE DEF op
<1>6. list \in Seq(Entry) /\ (op.kind # "join" => Len(list) <= K)
  BY <1>1, <1>3, <1>4, StartList
<1>7. /\ shortlist' = list /\ known' = Ids(list)
      /\ asking' \in Node \cup {None} /\ queried' \subseteq Ids(list)
      /\ asking' = None => Ids(list) \subseteq queried'
      /\ requests' \subseteq requests \cup
           [to : Node, kind : {"node", "value", "store"}, target : Identifier]
  <2>1. /\ shortlist' = list /\ known' = (IF turn' = turn THEN known ELSE {}) \cup Ids(list)
        /\ asking' \in Node \cup {None}
        /\ queried' \subseteq {} \cup Ids(list)
        /\ asking' = None => Ids(list) \subseteq queried'
        /\ requests' \subseteq requests \cup
             [to : Node, kind : {"node", "value", "store"}, target : Identifier]
    BY <1>3, <1>4, <1>6, NextQueryOf
  <2> QED BY <1>3, <2>1
<1>8. Ids(list) \subseteq Node \cup {Zero}
  BY <1>6, IdsOf
<1>9. TypeOK'
  BY <1>1, <1>2, <1>3, <1>5, <1>6, <1>7, <1>8 DEF TypeOK
<1>10. StartedFirst' /\ ShortlistKnown'
  BY <1>3, <1>7 DEF StartedFirst, ShortlistKnown
<1> QED BY <1>9, <1>10 DEF LookupInv

LEMMA LookupTimeout == LookupInv /\ Timeout => LookupInv'
<1> SUFFICES ASSUME LookupInv, Timeout PROVE LookupInv'
  OBVIOUS
<1>1. TypeOK /\ StartedFirst /\ ShortlistKnown
  BY DEF LookupInv
<1>2. /\ asking # None /\ late' = (late \/ asking \in Alive)
      /\ UNCHANGED <<table, turn, found, replies, holds, met, had, expired>>
      /\ NextQuery(shortlist, {}, queried, Current)
  BY DEF Timeout
<1>3. turn > 0 /\ Current \in Operation /\ Current' = Current
  <2>1. turn \in Nat /\ turn # 0
    BY <1>1, <1>2, CurrentTyped DEF StartedFirst
  <2> QED BY <1>1, <1>2, <2>1, CurrentTyped DEF Current
<1>4. shortlist \in Seq(Entry)
  BY <1>1 DEF TypeOK
<1>5. /\ shortlist' = shortlist /\ known' = known
      /\ asking' \in Node \cup {None}
      /\ queried \subseteq queried' /\ queried' \subseteq queried \cup Ids(shortlist)
      /\ asking' = None => Ids(shortlist) \subseteq queried'
      /\ requests' \subseteq requests \cup
           [to : Node, kind : {"node", "value", "store"}, target : Identifier]
  <2>1. /\ shortlist' = shortlist /\ known' = (IF turn' = turn THEN known ELSE {}) \cup {}
        /\ asking' \in Node \cup {None}
        /\ queried \subseteq queried' /\ queried' \subseteq queried \cup Ids(shortlist)
        /\ asking' = None => Ids(shortlist) \subseteq queried'
        /\ requests' \subseteq requests \cup
             [to : Node, kind : {"node", "value", "store"}, target : Identifier]
    BY <1>2, <1>3, <1>4, NextQueryOf
  <2> QED BY <1>2, <2>1
<1>6. Ids(shortlist) \subseteq Node \cup {Zero}
  BY <1>4, IdsOf
<1>7. TypeOK'
  BY <1>1, <1>2, <1>3, <1>5, <1>6 DEF TypeOK
<1>8. StartedFirst' /\ ShortlistKnown'
  BY <1>1, <1>2, <1>3, <1>5 DEF StartedFirst, ShortlistKnown
<1> QED BY <1>7, <1>8 DEF LookupInv


LEMMA LookupReceive ==
  ASSUME LookupInv, NEW r \in replies, Receive(r)
  PROVE  LookupInv'
<1>1. TypeOK /\ StartedFirst /\ ShortlistKnown
  BY DEF LookupInv
<1>2. /\ asking # None /\ replies' = replies \ {r} /\ table' = Learn(r)
      /\ UNCHANGED <<turn, holds, met, had, expired, late>>
  BY DEF Receive
<1>3. turn > 0 /\ Current \in Operation /\ Current' = Current /\ Current.target \in Identifier
  <2>1. turn \in Nat /\ turn # 0
    BY <1>1, <1>2, CurrentTyped DEF StartedFirst
  <2>2. turn > 0 /\ Current \in Operation
    BY <1>1, <2>1, CurrentTyped
  <2> QED BY <1>2, <2>2 DEF Current, Operation
<1>4. /\ shortlist \in Seq(Entry) /\ r.nodes \in SUBSET Node
      /\ r.value \in {None} \cup Identifier
  BY <1>1 DEF TypeOK
<1>5. Learn(r) \subseteq Node
  BY <1>1, LearnTyped
<1>6. CASE /\ r.value # None /\ found' = r.value /\ asking' = None
           /\ shortlist' = shortlist \o Entries(r.nodes, Current.target)
           /\ requests' = requests \cup Stores(shortlist', Current)
           /\ known' = known \cup r.nodes
           /\ UNCHANGED queried
  <2>1. Entries(r.nodes, Current.target) \in Seq(Entry)
    BY <1>3, <1>4, EntriesOf
  <2>2. shortlist \o Entries(r.nodes, Current.target) \in Seq(Entry)
    BY <1>4, <2>1, ConcatProperties
  <2>3. found' # None /\ found' \in {None} \cup Identifier
    BY <1>4, <1>6
  <2>4. requests' \subseteq requests \cup
          [to : Node, kind : {"node", "value", "store"}, target : Identifier]
    BY <1>3, <1>6, <2>2, StoresOf
  <2>5. TypeOK'
    BY <1>1, <1>2, <1>4, <1>5, <1>6, <2>2, <2>3, <2>4 DEF TypeOK
  <2> QED BY <1>6, <2>3, <2>5 DEF LookupInv, StartedFirst, ShortlistKnown
<1>7. ASSUME NEW list, list = Shortened(shortlist, r.nodes, Current.target),
             NextQuery(list, r.nodes, queried, Current), UNCHANGED found
      PROVE  LookupInv'
  <2>1. /\ list \in Seq(Entry) /\ Len(list) <= K
        /\ Ids(list) \subseteq Ids(shortlist) \cup r.nodes
        /\ \A n \in Ids(shortlist) \cup r.nodes :
             (\A m \in Ids(shortlist) \cup r.nodes : ~Nearer(Current.target, m, n)) => n \in Ids(list)
    BY <1>3, <1>4, <1>7, ShortenedOf
  <2>2. /\ shortlist' = list /\ known' = (IF turn' = turn THEN known ELSE {}) \cup r.nodes
        /\ asking' \in Node \cup {None}
        /\ queried \subseteq queried' /\ queried' \subseteq queried \cup Ids(list)
        /\ asking' = None => Ids(list) \subseteq queried'
        /\ requests' \subseteq requests \cup
             [to : Node, kind : {"node", "value", "store"}, target : Identifier]
    BY <1>3, <1>7, <2>1, NextQueryOf
  <2>3. known' = known \cup r.nodes
    BY <1>2, <2>2
  <2>4. Ids(list) \subseteq Node \cup {Zero}
    BY <2>1, IdsOf
  <2>5. TypeOK'
    BY <1>1, <1>2, <1>3, <1>4, <1>5, <1>7, <2>1, <2>2, <2>3, <2>4 DEF TypeOK
  <2>6. ASSUME turn' > 0, found' = None PROVE
          /\ Ids(list) \subseteq known'
          /\ \A n \in known' : (\A m \in known' : ~Nearer(Current.target, m, n)) =>
               n \in Ids(list) \cup queried'
          /\ asking' = None => Ids(list) \subseteq queried'
    <3>1. /\ Ids(shortlist) \subseteq known
          /\ \A n \in known : (\A m \in known : ~Nearer(Current.target, m, n)) =>
               n \in Ids(shortlist) \cup queried
      BY <1>1, <1>3, <1>7, <2>6 DEF ShortlistKnown
    <3>2. ASSUME NEW n \in known', \A m \in known' : ~Nearer(Current.target, m, n)
          PROVE  n \in Ids(list) \cup queried'
      <4>1. n \in Ids(shortlist) \cup r.nodes \cup queried
        BY <2>3, <3>1, <3>2
      <4>2. \A m \in Ids(shortlist) \cup r.nodes : ~Nearer(Current.target, m, n)
        BY <2>3, <3>1, <3>2
      <4> QED BY <2>1, <2>2, <4>1, <4>2
    <3> QED BY <2>1, <2>2, <2>3, <3>1, <3>2
  <2>7. ShortlistKnown'
    BY <1>3, <2>2, <2>6 DEF ShortlistKnown
  <2>8. StartedFirst'
    BY <1>2, <1>3 DEF StartedFirst
  <2> QED BY <2>5, <2>7, <2>8 DEF LookupInv
<1> QED BY <1>6, <1>7 DEF Receive

\* Requests that are answered, replies nobody waits for and values that expire
\* leave the lookup as it is.
LEMMA LookupAside ==
  ASSUME LookupInv, TypeOK', UNCHANGED <<turn, asking, pending, known>>
  PROVE  LookupInv'
BY DEF LookupInv, StartedFirst, ShortlistKnown, Current, pending, Ids

LEMMA LookupStep == LookupInv /\ [Next]_vars => LookupInv'
<1> SUFFICES ASSUME LookupInv, [Next]_vars PROVE LookupInv'
  OBVIOUS
<1>0. TypeOK
  BY DEF LookupInv
<1>1. CASE Start
  BY <1>1, LookupStart
<1>2. CASE Timeout
  BY <1>2, LookupTimeout
<1>3. ASSUME NEW q \in requests, Serve(q) PROVE LookupInv'
  <2>1. /\ requests' = requests \ {q} /\ replies' = replies \cup {Answer(q)}
        /\ holds' = [holds EXCEPT ![q.to] = IF q.kind = "store" THEN @ \cup {q.target} ELSE @]
        /\ met' \subseteq met \cup {q.to}
        /\ UNCHANGED <<table, turn, asking, pending, known, had, expired, late>>
    BY <1>3 DEF Serve
  <2>2. Answer(q) \in [from : Node, target : Identifier, kind : {"node", "value", "ack"},
                       value : {None} \cup Identifier, nodes : SUBSET Node]
    BY <1>0, AnswerTyped
  <2>3. holds' \in [Node -> SUBSET Identifier]
    <3>1. q.target \in Identifier /\ holds \in [Node -> SUBSET Identifier]
      BY <1>0 DEF TypeOK
    <3> QED BY <2>1, <3>1
  <2>4. met' \subseteq Node
    BY <1>0, <2>1 DEF TypeOK
  <2>5. TypeOK'
    BY <1>0, <2>1, <2>2, <2>3, <2>4 DEF TypeOK, Current, pending
  <2> QED BY <2>1, <2>5, LookupAside
<1>4. ASSUME NEW r \in replies, Receive(r) PROVE LookupInv'
  BY <1>4, LookupReceive
<1>5. ASSUME NEW r \in replies, TickServer(r) PROVE LookupInv'
  <2>1. /\ replies' = replies \ {r} /\ table' = Learn(r)
        /\ UNCHANGED <<turn, asking, pending, requests, holds, met, known, had, expired, late>>
    BY <1>5 DEF TickServer
  <2>2. Learn(r) \subseteq Node
    BY <1>0, LearnTyped
  <2>3. TypeOK'
    BY <1>0, <2>1, <2>2 DEF TypeOK, Current, pending
  <2> QED BY <2>1, <2>3, LookupAside
<1>6. ASSUME NEW n \in Node, NEW key \in holds[n], Expire(n, key) PROVE LookupInv'
  <2>1. /\ expired < MaxExpired /\ expired' = expired + 1 /\ had' = had \ {n}
        /\ holds' = [holds EXCEPT ![n] = @ \ {key}]
        /\ UNCHANGED <<table, turn, asking, pending, requests, replies, met, known, late>>
    BY <1>6 DEF Expire
  <2>2. holds' \in [Node -> SUBSET Identifier]
    <3>1. holds \in [Node -> SUBSET Identifier]
      BY <1>0 DEF TypeOK
    <3> QED BY <2>1, <3>1
  <2>3. expired' \in 0..MaxExpired
    <3>1. expired \in 0..MaxExpired /\ MaxExpired \in Nat
      BY <1>0, DhtAssumption DEF TypeOK
    <3> QED BY <2>1, <3>1
  <2>4. TypeOK'
    BY <1>0, <2>1, <2>2, <2>3 DEF TypeOK, Current, pending
  <2> QED BY <2>1, <2>4, LookupAside
<1>7. CASE UNCHANGED vars
  <2>1. TypeOK'
    BY <1>0, <1>7 DEF vars, pending, TypeOK, Current
  <2> QED BY <1>7, <2>1, LookupAside DEF vars
<1> QED BY <1>1, <1>2, <1>3, <1>4, <1>5, <1>6, <1>7 DEF Next

LEMMA LookupInvariant == Spec => []LookupInv
BY LookupInit, LookupStep, PTL DEF Spec

\* Whatever replies come, in whatever order, the client's table and shortlist hold
\* nodes only, and a shortlist that is still searched has no more than K of them.
THEOREM TypeCorrect == Spec => []TypeOK
<1>1. LookupInv => TypeOK
  BY DEF LookupInv
<1> QED BY <1>1, LookupInvariant, PTL

\* A lookup that ends without a value has queried the nearest of all the nodes it
\* heard of: the shortlist is cut at K entries only once it is sorted, so that
\* the nearest stays in it until it is queried.
THEOREM NearestIsQueried == Spec => []ClosestQueried
<1>1. LookupInv => ClosestQueried
  BY DEF LookupInv, ShortlistKnown, ClosestQueried, Ended
<1> QED BY <1>1, LookupInvariant, PTL


\* A request that will be answered with nodes or a value, and such an answer.
Asks(q) == q.to \in Alive /\ q.kind # "store"
Tells(r) == r.kind # "ack"

\* While no node has answered too late, no more than one such request or answer
\* is under way: that of the query recv_dht waits for.
OneExchange == ~late =>
  /\ \A q \in requests : Asks(q) =>
       q = Query(asking, Current) /\ \A r \in replies : ~Tells(r)
  /\ \A r \in replies : Tells(r) =>
       /\ r.from = asking /\ asking \in Alive
       /\ r.value # None => Current.kind = "value" /\ r.value = Current.target
       /\ \A other \in replies : Tells(other) => other = r

\* Nothing of the kind is under way, and at most the query now sent is added.
LEMMA NextQueryAsksOnce ==
  ASSUME NEW list, NEW told, NEW done, NEW op, NextQuery(list, told, done, op),
         op = Current', \A q \in requests : ~Asks(q), \A r \in replies' : ~Tells(r)
  PROVE  OneExchange'
<1>1. ASSUME NEW q \in requests', Asks(q) PROVE q = Query(asking', op)
  <2>1. \/ \E e \in {Head(Unqueried(list, done, op.target))} :
             asking' = e.addr /\ requests' = requests \cup {Query(e.addr, op)}
        \/ requests' = requests \cup Stores(list, op)
    BY DEF NextQuery
  <2> QED BY <1>1, <2>1 DEF Asks, Stores
<1> QED BY <1>1 DEF OneExchange, Asks

LEMMA FoundIsAsked == Spec => [](OneExchange /\ FoundForKey)
<1>1. Init => OneExchange /\ FoundForKey
  BY DEF Init, OneExchange, FoundForKey
<1>2. OneExchange /\ FoundForKey /\ [Next]_vars => OneExchange' /\ FoundForKey'
  <2> SUFFICES ASSUME OneExchange, FoundForKey, [Next]_vars
               PROVE  OneExchange' /\ FoundForKey'
    OBVIOUS
  \* A query or answer is under way only while somebody alive is being asked.
  <2>0. ~late /\ asking \notin Alive =>
          /\ \A q \in requests : ~Asks(q)
          /\ \A r \in replies : ~Tells(r)
    BY DEF OneExchange, Asks, Query
  <2>1. CASE Start
    <3>1. /\ asking = None /\ turn' = turn + 1 /\ found' = None
          /\ UNCHANGED <<table, replies, holds, expired, late>>
          /\ \E list, told : NextQuery(list, told, {}, Plan[turn + 1])
      BY <2>1 DEF Start
    <3>2. PICK list, told : NextQuery(list, told, {}, Plan[turn + 1])
      BY <3>1
    <3>3. Plan[turn + 1] = Current'
      BY <3>1 DEF Current
    <3>4. late => late'
      BY <3>1
    <3>5. OneExchange'
      <4>1. CASE late
        BY <3>4, <4>1 DEF OneExchange
      <4>2. CASE ~late
        BY <2>0, <3>1, <3>2, <3>3, <4>2, NoneIsNobody, NextQueryAsksOnce
      <4> QED BY <4>1, <4>2
    <3> QED BY <3>1, <3>5 DEF FoundForKey
  <2>2. CASE Timeout
    <3>1. /\ late' = (late \/ asking \in Alive) /\ NextQuery(shortlist, {}, queried, Current)
          /\ UNCHANGED <<table, turn, found, replies, holds, had, expired>>
      BY <2>2 DEF Timeout
    <3>2. Current' = Current
      BY <3>1 DEF Current
    <3>3. OneExchange'
      <4>1. CASE late \/ asking \in Alive
        BY <3>1, <4>1 DEF OneExchange
      <4>2. CASE ~late /\ asking \notin Alive
        BY <2>0, <3>1, <3>2, <4>2, NextQueryAsksOnce
      <4> QED BY <4>1, <4>2
    <3> QED BY <3>1, <3>2, <3>3 DEF FoundForKey
  <2>3. ASSUME NEW q \in requests, Serve(q) PROVE OneExchange' /\ FoundForKey'
    <3>1. /\ q.to \in Alive /\ requests' = requests \ {q} /\ replies' = replies \cup {Answer(q)}
          /\ UNCHANGED <<turn, asking, found, late>>
      BY <2>3 DEF Serve, pending
    <3>2. Current' = Current
      BY <3>1 DEF Current
    <3>3. CASE q.kind = "store"
      <4>1. ~Tells(Answer(q))
        BY <3>3 DEF Tells, Answer
      <4> QED BY <3>1, <3>2, <4>1 DEF OneExchange, FoundForKey, Query
    <3>4. CASE late
      BY <3>1, <3>2, <3>4 DEF OneExchange, FoundForKey
    <3>5. CASE q.kind # "store" /\ ~late
      <4>1. Asks(q)
        BY <3>1, <3>5 DEF Asks
      <4>2. q = Query(asking, Current) /\ \A r \in replies : ~Tells(r)
        BY <3>5, <4>1 DEF OneExchange
      <4>3. /\ q.to = asking /\ q.target = Current.target
            /\ q.kind = "value" => Current.kind = "value"
        BY <4>2 DEF Query
      <4>4. /\ Answer(q).from = asking
            /\ Answer(q).value # None => Current.kind = "value" /\ Answer(q).value = Current.target
        BY <4>3 DEF Answer
      <4>5. \A other \in requests' : ~Asks(other)
        BY <3>1, <3>5, <4>2 DEF OneExchange
      <4> QED BY <3>1, <3>2, <4>2, <4>3, <4>4, <4>5 DEF OneExchange, FoundForKey
    <3> QED BY <3>3, <3>4, <3>5
  <2>4. ASSUME NEW r \in replies, Receive(r) PROVE OneExchange' /\ FoundForKey'
    <3>1. /\ Tells(r) /\ r.from = asking /\ replies' = replies \ {r}
          /\ UNCHANGED <<turn, late>>
      BY <2>4 DEF Receive, Tells
    <3>2. Current' = Current
      BY <3>1 DEF Current
    <3>3. CASE late
      BY <3>1, <3>3 DEF OneExchange, FoundForKey
    <3>4. CASE ~late
      <4>1. /\ \A q \in requests : ~Asks(q)
            /\ \A other \in replies' : ~Tells(other)
            /\ r.value # None => Current.kind = "value" /\ r.value = Current.target
        BY <3>1, <3>4 DEF OneExchange
      <4>2. CASE /\ r.value # None /\ found' = r.value
                 /\ requests' = requests \cup Stores(shortlist', Current)
        <5>1. \A q \in Stores(shortlist', Current) : ~Asks(q)
          BY DEF Stores, Asks
        <5>2. \A q \in requests' : ~Asks(q)
          BY <4>1, <4>2, <5>1
        <5> QED BY <3>2, <4>1, <4>2, <5>2 DEF OneExchange, FoundForKey
      <4>3. ASSUME NEW list, NextQuery(list, r.nodes, queried, Current), UNCHANGED found
            PROVE  OneExchange' /\ FoundForKey'
        BY <3>1, <3>2, <4>1, <4>3, NextQueryAsksOnce DEF FoundForKey
      <4> QED BY <2>4, <4>2, <4>3 DEF Receive
    <3> QED BY <3>3, <3>4
  <2>5. ASSUME NEW r \in replies, TickServer(r) PROVE OneExchange' /\ FoundForKey'
    BY <2>5 DEF TickServer, OneExchange, FoundForKey, Current, pending
  <2>6. ASSUME NEW n \in Node, NEW key \in holds[n], Expire(n, key)
        PROVE  OneExchange' /\ FoundForKey'
    BY <2>6 DEF Expire, OneExchange, FoundForKey, Current, pending
  <2>7. CASE UNCHANGED vars
    BY <2>7 DEF vars, pending, OneExchange, FoundForKey, Current
  <2> QED BY <2>1, <2>2, <2>3, <2>4, <2>5, <2>6, <2>7 DEF Next
<1> QED BY <1>1, <1>2, PTL DEF Spec

\* As long as nobody has answered too late, what find_value returns is the value
\* of the key it was asked for: with one exchange under way at a time, the reply
\* recv_dht takes answers the query it waits for.
THEOREM ValueIsAskedFor == Spec => []FoundForKey
BY FoundIsAsked, PTL
-----------------------------------------------------------------------------
(* A holder that is asked tells *)

\* Of the live nodes that held the value all the while, only the one being asked
\* has not told yet: its query or the answer with the value is under way.
HoldersAsked ==
  ~late /\ turn > 0 /\ Current.kind = "value" /\ found = None =>
    \A n \in queried \cap had :
      /\ n = asking
      /\ \/ Query(n, Current) \in requests
         \/ \E r \in replies : Tells(r) /\ r.from = n /\ r.value = Current.target

\* They hold it still.
HadHolds == turn > 0 => had \subseteq Alive /\ \A n \in had : Current.target \in holds[n]

\* The node next_query picks is the one asked, and nobody else was marked.
LEMMA NextQueryAsks ==
  ASSUME NEW list \in Seq(Entry), NEW told, NEW done, NEW op \in Operation,
         NextQuery(list, told, done, op), NEW n \in queried' \ done, n \in Node
  PROVE  n = asking' /\ Query(n, op) \in requests'
<1> DEFINE open == Unqueried(list, done, op.target)
<1>1. open \in Seq(Entry) /\ Len(open) \in Nat
  BY Sorted DEF Unqueried, Operation
<1>2. \/ /\ open # <<>>
         /\ asking' = Head(open).addr /\ queried' = done \cup {Head(open).id}
         /\ requests' = requests \cup {Query(Head(open).addr, op)}
      \/ queried' = done
  BY DEF NextQuery
<1> HIDE DEF open
<1>3. open # <<>> /\ n = Head(open).id
  BY <1>2
<1>4. Head(open) \in Entry
  BY <1>1, <1>3, HeadTailProperties
<1>5. Head(open).addr = n
  BY <1>3, <1>4, EntryFields
<1> QED BY <1>2, <1>5

LEMMA HoldsStep == TypeOK /\ HadHolds /\ [Next]_vars => HadHolds'
<1> SUFFICES ASSUME TypeOK, HadHolds, [Next]_vars PROVE HadHolds'
  OBVIOUS
<1>0. holds \in [Node -> SUBSET Identifier] /\ Alive \subseteq Node /\ had \subseteq Alive
  BY DhtAssumption DEF TypeOK
<1>1. CASE Start
  <2>1. /\ turn' = turn + 1 /\ UNCHANGED holds
        /\ had' = {n \in Alive : Plan[turn + 1].target \in holds[n]}
    BY <1>1 DEF Start
  <2> QED BY <2>1 DEF HadHolds, Current
<1>2. CASE Timeout
  BY <1>2 DEF Timeout, HadHolds, Current
<1>3. ASSUME NEW q \in requests, Serve(q) PROVE HadHolds'
  <2>1. /\ UNCHANGED <<turn, had>>
        /\ holds' = [holds EXCEPT ![q.to] = IF q.kind = "store" THEN @ \cup {q.target} ELSE @]
    BY <1>3 DEF Serve
  <2>2. \A n \in Node : holds[n] \subseteq holds'[n]
    BY <1>0, <2>1
  <2> QED BY <1>0, <2>1, <2>2 DEF HadHolds, Current
<1>4. ASSUME NEW r \in replies, Receive(r) \/ TickServer(r) PROVE HadHolds'
  BY <1>4 DEF Receive, TickServer, HadHolds, Current
<1>5. ASSUME NEW n \in Node, NEW key \in holds[n], Expire(n, key) PROVE HadHolds'
  <2>1. /\ UNCHANGED turn /\ had' = had \ {n} /\ holds' = [holds EXCEPT ![n] = @ \ {key}]
    BY <1>5 DEF Expire
  <2>2. \A m \in Node \ {n} : holds'[m] = holds[m]
    BY <1>0, <2>1
  <2> QED BY <1>0, <2>1, <2>2 DEF HadHolds, Current
<1>6. CASE UNCHANGED vars
  BY <1>6 DEF vars, HadHolds, Current
<1> QED BY <1>1, <1>2, <1>3, <1>4, <1>5, <1>6 DEF Next

\* Nobody alive was passed over, and so nobody who held the value, once the one
\* being asked has run out of time or has answered without it.
LEMMA NoneLeft ==
  ASSUME LookupInv, HadHolds, HoldersAsked, OneExchange, ~late, turn > 0,
         Current.kind = "value", found = None,
         \/ asking \notin Alive
         \/ \E r \in replies : Tells(r) /\ r.from = asking /\ r.value = None
  PROVE  queried \cap had = {}
<1> SUFFICES ASSUME NEW n \in queried \cap had PROVE FALSE
  OBVIOUS
<1>1. /\ n = asking /\ n \in Alive
      /\ \/ Query(n, Current) \in requests
         \/ \E r \in replies : Tells(r) /\ r.from = n /\ r.value = Current.target
  BY DEF HoldersAsked, HadHolds
<1>2. PICK r \in replies : Tells(r) /\ r.from = asking /\ r.value = None
  BY <1>1
<1>3. Query(n, Current) \notin requests
  <2>1. Query(n, Current).to = n /\ Query(n, Current).kind # "store"
    BY DEF Query
  <2> QED BY <1>1, <1>2, <2>1 DEF OneExchange, Asks
<1>4. PICK other \in replies : Tells(other) /\ other.value = Current.target
  BY <1>1, <1>3
<1>5. r = other
  BY <1>2, <1>4 DEF OneExchange
<1>6. Current.target \in Identifier
  BY CurrentTyped DEF LookupInv, Operation
<1> QED BY <1>2, <1>4, <1>5, <1>6, NoneIsNobody

LEMMA HoldersStep ==
  LookupInv /\ HadHolds /\ HoldersAsked /\ OneExchange /\ [Next]_vars => HoldersAsked'
<1> SUFFICES ASSUME LookupInv, HadHolds, HoldersAsked, OneExchange, [Next]_vars PROVE HoldersAsked'
  OBVIOUS
<1>0. TypeOK /\ StartedFirst /\ shortlist \in Seq(Entry) /\ had \subseteq Alive /\ Alive \subseteq Node
  BY DhtAssumption DEF LookupInv, TypeOK
<1>1. CASE Start
  <2> DEFINE op == Plan[turn + 1]
  <2>1. /\ turn < Len(Plan) /\ turn' = turn + 1
        /\ had' = {n \in Alive : op.target \in holds[n]}
    BY <1>1 DEF Start
  <2>2. PICK list : /\ list \in {IF op.kind = "join"
                                   THEN [i \in DOMAIN Seeds |-> [id |-> Zero, addr |-> Seeds[i]]]
                                   ELSE Entries(ClosestNodes(table, Me, op.target, K), op.target)}
                    /\ NextQuery(list, Ids(list), {}, op)
    BY <1>1 DEF Start
  <2>3. op \in Operation /\ Current' = op
    BY <1>0, <2>1, CurrentTyped DEF Current
  <2> HIDE DEF op
  <2>4. list \in Seq(Entry)
    BY <1>0, <2>2, <2>3, StartList
  <2>5. \A n \in queried' : n \in Node => n = asking' /\ Query(n, op) \in requests'
    BY <2>2, <2>3, <2>4, NextQueryAsks
  <2> QED BY <1>0, <2>1, <2>3, <2>5 DEF HoldersAsked
<1>2. CASE Timeout
  <2>1. /\ asking # None /\ late' = (late \/ asking \in Alive)
        /\ UNCHANGED <<turn, found, replies, had>>
        /\ NextQuery(shortlist, {}, queried, Current)
    BY <1>2 DEF Timeout
  <2>2. turn > 0 /\ Current \in Operation /\ Current' = Current
    <3>1. turn \in Nat /\ turn # 0
      BY <1>0, <2>1, CurrentTyped DEF StartedFirst
    <3> QED BY <1>0, <2>1, <3>1, CurrentTyped DEF Current
  <2> SUFFICES ASSUME ~late', Current.kind = "value", found = None, NEW n \in queried' \cap had
               PROVE  n = asking' /\ Query(n, Current) \in requests'
    BY <2>1, <2>2 DEF HoldersAsked
  <2>3. queried \cap had = {}
    BY <2>1, <2>2, NoneLeft
  <2> QED BY <1>0, <2>1, <2>2, <2>3, NextQueryAsks
<1>3. ASSUME NEW q \in requests, Serve(q) PROVE HoldersAsked'
  <2>1. /\ requests' = requests \ {q} /\ replies' = replies \cup {Answer(q)}
        /\ UNCHANGED <<turn, asking, queried, found, had, late>>
    BY <1>3 DEF Serve, pending
  <2>2. Current' = Current
    BY <2>1 DEF Current
  <2> SUFFICES ASSUME ~late, turn > 0, Current.kind = "value", found = None, NEW n \in queried \cap had
               PROVE  /\ n = asking
                      /\ \/ Query(n, Current) \in requests'
                         \/ \E r \in replies' : Tells(r) /\ r.from = n /\ r.value = Current.target
    BY <2>1, <2>2 DEF HoldersAsked
  <2>3. /\ n = asking
        /\ \/ Query(n, Current) \in requests
           \/ \E r \in replies : Tells(r) /\ r.from = n /\ r.value = Current.target
    BY DEF HoldersAsked
  <2>4. CASE q = Query(n, Current)
    <3>1. q.to = n /\ q.kind = "value" /\ q.target = Current.target
      BY <2>4 DEF Query
    <3>2. Current.target \in holds[n]
      BY DEF HadHolds
    <3>3. Tells(Answer(q)) /\ Answer(q).from = n /\ Answer(q).value = Current.target
      BY <3>1, <3>2 DEF Answer, Tells
    <3> QED BY <2>1, <2>3, <3>3
  <2> QED BY <2>1, <2>3, <2>4
<1>4. ASSUME NEW r \in replies, Receive(r) PROVE HoldersAsked'
  <2>1. /\ asking # None /\ Tells(r) /\ r.from = asking
        /\ UNCHANGED <<turn, had, late>>
    BY <1>4 DEF Receive, Tells
  <2>2. turn > 0 /\ Current \in Operation /\ Current' = Current /\ Current.target \in Identifier
    <3>1. turn \in Nat /\ turn # 0
      BY <1>0, <2>1, CurrentTyped DEF StartedFirst
    <3> QED BY <1>0, <2>1, <3>1, CurrentTyped DEF Current, Operation
  <2>3. CASE r.value # None /\ found' = r.value
    BY <2>3 DEF HoldersAsked
  <2>4. ASSUME r.value = None, NEW list, list = Shortened(shortlist, r.nodes, Current.target),
               NextQuery(list, r.nodes, queried, Current), UNCHANGED found
        PROVE  HoldersAsked'
    <3> SUFFICES ASSUME ~late, Current.kind = "value", found = None, NEW n \in queried' \cap had
                 PROVE  n = asking' /\ Query(n, Current) \in requests'
      BY <2>1, <2>2, <2>4 DEF HoldersAsked
    <3>1. queried \cap had = {}
      BY <2>1, <2>2, <2>4, NoneLeft
    <3>2. r.nodes \in SUBSET Node
      BY <1>0 DEF TypeOK
    <3>3. list \in Seq(Entry)
      BY <1>0, <2>2, <2>4, <3>2, ShortenedOf
    <3> QED BY <1>0, <2>2, <2>4, <3>1, <3>3, NextQueryAsks
  <2> QED BY <1>4, <2>3, <2>4 DEF Receive
<1>5. ASSUME NEW r \in replies, TickServer(r) PROVE HoldersAsked'
  <2>1. /\ asking = None /\ UNCHANGED <<turn, asking, queried, found, had, late>>
    BY <1>5 DEF TickServer, pending
  <2>2. None \notin queried \cap had
    BY <1>0, NoneIsNobody
  <2> QED BY <2>1, <2>2 DEF HoldersAsked, Current
<1>6. ASSUME NEW n \in Node, NEW key \in holds[n], Expire(n, key) PROVE HoldersAsked'
  <2>1. had' = had \ {n} /\ UNCHANGED <<turn, asking, queried, found, requests, replies, late>>
    BY <1>6 DEF Expire, pending
  <2> QED BY <2>1 DEF HoldersAsked, Current
<1>7. CASE UNCHANGED vars
  BY <1>7 DEF vars, pending, HoldersAsked, Current
<1> QED BY <1>1, <1>2, <1>3, <1>4, <1>5, <1>6, <1>7 DEF Next

LEMMA HoldersInvariant == Spec => [](LookupInv /\ HadHolds /\ HoldersAsked)
<1>1. Init => HadHolds /\ HoldersAsked
  BY DEF Init, HadHolds, HoldersAsked
<1>2. LookupInv => TypeOK
  BY DEF LookupInv
<1> QED BY <1>1, <1>2, LookupInvariant, FoundIsAsked, HoldsStep, HoldersStep, PTL DEF Spec

\* As long as nobody has answered too late, a lookup for a value that ends without
\* it has asked no live node that held it all the while: whoever is asked and
\* holds the value tells it, and its reply is the one recv_dht takes.
THEOREM AskedHoldersTell == Spec => []HoldersTell
<1>1. LookupInv /\ HoldersAsked => HoldersTell
  <2> SUFFICES ASSUME LookupInv, HoldersAsked, ~late, Ended, Current.kind = "value", found = None,
                      NEW n \in queried \cap had
               PROVE  FALSE
    BY DEF HoldersTell
  <2>1. n # None
    BY NoneIsNobody DEF LookupInv, TypeOK
  <2> QED BY <2>1 DEF HoldersAsked, Ended
<1> QED BY <1>1, HoldersInvariant, PTL

\* What store() put away is found if the nearest node that the lookup hears of
\* holds it all the while, with nobody answering too late: that node is asked
\* whatever the other replies were, and tells.
THEOREM NearestHolderFound ==
  Spec => [](~late /\ Ended /\ Current.kind = "value"
               /\ (\E n \in known \cap had : \A m \in known : ~Nearer(Current.target, m, n))
             => found = Current.target)
<1>1. HoldersTell /\ ClosestQueried /\ FoundForKey =>
        (~late /\ Ended /\ Current.kind = "value"
           /\ (\E n \in known \cap had : \A m \in known : ~Nearer(Current.target, m, n))
         => found = Current.target)
  BY DEF HoldersTell, ClosestQueried, FoundForKey
<1> QED BY <1>1, AskedHoldersTell, NearestIsQueried, ValueIsAskedFor, PTL

\* closest_nodes answers a lookup with the K closest nodes of the table when the
\* target's own bucket holds so many, and with all of that bucket otherwise:
\* bit by bit, none of the other buckets can hold a nearer node.
THEOREM OwnBucketIsAnswered == Spec => []OwnBucketAnswered
<1>1. TypeOK => OwnBucketAnswered
  <2> SUFFICES ASSUME TypeOK, NEW i \in DOMAIN Plan
               PROVE  LET target == Plan[i].target
                          own == {n \in table : Bucket(Me, n) = Bucket(Me, target)}
                          answer == ClosestNodes(table, Me, target, K)
                      IN IF Cardinality(own) >= K THEN answer = Closest(table, target, K)
                                                  ELSE own \subseteq answer
    BY DEF OwnBucketAnswered
  <2>1. table \in SUBSET Node /\ Me \in Identifier /\ K \in Nat \ {0}
    BY DhtAssumption DEF TypeOK
  <2>2. Plan[i].target \in Identifier
    <3>1. Plan \in Seq(Operation)
      BY DhtAssumption
    <3>2. Plan[i] \in Operation
      BY <3>1, ElementOfSeq, LenProperties
    <3> QED BY <3>2 DEF Operation
  <2> QED BY <2>1, <2>2, OwnBucketFirst
<1> QED BY <1>1, TypeCorrect, PTL
==============================================================================

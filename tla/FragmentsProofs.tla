--------------------------- MODULE FragmentsProofs ---------------------------
(***************************************************************************)
(* What is proved of Fragments for every set of packets, sizes of packets, *)
(* width of the numbers and size of a datagram.                            *)
(***************************************************************************)
EXTENDS Fragments, TLAPS

\* Where the datagrams on the wire come from.
Genuine == \A d \in wire : d \in Split(d.of) /\ d.of \in sent

\* What the receiver keeps of a small packet: chunks at their own numbers.
InPlace ==
  \A p \in Small :
    /\ pending[p].total \in {0, Chunks[p]}
    /\ \A j \in DOMAIN pending[p].slots : pending[p].slots[j] = j

Sound == TypeOK /\ Genuine /\ InPlace

-----------------------------------------------------------------------------
(* Casts to u8 *)

LEMMA CastType ==
  ASSUME NEW n \in Nat
  PROVE  n % U8 \in 0..U8 - 1
<1>1. U8 \in Nat /\ U8 > 1
  BY FragmentsAssumption
<1> QED BY <1>1, SMT

LEMMA CastKeeps ==
  ASSUME NEW n \in Nat, n < U8
  PROVE  n % U8 = n
<1>1. U8 \in Nat /\ U8 > 1
  BY FragmentsAssumption
<1> QED BY <1>1, SMT

\* A packet's pieces, and what a small packet's numbers are.
LEMMA SplitPieces ==
  ASSUME NEW p \in Packet, NEW d \in Split(p)
  PROVE  /\ d \in Datagram /\ d.of = p
         /\ d.fragment => /\ d.chunk \in 0..Chunks[p] - 1 /\ d.total > 1
                          /\ p \in Small => d.total = Chunks[p] /\ d.index = d.chunk
         /\ ~d.fragment => (p \in Small => Chunks[p] = 1)
<1>0. Chunks[p] \in Nat /\ Chunks[p] > 0 /\ U8 \in Nat /\ U8 > 1
  BY FragmentsAssumption
<1>1. Total(p) \in 0..U8 - 1 /\ (p \in Small => Total(p) = Chunks[p])
  BY <1>0, CastType, CastKeeps DEF Total, Small
<1>2. CASE Total(p) <= 1
  <2>1. d = Whole(p)
    BY <1>2 DEF Split
  <2>2. d \in Datagram /\ d.of = p /\ ~d.fragment
    BY <1>0, <2>1 DEF Whole, Datagram
  <2>3. p \in Small => Chunks[p] = 1
    BY <1>0, <1>1, <1>2
  <2> QED BY <2>2, <2>3
<1>3. CASE ~(Total(p) <= 1)
  <2>1. PICK i \in 0..Chunks[p] - 1 : d = Piece(p, i)
    BY <1>3 DEF Split
  <2>2. i \in Nat /\ i < Chunks[p]
    BY <1>0
  <2>3. Index(i) \in 0..U8 - 1
    BY <2>2, CastType DEF Index
  <2>4. p \in Small => Index(i) = i
    BY <1>0, <2>2, CastKeeps DEF Index, Small
  <2>5. d.of = p /\ d.fragment /\ d.index = Index(i) /\ d.total = Total(p) /\ d.chunk = i
    BY <2>1 DEF Piece
  <2>6. d \in Datagram
    BY <1>1, <2>1, <2>2, <2>3 DEF Piece, Datagram
  <2>7. Total(p) > 1
    BY <1>0, <1>1, <1>3
  <2> QED BY <1>1, <2>4, <2>5, <2>6, <2>7
<1> QED BY <1>2, <1>3

\* What a datagram that arrives is.
LEMMA Arriving ==
  ASSUME TypeOK, Genuine, NEW d \in wire
  PROVE  /\ d.of \in Packet /\ d.of \in sent
         /\ d.index \in 0..U8 - 1 /\ d.total \in 0..U8 - 1 /\ d.chunk \in Nat
         /\ d.fragment => /\ d.chunk \in 0..Chunks[d.of] - 1 /\ d.total > 1
                          /\ d.of \in Small => d.total = Chunks[d.of] /\ d.index = d.chunk
         /\ ~d.fragment => (d.of \in Small => Chunks[d.of] = 1)
<1>1. d \in Datagram /\ d.of \in Packet
  BY DEF TypeOK, Datagram
<1>2. d \in Split(d.of) /\ d.of \in sent
  BY DEF Genuine
<1> QED BY <1>1, <1>2, SplitPieces DEF Datagram

-----------------------------------------------------------------------------
(* What one datagram does to a reassembly *)

\* The slots that are kept when d comes: none, or all with d's own total.
LEMMA OpenedSlots ==
  ASSUME TypeOK, Genuine, NEW d \in wire, d.fragment
  PROVE  /\ Opened(d) = [total |-> d.total, slots |-> Opened(d).slots]
         /\ DOMAIN Opened(d).slots \subseteq 0..d.total - 1
         /\ \A j \in DOMAIN Opened(d).slots : Opened(d).slots[j] \in 0..Chunks[d.of] - 1
<1> DEFINE q == pending[d.of]
<1>1. d.of \in Packet /\ d.total \in 0..U8 - 1
  BY Arriving
<1>2. /\ q = [total |-> q.total, slots |-> q.slots]
      /\ DOMAIN q.slots \subseteq 0..q.total - 1
      /\ \A j \in DOMAIN q.slots : q.slots[j] \in 0..Chunks[d.of] - 1
  BY <1>1 DEF TypeOK
<1>3. CASE q.total = d.total
  <2>1. Opened(d) = q
    BY <1>3 DEF Opened
  <2> HIDE DEF q
  <2> QED BY <1>2, <1>3, <2>1
<1>4. CASE q.total # d.total
  <2>1. Opened(d) = [total |-> d.total, slots |-> <<>>]
    BY <1>4 DEF Opened
  <2>2. DOMAIN << >> = {}
    BY SMT
  <2> QED BY <2>1, <2>2
<1> QED BY <1>3, <1>4

\* Of a small packet nothing is dropped: the reassembly has the packet's total.
LEMMA OpenedInPlace ==
  ASSUME Sound, NEW d \in wire, d.fragment, d.of \in Small
  PROVE  /\ DOMAIN Opened(d).slots = DOMAIN pending[d.of].slots
         /\ \A j \in DOMAIN Opened(d).slots : Opened(d).slots[j] = j
<1> DEFINE q == pending[d.of]
<1>0. TypeOK /\ Genuine /\ InPlace
  BY DEF Sound
<1>1. d.of \in Packet /\ d.total = Chunks[d.of]
  BY <1>0, Arriving
<1>2. /\ q.total \in {0, Chunks[d.of]}
      /\ \A j \in DOMAIN q.slots : q.slots[j] = j
      /\ DOMAIN q.slots \subseteq 0..q.total - 1
  BY <1>0, <1>1 DEF TypeOK, InPlace
<1>3. CASE q.total = d.total
  <2>1. Opened(d) = q
    BY <1>3 DEF Opened
  <2> HIDE DEF q
  <2>2. Opened(d).slots = q.slots
    BY <2>1
  <2>3. QED BY <1>2, <2>2 DEF q
<1>4. CASE q.total # d.total
  <2>1. Opened(d) = [total |-> d.total, slots |-> <<>>]
    BY <1>4 DEF Opened
  <2>2. DOMAIN << >> = {}
    BY SMT
  <2>3. q.total = 0
    BY <1>1, <1>2, <1>4
  <2>4. DOMAIN q.slots = {}
    <3> HIDE DEF q
    <3> QED BY <1>2, <2>3
  <2> QED BY <2>1, <2>2, <2>4
<1> QED BY <1>3, <1>4

LEMMA StoredSlots ==
  ASSUME NEW slots, NEW d
  PROVE  /\ DOMAIN Stored(slots, d) = DOMAIN slots \cup {d.index}
         /\ Stored(slots, d)[d.index] = d.chunk
         /\ \A j \in DOMAIN slots : j # d.index => Stored(slots, d)[j] = slots[j]
  BY DEF Stored

\* What a step of feed() leaves and returns.
LEMMA FeedStores ==
  ASSUME TypeOK, Genuine, NEW d \in wire, Feed(d)
  PROVE  \E slots :
           /\ slots = Stored(Opened(d).slots, d)
           /\ pending' = [pending EXCEPT ![d.of] = [total |-> d.total, slots |-> slots]]
           /\ DOMAIN slots \subseteq 0..d.total - 1
           /\ \A j \in DOMAIN slots : slots[j] \in 0..Chunks[d.of] - 1
           /\ 0 \in DOMAIN slots /\ slots[0] = 0 /\ IsFull(slots, d.total)
                => returned' = [returned EXCEPT ![d.of] =
                                  @ \cup {[k \in 1..d.total |-> slots[k - 1]]}]
           /\ ~IsFull(slots, d.total) => returned' = returned
           /\ \/ returned' = returned
              \/ /\ IsFull(slots, d.total)
                 /\ returned' = [returned EXCEPT ![d.of] =
                                   @ \cup {[k \in 1..d.total |-> slots[k - 1]]}]
<1> DEFINE o == Opened(d).slots
<1> DEFINE s == Stored(o, d)
<1>1. d.fragment /\ d.index < d.total
  BY DEF Feed
<1>2. d.index \in Nat /\ d.total \in Nat /\ d.chunk \in 0..Chunks[d.of] - 1
  <2>1. U8 \in Nat
    BY FragmentsAssumption
  <2> QED BY <1>1, <2>1, Arriving
<1>3. /\ DOMAIN s = DOMAIN o \cup {d.index}
      /\ s[d.index] = d.chunk
      /\ \A j \in DOMAIN o : j # d.index => s[j] = o[j]
  <2> HIDE DEF o
  <2> QED BY StoredSlots DEF s
<1>4. /\ DOMAIN o \subseteq 0..d.total - 1
      /\ \A j \in DOMAIN o : o[j] \in 0..Chunks[d.of] - 1
  BY <1>1, OpenedSlots
<1> HIDE DEF o
<1>5. DOMAIN s \subseteq 0..d.total - 1
  <2>1. d.index \in 0..d.total - 1
    BY <1>1, <1>2
  <2> HIDE DEF s
  <2> QED BY <1>3, <1>4, <2>1
<1>6. \A j \in DOMAIN s : s[j] \in 0..Chunks[d.of] - 1
  <2> HIDE DEF s
  <2> SUFFICES ASSUME NEW j \in DOMAIN s PROVE s[j] \in 0..Chunks[d.of] - 1
    OBVIOUS
  <2>1. CASE j = d.index
    BY <1>2, <1>3, <2>1
  <2>2. CASE j # d.index
    BY <1>3, <1>4, <2>2
  <2> QED BY <2>1, <2>2
<1> HIDE DEF s
<1>7. PICK parsed \in BOOLEAN :
        /\ pending' = [pending EXCEPT ![d.of] = [total |-> d.total, slots |-> s]]
        /\ 0 \in DOMAIN s /\ s[0] = 0 => parsed
        /\ returned' = IF IsFull(s, d.total) /\ parsed
                         THEN [returned EXCEPT ![d.of] =
                                 @ \cup {[k \in 1..d.total |-> s[k - 1]]}]
                         ELSE returned
  BY DEF Feed, s, o
<1>8. s = Stored(Opened(d).slots, d)
  BY DEF s, o
<1> WITNESS s
<1> QED BY <1>5, <1>6, <1>7, <1>8

-----------------------------------------------------------------------------
(* Type correctness, with what is on the wire and in the slots *)

LEMMA InitSound == Init => Sound
<1> SUFFICES ASSUME Init PROVE Sound
  OBVIOUS
<1>1. U8 \in Nat /\ U8 > 1
  BY FragmentsAssumption
<1>2. DOMAIN << >> = {}
  BY SMT
<1>3. \A p \in Packet : pending[p] = [total |-> 0, slots |-> <<>>]
  BY DEF Init, NoReassembly
<1>4. \A p \in Packet : /\ pending[p].total = 0 /\ pending[p].slots = <<>>
                        /\ pending[p] = [total |-> pending[p].total, slots |-> pending[p].slots]
  BY <1>3
<1>5. returned \in [Packet -> SUBSET Seq(Nat)]
  BY DEF Init
<1>6. TypeOK
  <2>1. sent \subseteq Packet /\ wire \subseteq Datagram /\ DOMAIN pending = Packet
        /\ down \subseteq {"sender", "receiver"}
    BY DEF Init
  <2> QED BY <1>1, <1>2, <1>4, <1>5, <2>1 DEF TypeOK
<1>7. Genuine
  BY DEF Init, Genuine
<1>8. InPlace
  BY <1>2, <1>4 DEF InPlace, Small
<1> QED BY <1>6, <1>7, <1>8 DEF Sound

LEMMA GenuineStep ==
  ASSUME TypeOK, Genuine, [Next]_vars
  PROVE  Genuine'
<1>1. \A p \in Packet : Split(p) = Split(p)'
  BY DEF Split, Whole, Piece, Total, Index
<1>2. ASSUME NEW p \in Packet, Send(p) PROVE Genuine'
  <2>1. \A d \in Split(p) : d.of = p
    BY <1>2, SplitPieces
  <2>2. sent' = sent \cup {p} /\ wire' \subseteq wire \cup Split(p)
    BY <1>2 DEF Send
  <2> QED BY <2>1, <2>2 DEF Genuine, Split, Whole, Piece, Total, Index
<1>3. ASSUME wire' = wire, sent \subseteq sent' PROVE Genuine'
  BY <1>3 DEF Genuine, Split, Whole, Piece, Total, Index
<1>4. CASE \E p \in Packet : Send(p)
  BY <1>2, <1>4
<1>5. CASE ~\E p \in Packet : Send(p)
  <2>1. wire' = wire /\ sent \subseteq sent'
    BY <1>5 DEF Next, SplitPanics, EvictStale, ReceiveWhole, Feed, FeedPanics, vars
  <2> QED BY <2>1, <1>3
<1> QED BY <1>4, <1>5

\* A reassembly of the right shape takes a packet's place in pending.
LEMMA PendingKeepsType ==
  ASSUME TypeOK, NEW p \in Packet, NEW total \in 0..U8 - 1, NEW slots,
         DOMAIN slots \subseteq 0..total - 1,
         \A j \in DOMAIN slots : slots[j] \in 0..Chunks[p] - 1,
         pending' = [pending EXCEPT ![p] = [total |-> total, slots |-> slots]]
  PROVE  /\ DOMAIN pending' = Packet
         /\ \A r \in Packet :
              /\ pending'[r] = [total |-> pending'[r].total, slots |-> pending'[r].slots]
              /\ pending'[r].total \in 0..U8 - 1
              /\ DOMAIN pending'[r].slots \subseteq 0..pending'[r].total - 1
              /\ \A j \in DOMAIN pending'[r].slots : pending'[r].slots[j] \in 0..Chunks[r] - 1
<1>1. DOMAIN pending = Packet
  BY DEF TypeOK
<1>2. DOMAIN pending' = Packet
  BY <1>1
<1>3. pending'[p] = [total |-> total, slots |-> slots]
  BY <1>1
<1>4. pending'[p].total = total /\ pending'[p].slots = slots
  BY <1>3
<1>5. \A r \in Packet : r # p => pending'[r] = pending[r]
  BY <1>1
<1>6. ASSUME NEW r \in Packet
      PROVE  /\ pending'[r] = [total |-> pending'[r].total, slots |-> pending'[r].slots]
             /\ pending'[r].total \in 0..U8 - 1
             /\ DOMAIN pending'[r].slots \subseteq 0..pending'[r].total - 1
             /\ \A j \in DOMAIN pending'[r].slots : pending'[r].slots[j] \in 0..Chunks[r] - 1
  <2>1. CASE r = p
    BY <1>3, <1>4, <2>1
  <2>2. CASE r # p
    <3>1. pending'[r] = pending[r]
      BY <1>5, <2>2
    <3> QED BY <3>1 DEF TypeOK
  <2> QED BY <2>1, <2>2
<1> QED BY <1>2, <1>6

LEMMA TypeStep ==
  ASSUME TypeOK, Genuine, [Next]_vars
  PROVE  TypeOK'
<1>0. U8 \in Nat /\ U8 > 1 /\ Chunks \in [Packet -> Nat \ {0}]
  BY FragmentsAssumption
<1>1. ASSUME NEW p \in Packet, Send(p) PROVE TypeOK'
  <2>1. wire' \subseteq wire \cup Split(p) /\ sent' = sent \cup {p}
    BY <1>1 DEF Send
  <2>2. wire' \subseteq Datagram /\ sent' \subseteq Packet
    BY <2>1, SplitPieces DEF TypeOK
  <2> QED BY <1>1, <2>2 DEF TypeOK, Send
<1>2. ASSUME NEW p \in Packet, SplitPanics(p) PROVE TypeOK'
  BY <1>2 DEF TypeOK, SplitPanics
<1>3. ASSUME NEW p \in Packet, EvictStale(p) PROVE TypeOK'
  <2>1. pending' = [pending EXCEPT ![p] = [total |-> 0, slots |-> <<>>]]
    BY <1>3 DEF EvictStale, NoReassembly
  <2>2. DOMAIN << >> = {} /\ 0 \in 0..U8 - 1
    BY <1>0
  <2> QED BY <1>3, <2>1, <2>2, PendingKeepsType DEF TypeOK, EvictStale
<1>4. ASSUME NEW d \in wire, ReceiveWhole(d) PROVE TypeOK'
  <2>1. d.of \in Packet
    BY Arriving
  <2>2. Serialized(d.of) \in Seq(Nat)
    BY <1>0, <2>1 DEF Serialized
  <2>3. returned' \in [Packet -> SUBSET Seq(Nat)]
    BY <1>4, <2>1, <2>2 DEF TypeOK, ReceiveWhole
  <2> QED BY <1>4, <2>3 DEF TypeOK, ReceiveWhole
<1>5. ASSUME NEW d \in wire, Feed(d) PROVE TypeOK'
  <2>1. d.of \in Packet /\ d.total \in 0..U8 - 1 /\ d.total \in Nat
    BY <1>0, Arriving
  <2>2. PICK slots :
          /\ pending' = [pending EXCEPT ![d.of] = [total |-> d.total, slots |-> slots]]
          /\ DOMAIN slots \subseteq 0..d.total - 1
          /\ \A j \in DOMAIN slots : slots[j] \in 0..Chunks[d.of] - 1
          /\ \/ returned' = returned
             \/ /\ IsFull(slots, d.total)
                /\ returned' = [returned EXCEPT ![d.of] =
                                  @ \cup {[k \in 1..d.total |-> slots[k - 1]]}]
    BY <1>5, FeedStores
  <2>3. returned' \in [Packet -> SUBSET Seq(Nat)]
    <3>1. ASSUME IsFull(slots, d.total)
          PROVE  [k \in 1..d.total |-> slots[k - 1]] \in Seq(Nat)
      <4>1. \A k \in 1..d.total : slots[k - 1] \in 0..Chunks[d.of] - 1
        BY <2>1, <2>2, <3>1 DEF IsFull
      <4>2. \A k \in 1..d.total : slots[k - 1] \in Nat
        BY <1>0, <2>1, <4>1
      <4> QED BY <2>1, <4>2
    <3>2. returned \in [Packet -> SUBSET Seq(Nat)]
      BY DEF TypeOK
    <3>3. CASE returned' = returned
      BY <3>2, <3>3
    <3>4. CASE /\ IsFull(slots, d.total)
               /\ returned' = [returned EXCEPT ![d.of] =
                                 @ \cup {[k \in 1..d.total |-> slots[k - 1]]}]
      <4> DEFINE whole == [k \in 1..d.total |-> slots[k - 1]]
      <4>1. whole \in Seq(Nat)
        BY <3>1, <3>4
      <4>2. returned' = [returned EXCEPT ![d.of] = @ \cup {whole}]
        BY <3>4
      <4> HIDE DEF whole
      <4> QED BY <2>1, <3>2, <4>1, <4>2
    <3> QED BY <2>2, <3>3, <3>4
  <2>4. wire' = wire /\ sent' = sent /\ down' = down
    BY <1>5 DEF Feed
  <2> QED BY <2>1, <2>2, <2>3, <2>4, PendingKeepsType DEF TypeOK
<1>6. ASSUME NEW d \in wire, FeedPanics(d) PROVE TypeOK'
  <2>1. d.of \in Packet /\ d.total \in 0..U8 - 1 /\ d.fragment
    BY <1>6, Arriving DEF FeedPanics
  <2>2. pending' = [pending EXCEPT ![d.of] = [total |-> d.total, slots |-> Opened(d).slots]]
    BY <1>6, <2>1, OpenedSlots DEF FeedPanics
  <2>3. /\ DOMAIN Opened(d).slots \subseteq 0..d.total - 1
        /\ \A j \in DOMAIN Opened(d).slots : Opened(d).slots[j] \in 0..Chunks[d.of] - 1
    BY <2>1, OpenedSlots
  <2> QED BY <1>6, <2>1, <2>2, <2>3, PendingKeepsType DEF TypeOK, FeedPanics
<1>7. CASE UNCHANGED vars
  BY <1>7 DEF TypeOK, vars
<1> QED BY <1>1, <1>2, <1>3, <1>4, <1>5, <1>6, <1>7 DEF Next

\* What is stored of a small packet stands at its number in the slots.
LEMMA FeedInPlace ==
  ASSUME Sound, NEW d \in wire, Feed(d), d.of \in Small
  PROVE  \E slots :
           /\ pending' = [pending EXCEPT ![d.of] = [total |-> Chunks[d.of], slots |-> slots]]
           /\ DOMAIN slots = DOMAIN pending[d.of].slots \cup {d.chunk}
           /\ \A j \in DOMAIN slots : slots[j] = j
           /\ DOMAIN slots = 0..Chunks[d.of] - 1
                => returned' = [returned EXCEPT ![d.of] = @ \cup {Serialized(d.of)}]
           /\ DOMAIN slots # 0..Chunks[d.of] - 1 => returned' = returned
<1> DEFINE o == Opened(d).slots
<1> DEFINE s == Stored(o, d)
<1>0. TypeOK /\ Genuine /\ d.fragment
  BY DEF Sound, Feed
<1>1. /\ d.of \in Packet /\ d.total = Chunks[d.of] /\ d.index = d.chunk
      /\ Chunks[d.of] \in Nat /\ Chunks[d.of] > 0
  BY <1>0, Arriving, FragmentsAssumption
<1>2. /\ DOMAIN o = DOMAIN pending[d.of].slots
      /\ \A j \in DOMAIN o : o[j] = j
  BY <1>0, OpenedInPlace
<1> HIDE DEF o
<1>3. /\ DOMAIN s = DOMAIN o \cup {d.index}
      /\ s[d.index] = d.chunk
      /\ \A j \in DOMAIN o : j # d.index => s[j] = o[j]
  BY StoredSlots
<1> HIDE DEF s
<1>4. DOMAIN s = DOMAIN pending[d.of].slots \cup {d.chunk}
  BY <1>1, <1>2, <1>3
<1>5. \A j \in DOMAIN s : s[j] = j
  BY <1>1, <1>2, <1>3
<1>6. PICK slots :
        /\ slots = Stored(Opened(d).slots, d)
        /\ pending' = [pending EXCEPT ![d.of] = [total |-> d.total, slots |-> slots]]
        /\ 0 \in DOMAIN slots /\ slots[0] = 0 /\ IsFull(slots, d.total)
             => returned' = [returned EXCEPT ![d.of] =
                               @ \cup {[k \in 1..d.total |-> slots[k - 1]]}]
        /\ ~IsFull(slots, d.total) => returned' = returned
  BY <1>0, FeedStores
<1>7. slots = s
  BY <1>6 DEF s, o
<1>8. ASSUME DOMAIN s = 0..Chunks[d.of] - 1
      PROVE  returned' = [returned EXCEPT ![d.of] = @ \cup {Serialized(d.of)}]
  <2>1. 0 \in DOMAIN s /\ s[0] = 0
    BY <1>1, <1>5, <1>8
  <2>2. IsFull(s, d.total)
    BY <1>1, <1>8 DEF IsFull
  <2>3. \A k \in 1..Chunks[d.of] : k - 1 \in DOMAIN s /\ s[k - 1] = k - 1
    BY <1>1, <1>5, <1>8
  <2>4. [k \in 1..d.total |-> s[k - 1]] = Serialized(d.of)
    BY <1>1, <2>3 DEF Serialized
  <2> QED BY <1>6, <1>7, <2>1, <2>2, <2>4
<1>9. ASSUME DOMAIN s # 0..Chunks[d.of] - 1 PROVE returned' = returned
  BY <1>1, <1>6, <1>7, <1>9 DEF IsFull
<1> WITNESS s
<1> QED BY <1>1, <1>4, <1>5, <1>6, <1>7, <1>8, <1>9

\* A chunk of a small packet has a place, so no thread dies of it.
LEMMA SmallNeverPanics ==
  ASSUME Sound, NEW d \in wire, d.fragment, d.of \in Small
  PROVE  d.index < d.total
<1>1. d.chunk \in 0..Chunks[d.of] - 1 /\ d.total = Chunks[d.of] /\ d.index = d.chunk
      /\ d.of \in Packet
  BY Arriving DEF Sound
<1>2. Chunks[d.of] \in Nat
  BY <1>1, FragmentsAssumption
<1> QED BY <1>1, <1>2

LEMMA InPlaceStep ==
  ASSUME Sound, [Next]_vars
  PROVE  InPlace'
<1>0. TypeOK /\ Genuine /\ InPlace /\ DOMAIN pending = Packet
  BY DEF Sound, TypeOK
<1>1. ASSUME NEW p \in Packet, EvictStale(p) PROVE InPlace'
  <2>1. pending' = [pending EXCEPT ![p] = [total |-> 0, slots |-> <<>>]]
    BY <1>1 DEF EvictStale, NoReassembly
  <2>2. pending'[p].total = 0 /\ pending'[p].slots = <<>>
        /\ \A r \in Packet : r # p => pending'[r] = pending[r]
    BY <1>0, <2>1
  <2>3. DOMAIN << >> = {}
    BY SMT
  <2> QED BY <1>0, <2>2, <2>3 DEF InPlace, Small
<1>2. ASSUME NEW d \in wire, Feed(d) PROVE InPlace'
  <2>0. d.of \in Packet
    BY <1>0, Arriving
  <2>1. CASE d.of \in Small
    <3>1. PICK slots :
            /\ pending' = [pending EXCEPT ![d.of] = [total |-> Chunks[d.of], slots |-> slots]]
            /\ \A j \in DOMAIN slots : slots[j] = j
      BY <1>2, <2>1, FeedInPlace
    <3>2. /\ pending'[d.of].total = Chunks[d.of] /\ pending'[d.of].slots = slots
          /\ \A r \in Packet : r # d.of => pending'[r] = pending[r]
      BY <1>0, <2>0, <3>1
    <3> QED BY <1>0, <3>1, <3>2 DEF InPlace, Small
  <2>2. CASE d.of \notin Small
    <3>1. \A r \in Small : pending'[r] = pending[r]
      BY <1>0, <1>2, <2>0, <2>2 DEF Feed, Small
    <3> QED BY <1>0, <3>1 DEF InPlace, Small
  <2> QED BY <2>1, <2>2
<1>3. ASSUME NEW d \in wire, FeedPanics(d) PROVE InPlace'
  <2>0. d.of \in Packet
    BY <1>0, Arriving
  <2>1. d.of \notin Small
    <3>1. d.fragment /\ d.index >= d.total
      BY <1>3 DEF FeedPanics
    <3>2. d.index \in Int /\ d.total \in Int
      BY <1>0, Arriving, FragmentsAssumption
    <3> QED BY <3>1, <3>2, SmallNeverPanics
  <2>2. \A r \in Small : pending'[r] = pending[r]
    BY <1>0, <1>3, <2>0, <2>1 DEF FeedPanics, Small
  <2> QED BY <1>0, <2>2 DEF InPlace, Small
<1>4. ASSUME pending' = pending PROVE InPlace'
  BY <1>0, <1>4 DEF InPlace, Small
<1> QED BY <1>1, <1>2, <1>3, <1>4 DEF Next, Send, SplitPanics, ReceiveWhole, vars

LEMMA SoundHolds == Spec => []Sound
<1>1. ASSUME Sound, [Next]_vars PROVE Sound'
  <2>1. TypeOK /\ Genuine
    BY <1>1 DEF Sound
  <2>2. TypeOK' /\ Genuine' /\ InPlace'
    BY <1>1, <2>1, TypeStep, GenuineStep, InPlaceStep
  <2> QED BY <2>2 DEF Sound
<1> QED BY <1>1, InitSound, PTL DEF Spec

\* The variables keep their types and a reassembly its size: no chunk is stored
\* beyond the vector that feed() made for the packet's total.
THEOREM TypeCorrect == Spec => []TypeOK
<1>1. Sound => TypeOK
  BY DEF Sound
<1> QED BY <1>1, SoundHolds, PTL

-----------------------------------------------------------------------------
(* What is put together *)

LEMMA AssembledStep ==
  ASSUME Sound, AssembledIsSent, [Next]_vars
  PROVE  AssembledIsSent'
<1>0. TypeOK /\ Genuine /\ returned \in [Packet -> SUBSET Seq(Nat)]
  BY DEF Sound, TypeOK
<1>1. ASSUME NEW p \in Packet, returned' = [returned EXCEPT ![p] = @ \cup {Serialized(p)}]
      PROVE  AssembledIsSent'
  BY <1>0, <1>1 DEF AssembledIsSent, Small, Serialized
<1>2. ASSUME returned' = returned PROVE AssembledIsSent'
  BY <1>2 DEF AssembledIsSent, Small, Serialized
<1>3. ASSUME NEW d \in wire, ReceiveWhole(d) PROVE AssembledIsSent'
  BY <1>0, <1>1, <1>3, Arriving DEF ReceiveWhole
<1>4. ASSUME NEW d \in wire, Feed(d) PROVE AssembledIsSent'
  <2>0. d.of \in Packet
    BY <1>0, Arriving
  <2>1. CASE d.of \in Small
    <3>1. \/ returned' = [returned EXCEPT ![d.of] = @ \cup {Serialized(d.of)}]
          \/ returned' = returned
      BY <1>4, <2>1, FeedInPlace
    <3> QED BY <1>1, <1>2, <2>0, <3>1
  <2>2. CASE d.of \notin Small
    <3>1. \A r \in Small : returned'[r] = returned[r]
      BY <1>0, <1>4, <2>0, <2>2 DEF Feed, Small
    <3> QED BY <3>1 DEF AssembledIsSent, Small, Serialized
  <2> QED BY <2>1, <2>2
<1> QED BY <1>2, <1>3, <1>4 DEF Next, Send, SplitPanics, FeedPanics, EvictStale, vars

\* What feed() returns of a packet of at most 255 chunks is that packet, however
\* its pieces were delayed, repeated or lost and whatever was evicted meanwhile.
THEOREM AssembledPackets == Spec => []AssembledIsSent
<1>1. Init => AssembledIsSent
  BY DEF Init, AssembledIsSent, Small
<1>2. Sound /\ AssembledIsSent /\ [Next]_vars => AssembledIsSent'
  BY AssembledStep
<1> QED BY <1>1, <1>2, SoundHolds, PTL DEF Spec

\* Neither end panics over a fragment unless a larger packet was sent.
THEOREM PanicsNeedLargePackets == Spec => []OnlyLargePanic
<1>1. Init => OnlyLargePanic
  BY DEF Init, OnlyLargePanic
<1>2. ASSUME Sound, OnlyLargePanic, [Next]_vars PROVE OnlyLargePanic'
  <2>0. TypeOK /\ Genuine
    BY <1>2 DEF Sound
  <2>1. ASSUME NEW p \in Packet, SplitPanics(p) PROVE OnlyLargePanic'
    <3>1. p \notin Small
      <4>1. Chunks[p] >= U8 /\ Chunks[p] \in Nat /\ U8 \in Nat
        BY <2>1, FragmentsAssumption DEF SplitPanics, Overflows
      <4> QED BY <4>1 DEF Small
    <3>2. p \in sent'
      BY <2>1 DEF SplitPanics
    <3> QED BY <3>1, <3>2 DEF OnlyLargePanic, Small
  <2>2. ASSUME NEW d \in wire, FeedPanics(d) PROVE OnlyLargePanic'
    <3>1. d.fragment /\ d.index >= d.total /\ sent' = sent
      BY <2>2 DEF FeedPanics
    <3>2. d.index \in Int /\ d.total \in Int /\ d.of \in sent
      BY <2>0, Arriving, FragmentsAssumption
    <3>3. d.of \notin Small
      BY <1>2, <3>1, <3>2, SmallNeverPanics
    <3> QED BY <3>1, <3>2, <3>3 DEF OnlyLargePanic, Small
  <2>3. ASSUME down' = down, sent \subseteq sent' PROVE OnlyLargePanic'
    BY <1>2, <2>3 DEF OnlyLargePanic, Small
  <2> QED BY <1>2, <2>1, <2>2, <2>3
        DEF Next, Send, EvictStale, ReceiveWhole, Feed, vars
<1> QED BY <1>1, <1>2, SoundHolds, PTL DEF Spec

-----------------------------------------------------------------------------
(* Fragments implements Reassembly *)

\* What the receiver has put together, and has gathered, of the small packets.
Assembled == {p \in Small : returned[p] # {}}
GatheredSmall == [p \in Small |-> Gathered(p)]

LEMMA InitReassembles == Init => R!Init
<1> SUFFICES ASSUME Init PROVE R!Init
  OBVIOUS
<1>1. sent \cap Small = {}
  BY DEF Init
<1>2. \A p \in Small : Gathered(p) = {}
  <2>1. \A p \in Small : pending[p].slots = <<>>
    BY DEF Init, NoReassembly, Small
  <2>2. DOMAIN << >> = {}
    BY SMT
  <2> QED BY <2>1, <2>2 DEF Gathered
<1>3. {p \in Small : returned[p] # {}} = {}
  BY DEF Init, Small
<1> QED BY <1>1, <1>2, <1>3 DEF R!Init

\* Only p's reassembly changes.
LEMMA GatheredOne ==
  ASSUME TypeOK, NEW p \in Small, NEW total, NEW slots,
         pending' = [pending EXCEPT ![p] = [total |-> total, slots |-> slots]]
  PROVE  GatheredSmall' = [GatheredSmall EXCEPT ![p] = {i + 1 : i \in DOMAIN slots}]
<1>1. DOMAIN pending = Packet /\ p \in Packet
  BY DEF TypeOK, Small
<1>2. pending'[p] = [total |-> total, slots |-> slots]
  BY <1>1
<1>3. pending'[p].slots = slots
  BY <1>2
<1>4. \A r \in Small : r # p => pending'[r] = pending[r]
  BY <1>1 DEF Small
<1>5. Gathered(p)' = {i + 1 : i \in DOMAIN slots}
  BY <1>3 DEF Gathered
<1>6. \A r \in Small : r # p => Gathered(r)' = Gathered(r)
  BY <1>4 DEF Gathered
<1>7. GatheredSmall' = [r \in Small |-> IF r = p THEN {i + 1 : i \in DOMAIN slots}
                                                 ELSE Gathered(r)]
  BY <1>5, <1>6 DEF GatheredSmall, Small
<1> QED BY <1>7 DEF GatheredSmall

\* Of the other packets nothing shows.
LEMMA LargeStutters ==
  ASSUME \A p \in Small : pending'[p].slots = pending[p].slots /\ returned'[p] = returned[p],
         sent' \cap Small = sent \cap Small
  PROVE  /\ GatheredSmall' = GatheredSmall
         /\ Assembled' = Assembled
         /\ (sent \cap Small)' = sent \cap Small
<1>1. \A p \in Small : Gathered(p)' = Gathered(p)
  BY DEF Gathered
<1> QED BY <1>1 DEF GatheredSmall, Assembled, Small

LEMMA StutterMaps ==
  ASSUME GatheredSmall' = GatheredSmall, Assembled' = Assembled,
         (sent \cap Small)' = sent \cap Small
  PROVE  UNCHANGED R!vars
  BY DEF R!vars, GatheredSmall, Assembled

\* A piece that is fed: it is gathered, and the packet given out with the last.
LEMMA FeedMaps ==
  ASSUME Sound, NEW d \in wire, Feed(d), d.of \in Small
  PROVE  R!Next
<1> DEFINE p == d.of
           i == d.chunk + 1
<1>0. TypeOK /\ Genuine /\ d.fragment /\ sent' = sent
  BY DEF Sound, Feed
<1>1. /\ p \in Packet /\ p \in sent /\ d.chunk \in 0..Chunks[p] - 1
      /\ Chunks[p] > 1 /\ Chunks[p] \in Nat
  BY <1>0, Arriving, FragmentsAssumption
<1>2. i \in 1..Chunks[p]
  BY <1>1
<1>3. PICK slots :
        /\ pending' = [pending EXCEPT ![p] = [total |-> Chunks[p], slots |-> slots]]
        /\ DOMAIN slots = DOMAIN pending[p].slots \cup {d.chunk}
        /\ DOMAIN slots = 0..Chunks[p] - 1
             => returned' = [returned EXCEPT ![p] = @ \cup {Serialized(p)}]
        /\ DOMAIN slots # 0..Chunks[p] - 1 => returned' = returned
  BY FeedInPlace
<1> DEFINE G == {j + 1 : j \in DOMAIN slots}
<1>4. GatheredSmall' = [GatheredSmall EXCEPT ![p] = G]
  BY <1>0, <1>3, GatheredOne
<1>5. G = Gathered(p) \cup {i}
  BY <1>3 DEF Gathered
<1>6. GatheredSmall[p] = Gathered(p)
  BY DEF GatheredSmall
<1>7. G = 1..Chunks[p] <=> DOMAIN slots = 0..Chunks[p] - 1
  <2> DEFINE D == DOMAIN slots
  <2>1. D \subseteq Int
    <3>1. DOMAIN pending[p].slots \subseteq 0..pending[p].total - 1
      BY <1>0, <1>1 DEF TypeOK
    <3> QED BY <1>1, <1>3, <3>1
  <2> HIDE DEF D
  <2>2. ASSUME D = 0..Chunks[p] - 1 PROVE {j + 1 : j \in D} = 1..Chunks[p]
    <3>1. \A k \in 1..Chunks[p] : k - 1 \in D /\ (k - 1) + 1 = k
      BY <1>1, <2>2
    <3>2. \A j \in D : j + 1 \in 1..Chunks[p]
      BY <1>1, <2>2
    <3> QED BY <3>1, <3>2
  <2>3. ASSUME {j + 1 : j \in D} = 1..Chunks[p] PROVE D = 0..Chunks[p] - 1
    <3>1. \A j \in D : j + 1 \in 1..Chunks[p]
      BY <2>3
    <3>2. D \subseteq 0..Chunks[p] - 1
      BY <1>1, <2>1, <3>1
    <3>3. ASSUME NEW k \in 0..Chunks[p] - 1 PROVE k \in D
      <4>0. k + 1 \in 1..Chunks[p]
        BY <1>1
      <4>1. k + 1 \in {j + 1 : j \in D}
        BY <2>3, <4>0
      <4>2. PICK j \in D : j + 1 = k + 1
        BY <4>1
      <4> QED BY <2>1, <4>2
    <3> QED BY <3>2, <3>3
  <2> QED BY <2>2, <2>3 DEF D
<1>8. returned \in [Packet -> SUBSET Seq(Nat)]
  BY <1>0 DEF TypeOK
<1>9. Assembled' = IF G = 1..Chunks[p] THEN Assembled \cup {p} ELSE Assembled
  <2>1. CASE G = 1..Chunks[p]
    <3>1. returned' = [returned EXCEPT ![p] = @ \cup {Serialized(p)}]
      BY <1>3, <1>7, <2>1
    <3> HIDE DEF G
    <3> QED BY <1>1, <1>8, <2>1, <3>1 DEF Assembled, Small
  <2>2. CASE G # 1..Chunks[p]
    <3>1. returned' = returned
      BY <1>3, <1>7, <2>2
    <3> HIDE DEF G
    <3> QED BY <2>2, <3>1 DEF Assembled, Small
  <2> QED BY <2>1, <2>2
<1> HIDE DEF G, i
<1>10. (sent \cap Small)' = sent \cap Small
  BY <1>0 DEF Small
<1>11. R!Arrive(p, i)
  <2>1. GatheredSmall' = [GatheredSmall EXCEPT ![p] = GatheredSmall[p] \cup {i}]
    BY <1>4, <1>5, <1>6
  <2>2. Assembled' = IF GatheredSmall[p] \cup {i} = 1..Chunks[p]
                       THEN Assembled \cup {p} ELSE Assembled
    BY <1>5, <1>6, <1>9
  <2> QED BY <1>1, <1>10, <2>1, <2>2 DEF R!Arrive, GatheredSmall, Assembled
<1> QED BY <1>2, <1>11 DEF R!Next

LEMMA StepReassembles ==
  ASSUME Sound, [Next]_vars
  PROVE  [R!Next]_(R!vars)
<1>0. /\ TypeOK /\ Genuine /\ DOMAIN pending = Packet
      /\ returned \in [Packet -> SUBSET Seq(Nat)]
  BY DEF Sound, TypeOK
<1>1. ASSUME NEW p \in Packet, Send(p) PROVE [R!Next]_(R!vars)
  <2>1. GatheredSmall' = GatheredSmall /\ Assembled' = Assembled
    BY <1>1 DEF Send, GatheredSmall, Gathered, Assembled, Small
  <2>2. CASE p \in Small
    <3>1. (sent \cap Small)' = (sent \cap Small) \cup {p}
      BY <1>1, <2>2 DEF Send, Small
    <3>2. R!Send(p)
      BY <2>1, <3>1 DEF R!Send, GatheredSmall, Assembled
    <3> QED BY <2>2, <3>2 DEF R!Next
  <2>3. CASE p \notin Small
    <3>1. (sent \cap Small)' = sent \cap Small
      BY <1>1, <2>3 DEF Send, Small
    <3> QED BY <2>1, <3>1, StutterMaps
  <2> QED BY <2>2, <2>3
<1>2. ASSUME NEW p \in Packet, SplitPanics(p) PROVE [R!Next]_(R!vars)
  <2>1. p \notin Small
    <3>1. Chunks[p] >= U8 /\ Chunks[p] \in Nat /\ U8 \in Nat
      BY <1>2, FragmentsAssumption DEF SplitPanics, Overflows
    <3> QED BY <3>1 DEF Small
  <2>2. sent' \cap Small = sent \cap Small /\ pending' = pending /\ returned' = returned
    BY <1>2, <2>1 DEF SplitPanics
  <2> QED BY <2>2, LargeStutters, StutterMaps
<1>3. ASSUME NEW p \in Packet, EvictStale(p) PROVE [R!Next]_(R!vars)
  <2>1. pending' = [pending EXCEPT ![p] = [total |-> 0, slots |-> <<>>]]
        /\ sent' = sent /\ returned' = returned
    BY <1>3 DEF EvictStale, NoReassembly
  <2>2. CASE p \in Small
    <3>1. GatheredSmall' = [GatheredSmall EXCEPT ![p] = {j + 1 : j \in DOMAIN << >>}]
      BY <1>0, <2>1, <2>2, GatheredOne
    <3>2. {j + 1 : j \in DOMAIN << >>} = {}
      <4>1. DOMAIN << >> = {}
        BY SMT
      <4> QED BY <4>1
    <3>3. (sent \cap Small)' = sent \cap Small /\ Assembled' = Assembled
      BY <2>1 DEF Assembled, Small
    <3>4. R!Drop(p)
      BY <3>1, <3>2, <3>3 DEF R!Drop, GatheredSmall, Assembled
    <3> QED BY <2>2, <3>4 DEF R!Next
  <2>3. CASE p \notin Small
    <3>1. \A r \in Small : pending'[r].slots = pending[r].slots
      BY <1>0, <2>1, <2>3 DEF Small
    <3> QED BY <2>1, <3>1, LargeStutters, StutterMaps
  <2> QED BY <2>2, <2>3
<1>4. ASSUME NEW d \in wire, ReceiveWhole(d) PROVE [R!Next]_(R!vars)
  <2>1. d.of \in Packet /\ d.of \in sent /\ ~d.fragment /\ sent' = sent /\ pending' = pending
        /\ returned' = [returned EXCEPT ![d.of] = @ \cup {Serialized(d.of)}]
    BY <1>0, <1>4, Arriving DEF ReceiveWhole
  <2>2. CASE d.of \in Small
    <3>1. Chunks[d.of] = 1
      BY <1>0, <2>1, <2>2, Arriving
    <3>2. Assembled' = Assembled \cup {d.of}
      BY <1>0, <2>1, <2>2 DEF Assembled, Small
    <3>3. (sent \cap Small)' = sent \cap Small /\ GatheredSmall' = GatheredSmall
      BY <2>1 DEF GatheredSmall, Gathered, Small
    <3>4. R!ArriveWhole(d.of)
      BY <2>1, <2>2, <3>1, <3>2, <3>3 DEF R!ArriveWhole, GatheredSmall, Assembled
    <3> QED BY <2>2, <3>4 DEF R!Next
  <2>3. CASE d.of \notin Small
    <3>1. \A r \in Small : returned'[r] = returned[r]
      BY <1>0, <2>1, <2>3 DEF Small
    <3> QED BY <2>1, <3>1, LargeStutters, StutterMaps
  <2> QED BY <2>2, <2>3
<1>5. ASSUME NEW d \in wire, Feed(d) PROVE [R!Next]_(R!vars)
  <2>1. CASE d.of \in Small
    BY <1>5, <2>1, FeedMaps
  <2>2. CASE d.of \notin Small
    <3>1. d.of \in Packet
      BY <1>0, Arriving
    <3>2. \A r \in Small : pending'[r] = pending[r] /\ returned'[r] = returned[r]
      BY <1>0, <1>5, <2>2, <3>1 DEF Feed, Small
    <3>3. sent' = sent
      BY <1>5 DEF Feed
    <3> QED BY <3>2, <3>3, LargeStutters, StutterMaps
  <2> QED BY <2>1, <2>2
<1>6. ASSUME NEW d \in wire, FeedPanics(d) PROVE [R!Next]_(R!vars)
  <2>1. d.of \in Packet
    BY <1>0, Arriving
  <2>2. d.of \notin Small
    <3>1. d.fragment /\ d.index >= d.total
      BY <1>6 DEF FeedPanics
    <3>2. d.index \in Int /\ d.total \in Int
      BY <1>0, Arriving, FragmentsAssumption
    <3> QED BY <3>1, <3>2, SmallNeverPanics
  <2>3. \A r \in Small : pending'[r] = pending[r]
    BY <1>0, <1>6, <2>1, <2>2 DEF FeedPanics, Small
  <2>4. sent' = sent /\ returned' = returned
    BY <1>6 DEF FeedPanics
  <2> QED BY <2>3, <2>4, LargeStutters, StutterMaps
<1>7. CASE UNCHANGED vars
  BY <1>7, LargeStutters, StutterMaps DEF vars
<1> QED BY <1>1, <1>2, <1>3, <1>4, <1>5, <1>6, <1>7 DEF Next

\* Slots, totals and indices do what Reassembly says of sets of pieces: a packet
\* comes out when all its pieces have been gathered, in any order and number, and
\* pieces of one packet never count for another.
THEOREM FragmentsReassemble == Spec => RefinesReassembly
<1> QED BY InitReassembles, StepReassembles, SoundHolds, PTL
        DEF Spec, RefinesReassembly, R!Spec
=============================================================================

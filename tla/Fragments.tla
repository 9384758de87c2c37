------------------------------ MODULE Fragments ------------------------------
(***************************************************************************)
(* src/transport/fragment.rs with the part of reliable.rs that calls it:   *)
(* how a packet is cut into chunks that are numbered in a u8, and how the  *)
(* receiver puts them together.  A datagram on the wire may arrive any     *)
(* number of times, in any order or never.                                 *)
(*                                                                         *)
(* A definition marked `deviation' is a mistake the code could have made   *)
(* in place of the one that follows it; no action uses it.                 *)
(***************************************************************************)
EXTENDS Integers, Sequences, FiniteSets

CONSTANTS
  Packet,           \* packets of one sender, each sent once
  Chunks,           \* [Packet -> chunks of MAX_CHUNK bytes its bytes fill]
  U8,               \* values of the type of an index and a total (256)
  MaxDatagram,      \* chunks a datagram can hold (54)
  OverflowChecks    \* whether arithmetic overflow panics: the builds considered

ASSUME FragmentsAssumption ==
  /\ Chunks \in [Packet -> Nat \ {0}]
  /\ U8 \in Nat /\ U8 > 1 /\ MaxDatagram \in 1..U8 - 1
  /\ OverflowChecks \in (SUBSET BOOLEAN) \ {{}}

VARIABLES
  sent,             \* packets given to send()
  wire,             \* datagrams that were sent
  pending,          \* [Packet -> its PendingReassembly at the receiver]
  returned,         \* history: [Packet -> what feed() returned, by its chunks]
  down              \* threads that have panicked

vars == <<sent, wire, pending, returned, down>>

\* A packet's bytes, by the numbers of its chunks.
Serialized(p) == [k \in 1..Chunks[p] |-> k - 1]

Datagram == [of : Packet, fragment : BOOLEAN, index : 0..U8 - 1, total : 0..U8 - 1, chunk : Nat]
NoReassembly == [total |-> 0, slots |-> <<>>]

TypeOK ==
  /\ sent \subseteq Packet /\ wire \subseteq Datagram
  /\ DOMAIN pending = Packet
  /\ \A p \in Packet :
       /\ pending[p] = [total |-> pending[p].total, slots |-> pending[p].slots]
       /\ pending[p].total \in 0..U8 - 1
       /\ DOMAIN pending[p].slots \subseteq 0..pending[p].total - 1
       /\ \A i \in DOMAIN pending[p].slots : pending[p].slots[i] \in 0..Chunks[p] - 1
  /\ returned \in [Packet -> SUBSET Seq(Nat)]
  /\ down \subseteq {"sender", "receiver"}

Init ==
  /\ sent = {} /\ wire = {} /\ down = {}
  /\ pending = [p \in Packet |-> NoReassembly]
  /\ returned = [p \in Packet |-> {}]

\* The number of chunks, cast to u8.
Total(p) == Chunks[p] % U8

IndexFromOne(i) == (i + 1) % U8                             \* deviation
Index(i) == i % U8

\* split_packet: a packet whose total is at most 1 goes as it is.
Whole(p) == [of |-> p, fragment |-> FALSE, index |-> 0, total |-> 0, chunk |-> 0]
Piece(p, i) == [of |-> p, fragment |-> TRUE, index |-> Index(i), total |-> Total(p), chunk |-> i]
Split(p) == IF Total(p) <= 1 THEN {Whole(p)} ELSE {Piece(p, i) : i \in 0..Chunks[p] - 1}

\* idx + 1 is computed in a u8 for every chunk of a packet that is split.
Overflows(p) == Total(p) > 1 /\ Chunks[p] >= U8

\* send(): send_to fails for a packet that is whole and larger than a datagram.
Send(p) ==
  /\ p \notin sent /\ "sender" \notin down
  /\ Overflows(p) => FALSE \in OverflowChecks
  /\ sent' = sent \cup {p}
  /\ wire' = wire \cup {d \in Split(p) : d.fragment \/ Chunks[p] <= MaxDatagram}
  /\ UNCHANGED <<pending, returned, down>>

SplitPanics(p) ==
  /\ p \notin sent /\ "sender" \notin down
  /\ Overflows(p) /\ TRUE \in OverflowChecks
  /\ sent' = sent \cup {p} /\ down' = down \cup {"sender"}
  /\ UNCHANGED <<wire, pending, returned>>

\* A datagram that is no fragment is not fed.
ReceiveWhole(d) ==
  /\ ~d.fragment /\ "receiver" \notin down
  /\ returned' = [returned EXCEPT ![d.of] = @ \cup {Serialized(d.of)}]
  /\ UNCHANGED <<sent, wire, pending, down>>

\* The reassembly feed() finds, makes, or makes anew when the totals differ.
OpenedAfresh(d) == [total |-> d.total, slots |-> <<>>]      \* deviation
Opened(d) ==
  IF pending[d.of].total = d.total THEN pending[d.of] ELSE [total |-> d.total, slots |-> <<>>]
StoredByArrival(slots, d) ==                                \* deviation
  [i \in DOMAIN slots \cup {Cardinality(DOMAIN slots)} |->
     IF i \in DOMAIN slots THEN slots[i] ELSE d.chunk]
Stored(slots, d) ==
  [i \in DOMAIN slots \cup {d.index} |-> IF i = d.index THEN d.chunk ELSE slots[i]]

IsFull(slots, total) == DOMAIN slots = 0..total - 1

\* Reassembler::feed.  A complete reassembly stays; what it holds is parsed as a
\* packet, which cannot fail if it begins with the first chunk.
Feed(d) ==
  /\ d.fragment /\ "receiver" \notin down /\ d.index < d.total
  /\ \E slots \in {Stored(Opened(d).slots, d)} :
       /\ pending' = [pending EXCEPT ![d.of] = [total |-> d.total, slots |-> slots]]
       /\ \E parsed \in BOOLEAN :
            /\ 0 \in DOMAIN slots /\ slots[0] = 0 => parsed
            /\ returned' = IF IsFull(slots, d.total) /\ parsed
                             THEN [returned EXCEPT ![d.of] =
                                     @ \cup {[k \in 1..d.total |-> slots[k - 1]]}]
                             ELSE returned
  /\ UNCHANGED <<sent, wire, down>>

\* The index is outside the vector: the receive thread dies, with the
\* reassembler locked.
FeedPanics(d) ==
  /\ d.fragment /\ "receiver" \notin down /\ d.index >= d.total
  /\ pending' = [pending EXCEPT ![d.of] = Opened(d)]
  /\ down' = down \cup {"receiver"}
  /\ UNCHANGED <<sent, wire, returned>>

\* evict_stale: ENTRY_TIMEOUT after it was opened, whatever it holds.
EvictStale(p) ==
  /\ pending[p] # NoReassembly /\ "receiver" \notin down
  /\ pending' = [pending EXCEPT ![p] = NoReassembly]
  /\ UNCHANGED <<sent, wire, returned, down>>

Next ==
  \/ \E p \in Packet : Send(p) \/ SplitPanics(p) \/ EvictStale(p)
  \/ \E d \in wire : ReceiveWhole(d) \/ Feed(d) \/ FeedPanics(d)

Spec == Init /\ [][Next]_vars

-----------------------------------------------------------------------------
\* Packets whose number of chunks a u8 holds.
Small == {p \in Packet : Chunks[p] < U8}

\* What feed() makes of the pieces of a packet is that packet, however they came
\* and whichever reassemblies were dropped in between: at most 255 chunks.
AssembledIsSent == \A p \in Small : returned[p] \subseteq {Serialized(p)}

\* No thread dies of fragments, but for packets of more chunks than that.
OnlyLargePanic == down # {} => sent \ Small # {}

\* For those packets, slots, indices and totals come to what Reassembly says.
Gathered(p) == {i + 1 : i \in DOMAIN pending[p].slots}
R == INSTANCE Reassembly WITH
       Packet <- Small,
       Pieces <- Chunks,
       sent <- sent \cap Small,
       gathered <- [p \in Small |-> Gathered(p)],
       assembled <- {p \in Small : returned[p] # {}}
RefinesReassembly == R!Spec
=============================================================================

-------------------------- MODULE ReliableTransport -------------------------
(***************************************************************************)
(* src/transport/reliable.rs with src/transport/fragment.rs: UDP with      *)
(* fragmentation, retransmission, duplicate suppression and signed         *)
(* acknowledgements, between any number of nodes.                          *)
(*                                                                         *)
(* Each node runs a receive thread (ReceiveData, ReceiveAck, Timeout), the *)
(* sort thread of runtime.rs, the only caller of send and confirm (Send,   *)
(* WritePiece, Register, SocketError, Confirm), and the application thread *)
(* (Handle, LearnKey).  They share `pending' and `peerKeys'.  send() is    *)
(* split where another thread can step in: after send_to and before the    *)
(* insertion in pending.                                                   *)
(*                                                                         *)
(* An id is <<p, 0>> for packet p sent whole and <<p, i>> for its i-th     *)
(* fragment: the code draws all of them at random, so they are distinct.   *)
(*                                                                         *)
(* A definition marked `deviation' is no part of the specification: it is  *)
(* a mistake the code could have contained in place of the definition that *)
(* follows it, kept to show which property notices.                        *)
(***************************************************************************)
EXTENDS Integers, FiniteSets, Sequences

CONSTANTS
  Node,           \* processes, each with one socket
  Packet,         \* packets, each handed to send() once
  Src, Dst,       \* [Packet -> Node]
  Chunks,         \* [Packet -> pieces split_packet makes]; 1: sent whole
  Key, NoKey,     \* Ed25519 public keys, and the absence of one
  SignKey,        \* [Node -> key the node signs its acks with, or NoKey]
  CertKey,        \* [Node -> device key in the node's certificate]
  MaxRetries,     \* MAX_RETRIES (5)
  RetryDelay,     \* RETRY_DELAY (2 s), in ticks
  DedupTTL,       \* dedup_ttl (300 s), in ticks
  MaxSeen,        \* max_seen (1024)
  EntryTimeout,   \* ENTRY_TIMEOUT (60 s), in ticks
  Lifetime,       \* bound: ticks a datagram may stay in the network
  MaxFaults,      \* bound: datagrams lost and socket errors, in all
  MaxStops,       \* bound: receive threads that die
  Busy            \* TRUE: a socket may never be idle for RECV_TIMEOUT

ASSUME NetworkAssumption ==
  /\ Src \in [Packet -> Node] /\ Dst \in [Packet -> Node]
  /\ Chunks \in [Packet -> 1..255]       \* for larger ones see Fragments
ASSUME KeyAssumption ==
  /\ NoKey \notin Key
  /\ SignKey \in [Node -> Key \cup {NoKey}]
  /\ CertKey \in [Node -> Key]
ASSUME TimingAssumption ==
  /\ {MaxRetries, RetryDelay, Lifetime, MaxFaults, MaxStops} \subseteq Nat
  /\ {DedupTTL, MaxSeen, EntryTimeout} \subseteq Nat \ {0}
  /\ Busy \in BOOLEAN

VARIABLES
  sent,           \* packets whose send() has begun
  sending,        \* [Node -> ids send() has still to register, in order]
  written,        \* nodes whose first such piece is on the wire already
  pending,        \* ids in the pending maps
  retries,        \* [Id -> Pending.retries]
  waited,         \* [Id -> ticks since Pending.last_sent], saturating
  peerKeys,       \* [Node -> [Node -> key known for that peer's address]]
  seen,           \* packets in their receiver's `seen' map
  seenAge,        \* [Packet -> ticks since first seen], saturating
  chunks,         \* [Packet -> fragments stored in the receiver's Reassembler]
  started,        \* [Packet -> ticks since its reassembly started], saturating
  data,           \* [Id -> ticks its datagram may still live]; 0: none
  acks,           \* the same for the ack of each packet
  inbox,          \* packets forwarded and not yet handled: the piles
  ackq,           \* packets handled whose confirm() has not run: ack_tx
  stopped,        \* nodes whose receive thread has ended
  faults,         \* losses and socket errors so far
  aborted,        \* packets whose send() returned an error
  forwarded,      \* history: times each packet was forwarded (2: or more)
  forgotten,      \* history: packets `seen' lost, since they were last
                  \*   forwarded, while a copy of them could still arrive
  handled,        \* history: packets a tick of the runtime has taken up
  failed,         \* history: those of them whose handling failed
  confirmed,      \* history: packets an ack was produced for
  outcome         \* history: [Id -> how its pending entry ended]

sender == <<sent, sending, written, aborted>>
entries == <<pending, retries, waited, outcome>>
dedup == <<seen, seenAge, forgotten>>
reassembly == <<chunks, started>>
network == <<data, acks>>
application == <<inbox, ackq, forwarded, handled, failed, confirmed>>
vars == <<sender, entries, peerKeys, dedup, reassembly, network, application,
          stopped, faults>>

Whole(p) == <<p, 0>>
Pieces(p) ==
  IF Chunks[p] <= 1 THEN <<Whole(p)>> ELSE [i \in 1..Chunks[p] |-> <<p, i>>]
Indices(p) == IF Chunks[p] <= 1 THEN {0} ELSE 1..Chunks[p]
Id == {id \in Packet \X (0..255) : id[2] \in Indices(id[1])}
From(n) == {id \in Id : Src[id[1]] = n}
Outcome == {"none", "acked", "gaveup"}

TypeOK ==
  /\ sent \subseteq Packet /\ aborted \subseteq Packet
  /\ sending \in [Node -> Seq(Id)]
  /\ written \subseteq {n \in Node : sending[n] # <<>>}
  /\ pending \subseteq Id
  /\ retries \in [Id -> 0..MaxRetries] /\ waited \in [Id -> 0..RetryDelay + 1]
  /\ peerKeys \in [Node -> [Node -> Key \cup {NoKey}]]
  /\ seen \subseteq Packet /\ seenAge \in [Packet -> 0..DedupTTL]
  /\ chunks \in [Packet -> SUBSET (1..255)]
  /\ started \in [Packet -> 0..EntryTimeout]
  /\ data \in [Id -> 0..Lifetime + 1] /\ acks \in [Packet -> 0..Lifetime + 1]
  /\ inbox \subseteq Packet /\ ackq \subseteq Packet
  /\ stopped \subseteq Node /\ faults \in 0..MaxFaults
  /\ forwarded \in [Packet -> 0..2] /\ forgotten \subseteq Packet
  /\ handled \subseteq Packet /\ failed \subseteq handled /\ confirmed \subseteq Packet
  /\ outcome \in [Id -> Outcome]

Init ==
  /\ sent = {} /\ aborted = {}
  /\ sending = [n \in Node |-> <<>>] /\ written = {}
  /\ pending = {}
  /\ retries = [id \in Id |-> 0] /\ waited = [id \in Id |-> 0]
  /\ peerKeys = [n \in Node |-> [m \in Node |-> NoKey]]
  /\ seen = {} /\ seenAge = [p \in Packet |-> 0]
  /\ chunks = [p \in Packet |-> {}] /\ started = [p \in Packet |-> 0]
  /\ data = [id \in Id |-> 0] /\ acks = [p \in Packet |-> 0]
  /\ inbox = {} /\ ackq = {}
  /\ stopped = {} /\ faults = 0
  /\ forwarded = [p \in Packet |-> 0] /\ forgotten = {}
  /\ handled = {} /\ failed = {} /\ confirmed = {}
  /\ outcome = [id \in Id |-> "none"]

-----------------------------------------------------------------------------
(* send(), on the sort thread *)

\* A datagram just put on the wire.
Fresh == Lifetime + 1

Send(p) ==
  /\ p \notin sent
  /\ sending[Src[p]] = <<>>
  /\ sent' = sent \cup {p}
  /\ sending' = [sending EXCEPT ![Src[p]] = Pieces(p)]
  /\ UNCHANGED <<written, aborted, entries, peerKeys, dedup, reassembly,
                 network, application, stopped, faults>>

WritePiece(n) ==
  /\ sending[n] # <<>> /\ n \notin written
  /\ written' = written \cup {n}
  /\ data' = [data EXCEPT ![Head(sending[n])] = Fresh]
  /\ UNCHANGED <<sent, sending, aborted, entries, peerKeys, dedup, reassembly,
                 acks, application, stopped, faults>>

Register(n) ==
  /\ n \in written
  /\ LET id == Head(sending[n]) IN
       /\ pending' = pending \cup {id}
       /\ retries' = [retries EXCEPT ![id] = 0]
       /\ waited' = [waited EXCEPT ![id] = 0]
  /\ written' = written \ {n}
  /\ sending' = [sending EXCEPT ![n] = Tail(@)]
  /\ UNCHANGED <<sent, aborted, outcome, peerKeys, dedup, reassembly, network,
                 application, stopped, faults>>

\* send_to fails: send() returns, the pieces registered before stay pending.
SocketError(n) ==
  /\ sending[n] # <<>> /\ n \notin written
  /\ faults < MaxFaults
  /\ faults' = faults + 1
  /\ aborted' = aborted \cup {Head(sending[n])[1]}
  /\ sending' = [sending EXCEPT ![n] = <<>>]
  /\ UNCHANGED <<sent, written, entries, peerKeys, dedup, reassembly, network,
                 application, stopped>>

-----------------------------------------------------------------------------
(* The receive thread *)

SeenAt(n) == {p \in seen : Dst[p] = n}
AlreadySeenDropped(p) == FALSE                              \* deviation
AlreadySeen(p) == p \in seen /\ seenAge[p] < DedupTTL

\* Reassembler::feed: the fragments stored once id has arrived; a completed
\* reassembly stays in the map until evict_stale.
Fed(id) == IF id[2] = 0 THEN chunks[id[1]] ELSE chunks[id[1]] \cup {id[2]}
Complete(id) == id[2] = 0 \/ Fed(id) = 1..Chunks[id[1]]

\* Once the cap is reached, `seen' loses what has outlived the TTL and, if
\* that frees nothing, its oldest entry.
Kept(n) == IF Cardinality(SeenAt(n)) >= MaxSeen
             THEN {p \in SeenAt(n) : seenAge[p] < DedupTTL}
             ELSE SeenAt(n)
Oldest(S) == {p \in S : \A q \in S : seenAge[q] <= seenAge[p]}
EvictionsNone(n) == {{}}                                    \* deviation
Evictions(n) == IF Cardinality(Kept(n)) >= MaxSeen
                  THEN {{p} : p \in Oldest(Kept(n))} ELSE {{}}

\* An entry the receive thread may still retransmit.
MayRetry(id) == id \in pending /\ retries[id] < MaxRetries /\ Src[id[1]] \notin stopped

\* A copy of p may still arrive: send() has yet to write or register a piece,
\* or one is in the network, or may be put there again.
Alive(p) ==
  \/ \E n \in Node : \E i \in DOMAIN sending[n] : sending[n][i][1] = p
  \/ \E id \in Id : id[1] = p /\ (data[id] > 0 \/ MayRetry(id))

\* The packets this step makes the receiver forget too early.
Forgets == {p \in Packet : AlreadySeen(p) /\ ~AlreadySeen(p)' /\ Alive(p)'}

\* A datagram whose copy stays in the network (keep) has been duplicated.
Arrive(left, keep) == IF keep THEN left ELSE 0

ReceiveData(id, keep) ==
  LET p == id[1]
      n == Dst[p]
  IN
  /\ data[id] > 0 /\ n \notin stopped
  /\ data' = [data EXCEPT ![id] = Arrive(@, keep)]
  /\ chunks' = [chunks EXCEPT ![p] = Fed(id)]
  /\ started' = [started EXCEPT ![p] = IF chunks[p] = {} THEN 0 ELSE @]
  /\ UNCHANGED <<sender, entries, peerKeys, acks, ackq, handled, failed,
                 confirmed, stopped, faults>>
  /\ IF Complete(id) /\ ~AlreadySeen(p)
       THEN /\ \E old \in Evictions(n) :
                 seen' = (seen \ SeenAt(n)) \cup (Kept(n) \ old) \cup {p}
            /\ seenAge' = [q \in Packet |-> IF q \in seen' \ {p} THEN seenAge[q] ELSE 0]
            /\ forgotten' = (forgotten \ {p}) \cup Forgets
            /\ inbox' = inbox \cup {p}
            /\ forwarded' = [forwarded EXCEPT ![p] = IF @ = 0 THEN 1 ELSE 2]
       ELSE UNCHANGED <<dedup, inbox, forwarded>>

\* verify_ack, for an ack signed by its packet's destination: against the key
\* known for that address or, if none is, on trust.
AckAccepted(p) ==
  /\ Whole(p) \in pending
  /\ peerKeys[Src[p]][Dst[p]] \in {NoKey, SignKey[Dst[p]]}

ReceiveAck(p, keep) ==
  /\ acks[p] > 0 /\ Src[p] \notin stopped
  /\ acks' = [acks EXCEPT ![p] = Arrive(@, keep)]
  /\ IF AckAccepted(p)
       THEN /\ pending' = pending \ {Whole(p)}
            /\ retries' = [retries EXCEPT ![Whole(p)] = 0]
            /\ waited' = [waited EXCEPT ![Whole(p)] = 0]
            /\ outcome' = [outcome EXCEPT ![Whole(p)] = "acked"]
            /\ peerKeys' = [peerKeys EXCEPT ![Src[p]][Dst[p]] = SignKey[Dst[p]]]
       ELSE UNCHANGED <<entries, peerKeys>>
  /\ UNCHANGED <<sender, dedup, reassembly, data, application, stopped, faults>>

ExhaustedLate(n) == {id \in pending \cap From(n) : retries[id] > MaxRetries}       \* deviation

\* Entries that have used their retries go at the next timeout, whatever the
\* time since their last transmission.
Exhausted(n) == {id \in pending \cap From(n) : retries[id] >= MaxRetries}
DueWhole(n) ==                                              \* deviation
  {id \in (pending \cap From(n)) \ Exhausted(n) : waited[id] > RetryDelay /\ id[2] = 0}
Due(n) == {id \in (pending \cap From(n)) \ Exhausted(n) : waited[id] > RetryDelay}
RetriedUncounted(id) == retries[id]                         \* deviation
Retried(id) == retries[id] + 1
Stale(n) == {p \in Packet : Dst[p] = n /\ started[p] >= EntryTimeout}

\* RECV_TIMEOUT passes with nothing to read.
Timeout(n) ==
  /\ n \notin stopped
  /\ pending' = pending \ Exhausted(n)
  /\ retries' = [id \in Id |-> IF id \in Exhausted(n) THEN 0
                               ELSE IF id \in Due(n) THEN Retried(id)
                               ELSE retries[id]]
  /\ waited' = [id \in Id |-> IF id \in Exhausted(n) \cup Due(n) THEN 0 ELSE waited[id]]
  /\ outcome' = [id \in Id |-> IF id \in Exhausted(n) THEN "gaveup" ELSE outcome[id]]
  /\ data' = [id \in Id |-> IF id \in Due(n) THEN Fresh ELSE data[id]]
  /\ chunks' = [p \in Packet |-> IF p \in Stale(n) THEN {} ELSE chunks[p]]
  /\ started' = [p \in Packet |-> IF p \in Stale(n) THEN 0 ELSE started[p]]
  /\ UNCHANGED <<sender, peerKeys, dedup, acks, application, stopped, faults>>

\* recv_from fails with anything but WouldBlock: the thread ends, silently.
ReceiverStops(n) ==
  /\ n \notin stopped /\ Cardinality(stopped) < MaxStops
  /\ stopped' = stopped \cup {n}
  /\ UNCHANGED <<sender, entries, peerKeys, dedup, reassembly, network,
                 application, faults>>

-----------------------------------------------------------------------------
(* The application: runtime.rs, seen from the transport *)

\* Only a packet that came whole still carries the AckRequired flag send()
\* set; what is reassembled is the packet as it was before.
AckRequired(p) == Chunks[p] <= 1

\* What a tick leaves to confirm of a packet it took up.  What succeeds is
\* confirmed.  What fails may be as well: tick_server and tick_handshake
\* confirm requests and hellos they refuse, tick_relay its own frames before
\* the packet inside is looked at, whereas tick_message, and a hello already
\* seen, return without.
ToConfirm(p, ok) ==
  IF ~AckRequired(p) THEN {{}} ELSE IF ok THEN {{p}} ELSE {{}, {p}}

Handle(p, ok) ==
  /\ p \in inbox
  /\ inbox' = inbox \ {p}
  /\ handled' = handled \cup {p}
  /\ failed' = IF ok THEN failed ELSE failed \cup {p}
  /\ \E back \in ToConfirm(p, ok) : ackq' = ackq \cup back
  /\ UNCHANGED <<sender, entries, peerKeys, dedup, reassembly, network,
                 forwarded, confirmed, stopped, faults>>

ConfirmableOnArrival == inbox \cup ackq                     \* deviation

\* What the sort thread takes from ack_rx.
Confirmable == ackq

\* confirm() runs on the sort thread, hence not within a send().
Confirm(p) ==
  /\ p \in Confirmable /\ sending[Dst[p]] = <<>>
  /\ ackq' = ackq \ {p}
  /\ IF SignKey[Dst[p]] = NoKey
       THEN UNCHANGED <<acks, confirmed>>
       ELSE /\ acks' = [acks EXCEPT ![p] = Fresh]
            /\ confirmed' = confirmed \cup {p}
  /\ UNCHANGED <<sender, entries, peerKeys, dedup, reassembly, data, inbox,
                 forwarded, handled, failed, stopped, faults>>

LearnOwnKey(n, m) ==                                        \* deviation
  /\ n # m
  /\ peerKeys' = [peerKeys EXCEPT ![n][m] = CertKey[n]]
  /\ UNCHANGED <<sender, entries, dedup, reassembly, network, application,
                 stopped, faults>>

\* tick_handshake: n has verified m's certificate.
LearnKey(n, m) ==
  /\ n # m
  /\ peerKeys' = [peerKeys EXCEPT ![n][m] = CertKey[m]]
  /\ UNCHANGED <<sender, entries, dedup, reassembly, network, application,
                 stopped, faults>>

-----------------------------------------------------------------------------
(* The network and time *)

Lose(id) ==
  /\ data[id] > 0 /\ faults < MaxFaults
  /\ data' = [data EXCEPT ![id] = 0]
  /\ faults' = faults + 1
  /\ UNCHANGED <<sender, entries, peerKeys, dedup, reassembly, acks,
                 application, stopped>>

LoseAck(p) ==
  /\ acks[p] > 0 /\ faults < MaxFaults
  /\ acks' = [acks EXCEPT ![p] = 0]
  /\ faults' = faults + 1
  /\ UNCHANGED <<sender, entries, peerKeys, dedup, reassembly, data,
                 application, stopped>>

Older(age, cap) == IF age < cap THEN age + 1 ELSE age
Shorter(left) == IF left > 0 THEN left - 1 ELSE 0

\* A tick passes outside send(), after what was bound to happen in it: the
\* delivery or loss of datagrams at the end of their life and, unless Busy,
\* one idle moment of each socket that has something to retransmit.
Tick ==
  /\ \A n \in Node : sending[n] = <<>>
  /\ \A id \in Id : data[id] = 1 => Dst[id[1]] \in stopped
  /\ \A p \in Packet : acks[p] = 1 => Src[p] \in stopped
  /\ Busy \/ \A n \in Node \ stopped : Due(n) = {}
  /\ waited' = [id \in Id |-> IF id \in pending THEN Older(waited[id], RetryDelay + 1)
                                                ELSE waited[id]]
  /\ seenAge' = [p \in Packet |-> IF p \in seen THEN Older(seenAge[p], DedupTTL) ELSE 0]
  /\ started' = [p \in Packet |-> IF chunks[p] # {} THEN Older(started[p], EntryTimeout) ELSE 0]
  /\ data' = [id \in Id |-> Shorter(data[id])]
  /\ acks' = [p \in Packet |-> Shorter(acks[p])]
  /\ UNCHANGED <<sender, pending, retries, outcome, peerKeys, seen, chunks,
                 application, stopped, faults>>
  /\ forgotten' = forgotten \cup Forgets

Next ==
  \/ \E p \in Packet : Send(p) \/ Confirm(p) \/ LoseAck(p)
  \/ \E p \in Packet, ok \in BOOLEAN : Handle(p, ok) \/ ReceiveAck(p, ok)
  \/ \E n \in Node : \/ WritePiece(n) \/ Register(n) \/ SocketError(n)
                     \/ Timeout(n) \/ ReceiverStops(n)
  \/ \E n, m \in Node : LearnKey(n, m)
  \/ \E id \in Id : Lose(id)
  \/ \E id \in Id, keep \in BOOLEAN : ReceiveData(id, keep)
  \/ Tick

Spec == Init /\ [][Next]_vars

\* A datagram that is neither lost nor duplicated arrives, the three threads
\* are scheduled, and each socket is idle for RECV_TIMEOUT again and again.
Fairness ==
  /\ \A n \in Node : /\ WF_vars(WritePiece(n)) /\ WF_vars(Register(n))
                     /\ WF_vars(Timeout(n))
  /\ \A p \in Packet : /\ WF_vars(ReceiveAck(p, FALSE)) /\ WF_vars(Confirm(p))
  /\ \A id \in Id : WF_vars(ReceiveData(id, FALSE))
  /\ WF_vars(Tick)

FairSpec == Spec /\ Fairness

-----------------------------------------------------------------------------
(* Safety *)

\* However the receive thread's `seen' and the timing of arrivals play, the
\* map stays within max_seen entries at every node.
SeenWithinCap == \A n \in Node : Cardinality(SeenAt(n)) <= MaxSeen

\* An ack made by the packet's destination is accepted while the packet is
\* pending, whatever was learnt of the peer's key meanwhile: on trust from an
\* earlier ack or from its certificate in tick_handshake.
GenuineAckAccepted ==
  \A p \in Packet : acks[p] > 0 /\ Whole(p) \in pending => AckAccepted(p)

\* Where sockets fall idle in time, the filter outlasts the retransmissions:
\* dedup_ttl is longer than MAX_RETRIES rounds of RETRY_DELAY and the flight
\* of the last, so that no packet is forgotten while a copy may still arrive.
NothingForgotten == forgotten = {}

\* The transport implements the abstract delivery specification: through
\* losses, duplicates, retransmissions and reassembly a packet is forwarded
\* once and once more for each time the filter forgot it, and the sender takes
\* it for acknowledged only after a tick of the receiver's runtime took it up.
D == INSTANCE Delivery WITH
       requested <- sent,
       acknowledged <- {p \in Packet : Chunks[p] <= 1 /\ outcome[Whole(p)] = "acked"}
RefinesDelivery == D!Spec

(* Liveness *)

\* No entry is retransmitted for ever or left behind: the retain() of each
\* timeout ends it, even when nobody ever answers.
EntriesResolved ==
  \A id \in Id : id \in pending ~> id \notin pending \/ Src[id[1]] \in stopped

\* With at most MAX_RETRIES losses a packet whose send() succeeded reaches the
\* application, between nodes whose receive threads live: the first
\* transmission or a retransmission gets through.
DeliveredDespiteLoss ==
  \A p \in Packet : p \in sent ~>
    forwarded[p] > 0 \/ p \in aborted \/ {Src[p], Dst[p]} \cap stopped # {}

\* reliable.rs:150-153 and 175: a packet sent reliably carries AckRequired and
\* is acknowledged once its handler has succeeded.
HandledIsAcknowledged ==
  \A p \in Packet : p \in handled \ failed /\ SignKey[Dst[p]] # NoKey ~> p \in confirmed
=============================================================================

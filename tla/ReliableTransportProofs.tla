----------------------- MODULE ReliableTransportProofs ----------------------
(***************************************************************************)
(* What is proved of ReliableTransport for every set of nodes and packets, *)
(* every fragmentation, key assignment, timing constant and fault budget.  *)
(***************************************************************************)
EXTENDS ReliableTransport, SequenceTheorems, FiniteSetTheorems, TLAPS

\* split_packet returns a sequence of ids, never an empty one.
LEMMA PiecesType ==
  ASSUME NEW p \in Packet
  PROVE  Pieces(p) \in Seq(Id) /\ Pieces(p) # <<>>
<1>0. Chunks[p] \in 1..255
  BY NetworkAssumption
<1>1. CASE Chunks[p] <= 1
  <2>1. Whole(p) \in Id
    BY <1>1 DEF Whole, Id, Indices
  <2> QED BY <1>1, <2>1 DEF Pieces
<1>2. CASE ~(Chunks[p] <= 1)
  <2> DEFINE s == [i \in 1..Chunks[p] |-> <<p, i>>]
  <2>1. \A i \in 1..Chunks[p] : <<p, i>> \in Id
    BY <1>0, <1>2 DEF Id, Indices
  <2>2. s \in [1..Chunks[p] -> Id]
    BY <2>1
  <2>3. s \in Seq(Id)
    <3>1. Seq(Id) = UNION {[1..k -> Id] : k \in Nat}
      BY SeqDef
    <3>2. Chunks[p] \in Nat
      BY <1>0
    <3> HIDE DEF s
    <3> QED BY <2>2, <3>1, <3>2
  <2>4. s # <<>>
    <3>1. DOMAIN s = 1..Chunks[p] /\ 1 \in DOMAIN s
      BY <1>0
    <3>2. Len(s) # 0
      <4>1. DOMAIN s = 1..Len(s)
        <5> HIDE DEF s
        <5> QED BY <2>3, LenProperties
      <4>2. 1 \in 1..Len(s)
        <5> HIDE DEF s
        <5> QED BY <3>1, <4>1
      <4> HIDE DEF s
      <4> QED BY <4>2
    <3> HIDE DEF s
    <3> QED BY <3>2, EmptySeq
  <2> QED BY <1>2, <2>3, <2>4 DEF Pieces
<1> QED BY <1>1, <1>2

\* An id names a packet and the index of one of its pieces.
LEMMA IdType ==
  ASSUME NEW id \in Id
  PROVE  id[1] \in Packet /\ id[2] \in 0..255
BY DEF Id

\* The parameters are natural numbers, some of them positive.
LEMMA ParameterTypes ==
  /\ MaxRetries \in Nat /\ RetryDelay \in Nat /\ Lifetime \in Nat
  /\ MaxFaults \in Nat /\ MaxStops \in Nat
  /\ DedupTTL \in Nat \ {0} /\ MaxSeen \in Nat \ {0}
  /\ EntryTimeout \in Nat \ {0}
BY TimingAssumption

\* Type correctness: every variable keeps the shape the other proofs rely on;
\* in particular no retry counter passes MAX_RETRIES and no age its cap.
THEOREM TypeCorrect == Spec => []TypeOK
<1>1. Init => TypeOK
  BY NetworkAssumption, KeyAssumption, ParameterTypes, EmptySeq DEF Init, TypeOK, Outcome
<1>2. TypeOK /\ [Next]_vars => TypeOK'
  <2> SUFFICES ASSUME TypeOK, [Next]_vars PROVE TypeOK'
    OBVIOUS
  <2> USE NetworkAssumption, KeyAssumption, ParameterTypes DEF TypeOK
  <2>1. ASSUME NEW p \in Packet, Send(p) PROVE TypeOK'
    BY <2>1, PiecesType DEF Send, entries, dedup, reassembly, network, application
  <2>2. ASSUME NEW p \in Packet, Confirm(p) PROVE TypeOK'
    <3>1. acks' \in [Packet -> 0..Lifetime + 1]
      <4>1. Lifetime + 1 \in 0..Lifetime + 1
        OBVIOUS
      <4> QED BY <2>2, <4>1 DEF Confirm, Fresh, network
    <3>2. /\ confirmed' \subseteq Packet /\ ackq' \subseteq Packet
      BY <2>2 DEF Confirm
    <3> QED BY <2>2, <3>1, <3>2 DEF Confirm, sender, entries, dedup, reassembly
  <2>3. ASSUME NEW p \in Packet, LoseAck(p) PROVE TypeOK'
    <3>1. acks' \in [Packet -> 0..Lifetime + 1]
      BY <2>3 DEF LoseAck
    <3>2. faults' \in 0..MaxFaults
      BY <2>3 DEF LoseAck
    <3> QED BY <2>3, <3>1, <3>2 DEF LoseAck, sender, entries, dedup, reassembly, application
  <2>4. ASSUME NEW p \in Packet, NEW ok \in BOOLEAN, Handle(p, ok) PROVE TypeOK'
    <3>1. /\ inbox' \subseteq Packet /\ handled' \subseteq Packet
          /\ failed' \subseteq handled'
      BY <2>4 DEF Handle
    <3>2. ackq' \subseteq Packet
      <4>1. PICK back \in ToConfirm(p, ok) : ackq' = ackq \cup back
        BY <2>4 DEF Handle
      <4>2. back \subseteq {p}
        BY <4>1 DEF ToConfirm
      <4> QED BY <4>1, <4>2
    <3> QED BY <2>4, <3>1, <3>2 DEF Handle, sender, entries, dedup, reassembly, network
  <2>5. ASSUME NEW p \in Packet, NEW keep \in BOOLEAN, ReceiveAck(p, keep) PROVE TypeOK'
    <3>1. acks' \in [Packet -> 0..Lifetime + 1]
      BY <2>5 DEF ReceiveAck, Arrive
    <3>2. /\ pending' \subseteq Id
          /\ retries' \in [Id -> 0..MaxRetries] /\ waited' \in [Id -> 0..RetryDelay + 1]
      <4>1. CASE AckAccepted(p)
        <5>1. Whole(p) \in Id
          BY <4>1 DEF AckAccepted
        <5>2. /\ pending' = pending \ {Whole(p)}
              /\ retries' = [retries EXCEPT ![Whole(p)] = 0]
              /\ waited' = [waited EXCEPT ![Whole(p)] = 0]
          BY <2>5, <4>1 DEF ReceiveAck
        <5>3. 0 \in 0..MaxRetries /\ 0 \in 0..RetryDelay + 1
          OBVIOUS
        <5> QED BY <5>1, <5>2, <5>3
      <4>2. CASE ~AckAccepted(p)
        BY <2>5, <4>2 DEF ReceiveAck, entries
      <4> QED BY <4>1, <4>2
    <3>3. outcome' \in [Id -> Outcome]
      BY <2>5 DEF ReceiveAck, AckAccepted, Outcome, entries
    <3>4. peerKeys' \in [Node -> [Node -> Key \cup {NoKey}]]
      <4>1. Src[p] \in Node /\ Dst[p] \in Node /\ SignKey[Dst[p]] \in Key \cup {NoKey}
        OBVIOUS
      <4>2. CASE AckAccepted(p)
        <5>1. peerKeys' = [peerKeys EXCEPT ![Src[p]][Dst[p]] = SignKey[Dst[p]]]
          BY <2>5, <4>2 DEF ReceiveAck
        <5>2. peerKeys \in [Node -> [Node -> Key \cup {NoKey}]]
          OBVIOUS
        <5> HIDE DEF TypeOK
        <5> QED BY <4>1, <5>1, <5>2
      <4>3. CASE ~AckAccepted(p)
        BY <2>5, <4>3 DEF ReceiveAck
      <4> QED BY <4>2, <4>3
    <3> QED
      BY <2>5, <3>1, <3>2, <3>3, <3>4
      DEF ReceiveAck, sender, dedup, reassembly, application
  <2>6. ASSUME NEW n \in Node, WritePiece(n) PROVE TypeOK'
    <3>1. Head(sending[n]) \in Id
      BY <2>6, HeadTailProperties DEF WritePiece
    <3>2. data' \in [Id -> 0..Lifetime + 1]
      BY <2>6, <3>1 DEF WritePiece, Fresh
    <3> QED BY <2>6, <3>2 DEF WritePiece, entries, dedup, reassembly, application
  <2>7. ASSUME NEW n \in Node, Register(n) PROVE TypeOK'
    <3>1. sending[n] # <<>>
      BY <2>7 DEF Register
    <3>2. Head(sending[n]) \in Id /\ Tail(sending[n]) \in Seq(Id)
      BY <3>1, HeadTailProperties
    <3>3. sending' \in [Node -> Seq(Id)]
      BY <2>7, <3>2 DEF Register
    <3>4. written' \subseteq {m \in Node : sending'[m] # <<>>}
      BY <2>7 DEF Register
    <3>5. /\ pending' \subseteq Id
          /\ retries' \in [Id -> 0..MaxRetries] /\ waited' \in [Id -> 0..RetryDelay + 1]
      BY <2>7, <3>2 DEF Register
    <3> QED
      BY <2>7, <3>3, <3>4, <3>5
      DEF Register, dedup, reassembly, network, application
  <2>8. ASSUME NEW n \in Node, SocketError(n) PROVE TypeOK'
    <3>1. Head(sending[n])[1] \in Packet
      BY <2>8, HeadTailProperties, IdType DEF SocketError
    <3>2. faults' \in 0..MaxFaults
      BY <2>8 DEF SocketError
    <3>3. sending' \in [Node -> Seq(Id)]
      BY <2>8, EmptySeq DEF SocketError
    <3> QED
      BY <2>8, <3>1, <3>2, <3>3
      DEF SocketError, entries, dedup, reassembly, network, application
  <2>9. ASSUME NEW n \in Node, Timeout(n) PROVE TypeOK'
    <3>1. /\ pending' \subseteq Id
          /\ outcome' \in [Id -> Outcome]
      BY <2>9 DEF Timeout, Outcome
    <3>2. retries' \in [Id -> 0..MaxRetries]
      BY <2>9 DEF Timeout, Due, Exhausted, Retried
    <3>3. waited' \in [Id -> 0..RetryDelay + 1]
      BY <2>9 DEF Timeout
    <3>4. data' \in [Id -> 0..Lifetime + 1]
      BY <2>9 DEF Timeout, Fresh
    <3>5. chunks' \in [Packet -> SUBSET (1..255)]
      <4>1. chunks' = [p \in Packet |-> IF p \in Stale(n) THEN {} ELSE chunks[p]]
        BY <2>9 DEF Timeout
      <4> QED BY <4>1
    <3>6. started' \in [Packet -> 0..EntryTimeout]
      BY <2>9 DEF Timeout
    <3> QED
      BY <2>9, <3>1, <3>2, <3>3, <3>4, <3>5, <3>6 DEF Timeout, sender, dedup, application
  <2>10. ASSUME NEW n \in Node, ReceiverStops(n) PROVE TypeOK'
    BY <2>10 DEF ReceiverStops, sender, entries, dedup, reassembly, network, application
  <2>11. ASSUME NEW n \in Node, NEW m \in Node, LearnKey(n, m) PROVE TypeOK'
    BY <2>11 DEF LearnKey, sender, entries, dedup, reassembly, network, application
  <2>12. ASSUME NEW id \in Id, Lose(id) PROVE TypeOK'
    <3>1. data' \in [Id -> 0..Lifetime + 1]
      BY <2>12 DEF Lose
    <3>2. faults' \in 0..MaxFaults
      BY <2>12 DEF Lose
    <3> QED BY <2>12, <3>1, <3>2 DEF Lose, sender, entries, dedup, reassembly, application
  <2>13. ASSUME NEW id \in Id, NEW keep \in BOOLEAN, ReceiveData(id, keep) PROVE TypeOK'
    <3>1. id[1] \in Packet /\ id[2] \in 0..255
      BY IdType
    <3>2. data' \in [Id -> 0..Lifetime + 1]
      BY <2>13 DEF ReceiveData, Arrive
    <3>3. chunks' \in [Packet -> SUBSET (1..255)]
      <4>1. Fed(id) \in SUBSET (1..255)
        <5>1. id[2] # 0 => id[2] \in 1..255
          BY <3>1
        <5>2. chunks[id[1]] \in SUBSET (1..255)
          BY <3>1
        <5> HIDE DEF TypeOK
        <5> QED BY <5>1, <5>2 DEF Fed
      <4>2. chunks' = [chunks EXCEPT ![id[1]] = Fed(id)]
        BY <2>13 DEF ReceiveData
      <4>3. chunks \in [Packet -> SUBSET (1..255)]
        OBVIOUS
      <4> HIDE DEF TypeOK
      <4> QED BY <3>1, <4>1, <4>2, <4>3
    <3>4. started' \in [Packet -> 0..EntryTimeout]
      BY <2>13, <3>1 DEF ReceiveData
    <3>7. UNCHANGED <<sender, entries, peerKeys, acks, ackq, handled, failed,
                      confirmed, stopped, faults>>
      <4> HIDE DEF TypeOK
      <4> QED BY <2>13 DEF ReceiveData
    <3>5. CASE Complete(id) /\ ~AlreadySeen(id[1])
      <4>1. /\ seen \subseteq Packet /\ seenAge \in [Packet -> 0..DedupTTL]
            /\ forwarded \in [Packet -> 0..2] /\ forgotten \subseteq Packet
        OBVIOUS
      <4>2. seen' \subseteq Packet
        <5>1. PICK old \in Evictions(Dst[id[1]]) :
                seen' = (seen \ SeenAt(Dst[id[1]])) \cup (Kept(Dst[id[1]]) \ old) \cup {id[1]}
          BY <2>13, <3>5 DEF ReceiveData
        <5>2. Kept(Dst[id[1]]) \subseteq seen
          BY DEF Kept, SeenAt
        <5> HIDE DEF TypeOK
        <5> QED BY <3>1, <4>1, <5>1, <5>2
      <4>3. seenAge' \in [Packet -> 0..DedupTTL]
        <5>1. seenAge' = [q \in Packet |-> IF q \in seen' \ {id[1]} THEN seenAge[q] ELSE 0]
          BY <2>13, <3>5 DEF ReceiveData
        <5> HIDE DEF TypeOK
        <5> QED BY <4>1, <5>1, ParameterTypes
      <4>4. inbox' \subseteq Packet
        BY <2>13, <3>1, <3>5 DEF ReceiveData
      <4>5. forwarded' \in [Packet -> 0..2]
        <5>1. forwarded' = [forwarded EXCEPT ![id[1]] = IF @ = 0 THEN 1 ELSE 2]
          BY <2>13, <3>5 DEF ReceiveData
        <5> HIDE DEF TypeOK
        <5> QED BY <3>1, <4>1, <5>1
      <4>6. forgotten' \subseteq Packet
        <5>1. forgotten' = (forgotten \ {id[1]}) \cup Forgets
          BY <2>13, <3>5 DEF ReceiveData
        <5> HIDE DEF TypeOK
        <5> QED BY <4>1, <5>1 DEF Forgets
      <4> QED
        BY <3>2, <3>3, <3>4, <3>7, <4>2, <4>3, <4>4, <4>5, <4>6 DEF sender, entries
    <3>6. CASE ~(Complete(id) /\ ~AlreadySeen(id[1]))
      <4>1. UNCHANGED <<dedup, inbox, forwarded>>
        <5> HIDE DEF TypeOK
        <5> QED BY <2>13, <3>6 DEF ReceiveData
      <4>2. /\ UNCHANGED <<seen, seenAge, forgotten, inbox, forwarded>>
            /\ seen \subseteq Packet /\ forgotten \subseteq Packet /\ seenAge \in [Packet -> 0..DedupTTL]
            /\ inbox \subseteq Packet /\ forwarded \in [Packet -> 0..2]
        BY <4>1 DEF dedup
      <4> QED BY <3>2, <3>3, <3>4, <3>7, <4>2 DEF sender, entries
    <3> QED BY <3>5, <3>6
  <2>14. CASE Tick
    <3>1. waited' \in [Id -> 0..RetryDelay + 1]
      BY <2>14 DEF Tick, Older
    <3>2. seenAge' \in [Packet -> 0..DedupTTL]
      BY <2>14 DEF Tick, Older
    <3>3. started' \in [Packet -> 0..EntryTimeout]
      BY <2>14 DEF Tick, Older
    <3>4. /\ data' \in [Id -> 0..Lifetime + 1]
          /\ acks' \in [Packet -> 0..Lifetime + 1]
      BY <2>14 DEF Tick, Shorter
    <3>5. forgotten' \subseteq Packet
      BY <2>14 DEF Tick, Forgets
    <3> QED BY <2>14, <3>1, <3>2, <3>3, <3>4, <3>5 DEF Tick, sender, application
  <2>15. CASE UNCHANGED vars
    BY <2>15 DEF vars, sender, entries, dedup, reassembly, network, application
  <2> HIDE DEF TypeOK
  <2> QED
    BY <2>1, <2>2, <2>3, <2>4, <2>5, <2>6, <2>7, <2>8, <2>9, <2>10, <2>11, <2>12,
       <2>13, <2>14, <2>15 DEF Next
<1> QED BY <1>1, <1>2, PTL DEF Spec

-----------------------------------------------------------------------------
(* Acknowledgements *)

\* Each stage of an acknowledgement, from the forwarded packet to the resolved
\* entry, has its predecessor behind it.
AckChain ==
  /\ \A id \in Id : outcome[id] = "acked" => id[1] \in confirmed
  /\ \A p \in Packet : acks[p] > 0 => p \in confirmed
  /\ confirmed \subseteq handled /\ ackq \subseteq handled
  /\ \A p \in handled \cup inbox : forwarded[p] > 0

\* A forwarded packet stays forwarded.
LEMMA ForwardedGrows ==
  ASSUME TypeOK, NEW id \in Id, NEW keep \in BOOLEAN, ReceiveData(id, keep)
  PROVE  /\ \A p \in Packet : forwarded[p] > 0 => forwarded'[p] > 0
         /\ \A p \in inbox' : p \in inbox \/ forwarded'[p] > 0
<1>1. id[1] \in Packet /\ forwarded \in [Packet -> 0..2] /\ inbox \subseteq Packet
  BY IdType DEF TypeOK
<1>2. CASE Complete(id) /\ ~AlreadySeen(id[1])
  <2>1. /\ forwarded' = [forwarded EXCEPT ![id[1]] = IF @ = 0 THEN 1 ELSE 2]
        /\ inbox' = inbox \cup {id[1]}
    BY <1>2 DEF ReceiveData
  <2> QED BY <1>1, <2>1
<1>3. CASE ~(Complete(id) /\ ~AlreadySeen(id[1]))
  BY <1>1, <1>3 DEF ReceiveData
<1> QED BY <1>2, <1>3

\* No stage of an acknowledgement (confirm, verify_ack) runs before the stage
\* it depends on.
LEMMA AckChainHolds == Spec => []AckChain
<1>1. Init => AckChain
  BY DEF Init, AckChain
<1>2. TypeOK /\ AckChain /\ [Next]_vars => AckChain'
  <2> SUFFICES ASSUME TypeOK, AckChain, [Next]_vars PROVE AckChain'
    OBVIOUS
  <2>0. /\ acks \in [Packet -> 0..Lifetime + 1] /\ outcome \in [Id -> Outcome]
        /\ forwarded \in [Packet -> 0..2] /\ handled \subseteq Packet
        /\ inbox \subseteq Packet
    BY DEF TypeOK
  <2> USE DEF AckChain
  <2>1. ASSUME NEW p \in Packet, Send(p) PROVE AckChain'
    BY <2>1 DEF Send, entries, network, application
  <2>2. ASSUME NEW p \in Packet, Confirm(p) PROVE AckChain'
    <3>1. CASE SignKey[Dst[p]] = NoKey
      BY <2>2, <3>1 DEF Confirm, entries
    <3>2. CASE SignKey[Dst[p]] # NoKey
      <4>1. /\ acks' = [acks EXCEPT ![p] = Fresh]
            /\ confirmed' = confirmed \cup {p}
            /\ p \in ackq /\ ackq' = ackq \ {p}
        BY <2>2, <3>2 DEF Confirm, Confirmable
      <4> QED BY <2>0, <2>2, <4>1 DEF Confirm, entries
    <3> QED BY <3>1, <3>2
  <2>3. ASSUME NEW p \in Packet, LoseAck(p) PROVE AckChain'
    BY <2>0, <2>3 DEF LoseAck, entries, application
  <2>4. ASSUME NEW p \in Packet, NEW ok \in BOOLEAN, Handle(p, ok) PROVE AckChain'
    <3>1. PICK back \in ToConfirm(p, ok) : ackq' = ackq \cup back
      BY <2>4 DEF Handle
    <3>2. back \subseteq {p} /\ handled' = handled \cup {p}
      BY <2>4, <3>1 DEF Handle, ToConfirm
    <3> QED BY <2>4, <3>1, <3>2 DEF Handle, entries, network
  <2>5. ASSUME NEW p \in Packet, NEW keep \in BOOLEAN, ReceiveAck(p, keep) PROVE AckChain'
    <3>1. p \in confirmed
      BY <2>5 DEF ReceiveAck
    <3>2. \A q \in Packet : acks'[q] > 0 => q \in confirmed
      BY <2>0, <2>5, <3>1 DEF ReceiveAck
    <3>3. \A id \in Id : outcome'[id] = "acked" => id[1] \in confirmed
      BY <2>0, <2>5, <3>1 DEF ReceiveAck, Whole, entries
    <3> QED BY <2>5, <3>2, <3>3 DEF ReceiveAck, application
  <2>6. ASSUME NEW n \in Node, WritePiece(n) PROVE AckChain'
    BY <2>6 DEF WritePiece, entries, application
  <2>7. ASSUME NEW n \in Node, Register(n) PROVE AckChain'
    BY <2>7 DEF Register, network, application
  <2>8. ASSUME NEW n \in Node, SocketError(n) PROVE AckChain'
    BY <2>8 DEF SocketError, entries, network, application
  <2>9. ASSUME NEW n \in Node, Timeout(n) PROVE AckChain'
    BY <2>9 DEF Timeout, application
  <2>10. ASSUME NEW n \in Node, ReceiverStops(n) PROVE AckChain'
    BY <2>10 DEF ReceiverStops, entries, network, application
  <2>11. ASSUME NEW n \in Node, NEW m \in Node, LearnKey(n, m) PROVE AckChain'
    BY <2>11 DEF LearnKey, entries, network, application
  <2>12. ASSUME NEW id \in Id, Lose(id) PROVE AckChain'
    BY <2>12 DEF Lose, entries, application
  <2>13. ASSUME NEW id \in Id, NEW keep \in BOOLEAN, ReceiveData(id, keep) PROVE AckChain'
    BY <2>0, <2>13, ForwardedGrows DEF ReceiveData, entries
  <2>14. CASE Tick
    BY <2>0, <2>14 DEF Tick, Shorter, application
  <2>15. CASE UNCHANGED vars
    BY <2>15 DEF vars, entries, network, application
  <2> QED
    BY <2>1, <2>2, <2>3, <2>4, <2>5, <2>6, <2>7, <2>8, <2>9, <2>10, <2>11, <2>12,
       <2>13, <2>14, <2>15 DEF Next
<1> QED BY <1>1, <1>2, TypeCorrect, PTL DEF Spec

\* If every node signs its acks with the key its certificate carries, no ack
\* of a packet's destination is ever refused, in whatever order keys are
\* learnt from acks and from handshakes.  main.rs breaks the hypothesis.
THEOREM GenuineAcks ==
  ASSUME SignKey = CertKey
  PROVE  Spec => []GenuineAckAccepted
<1> DEFINE KeysGenuine ==
      \A n, m \in Node : peerKeys[n][m] \in {NoKey, SignKey[m]}
<1>1. Init => KeysGenuine
  BY DEF Init
<1>2. TypeOK /\ KeysGenuine /\ [Next]_vars => KeysGenuine'
  <2> SUFFICES ASSUME TypeOK, KeysGenuine, [Next]_vars PROVE KeysGenuine'
    OBVIOUS
  <2>0. peerKeys \in [Node -> [Node -> Key \cup {NoKey}]]
    BY DEF TypeOK
  <2>1. ASSUME NEW p \in Packet, NEW keep \in BOOLEAN, ReceiveAck(p, keep)
        PROVE  KeysGenuine'
    <3>1. CASE AckAccepted(p)
      <4>1. peerKeys' = [peerKeys EXCEPT ![Src[p]][Dst[p]] = SignKey[Dst[p]]]
        BY <2>1, <3>1 DEF ReceiveAck
      <4>2. Src[p] \in Node /\ Dst[p] \in Node
        BY NetworkAssumption
      <4> QED BY <2>0, <4>1, <4>2
    <3>2. CASE ~AckAccepted(p)
      BY <2>1, <3>2 DEF ReceiveAck
    <3> QED BY <3>1, <3>2
  <2>2. ASSUME NEW n \in Node, NEW m \in Node, LearnKey(n, m) PROVE KeysGenuine'
    <3>1. peerKeys' = [peerKeys EXCEPT ![n][m] = SignKey[m]]
      BY <2>2 DEF LearnKey
    <3> QED BY <2>0, <3>1
  <2>3. peerKeys' = peerKeys => KeysGenuine'
    OBVIOUS
  <2> HIDE DEF KeysGenuine
  <2> QED
    BY <2>1, <2>2, <2>3
    DEF Next, Send, Confirm, LoseAck, Handle, WritePiece, Register, SocketError,
        Timeout, ReceiverStops, Lose, ReceiveData, Tick, vars
<1>3. KeysGenuine => GenuineAckAccepted
  BY NetworkAssumption DEF GenuineAckAccepted, AckAccepted
<1> HIDE DEF KeysGenuine
<1> QED BY <1>1, <1>2, <1>3, TypeCorrect, PTL DEF Spec
-----------------------------------------------------------------------------
(* Entries *)

\* split_packet numbers the pieces of one packet apart.
LEMMA PiecesDistinct ==
  ASSUME NEW p \in Packet
  PROVE  /\ \A i \in DOMAIN Pieces(p) : Pieces(p)[i][1] = p
         /\ \A i, j \in DOMAIN Pieces(p) : Pieces(p)[i] = Pieces(p)[j] => i = j
BY NetworkAssumption DEF Pieces, Whole

\* An ack may overtake the insertion in pending (it is then ignored), but an
\* entry never comes back once acknowledged or given up.
ResolvedForGood == \A id \in pending : outcome[id] = "none"

\* What ResolvedForGood needs to be inductive: an id that send() has still to
\* register is new, so that no insertion in pending revives a resolved entry.
SendOrder ==
  /\ \A id \in Id : id[1] \notin sent => id \notin pending /\ outcome[id] = "none"
  /\ \A n \in Node : \A i \in DOMAIN sending[n] :
       LET id == sending[n][i] IN
         /\ Src[id[1]] = n /\ id[1] \in sent
         /\ id \notin pending /\ outcome[id] = "none"
  /\ \A n \in Node : \A i, j \in DOMAIN sending[n] :
       sending[n][i] = sending[n][j] => i = j
  /\ ResolvedForGood

\* The rest of a queue, by position.
LEMMA TailElements ==
  ASSUME NEW S, NEW s \in Seq(S), s # <<>>
  PROVE  /\ 1 \in DOMAIN s /\ s[1] = Head(s)
         /\ \A i \in DOMAIN Tail(s) : i + 1 \in DOMAIN s /\ Tail(s)[i] = s[i + 1] /\ i \in Nat \ {0}
<1>1. /\ Len(s) \in Nat /\ Len(s) # 0 /\ DOMAIN s = 1..Len(s)
      /\ DOMAIN Tail(s) = 1..Len(s) - 1
  BY EmptySeq, LenProperties, HeadTailProperties
<1>2. Head(s) = s[1] /\ \A i \in 1..Len(s) - 1 : Tail(s)[i] = s[i + 1]
  BY HeadTailProperties
<1> QED BY <1>1, <1>2

\* A step that leaves send() and the pending maps alone.
LEMMA SendOrderStutters ==
  ASSUME SendOrder, UNCHANGED <<sent, sending, pending, outcome>>
  PROVE  SendOrder'
BY DEF SendOrder, ResolvedForGood

\* Resolving entries that are pending disturbs nothing that send() holds.
LEMMA ResolvingKeepsSendOrder ==
  ASSUME TypeOK, SendOrder, NEW R \in SUBSET pending,
         UNCHANGED <<sent, sending>>, pending' = pending \ R,
         \A id \in Id \ R : outcome'[id] = outcome[id]
  PROVE  SendOrder'
<1> USE DEF SendOrder
<1>1. \A n \in Node : sending[n] \in Seq(Id)
  BY DEF TypeOK
<1>2. \A n \in Node : \A i \in DOMAIN sending[n] : sending[n][i] \in Id
  BY <1>1, ElementOfSeq, LenProperties
<1>3. pending \subseteq Id
  BY DEF TypeOK
<1>4. \A id \in Id : id[1] \notin sent' => id \notin pending' /\ outcome'[id] = "none"
  OBVIOUS
<1>5. \A n \in Node : \A i \in DOMAIN sending'[n] :
        LET id == sending'[n][i] IN
          /\ Src[id[1]] = n /\ id[1] \in sent'
          /\ id \notin pending' /\ outcome'[id] = "none"
  BY <1>2
<1>6. ResolvedForGood'
  BY <1>3 DEF ResolvedForGood
<1> QED BY <1>4, <1>5, <1>6

\* send() registers each piece once, and only what is pending is resolved.
LEMMA SendOrderHolds == Spec => []SendOrder
<1>1. Init => SendOrder
  BY EmptySeq DEF Init, SendOrder, ResolvedForGood
<1>2. TypeOK /\ SendOrder /\ [Next]_vars => SendOrder'
  <2> SUFFICES ASSUME TypeOK, SendOrder, [Next]_vars PROVE SendOrder'
    OBVIOUS
  <2>0. /\ pending \subseteq Id /\ sending \in [Node -> Seq(Id)]
        /\ outcome \in [Id -> Outcome]
    BY DEF TypeOK
  <2>1. ASSUME NEW p \in Packet, Send(p) PROVE SendOrder'
    <3>1. /\ p \notin sent /\ sent' = sent \cup {p}
          /\ sending' = [sending EXCEPT ![Src[p]] = Pieces(p)]
          /\ UNCHANGED <<pending, outcome>>
      BY <2>1 DEF Send, entries
    <3>2. Src[p] \in Node
      BY NetworkAssumption
    <3>3. \A i \in DOMAIN Pieces(p) : Pieces(p)[i] \in Id /\ Pieces(p)[i][1] = p
      BY PiecesType, PiecesDistinct, ElementOfSeq, LenProperties
    <3>4. sending'[Src[p]] = Pieces(p)
          /\ \A n \in Node \ {Src[p]} : sending'[n] = sending[n]
      BY <2>0, <3>1, <3>2
    <3> QED BY <3>1, <3>2, <3>3, <3>4, PiecesDistinct DEF SendOrder, ResolvedForGood
  <2>2. ASSUME NEW n \in Node, Register(n) PROVE SendOrder'
    <3> DEFINE id == Head(sending[n])
    <3>1. /\ pending' = pending \cup {id}
          /\ sending' = [sending EXCEPT ![n] = Tail(@)]
          /\ UNCHANGED <<sent, outcome>>
          /\ sending[n] # <<>>
      BY <2>2 DEF Register, TypeOK
    <3>2. /\ sending'[n] = Tail(sending[n])
          /\ \A m \in Node \ {n} : sending'[m] = sending[m]
      BY <2>0, <3>1
    <3>3. /\ id = sending[n][1] /\ 1 \in DOMAIN sending[n]
          /\ \A i \in DOMAIN sending'[n] :
               /\ i + 1 \in DOMAIN sending[n] /\ sending'[n][i] = sending[n][i + 1]
               /\ i \in Nat \ {0}
      BY <2>0, <3>1, <3>2, TailElements
    <3> HIDE DEF id
    <3>4. id[1] \in sent /\ Src[id[1]] = n /\ outcome[id] = "none"
      BY <3>3 DEF SendOrder
    <3>5. \A x \in Id : x[1] \notin sent' => x \notin pending' /\ outcome'[x] = "none"
      BY <3>1, <3>4 DEF SendOrder
    <3>6. \A i \in DOMAIN sending'[n] : sending'[n][i] # id
      BY <3>3 DEF SendOrder
    <3>7. \A m \in Node : \A i \in DOMAIN sending'[m] :
            LET x == sending'[m][i] IN
              /\ Src[x[1]] = m /\ x[1] \in sent'
              /\ x \notin pending' /\ outcome'[x] = "none"
      <4>1. ASSUME NEW i \in DOMAIN sending'[n] PROVE
              LET x == sending'[n][i] IN
                /\ Src[x[1]] = n /\ x[1] \in sent'
                /\ x \notin pending' /\ outcome'[x] = "none"
        BY <3>1, <3>3, <3>6, <4>1 DEF SendOrder
      <4>2. ASSUME NEW m \in Node \ {n}, NEW i \in DOMAIN sending'[m] PROVE
              LET x == sending'[m][i] IN
                /\ Src[x[1]] = m /\ x[1] \in sent'
                /\ x \notin pending' /\ outcome'[x] = "none"
        BY <3>1, <3>2, <3>4, <4>2 DEF SendOrder
      <4> QED BY <4>1, <4>2
    <3>8. \A m \in Node : \A i, j \in DOMAIN sending'[m] :
            sending'[m][i] = sending'[m][j] => i = j
      <4>1. ASSUME NEW i \in DOMAIN sending'[n], NEW j \in DOMAIN sending'[n],
                   sending'[n][i] = sending'[n][j]
            PROVE i = j
        <5>1. i + 1 = j + 1
          BY <3>3, <4>1 DEF SendOrder
        <5> QED BY <3>3, <5>1
      <4>2. ASSUME NEW m \in Node \ {n}, NEW i \in DOMAIN sending'[m],
                   NEW j \in DOMAIN sending'[m], sending'[m][i] = sending'[m][j]
            PROVE i = j
        BY <3>2, <4>2 DEF SendOrder
      <4> QED BY <4>1, <4>2
    <3>9. ResolvedForGood'
      BY <3>1, <3>4 DEF SendOrder, ResolvedForGood
    <3> QED BY <3>5, <3>7, <3>8, <3>9 DEF SendOrder
  <2>3. ASSUME NEW n \in Node, SocketError(n) PROVE SendOrder'
    <3>1. /\ sending' = [sending EXCEPT ![n] = <<>>]
          /\ UNCHANGED <<sent, pending, outcome>>
      BY <2>3 DEF SocketError, entries
    <3>2. DOMAIN sending'[n] = {} /\ \A m \in Node \ {n} : sending'[m] = sending[m]
      BY <2>0, <3>1
    <3> QED BY <3>1, <3>2 DEF SendOrder, ResolvedForGood
  <2>4. ASSUME NEW p \in Packet, NEW keep \in BOOLEAN, ReceiveAck(p, keep)
        PROVE  SendOrder'
    <3>1. CASE AckAccepted(p)
      <4>1. /\ Whole(p) \in pending /\ pending' = pending \ {Whole(p)}
            /\ outcome' = [outcome EXCEPT ![Whole(p)] = "acked"]
            /\ UNCHANGED <<sent, sending>>
        BY <2>4, <3>1 DEF ReceiveAck, AckAccepted, sender
      <4>2. \A id \in Id \ {Whole(p)} : outcome'[id] = outcome[id]
        BY <2>0, <4>1
      <4> QED BY <4>1, <4>2, ResolvingKeepsSendOrder
    <3>2. CASE ~AckAccepted(p)
      BY <2>4, <3>2, SendOrderStutters DEF ReceiveAck, sender, entries
    <3> QED BY <3>1, <3>2
  <2>5. ASSUME NEW n \in Node, Timeout(n) PROVE SendOrder'
    <3>1. /\ Exhausted(n) \in SUBSET pending /\ pending' = pending \ Exhausted(n)
          /\ UNCHANGED <<sent, sending>>
      BY <2>5 DEF Timeout, Exhausted, sender
    <3>2. \A id \in Id \ Exhausted(n) : outcome'[id] = outcome[id]
      BY <2>0, <2>5 DEF Timeout
    <3> QED BY <3>1, <3>2, ResolvingKeepsSendOrder
  <2>6. UNCHANGED <<sent, sending, pending, outcome>> => SendOrder'
    BY SendOrderStutters
  <2> QED
    BY <2>1, <2>2, <2>3, <2>4, <2>5, <2>6
    DEF Next, Confirm, LoseAck, Handle, WritePiece, ReceiverStops, LearnKey, Lose,
        ReceiveData, Tick, vars, sender, entries
<1> QED BY <1>1, <1>2, TypeCorrect, PTL DEF Spec

\* Once acknowledged or given up an entry is never pending again, whatever ack
\* or timeout comes between the transmission of a piece and its registration.
THEOREM EntriesResolveOnce == Spec => []ResolvedForGood
<1>1. SendOrder => ResolvedForGood
  BY DEF SendOrder
<1> QED BY <1>1, SendOrderHolds, PTL

-----------------------------------------------------------------------------
(* Duplicate suppression *)

SeenBounded ==
  \A n \in Node : IsFiniteSet(SeenAt(n)) /\ Cardinality(SeenAt(n)) <= MaxSeen

\* Taking one element out of a set that is full, then adding one, or adding
\* one to a set that is not.
LEMMA ReplaceOne ==
  ASSUME NEW K, NEW old, NEW p, NEW cap \in Nat \ {0},
         IsFiniteSet(K), Cardinality(K) <= cap,
         old \in IF Cardinality(K) >= cap THEN {{q} : q \in K} ELSE {{}}
  PROVE  LET R == (K \ old) \cup {p} IN IsFiniteSet(R) /\ Cardinality(R) <= cap
<1>0. Cardinality(K) \in Nat
  BY FS_CardinalityType
<1>1. IsFiniteSet(K \ old) /\ Cardinality(K \ old) < cap /\ Cardinality(K \ old) \in Nat
  <2>1. CASE Cardinality(K) >= cap
    <3>1. PICK q \in K : old = {q}
      BY <2>1
    <3>2. IsFiniteSet(K \ {q}) /\ Cardinality(K \ {q}) = Cardinality(K) - 1
      BY FS_RemoveElement
    <3>3. Cardinality(K \ {q}) \in Nat
      BY <3>2, FS_CardinalityType
    <3> QED BY <1>0, <3>1, <3>2, <3>3
  <2>2. CASE ~(Cardinality(K) >= cap)
    <3>1. K \ old = K
      BY <2>2
    <3> QED BY <1>0, <2>2, <3>1
  <2> QED BY <2>1, <2>2
<1> QED BY <1>1, FS_AddElement

\* What the receiver of a packet has seen after its arrival.
LEMMA SeenAfterArrival ==
  ASSUME NEW id \in Id, NEW keep \in BOOLEAN, ReceiveData(id, keep)
  PROVE  LET n == Dst[id[1]] IN
           /\ \A m \in Node \ {n} : SeenAt(m)' = SeenAt(m)
           /\ \/ SeenAt(n)' = SeenAt(n)
              \/ \E old \in Evictions(n) : SeenAt(n)' = (Kept(n) \ old) \cup {id[1]}
<1> DEFINE n == Dst[id[1]]
<1>1. CASE Complete(id) /\ ~AlreadySeen(id[1])
  <2>1. PICK old \in Evictions(n) :
          seen' = (seen \ SeenAt(n)) \cup (Kept(n) \ old) \cup {id[1]}
    BY <1>1 DEF ReceiveData
  <2>2. Kept(n) \subseteq SeenAt(n)
    BY DEF Kept
  <2>3. SeenAt(n)' = (Kept(n) \ old) \cup {id[1]}
    BY <2>1, <2>2 DEF SeenAt
  <2>4. \A m \in Node \ {n} : SeenAt(m)' = SeenAt(m)
    BY <2>1, <2>2 DEF SeenAt
  <2> QED BY <2>3, <2>4
<1>2. CASE ~(Complete(id) /\ ~AlreadySeen(id[1]))
  BY <1>2 DEF ReceiveData, dedup, SeenAt
<1> QED BY <1>1, <1>2

\* The duplicate filter is finite and capped: an arrival that finds it full
\* takes something out first.
LEMMA SeenBoundedHolds == Spec => []SeenBounded
<1>1. Init => SeenBounded
  <2> SUFFICES ASSUME Init, NEW n \in Node
               PROVE  IsFiniteSet(SeenAt(n)) /\ Cardinality(SeenAt(n)) <= MaxSeen
    BY DEF SeenBounded
  <2>1. SeenAt(n) = {}
    BY DEF Init, SeenAt
  <2> QED BY <2>1, FS_EmptySet, ParameterTypes
<1>2. SeenBounded /\ [Next]_vars => SeenBounded'
  <2> SUFFICES ASSUME SeenBounded, [Next]_vars PROVE SeenBounded'
    OBVIOUS
  <2>1. ASSUME NEW id \in Id, NEW keep \in BOOLEAN, ReceiveData(id, keep)
        PROVE  SeenBounded'
    <3> DEFINE n == Dst[id[1]]
    <3>1. CASE SeenAt(n)' = SeenAt(n)
      BY <2>1, <3>1, SeenAfterArrival DEF SeenBounded
    <3>2. ASSUME NEW old \in Evictions(n), SeenAt(n)' = (Kept(n) \ old) \cup {id[1]}
          PROVE  SeenBounded'
      <4>0. n \in Node
        BY NetworkAssumption, IdType
      <4>1. IsFiniteSet(Kept(n)) /\ Cardinality(Kept(n)) <= MaxSeen
        <5>1. IsFiniteSet(SeenAt(n)) /\ Cardinality(SeenAt(n)) <= MaxSeen
          BY <4>0 DEF SeenBounded
        <5>2. Kept(n) \subseteq SeenAt(n)
          BY DEF Kept
        <5> QED BY <5>1, <5>2, FS_Subset, FS_CardinalityType, ParameterTypes
      <4>2. old \in IF Cardinality(Kept(n)) >= MaxSeen THEN {{q} : q \in Kept(n)} ELSE {{}}
        BY <3>2 DEF Evictions, Oldest
      <4>3. IsFiniteSet(SeenAt(n)') /\ Cardinality(SeenAt(n)') <= MaxSeen
        <5>1. MaxSeen \in Nat \ {0}
          BY ParameterTypes
        <5>2. LET R == (Kept(n) \ old) \cup {id[1]} IN IsFiniteSet(R) /\ Cardinality(R) <= MaxSeen
          BY <4>1, <4>2, <5>1, ReplaceOne
        <5> QED BY <3>2, <5>2
      <4> QED BY <2>1, <4>3, SeenAfterArrival DEF SeenBounded
    <3> QED BY <2>1, <3>1, <3>2, SeenAfterArrival
  <2>2. UNCHANGED seen => SeenBounded'
    BY DEF SeenBounded, SeenAt
  <2> QED
    BY <2>1, <2>2
    DEF Next, Send, Confirm, LoseAck, Handle, ReceiveAck, WritePiece, Register,
        SocketError, Timeout, ReceiverStops, LearnKey, Lose, Tick, vars, dedup
<1> QED BY <1>1, <1>2, PTL DEF Spec

\* The duplicate filter never grows past max_seen: what has outlived the TTL
\* goes first and, when that frees nothing, the oldest entry.
THEOREM SeenCapped == Spec => []SeenWithinCap
<1>1. SeenBounded => SeenWithinCap
  BY DEF SeenBounded, SeenWithinCap
<1> QED BY <1>1, SeenBoundedHolds, PTL
-----------------------------------------------------------------------------
(***************************************************************************)
(* ReliableTransport implements Delivery.  A packet that was forwarded is  *)
(* in the filter, or no copy of it can arrive any more, or it counts as    *)
(* forgotten; and since a packet is sent once, what cannot arrive any more *)
(* never can again.                                                        *)
(***************************************************************************)
OnlySent ==
  /\ \A p \in Packet : p \notin sent => forwarded[p] = 0
  /\ \A id \in Id : id[1] \notin sent => data[id] = 0

\* What the filter holds was forwarded.
Known == \A p \in seen : forwarded[p] > 0

\* A forwarded packet is filtered, forgotten, or gone from the network.
Recalled ==
  \A p \in Packet : forwarded[p] > 0 /\ p \notin forgotten => AlreadySeen(p) \/ ~Alive(p)

\* Only an arrival forwards, and it never takes a forwarding back.
LEMMA ForwardedStays ==
  ASSUME TypeOK, [Next]_vars, NEW p \in Packet, forwarded[p] > 0
  PROVE  forwarded'[p] > 0
<1>1. ASSUME NEW id \in Id, NEW keep \in BOOLEAN, ReceiveData(id, keep)
      PROVE  forwarded'[p] > 0
  BY <1>1, ForwardedGrows
<1>2. UNCHANGED forwarded => forwarded'[p] > 0
  OBVIOUS
<1> QED
  BY <1>1, <1>2
  DEF Next, Send, Confirm, LoseAck, Handle, ReceiveAck, WritePiece, Register,
      SocketError, Timeout, ReceiverStops, LearnKey, Lose, Tick, vars, application

\* A datagram that arrives was in the network.
LEMMA ArrivalOf ==
  ASSUME TypeOK, NEW id \in Id, NEW keep \in BOOLEAN, ReceiveData(id, keep)
  PROVE  /\ data[id] > 0 /\ id[1] \in Packet
         /\ \A x \in Id : data'[x] \in {data[x], 0}
         /\ UNCHANGED <<sent, sending, pending, retries, stopped>>
BY IdType DEF ReceiveData, Arrive, TypeOK, sender, entries

LEMMA OnlySentHolds == Spec => []OnlySent
<1>1. Init => OnlySent
  BY DEF Init, OnlySent
<1>2. TypeOK /\ SendOrder /\ OnlySent /\ [Next]_vars => OnlySent'
  <2> SUFFICES ASSUME TypeOK, SendOrder, OnlySent, [Next]_vars PROVE OnlySent'
    OBVIOUS
  <2>0. /\ data \in [Id -> 0..Lifetime + 1] /\ forwarded \in [Packet -> 0..2]
        /\ sending \in [Node -> Seq(Id)]
    BY DEF TypeOK
  <2>1. ASSUME NEW p \in Packet, Send(p) PROVE OnlySent'
    BY <2>1 DEF Send, OnlySent, network, application
  <2>2. ASSUME NEW n \in Node, WritePiece(n) PROVE OnlySent'
    <3> DEFINE id == Head(sending[n])
    <3>1. /\ sending[n] # <<>> /\ data' = [data EXCEPT ![id] = Fresh]
          /\ UNCHANGED <<sent, forwarded>>
      BY <2>2 DEF WritePiece, application
    <3>2. 1 \in DOMAIN sending[n] /\ id = sending[n][1] /\ id \in Id
      BY <2>0, <3>1, TailElements, HeadTailProperties
    <3> HIDE DEF id
    <3>3. id[1] \in sent
      BY <3>2 DEF SendOrder
    <3> QED BY <2>0, <3>1, <3>2, <3>3 DEF OnlySent
  <2>3. ASSUME NEW n \in Node, Timeout(n) PROVE OnlySent'
    <3>1. \A id \in Due(n) : id \in Id /\ id[1] \in sent
      BY DEF Due, From, SendOrder
    <3>2. \A id \in Id : id \notin Due(n) => data'[id] = data[id]
      BY <2>3 DEF Timeout
    <3>3. UNCHANGED <<sent, forwarded>>
      BY <2>3 DEF Timeout, sender, application
    <3> QED BY <3>1, <3>2, <3>3 DEF OnlySent
  <2>4. ASSUME NEW id \in Id, NEW keep \in BOOLEAN, ReceiveData(id, keep) PROVE OnlySent'
    <3>1. /\ data[id] # 0 /\ id[1] \in Packet /\ UNCHANGED sent
          /\ \A x \in Id : data'[x] \in {data[x], 0}
      BY <2>4, ArrivalOf
    <3>2. id[1] \in sent
      BY <3>1 DEF OnlySent
    <3>3. \A p \in Packet \ {id[1]} : forwarded'[p] = forwarded[p]
      BY <2>0, <2>4 DEF ReceiveData
    <3> QED BY <3>1, <3>2, <3>3 DEF OnlySent
  <2>5. ASSUME NEW id \in Id, Lose(id) PROVE OnlySent'
    BY <2>0, <2>5 DEF Lose, OnlySent, sender, application
  <2>6. CASE Tick
    <3>1. \A id \in Id : data[id] = 0 => data'[id] = 0
      BY <2>6 DEF Tick, Shorter
    <3> QED BY <2>6, <3>1 DEF Tick, OnlySent, sender, application
  <2>7. UNCHANGED <<sent, forwarded, data>> => OnlySent'
    BY DEF OnlySent
  <2> QED
    BY <2>1, <2>2, <2>3, <2>4, <2>5, <2>6, <2>7
    DEF Next, Confirm, LoseAck, Handle, ReceiveAck, Register, SocketError, ReceiverStops,
        LearnKey, vars, sender, network, application
<1> QED BY <1>1, <1>2, TypeCorrect, SendOrderHolds, PTL DEF Spec

LEMMA KnownHolds == Spec => []Known
<1>1. Init => Known
  BY DEF Init, Known
<1>2. TypeOK /\ Known /\ [Next]_vars => Known'
  <2> SUFFICES ASSUME TypeOK, Known, [Next]_vars PROVE Known'
    OBVIOUS
  <2>1. \A p \in seen : p \in Packet /\ forwarded'[p] > 0
    BY ForwardedStays DEF Known, TypeOK
  <2>2. ASSUME NEW id \in Id, NEW keep \in BOOLEAN, ReceiveData(id, keep) PROVE Known'
    <3>1. CASE Complete(id) /\ ~AlreadySeen(id[1])
      <4>1. seen' \subseteq seen \cup {id[1]}
        BY <2>2, <3>1 DEF ReceiveData, Kept, SeenAt
      <4>2. forwarded' = [forwarded EXCEPT ![id[1]] = IF @ = 0 THEN 1 ELSE 2]
        BY <2>2, <3>1 DEF ReceiveData
      <4>3. forwarded'[id[1]] > 0
        BY <4>2, IdType DEF TypeOK
      <4> QED BY <2>1, <4>1, <4>3 DEF Known
    <3>2. CASE ~(Complete(id) /\ ~AlreadySeen(id[1]))
      BY <2>1, <2>2, <3>2 DEF ReceiveData, Known, dedup
    <3> QED BY <3>1, <3>2
  <2>3. UNCHANGED seen => Known'
    BY <2>1 DEF Known
  <2> QED
    BY <2>2, <2>3
    DEF Next, Send, Confirm, LoseAck, Handle, ReceiveAck, WritePiece, Register,
        SocketError, Timeout, ReceiverStops, LearnKey, Lose, Tick, vars, dedup
<1> QED BY <1>1, <1>2, TypeCorrect, PTL DEF Spec

\* A step that adds no copy of p and nothing that could be retransmitted.
LEMMA FewerCopies ==
  ASSUME NEW p \in Packet,
         \A n \in Node : sending'[n] \in {sending[n], <<>>},
         \A id \in Id : data'[id] > 0 => data[id] > 0,
         \A id \in Id : MayRetry(id)' => MayRetry(id),
         Alive(p)'
  PROVE  Alive(p)
<1>1. CASE \E n \in Node : \E i \in DOMAIN sending'[n] : sending'[n][i][1] = p
  <2>1. \A n \in Node : \A i \in DOMAIN sending'[n] : sending'[n] = sending[n]
    BY EmptySeq
  <2> QED BY <1>1, <2>1 DEF Alive
<1>2. CASE \E id \in Id : id[1] = p /\ (data'[id] > 0 \/ MayRetry(id)')
  BY <1>2 DEF Alive
<1> QED BY <1>1, <1>2 DEF Alive

\* Nothing but send() makes a packet arrive that cannot arrive any more.
LEMMA NothingRevives ==
  ASSUME TypeOK, SendOrder, [Next]_vars, NEW p \in Packet, p \in sent, Alive(p)'
  PROVE  Alive(p)
<1>0. /\ sending \in [Node -> Seq(Id)] /\ data \in [Id -> 0..Lifetime + 1]
      /\ pending \subseteq Id /\ retries \in [Id -> 0..MaxRetries] /\ Lifetime \in Nat
  BY ParameterTypes DEF TypeOK
<1>1. ASSUME NEW q \in Packet, Send(q) PROVE Alive(p)
  <2>1. /\ q \notin sent /\ sending' = [sending EXCEPT ![Src[q]] = Pieces(q)]
        /\ UNCHANGED <<data, pending, retries, stopped>>
    BY <1>1 DEF Send, entries, network
  <2>2. /\ sending'[Src[q]] = Pieces(q)
        /\ \A n \in Node \ {Src[q]} : sending'[n] = sending[n]
    BY <1>0, <2>1, NetworkAssumption
  <2>3. \A i \in DOMAIN Pieces(q) : Pieces(q)[i][1] # p
    BY <2>1, PiecesDistinct
  <2>4. \A id \in Id : MayRetry(id)' <=> MayRetry(id)
    BY <2>1 DEF MayRetry
  <2> QED BY <2>1, <2>2, <2>3, <2>4 DEF Alive
<1>2. ASSUME NEW n \in Node, WritePiece(n) PROVE Alive(p)
  <2> DEFINE x == Head(sending[n])
  <2>1. /\ sending[n] # <<>> /\ data' = [data EXCEPT ![x] = Fresh]
        /\ UNCHANGED <<sending, pending, retries, stopped>>
    BY <1>2 DEF WritePiece, entries
  <2>2. 1 \in DOMAIN sending[n] /\ x = sending[n][1] /\ x \in Id
    BY <1>0, <2>1, TailElements, HeadTailProperties
  <2> HIDE DEF x
  <2>3. \A id \in Id : MayRetry(id)' <=> MayRetry(id)
    BY <2>1 DEF MayRetry
  <2>4. \A id \in Id \ {x} : data'[id] = data[id]
    BY <1>0, <2>1
  <2> QED BY <2>1, <2>2, <2>3, <2>4 DEF Alive
<1>3. ASSUME NEW n \in Node, Register(n) PROVE Alive(p)
  <2> DEFINE x == Head(sending[n])
  <2>1. /\ sending[n] # <<>> /\ sending' = [sending EXCEPT ![n] = Tail(@)]
        /\ pending' = pending \cup {x} /\ retries' = [retries EXCEPT ![x] = 0]
        /\ UNCHANGED <<data, stopped>>
    BY <1>3 DEF Register, TypeOK, network
  <2>2. 1 \in DOMAIN sending[n] /\ x = sending[n][1] /\ x \in Id
    BY <1>0, <2>1, TailElements, HeadTailProperties
  <2> HIDE DEF x
  <2>3. \A m \in Node : \A i \in DOMAIN sending'[m] :
          \E j \in DOMAIN sending[m] : sending'[m][i] = sending[m][j]
    <3>1. \A m \in Node \ {n} : sending'[m] = sending[m]
      BY <1>0, <2>1
    <3>2. sending'[n] = Tail(sending[n])
      BY <1>0, <2>1
    <3>3. \A i \in DOMAIN sending'[n] :
            i + 1 \in DOMAIN sending[n] /\ sending'[n][i] = sending[n][i + 1]
      BY <1>0, <2>1, <3>2, TailElements
    <3> QED BY <3>1, <3>3
  <2>4. \A id \in Id \ {x} : MayRetry(id)' => MayRetry(id)
    BY <1>0, <2>1 DEF MayRetry
  <2>5. CASE \E m \in Node : \E i \in DOMAIN sending'[m] : sending'[m][i][1] = p
    BY <2>3, <2>5 DEF Alive
  <2>6. CASE \E id \in Id : id[1] = p /\ (data'[id] > 0 \/ MayRetry(id)')
    BY <2>1, <2>2, <2>4, <2>6 DEF Alive
  <2> QED BY <2>5, <2>6 DEF Alive
<1>4. ASSUME NEW n \in Node, SocketError(n) PROVE Alive(p)
  <2>1. /\ sending' = [sending EXCEPT ![n] = <<>>]
        /\ UNCHANGED <<data, pending, retries, stopped>>
    BY <1>4 DEF SocketError, entries, network
  <2>2. \A id \in Id : MayRetry(id)' => MayRetry(id)
    BY <2>1 DEF MayRetry
  <2> QED BY <1>0, <2>1, <2>2, FewerCopies
<1>5. ASSUME NEW q \in Packet, NEW keep \in BOOLEAN, ReceiveAck(q, keep) PROVE Alive(p)
  <2>1. UNCHANGED <<sending, data, stopped>>
    BY <1>5 DEF ReceiveAck, sender
  <2>2. \A id \in Id : id \in pending' => id \in pending /\ retries'[id] = retries[id]
    <3>1. CASE AckAccepted(q)
      <4>1. /\ pending' = pending \ {Whole(q)} /\ retries' = [retries EXCEPT ![Whole(q)] = 0]
        BY <1>5, <3>1 DEF ReceiveAck
      <4> QED BY <1>0, <4>1
    <3>2. CASE ~AckAccepted(q)
      BY <1>5, <3>2 DEF ReceiveAck, entries
    <3> QED BY <3>1, <3>2
  <2>3. \A id \in Id : MayRetry(id)' => MayRetry(id)
    BY <2>1, <2>2 DEF MayRetry
  <2> QED BY <2>1, <2>3, FewerCopies
<1>6. ASSUME NEW n \in Node, Timeout(n) PROVE Alive(p)
  <2>1. /\ UNCHANGED <<sending, stopped>> /\ n \notin stopped
        /\ pending' = pending \ Exhausted(n)
    BY <1>6 DEF Timeout, sender
  <2>2. \A id \in Due(n) : id \in Id /\ MayRetry(id)
    BY <1>0, <2>1, ParameterTypes DEF Due, Exhausted, From, MayRetry
  <2>3. \A id \in Id : id \notin Due(n) => data'[id] = data[id]
    BY <1>6 DEF Timeout
  <2>4. \A id \in Id : id \notin Due(n) /\ MayRetry(id)' => MayRetry(id)
    <3>1. \A id \in Id : id \notin Due(n) /\ id \in pending' => retries'[id] = retries[id]
      BY <1>6, <2>1 DEF Timeout
    <3> QED BY <2>1, <3>1 DEF MayRetry
  <2> QED BY <2>1, <2>2, <2>3, <2>4 DEF Alive
<1>7. ASSUME NEW id \in Id, NEW keep \in BOOLEAN, ReceiveData(id, keep) PROVE Alive(p)
  <2>1. /\ \A x \in Id : data'[x] \in {data[x], 0}
        /\ UNCHANGED <<sending, pending, retries, stopped>>
    BY <1>7, ArrivalOf
  <2>2. \A x \in Id : MayRetry(x)' => MayRetry(x)
    BY <2>1 DEF MayRetry
  <2> QED BY <2>1, <2>2, FewerCopies
<1>8. ASSUME NEW id \in Id, Lose(id) PROVE Alive(p)
  <2>1. /\ data' = [data EXCEPT ![id] = 0]
        /\ UNCHANGED <<sending, pending, retries, stopped>>
    BY <1>8 DEF Lose, sender, entries
  <2>2. \A x \in Id : MayRetry(x)' => MayRetry(x)
    BY <2>1 DEF MayRetry
  <2>3. \A x \in Id : data'[x] > 0 => data[x] > 0
    BY <1>0, <2>1
  <2> QED BY <2>1, <2>2, <2>3, FewerCopies
<1>9. CASE Tick
  <2>1. UNCHANGED <<sending, pending, retries, stopped>>
    BY <1>9 DEF Tick, sender
  <2>2. \A x \in Id : data'[x] > 0 => data[x] > 0
    BY <1>0, <1>9 DEF Tick, Shorter
  <2>3. \A x \in Id : MayRetry(x)' => MayRetry(x)
    BY <2>1 DEF MayRetry
  <2> QED BY <2>1, <2>2, <2>3, FewerCopies
<1>10. ASSUME NEW n \in Node, ReceiverStops(n) PROVE Alive(p)
  <2>1. /\ stopped \subseteq stopped' /\ UNCHANGED <<sending, data, pending, retries>>
    BY <1>10 DEF ReceiverStops, sender, entries, network
  <2>2. \A x \in Id : MayRetry(x)' => MayRetry(x)
    BY <2>1 DEF MayRetry
  <2> QED BY <2>1, <2>2, FewerCopies
<1>11. ASSUME UNCHANGED <<sending, data, pending, retries, stopped>> PROVE Alive(p)
  BY <1>11, FewerCopies DEF MayRetry
<1> QED
  BY <1>1, <1>2, <1>3, <1>4, <1>5, <1>6, <1>7, <1>8, <1>9, <1>10, <1>11
  DEF Next, Confirm, LoseAck, Handle, LearnKey, vars, sender, entries, network

LEMMA RecalledHolds == Spec => []Recalled
<1>1. Init => Recalled
  BY DEF Init, Recalled
<1>2. TypeOK /\ SendOrder /\ OnlySent /\ Recalled /\ [Next]_vars => Recalled'
  <2> SUFFICES ASSUME TypeOK, SendOrder, OnlySent, Recalled, [Next]_vars,
                      NEW p \in Packet, forwarded'[p] > 0, p \notin forgotten',
                      ~AlreadySeen(p)'
               PROVE  ~Alive(p)'
    BY DEF Recalled
  <2>0. ASSUME forwarded[p] > 0, p \notin forgotten, ~AlreadySeen(p) PROVE ~Alive(p)'
    <3>1. p \in sent /\ ~Alive(p)
      BY <2>0 DEF OnlySent, Recalled
    <3> QED BY <3>1, NothingRevives
  <2>1. ASSUME NEW id \in Id, NEW keep \in BOOLEAN, ReceiveData(id, keep)
        PROVE  ~Alive(p)'
    <3>1. CASE Complete(id) /\ ~AlreadySeen(id[1])
      <4>1. /\ id[1] \in seen' /\ forgotten' = (forgotten \ {id[1]}) \cup Forgets
            /\ seenAge' = [q \in Packet |-> IF q \in seen' \ {id[1]} THEN seenAge[q] ELSE 0]
            /\ forwarded' = [forwarded EXCEPT ![id[1]] = IF @ = 0 THEN 1 ELSE 2]
        BY <2>1, <3>1 DEF ReceiveData
      <4>2. seenAge'[id[1]] = 0
        BY <4>1, IdType
      <4>3. p # id[1]
        BY <4>1, <4>2, ParameterTypes DEF AlreadySeen
      <4>4. forwarded'[p] = forwarded[p] /\ p \notin forgotten /\ p \notin Forgets
        BY <4>1, <4>3 DEF TypeOK
      <4> QED BY <2>0, <4>4 DEF Forgets
    <3>2. CASE ~(Complete(id) /\ ~AlreadySeen(id[1]))
      <4>1. UNCHANGED <<seen, seenAge, forgotten, forwarded>>
        BY <2>1, <3>2 DEF ReceiveData, dedup
      <4> QED BY <2>0, <4>1 DEF AlreadySeen
    <3> QED BY <3>1, <3>2
  <2>2. CASE Tick
    <3>1. UNCHANGED forwarded /\ forgotten' = forgotten \cup Forgets
      BY <2>2 DEF Tick, application
    <3> QED BY <2>0, <3>1 DEF Forgets
  <2>3. UNCHANGED <<seen, seenAge, forgotten, forwarded>> => ~Alive(p)'
    BY <2>0 DEF AlreadySeen
  <2> QED
    BY <2>1, <2>2, <2>3
    DEF Next, Send, Confirm, LoseAck, Handle, ReceiveAck, WritePiece, Register,
        SocketError, Timeout, ReceiverStops, LearnKey, Lose, vars, dedup, application
<1> QED BY <1>1, <1>2, TypeCorrect, SendOrderHolds, OnlySentHolds, PTL DEF Spec

Acknowledged == {p \in Packet : Chunks[p] <= 1 /\ outcome[Whole(p)] = "acked"}

\* Init maps to the initial state of Delivery.
LEMMA InitImplements == Init => D!Init
<1>1. \A p \in Packet : Chunks[p] <= 1 => Whole(p) \in Id
  BY DEF Whole, Id, Indices
<1> QED BY <1>1 DEF Init, D!Init

\* Every step maps to a step of Delivery on one packet or leaves it alone.
LEMMA StepImplements ==
  ASSUME TypeOK, AckChain, SendOrder, OnlySent, Known, Recalled, [Next]_vars
  PROVE  [D!Next]_(D!vars)
<1>0. /\ \A p \in Packet : Chunks[p] <= 1 => Whole(p) \in Id
      /\ outcome \in [Id -> Outcome] /\ forwarded \in [Packet -> 0..2]
  BY DEF Whole, Id, Indices, TypeOK
<1> DEFINE kept == UNCHANGED <<sent, forwarded, forgotten, handled, confirmed>>
<1>1. ASSUME NEW p \in Packet, Send(p) PROVE D!Request(p)
  BY <1>1 DEF Send, D!Request, entries, dedup, application
<1>2. ASSUME NEW p \in Packet, Confirm(p) PROVE D!Confirm(p) \/ UNCHANGED D!vars
  <2>1. p \in handled /\ UNCHANGED <<sent, forwarded, forgotten, handled, outcome>>
    BY <1>2 DEF Confirm, Confirmable, AckChain, sender, entries, dedup
  <2>2. confirmed' = confirmed \/ confirmed' = confirmed \cup {p}
    BY <1>2 DEF Confirm
  <2> QED BY <2>1, <2>2 DEF D!Confirm, D!vars
<1>3. ASSUME NEW p \in Packet, NEW ok \in BOOLEAN, Handle(p, ok)
      PROVE  D!Handle(p)
  <2>1. /\ p \in inbox /\ UNCHANGED <<sent, forwarded, forgotten, confirmed, outcome>>
        /\ handled' = handled \cup {p}
    BY <1>3 DEF Handle, sender, entries, dedup
  <2>2. forwarded[p] > 0
    BY <2>1 DEF AckChain
  <2> QED BY <2>1, <2>2 DEF D!Handle
<1>4. ASSUME NEW p \in Packet, NEW keep \in BOOLEAN, ReceiveAck(p, keep)
      PROVE  D!Acknowledge(p) \/ UNCHANGED D!vars
  <2>1. p \in confirmed /\ kept
    BY <1>4 DEF ReceiveAck, AckChain, sender, dedup, application
  <2>2. CASE AckAccepted(p)
    <3>1. Whole(p) \in Id /\ outcome' = [outcome EXCEPT ![Whole(p)] = "acked"]
      BY <1>4, <2>2 DEF ReceiveAck, AckAccepted, TypeOK
    <3>2. Chunks[p] <= 1
      <4>1. 0 \in Indices(p)
        BY <3>1 DEF Whole, Id
      <4> QED BY <4>1 DEF Indices
    <3>3. outcome'[Whole(p)] = "acked" /\ \A id \in Id \ {Whole(p)} : outcome'[id] = outcome[id]
      BY <1>0, <3>1
    <3>4. \A q \in Packet \ {p} : Whole(q) # Whole(p)
      BY DEF Whole
    <3>5. Acknowledged' = Acknowledged \cup {p}
      BY <1>0, <3>2, <3>3, <3>4 DEF Acknowledged
    <3> QED BY <2>1, <3>5 DEF D!Acknowledge, Acknowledged
  <2>3. CASE ~AckAccepted(p)
    BY <1>4, <2>1, <2>3 DEF ReceiveAck, D!vars, entries
  <2> QED BY <2>2, <2>3
<1>5. ASSUME NEW n \in Node, Timeout(n) PROVE UNCHANGED D!vars
  <2>1. \A id \in Id : outcome'[id] = "acked" <=> outcome[id] = "acked"
    <3>1. \A id \in Exhausted(n) : id \in pending /\ outcome[id] = "none"
      BY DEF Exhausted, SendOrder, ResolvedForGood
    <3>2. \A id \in Id : outcome'[id] = IF id \in Exhausted(n) THEN "gaveup" ELSE outcome[id]
      BY <1>5 DEF Timeout
    <3> QED BY <3>1, <3>2
  <2>2. Acknowledged' = Acknowledged
    BY <1>0, <2>1 DEF Acknowledged
  <2> QED BY <1>5, <2>2 DEF Timeout, D!vars, Acknowledged, sender, dedup, application
<1>6. ASSUME NEW id \in Id, NEW keep \in BOOLEAN, ReceiveData(id, keep)
      PROVE  D!Forward(id[1]) \/ UNCHANGED D!vars
  <2>1. UNCHANGED <<sent, handled, confirmed, outcome>> /\ data[id] > 0
    BY <1>6 DEF ReceiveData, sender, entries
  <2>2. CASE Complete(id) /\ ~AlreadySeen(id[1])
    <3>1. id[1] \in sent
      <4>1. data[id] # 0
        BY <2>1
      <4> QED BY <4>1 DEF OnlySent
    <3>2. forwarded[id[1]] = 0 \/ id[1] \in forgotten
      <4>1. Alive(id[1])
        BY <2>1 DEF Alive
      <4>2. ~(forwarded[id[1]] > 0 /\ id[1] \notin forgotten)
        BY <2>2, <4>1, IdType DEF Recalled
      <4> QED BY <1>0, <4>2, IdType
    <3>3. /\ forwarded' = [forwarded EXCEPT ![id[1]] = IF @ = 0 THEN 1 ELSE 2]
          /\ forgotten' = (forgotten \ {id[1]}) \cup Forgets
      BY <1>6, <2>2 DEF ReceiveData
    <3>4. Forgets \subseteq D!Forgettable \ {id[1]}
      BY <2>2 DEF Forgets, AlreadySeen, Known, D!Forgettable
    <3>5. /\ forgotten \ {id[1]} \subseteq forgotten'
          /\ forgotten' \subseteq (forgotten \cup D!Forgettable) \ {id[1]}
      BY <3>3, <3>4
    <3> QED BY <2>1, <3>1, <3>2, <3>3, <3>5 DEF D!Forward
  <2>3. CASE ~(Complete(id) /\ ~AlreadySeen(id[1]))
    BY <1>6, <2>1, <2>3 DEF ReceiveData, D!vars, dedup
  <2> QED BY <2>2, <2>3
<1>11. CASE Tick
  <2>1. /\ UNCHANGED <<sent, forwarded, handled, confirmed, outcome>>
        /\ forgotten' = forgotten \cup Forgets
    BY <1>11 DEF Tick, sender, application
  <2>2. Forgets \subseteq D!Forgettable
    BY DEF Forgets, AlreadySeen, Known, D!Forgettable
  <2>3. D!Forget
    BY <2>1, <2>2 DEF D!Forget
  <2> QED BY <2>3 DEF D!Next
<1>7. kept /\ UNCHANGED outcome => UNCHANGED D!vars
  BY DEF D!vars
<1>8. UNCHANGED D!vars => [D!Next]_(D!vars)
  OBVIOUS
<1>9. ASSUME NEW p \in Packet,
             D!Request(p) \/ D!Forward(p) \/ D!Handle(p) \/ D!Confirm(p) \/ D!Acknowledge(p)
      PROVE  [D!Next]_(D!vars)
  BY <1>9 DEF D!Next
<1>10. \/ \E p \in Packet : Send(p) \/ Confirm(p)
       \/ \E p \in Packet, ok \in BOOLEAN : Handle(p, ok) \/ ReceiveAck(p, ok)
       \/ \E n \in Node : Timeout(n)
       \/ \E id \in Id, keep \in BOOLEAN : ReceiveData(id, keep)
       \/ Tick
       \/ kept /\ UNCHANGED outcome
  BY DEF Next, LoseAck, WritePiece, Register, SocketError, ReceiverStops, LearnKey, Lose,
         vars, sender, entries, dedup, application
<1> HIDE DEF kept
<1> QED
  BY <1>1, <1>2, <1>3, <1>4, <1>5, <1>6, <1>7, <1>8, <1>9, <1>10, <1>11, IdType

\* The transport implements Delivery, with no condition on timing or load: a
\* packet is forwarded only if it was sent, once and once more each time the
\* filter forgot it, and acknowledged only after its receiver confirmed it,
\* which it does only with what a tick took up.
THEOREM TransportRefines == Spec => RefinesDelivery
<1>1. Init => D!Init
  BY InitImplements
<1>2. TypeOK /\ AckChain /\ SendOrder /\ OnlySent /\ Known /\ Recalled /\ [Next]_vars
        => [D!Next]_(D!vars)
  BY StepImplements
<1> QED
  BY <1>1, <1>2, TypeCorrect, AckChainHolds, SendOrderHolds, OnlySentHolds, KnownHolds,
     RecalledHolds, PTL
  DEF Spec, RefinesDelivery, D!Spec

-----------------------------------------------------------------------------
(***************************************************************************)
(* When nothing is forgotten.  The filter forgets in two ways, by an       *)
(* entry's age (dedup_ttl) and by its number of entries (max_seen), and    *)
(* the code bounds neither the packets that reach a node nor the time a    *)
(* busy socket goes without retransmitting.  Where both stay in bounds, a  *)
(* copy of a packet arrives only while a datagram is in flight or an entry *)
(* of the packet still has retries, and each retry takes one RETRY_DELAY:  *)
(* when the filter keeps what is younger than that whole span, no late     *)
(* copy finds its packet forgotten.                                        *)
(***************************************************************************)
\* Ticks from one transmission of a piece to the next, and from the first
\* transmission to the last.
RetryPeriod == RetryDelay + 1
RetrySpan == MaxRetries * RetryPeriod

\* Fewer than max_seen packets reach a node within one dedup_ttl.
Recent(n) == {p \in SeenAt(n) : seenAge[p] < DedupTTL}
LoadBelowCap == \A n \in Node : Cardinality(Recent(n)) < MaxSeen

(* The inductive invariant: the age a forwarded packet has in the filter is *)
(* bounded by the age of everything that may still produce a copy of it.    *)

ForwardedOnce == \A p \in Packet : forwarded[p] <= 1

\* A copy within send(): no tick has passed since its first piece was sent.
SendingFresh ==
  \A n \in Node : \A i \in DOMAIN sending[n] :
    LET p == sending[n][i][1] IN forwarded[p] > 0 => p \in seen /\ seenAge[p] = 0

\* A copy in the network.
FlightWindow ==
  \A id \in Id : data[id] > 0 /\ forwarded[id[1]] > 0 =>
    /\ id[1] \in seen
    /\ seenAge[id[1]] + data[id] <= RetrySpan + Lifetime + 1

\* A copy the receive thread may still retransmit.
RetryWindow ==
  \A id \in Id : MayRetry(id) /\ forwarded[id[1]] > 0 =>
    /\ id[1] \in seen
    /\ seenAge[id[1]] <= retries[id] * RetryPeriod + waited[id]

Remembered ==
  ForwardedOnce /\ SendingFresh /\ FlightWindow /\ RetryWindow

-----------------------------------------------------------------------------
(* Arithmetic of the retry schedule *)

LEMMA SpanTypes ==
  /\ RetryPeriod \in Nat /\ RetrySpan \in Nat
  /\ \A r \in Nat : r * RetryPeriod \in Nat
<1>1. RetryPeriod \in Nat /\ MaxRetries \in Nat
  BY ParameterTypes DEF RetryPeriod
<1>2. \A r \in Nat : r * RetryPeriod \in Nat
  BY <1>1
<1> QED BY <1>1, <1>2 DEF RetrySpan

\* One more retry adds one period, and MAX_RETRIES of them make the span.
LEMMA RetrySteps ==
  ASSUME NEW r \in Nat
  PROVE  /\ (r + 1) * RetryPeriod = r * RetryPeriod + RetryPeriod
         /\ r < MaxRetries => r * RetryPeriod + RetryPeriod <= RetrySpan
<1>0. RetryPeriod \in Nat /\ MaxRetries \in Nat
  BY SpanTypes, ParameterTypes
<1>1. (r + 1) * RetryPeriod = r * RetryPeriod + RetryPeriod
  BY <1>0
<1>2. ASSUME r < MaxRetries PROVE (r + 1) * RetryPeriod <= MaxRetries * RetryPeriod
  <2>1. r + 1 <= MaxRetries /\ r + 1 \in Nat
    BY <1>0, <1>2
  <2>2. PICK k \in Nat : MaxRetries = (r + 1) + k
    <3>1. MaxRetries - (r + 1) \in Nat /\ MaxRetries = (r + 1) + (MaxRetries - (r + 1))
      BY <1>0, <2>1
    <3> QED BY <3>1
  <2>3. MaxRetries * RetryPeriod = (r + 1) * RetryPeriod + k * RetryPeriod
    BY <1>0, <2>2
  <2>4. k * RetryPeriod \in Nat /\ (r + 1) * RetryPeriod \in Nat
    BY <1>0, <2>1, SpanTypes
  <2> QED BY <2>3, <2>4
<1> QED BY <1>1, <1>2 DEF RetrySpan

-----------------------------------------------------------------------------
(* The duplicate filter below its cap *)

\* Below the cap an arrival forgets nothing younger than dedup_ttl.
LEMMA ArrivalKeepsRecent ==
  ASSUME TypeOK, SeenBounded, LoadBelowCap,
         NEW id \in Id, NEW keep \in BOOLEAN, ReceiveData(id, keep),
         Complete(id) /\ ~AlreadySeen(id[1])
  PROVE  /\ id[1] \in seen' /\ seenAge'[id[1]] = 0
         /\ \A q \in seen \ {id[1]} : seenAge[q] < DedupTTL =>
              q \in seen' /\ seenAge'[q] = seenAge[q]
<1> DEFINE n == Dst[id[1]]
<1>0. n \in Node /\ id[1] \in Packet /\ seen \subseteq Packet
  BY NetworkAssumption, IdType DEF TypeOK
<1>1. PICK old \in Evictions(n) :
        seen' = (seen \ SeenAt(n)) \cup (Kept(n) \ old) \cup {id[1]}
  BY DEF ReceiveData
<1>2. seenAge' = [q \in Packet |-> IF q \in seen' \ {id[1]} THEN seenAge[q] ELSE 0]
  BY DEF ReceiveData
<1>3. old = {}
  <2>1. CASE Cardinality(SeenAt(n)) >= MaxSeen
    <3>1. Kept(n) = Recent(n) /\ Cardinality(Recent(n)) < MaxSeen
      BY <1>0, <2>1 DEF Kept, Recent, LoadBelowCap
    <3>2. IsFiniteSet(Recent(n))
      BY <1>0, FS_Subset DEF Recent, SeenBounded
    <3>3. Cardinality(Recent(n)) \in Nat
      BY <3>2, FS_CardinalityType
    <3>4. ~(Cardinality(Kept(n)) >= MaxSeen)
      BY <3>1, <3>3, ParameterTypes
    <3> QED BY <1>1, <3>4 DEF Evictions
  <2>2. CASE ~(Cardinality(SeenAt(n)) >= MaxSeen)
    BY <1>1, <2>2 DEF Kept, Evictions
  <2> QED BY <2>1, <2>2
<1>4. \A q \in seen : seenAge[q] < DedupTTL => q \in seen'
  BY <1>1, <1>3 DEF Kept, SeenAt
<1> QED BY <1>0, <1>1, <1>2, <1>4

\* A packet a copy of which may still arrive is in the filter, and young.
LEMMA RememberedIsRecent ==
  ASSUME TypeOK, Remembered, DedupTTL > RetrySpan + Lifetime, NEW p \in Packet,
         forwarded[p] > 0
  PROVE  /\ \A n \in Node : \A i \in DOMAIN sending[n] :
              sending[n][i][1] = p => p \in seen /\ seenAge[p] < DedupTTL
         /\ \A id \in Id : id[1] = p /\ (data[id] > 0 \/ MayRetry(id)) =>
              p \in seen /\ seenAge[p] < DedupTTL
<1>0. /\ seenAge[p] \in Nat /\ RetrySpan \in Nat /\ Lifetime \in Nat /\ RetryPeriod \in Nat
      /\ DedupTTL \in Nat
  BY SpanTypes, ParameterTypes DEF TypeOK
<1>1. ASSUME NEW n \in Node, NEW i \in DOMAIN sending[n], sending[n][i][1] = p
      PROVE  p \in seen /\ seenAge[p] < DedupTTL
  <2>1. p \in seen /\ seenAge[p] = 0
    BY <1>1 DEF Remembered, SendingFresh
  <2> QED BY <1>0, <2>1
<1>2. ASSUME NEW id \in Id, id[1] = p, data[id] > 0
      PROVE  p \in seen /\ seenAge[p] < DedupTTL
  <2>1. p \in seen /\ seenAge[p] + data[id] <= RetrySpan + Lifetime + 1
    BY <1>2 DEF Remembered, FlightWindow
  <2>2. data[id] \in Nat
    BY ParameterTypes DEF TypeOK
  <2> QED BY <1>0, <1>2, <2>1, <2>2
<1>3. ASSUME NEW id \in Id, id[1] = p, MayRetry(id)
      PROVE  p \in seen /\ seenAge[p] < DedupTTL
  <2>1. p \in seen /\ seenAge[p] <= retries[id] * RetryPeriod + waited[id]
    BY <1>3 DEF Remembered, RetryWindow
  <2>2. retries[id] \in Nat /\ waited[id] \in Nat /\ waited[id] <= RetryPeriod
    BY ParameterTypes DEF TypeOK, RetryPeriod
  <2>3. retries[id] * RetryPeriod + RetryPeriod <= RetrySpan
    BY <1>3, <2>2, RetrySteps DEF MayRetry
  <2>4. retries[id] * RetryPeriod \in Nat
    BY <2>2, SpanTypes
  <2> QED BY <1>0, <2>1, <2>2, <2>3, <2>4
<1> QED BY <1>1, <1>2, <1>3

\* The arrival of a copy: nothing is forwarded twice, and what may arrive
\* again stays in the filter.
LEMMA ArrivalKeepsRemembered ==
  ASSUME TypeOK, SeenBounded, LoadBelowCap, Remembered,
         DedupTTL > RetrySpan + Lifetime,
         NEW id \in Id, NEW keep \in BOOLEAN, ReceiveData(id, keep)
  PROVE  /\ Remembered'
         /\ Complete(id) /\ ~AlreadySeen(id[1]) => forwarded[id[1]] = 0
<1> DEFINE p == id[1]
<1>0. /\ p \in Packet /\ data \in [Id -> 0..Lifetime + 1] /\ Lifetime \in Nat
      /\ forwarded \in [Packet -> 0..2] /\ RetrySpan \in Nat
      /\ data[id] > 0
  BY IdType, SpanTypes, ParameterTypes DEF TypeOK, ReceiveData
<1>1. /\ \A x \in Id : data'[x] > 0 => data'[x] = data[x]
      /\ \A x \in Id : data[x] = 0 => data'[x] = 0
  BY <1>0 DEF ReceiveData, Arrive
<1>2. UNCHANGED <<sent, sending, pending, retries, waited, stopped>>
  BY DEF ReceiveData, sender, entries
<1>3. CASE Complete(id) /\ ~AlreadySeen(p)
  <2>1. forwarded[p] = 0
    <3>1. ~(forwarded[p] > 0)
      BY <1>0, <1>3, RememberedIsRecent DEF AlreadySeen
    <3> QED BY <1>0, <3>1
  <2>2. forwarded' = [forwarded EXCEPT ![p] = 1]
    BY <1>3, <2>1 DEF ReceiveData
  <2>3. forwarded'[p] = 1 /\ \A q \in Packet \ {p} : forwarded'[q] = forwarded[q]
    BY <1>0, <2>2
  <2>4. /\ p \in seen' /\ seenAge'[p] = 0
        /\ \A q \in seen \ {p} : seenAge[q] < DedupTTL =>
             q \in seen' /\ seenAge'[q] = seenAge[q]
    BY <1>3, ArrivalKeepsRecent
  <2>5. ForwardedOnce'
    BY <1>0, <2>3 DEF Remembered, ForwardedOnce
  <2>6. SendingFresh'
    <3> SUFFICES ASSUME NEW n \in Node, NEW i \in DOMAIN sending[n],
                        forwarded'[sending[n][i][1]] > 0
                 PROVE  sending[n][i][1] \in seen' /\ seenAge'[sending[n][i][1]] = 0
      BY <1>2 DEF SendingFresh
    <3> DEFINE q == sending[n][i][1]
    <3>1. q \in Packet
      BY ElementOfSeq, LenProperties, IdType DEF TypeOK
    <3>2. CASE q = p
      BY <2>4, <3>2
    <3>3. CASE q # p
      <4>1. forwarded[q] > 0
        BY <2>3, <3>1, <3>3
      <4>2. q \in seen /\ seenAge[q] < DedupTTL /\ seenAge[q] = 0
        BY <3>1, <4>1, RememberedIsRecent DEF Remembered, SendingFresh
      <4> QED BY <2>4, <3>3, <4>2
    <3> QED BY <3>2, <3>3
  <2>7. FlightWindow'
    <3> SUFFICES ASSUME NEW x \in Id, data'[x] > 0, forwarded'[x[1]] > 0
                 PROVE  /\ x[1] \in seen'
                        /\ seenAge'[x[1]] + data'[x] <= RetrySpan + Lifetime + 1
      BY DEF FlightWindow
    <3>1. x[1] \in Packet /\ data'[x] = data[x]
      BY <1>1, IdType
    <3>2. CASE x[1] = p
      BY <1>0, <2>4, <3>1, <3>2
    <3>3. CASE x[1] # p
      <4>1. forwarded[x[1]] > 0 /\ data[x] > 0
        BY <2>3, <3>1, <3>3
      <4>2. x[1] \in seen /\ seenAge[x[1]] < DedupTTL
        BY <3>1, <4>1, RememberedIsRecent
      <4>3. seenAge[x[1]] + data[x] <= RetrySpan + Lifetime + 1
        BY <4>1 DEF Remembered, FlightWindow
      <4> QED BY <2>4, <3>1, <3>3, <4>2, <4>3
    <3> QED BY <3>2, <3>3
  <2>8. RetryWindow'
    <3> SUFFICES ASSUME NEW x \in Id, MayRetry(x), forwarded'[x[1]] > 0
                 PROVE  /\ x[1] \in seen'
                        /\ seenAge'[x[1]] <= retries[x] * RetryPeriod + waited[x]
      BY <1>2 DEF RetryWindow, MayRetry
    <3>1. x[1] \in Packet
      BY IdType
    <3>2. CASE x[1] = p
      <4>1. retries[x] \in Nat /\ waited[x] \in Nat
        BY ParameterTypes DEF TypeOK
      <4>2. retries[x] * RetryPeriod \in Nat
        BY <4>1, SpanTypes
      <4> QED BY <2>4, <3>2, <4>1, <4>2
    <3>3. CASE x[1] # p
      <4>1. forwarded[x[1]] > 0
        BY <2>3, <3>1, <3>3
      <4>2. x[1] \in seen /\ seenAge[x[1]] < DedupTTL
        BY <3>1, <4>1, RememberedIsRecent
      <4>3. seenAge[x[1]] <= retries[x] * RetryPeriod + waited[x]
        BY <4>1 DEF Remembered, RetryWindow
      <4> QED BY <2>4, <3>3, <4>2, <4>3
    <3> QED BY <3>2, <3>3
  <2> QED BY <2>1, <2>5, <2>6, <2>7, <2>8 DEF Remembered
<1>4. CASE ~(Complete(id) /\ ~AlreadySeen(p))
  <2>1. UNCHANGED <<seen, seenAge, forwarded>>
    BY <1>4 DEF ReceiveData, dedup
  <2>2. ForwardedOnce' /\ SendingFresh' /\ RetryWindow'
    BY <1>2, <2>1
    DEF Remembered, ForwardedOnce, SendingFresh, RetryWindow, MayRetry
  <2>3. FlightWindow'
    BY <1>1, <2>1 DEF Remembered, FlightWindow
  <2> QED BY <1>4, <2>2, <2>3 DEF Remembered
<1> QED BY <1>3, <1>4

-----------------------------------------------------------------------------
(* The invariant *)

\* A timeout retransmits: the entry's age moves from its wait to its retries.
LEMMA TimeoutKeepsRemembered ==
  ASSUME TypeOK, Remembered, SendOrder, NEW n \in Node, Timeout(n)
  PROVE  Remembered'
<1>0. /\ UNCHANGED <<sent, sending, seen, seenAge, forwarded, stopped>>
      /\ n \notin stopped /\ pending \subseteq Id
      /\ seenAge \in [Packet -> 0..DedupTTL] /\ DedupTTL \in Nat /\ Lifetime \in Nat
      /\ RetrySpan \in Nat /\ RetryPeriod \in Nat
  BY SpanTypes, ParameterTypes DEF Timeout, TypeOK, sender, dedup, application
<1>1. ASSUME NEW id \in Due(n)
      PROVE  /\ id \in Id /\ MayRetry(id) /\ waited[id] = RetryPeriod
             /\ retries[id] \in Nat /\ id \in pending
  BY <1>0, <1>1, ParameterTypes
  DEF Due, Exhausted, From, MayRetry, TypeOK, RetryPeriod
<1>2. ASSUME NEW id \in Due(n), forwarded[id[1]] > 0
      PROVE  id[1] \in seen /\ seenAge[id[1]] <= (retries[id] + 1) * RetryPeriod
                            /\ seenAge[id[1]] <= RetrySpan
  <2>1. /\ id[1] \in seen /\ retries[id] < MaxRetries
        /\ seenAge[id[1]] <= retries[id] * RetryPeriod + RetryPeriod
    BY <1>1, <1>2 DEF Remembered, RetryWindow, MayRetry
  <2>2. /\ (retries[id] + 1) * RetryPeriod = retries[id] * RetryPeriod + RetryPeriod
        /\ retries[id] * RetryPeriod + RetryPeriod <= RetrySpan
    BY <1>1, <2>1, RetrySteps
  <2>3. retries[id] * RetryPeriod \in Nat /\ seenAge[id[1]] \in Nat
    BY <1>0, <1>1, SpanTypes, IdType
  <2> QED BY <1>0, <2>1, <2>2, <2>3
<1>3. \A id \in Id : data'[id] = IF id \in Due(n) THEN Lifetime + 1 ELSE data[id]
  BY DEF Timeout, Fresh
<1>5. ForwardedOnce' /\ SendingFresh'
  BY <1>0 DEF Remembered, ForwardedOnce, SendingFresh
<1>6. FlightWindow'
  <2> SUFFICES ASSUME NEW id \in Id, data'[id] > 0, forwarded[id[1]] > 0
               PROVE  id[1] \in seen /\ seenAge[id[1]] + data'[id] <= RetrySpan + Lifetime + 1
    BY <1>0 DEF FlightWindow
  <2>1. CASE id \in Due(n)
    <3>1. data'[id] = Lifetime + 1 /\ id[1] \in seen /\ seenAge[id[1]] <= RetrySpan
      BY <1>2, <1>3, <2>1
    <3>2. seenAge[id[1]] \in Nat
      BY <1>0, IdType
    <3> QED BY <1>0, <3>1, <3>2
  <2>2. CASE id \notin Due(n)
    BY <1>3, <2>2 DEF Remembered, FlightWindow
  <2> QED BY <2>1, <2>2
<1>7. RetryWindow'
  <2> SUFFICES ASSUME NEW id \in Id, MayRetry(id)', forwarded[id[1]] > 0
               PROVE  /\ id[1] \in seen
                      /\ seenAge[id[1]] <= retries'[id] * RetryPeriod + waited'[id]
    BY <1>0 DEF RetryWindow
  <2>1. id \in pending /\ id \notin Exhausted(n)
    BY DEF MayRetry, Timeout
  <2>2. CASE id \in Due(n)
    <3>1. retries'[id] = retries[id] + 1 /\ waited'[id] = 0
      BY <2>1, <2>2 DEF Timeout, Retried
    <3>2. (retries[id] + 1) * RetryPeriod \in Nat /\ seenAge[id[1]] \in Nat
      BY <1>0, <1>1, <2>2, SpanTypes, IdType
    <3> QED BY <1>2, <2>2, <3>1, <3>2
  <2>3. CASE id \notin Due(n)
    <3>1. retries'[id] = retries[id] /\ waited'[id] = waited[id]
      BY <2>1, <2>3 DEF Timeout
    <3>2. MayRetry(id)
      BY <1>0, <2>1, <3>1 DEF MayRetry
    <3> QED BY <3>1, <3>2 DEF Remembered, RetryWindow
  <2> QED BY <2>2, <2>3
<1> QED BY <1>5, <1>6, <1>7 DEF Remembered

\* A tick at idle sockets: what waits to be retransmitted ages with the filter.
LEMMA TickKeepsRemembered ==
  ASSUME TypeOK, Remembered, Tick, ~Busy
  PROVE  Remembered'
<1>0. /\ UNCHANGED <<sent, sending, pending, retries, seen, forwarded, stopped>>
      /\ \A n \in Node : sending[n] = <<>>
      /\ \A n \in Node \ stopped : Due(n) = {}
      /\ seenAge \in [Packet -> 0..DedupTTL] /\ DedupTTL \in Nat /\ Lifetime \in Nat
      /\ RetrySpan \in Nat /\ RetryPeriod \in Nat
  BY SpanTypes, ParameterTypes DEF Tick, TypeOK, sender, application
<1>1. \A p \in seen : seenAge'[p] <= seenAge[p] + 1 /\ seenAge'[p] \in Nat
  BY <1>0 DEF Tick, Older, TypeOK
<1>2. \A id \in Id : data'[id] = IF data[id] > 0 THEN data[id] - 1 ELSE 0
  BY DEF Tick, Shorter
<1>3. data \in [Id -> 0..Lifetime + 1]
  BY DEF TypeOK
<1>5. ForwardedOnce' /\ SendingFresh'
  BY <1>0, EmptySeq DEF Remembered, ForwardedOnce, SendingFresh
<1>6. FlightWindow'
  <2> SUFFICES ASSUME NEW id \in Id, data'[id] > 0, forwarded[id[1]] > 0
               PROVE  id[1] \in seen /\ seenAge'[id[1]] + data'[id] <= RetrySpan + Lifetime + 1
    BY <1>0 DEF FlightWindow
  <2>1. data[id] \in Nat /\ data[id] > 0 /\ data'[id] = data[id] - 1
    BY <1>0, <1>2, <1>3
  <2>2. id[1] \in seen /\ seenAge[id[1]] + data[id] <= RetrySpan + Lifetime + 1
    BY <2>1 DEF Remembered, FlightWindow
  <2>3. seenAge[id[1]] \in Nat
    BY <1>0, IdType
  <2> QED BY <1>0, <1>1, <2>1, <2>2, <2>3
<1>7. RetryWindow'
  <2> SUFFICES ASSUME NEW id \in Id, MayRetry(id), forwarded[id[1]] > 0
               PROVE  /\ id[1] \in seen
                      /\ seenAge'[id[1]] <= retries[id] * RetryPeriod + waited'[id]
    BY <1>0 DEF RetryWindow, MayRetry
  <2>1. retries[id] \in Nat /\ waited[id] \in 0..RetryPeriod /\ seenAge[id[1]] \in Nat
    BY <1>0, ParameterTypes, IdType DEF TypeOK, RetryPeriod
  <2>2. id \notin Exhausted(Src[id[1]])
    BY <2>1, ParameterTypes DEF MayRetry, Exhausted
  <2>3. waited[id] < RetryPeriod
    <3>1. Src[id[1]] \in Node \ stopped /\ id \in From(Src[id[1]])
      BY NetworkAssumption, IdType DEF MayRetry, From
    <3>2. ~(waited[id] > RetryDelay)
      BY <1>0, <2>2, <3>1 DEF MayRetry, Due
    <3> QED BY <2>1, <3>2, ParameterTypes DEF RetryPeriod
  <2>4. waited'[id] = waited[id] + 1
    BY <2>3 DEF Tick, MayRetry, Older, RetryPeriod
  <2>5. id[1] \in seen /\ seenAge[id[1]] <= retries[id] * RetryPeriod + waited[id]
    BY DEF Remembered, RetryWindow
  <2>6. retries[id] * RetryPeriod \in Nat
    BY <2>1, SpanTypes
  <2> QED BY <1>1, <2>1, <2>4, <2>5, <2>6
<1> QED BY <1>5, <1>6, <1>7 DEF Remembered

\* A step that keeps the filter, the forwarded packets and the receive
\* threads, and adds nothing that may arrive.
LEMMA RememberedLasts ==
  ASSUME TypeOK, Remembered,
         UNCHANGED <<sent, seen, seenAge, forwarded>>, stopped \subseteq stopped',
         \A n \in Node : sending'[n] \in {sending[n], <<>>},
         \A id \in Id : data'[id] \in {data[id], 0},
         \A id \in Id : id \in pending' =>
           id \in pending /\ retries'[id] = retries[id] /\ waited'[id] = waited[id]
  PROVE  Remembered'
<1>1. ForwardedOnce'
  BY DEF Remembered, ForwardedOnce
<1>2. SendingFresh'
  <2>1. \A n \in Node : \A i \in DOMAIN sending'[n] : sending'[n] = sending[n]
    BY EmptySeq
  <2> QED BY <2>1 DEF Remembered, SendingFresh
<1>3. FlightWindow'
  <2>1. \A id \in Id : data'[id] > 0 => data'[id] = data[id]
    OBVIOUS
  <2> QED BY <2>1 DEF Remembered, FlightWindow
<1>4. RetryWindow'
  <2>1. \A id \in Id : MayRetry(id)' =>
          MayRetry(id) /\ retries'[id] = retries[id] /\ waited'[id] = waited[id]
    BY DEF MayRetry
  <2> QED BY <2>1 DEF Remembered, RetryWindow
<1> QED BY <1>1, <1>2, <1>3, <1>4 DEF Remembered

\* A socket is idle for RECV_TIMEOUT within every tick, and the filter keeps
\* an entry for longer than copies of its packet can arrive.
TimelyAssumption == ~Busy /\ DedupTTL > RetrySpan + Lifetime

LEMMA RememberedStep ==
  ASSUME TimelyAssumption, TypeOK, SendOrder, OnlySent, SeenBounded, LoadBelowCap,
         Remembered, [Next]_vars
  PROVE  Remembered'
<1>0. /\ sending \in [Node -> Seq(Id)] /\ data \in [Id -> 0..Lifetime + 1]
      /\ pending \subseteq Id /\ Lifetime \in Nat
      /\ retries \in [Id -> 0..MaxRetries] /\ waited \in [Id -> 0..RetryDelay + 1]
  BY ParameterTypes DEF TypeOK
<1>1. ASSUME NEW p \in Packet, Send(p) PROVE Remembered'
  <2>1. /\ p \notin sent /\ sent' = sent \cup {p}
        /\ sending' = [sending EXCEPT ![Src[p]] = Pieces(p)]
        /\ UNCHANGED <<seen, seenAge, forwarded, stopped, data, pending, retries, waited>>
    BY <1>1 DEF Send, entries, dedup, network, application
  <2>2. /\ Src[p] \in Node /\ sending'[Src[p]] = Pieces(p)
        /\ \A n \in Node \ {Src[p]} : sending'[n] = sending[n]
    BY <1>0, <2>1, NetworkAssumption
  <2>3. forwarded[p] = 0
    BY <2>1 DEF OnlySent
  <2>4. SendingFresh'
    BY <2>1, <2>2, <2>3, PiecesDistinct DEF Remembered, SendingFresh
  <2> QED
    BY <2>1, <2>4
    DEF Remembered, ForwardedOnce, FlightWindow, RetryWindow, MayRetry
<1>2. ASSUME NEW n \in Node, WritePiece(n) PROVE Remembered'
  <2> DEFINE id == Head(sending[n])
  <2>1. /\ sending[n] # <<>> /\ data' = [data EXCEPT ![id] = Fresh]
        /\ UNCHANGED <<sent, sending, seen, seenAge, forwarded, stopped, pending,
                       retries, waited>>
    BY <1>2 DEF WritePiece, entries, dedup, application
  <2>2. 1 \in DOMAIN sending[n] /\ id = sending[n][1] /\ id \in Id
    BY <1>0, <2>1, TailElements, HeadTailProperties
  <2> HIDE DEF id
  <2>3. forwarded[id[1]] > 0 => id[1] \in seen /\ seenAge[id[1]] = 0
    BY <2>2 DEF Remembered, SendingFresh
  <2>4. data'[id] = Lifetime + 1 /\ \A x \in Id \ {id} : data'[x] = data[x]
    BY <1>0, <2>1, <2>2 DEF Fresh
  <2>6. FlightWindow'
    BY <1>0, <2>1, <2>3, <2>4, SpanTypes DEF Remembered, FlightWindow
  <2> QED
    BY <2>1, <2>6 DEF Remembered, ForwardedOnce, SendingFresh, RetryWindow, MayRetry
<1>3. ASSUME NEW n \in Node, Register(n) PROVE Remembered'
  <2> DEFINE id == Head(sending[n])
  <2>1. /\ sending[n] # <<>> /\ sending' = [sending EXCEPT ![n] = Tail(@)]
        /\ pending' = pending \cup {id}
        /\ retries' = [retries EXCEPT ![id] = 0] /\ waited' = [waited EXCEPT ![id] = 0]
        /\ UNCHANGED <<sent, seen, seenAge, forwarded, stopped, data>>
    BY <1>3 DEF Register, TypeOK, dedup, network, application
  <2>2. 1 \in DOMAIN sending[n] /\ id = sending[n][1] /\ id \in Id
    BY <1>0, <2>1, TailElements, HeadTailProperties
  <2> HIDE DEF id
  <2>3. forwarded[id[1]] > 0 => id[1] \in seen /\ seenAge[id[1]] = 0
    BY <2>2 DEF Remembered, SendingFresh
  <2>4. SendingFresh'
    <3>1. /\ sending'[n] = Tail(sending[n])
          /\ \A m \in Node \ {n} : sending'[m] = sending[m]
      BY <1>0, <2>1
    <3>2. \A i \in DOMAIN sending'[n] :
            i + 1 \in DOMAIN sending[n] /\ sending'[n][i] = sending[n][i + 1]
      BY <1>0, <2>1, <3>1, TailElements
    <3> QED BY <2>1, <3>1, <3>2 DEF Remembered, SendingFresh
  <2>5. RetryWindow'
    <3> SUFFICES ASSUME NEW x \in Id, MayRetry(x)', forwarded[x[1]] > 0
                 PROVE  /\ x[1] \in seen
                        /\ seenAge[x[1]] <= retries'[x] * RetryPeriod + waited'[x]
      BY <2>1 DEF RetryWindow
    <3>1. CASE x = id
      <4>1. retries'[x] = 0 /\ waited'[x] = 0
        BY <1>0, <2>1, <3>1
      <4>2. x[1] \in seen /\ seenAge[x[1]] = 0
        BY <2>3, <3>1
      <4> QED BY <4>1, <4>2, SpanTypes
    <3>2. CASE x # id
      <4>1. retries'[x] = retries[x] /\ waited'[x] = waited[x] /\ x \in pending
        BY <1>0, <2>1, <3>2 DEF MayRetry
      <4>2. MayRetry(x)
        BY <2>1, <4>1 DEF MayRetry
      <4> QED BY <4>1, <4>2 DEF Remembered, RetryWindow
    <3> QED BY <3>1, <3>2
  <2> QED
    BY <2>1, <2>4, <2>5 DEF Remembered, ForwardedOnce, FlightWindow
<1>4. ASSUME NEW n \in Node, SocketError(n) PROVE Remembered'
  <2>1. /\ sending' = [sending EXCEPT ![n] = <<>>]
        /\ UNCHANGED <<sent, seen, seenAge, forwarded, stopped, data, pending,
                       retries, waited>>
    BY <1>4 DEF SocketError, entries, dedup, network, application
  <2> QED BY <1>0, <2>1, RememberedLasts
<1>5. ASSUME NEW p \in Packet, NEW keep \in BOOLEAN, ReceiveAck(p, keep)
      PROVE  Remembered'
  <2>1. UNCHANGED <<sent, sending, seen, seenAge, forwarded, stopped, data>>
    BY <1>5 DEF ReceiveAck, sender, dedup, application
  <2>2. \A id \in Id : id \in pending' =>
          id \in pending /\ retries'[id] = retries[id] /\ waited'[id] = waited[id]
    <3>1. CASE AckAccepted(p)
      <4>1. /\ pending' = pending \ {Whole(p)}
            /\ retries' = [retries EXCEPT ![Whole(p)] = 0]
            /\ waited' = [waited EXCEPT ![Whole(p)] = 0]
        BY <1>5, <3>1 DEF ReceiveAck
      <4> QED BY <1>0, <4>1
    <3>2. CASE ~AckAccepted(p)
      BY <1>5, <3>2 DEF ReceiveAck, entries
    <3> QED BY <3>1, <3>2
  <2> QED BY <2>1, <2>2, RememberedLasts
<1>6. ASSUME NEW id \in Id, Lose(id) PROVE Remembered'
  <2>1. /\ data' = [data EXCEPT ![id] = 0]
        /\ UNCHANGED <<sent, sending, seen, seenAge, forwarded, stopped, pending,
                       retries, waited>>
    BY <1>6 DEF Lose, sender, entries, dedup, application
  <2> QED BY <1>0, <2>1, RememberedLasts
<1>7. ASSUME NEW n \in Node, Timeout(n) PROVE Remembered'
  BY <1>7, TimeoutKeepsRemembered
<1>8. CASE Tick
  BY <1>8, TickKeepsRemembered DEF TimelyAssumption
<1>9. ASSUME NEW id \in Id, NEW keep \in BOOLEAN, ReceiveData(id, keep)
      PROVE  Remembered'
  BY <1>9, ArrivalKeepsRemembered DEF TimelyAssumption
<1>10. ASSUME NEW n \in Node, ReceiverStops(n) PROVE Remembered'
  <2>1. /\ stopped \subseteq stopped'
        /\ UNCHANGED <<sent, sending, seen, seenAge, forwarded, data, pending,
                       retries, waited>>
    BY <1>10 DEF ReceiverStops, sender, entries, dedup, network, application
  <2> QED BY <2>1, RememberedLasts
<1>11. ASSUME UNCHANGED <<sent, sending, seen, seenAge, forwarded, stopped, data,
                          pending, retries, waited>>
       PROVE  Remembered'
  BY <1>11, RememberedLasts
<1> QED
  BY <1>1, <1>2, <1>3, <1>4, <1>5, <1>6, <1>7, <1>8, <1>9, <1>10, <1>11
  DEF Next, Confirm, LoseAck, Handle, LearnKey, vars, sender, entries, dedup, network,
      application

LEMMA RememberedHolds ==
  ASSUME TimelyAssumption
  PROVE  Spec /\ []LoadBelowCap => []Remembered
<1>1. Init => Remembered
  <2> SUFFICES ASSUME Init PROVE Remembered
    OBVIOUS
  <2>1. /\ \A p \in Packet : forwarded[p] = 0
        /\ \A id \in Id : data[id] = 0 /\ id[1] \in Packet
        /\ \A n \in Node : DOMAIN sending[n] = {}
    BY IdType DEF Init
  <2> QED
    BY <2>1 DEF Remembered, ForwardedOnce, SendingFresh, FlightWindow, RetryWindow
<1>2. TypeOK /\ SendOrder /\ OnlySent /\ SeenBounded /\ LoadBelowCap /\ Remembered /\ [Next]_vars
        => Remembered'
  BY RememberedStep
<1> QED
  BY <1>1, <1>2, TypeCorrect, SendOrderHolds, OnlySentHolds, SeenBoundedHolds, PTL DEF Spec

\* What may still arrive is in the filter.
Heeded == \A p \in Packet : forwarded[p] > 0 /\ Alive(p) => AlreadySeen(p)

\* A step takes out of the filter only what Forgets counts.
LEMMA ForgettingStep ==
  ASSUME [Next]_vars, forgotten = {}
  PROVE  forgotten' \subseteq Forgets
<1>1. ASSUME NEW id \in Id, NEW keep \in BOOLEAN, ReceiveData(id, keep)
      PROVE  forgotten' \subseteq Forgets
  BY <1>1 DEF ReceiveData, dedup
<1>2. CASE Tick
  BY <1>2 DEF Tick
<1>3. UNCHANGED dedup => forgotten' \subseteq Forgets
  BY DEF dedup
<1> QED
  BY <1>1, <1>2, <1>3
  DEF Next, Send, Confirm, LoseAck, Handle, ReceiveAck, WritePiece, Register,
      SocketError, Timeout, ReceiverStops, LearnKey, Lose, vars

\* As long as every socket is idle for RECV_TIMEOUT between two
\* retransmissions, fewer than max_seen packets reach a node within one
\* dedup_ttl, and dedup_ttl exceeds the retry schedule and a datagram's life,
\* the filter forgets no packet a copy of which may still arrive.
THEOREM FilterOutlasts ==
  ASSUME TimelyAssumption
  PROVE  Spec /\ []LoadBelowCap => []NothingForgotten
<1>1. Init => NothingForgotten
  BY DEF Init, NothingForgotten
<1>2. TypeOK /\ Remembered => Heeded
  <2> SUFFICES ASSUME TypeOK, Remembered, NEW p \in Packet, forwarded[p] > 0, Alive(p)
               PROVE  AlreadySeen(p)
    BY DEF Heeded
  <2> QED BY RememberedIsRecent DEF Alive, AlreadySeen, TimelyAssumption
<1>3. TypeOK /\ Known /\ NothingForgotten /\ [Next]_vars /\ Heeded' => NothingForgotten'
  <2> SUFFICES ASSUME TypeOK, Known, NothingForgotten, [Next]_vars, Heeded'
               PROVE  NothingForgotten'
    OBVIOUS
  <2>1. ASSUME NEW p \in Forgets PROVE FALSE
    <3>1. p \in Packet /\ AlreadySeen(p) /\ ~AlreadySeen(p)' /\ Alive(p)'
      BY DEF Forgets
    <3>2. forwarded'[p] > 0
      BY <3>1, ForwardedStays DEF AlreadySeen, Known
    <3> QED BY <3>1, <3>2 DEF Heeded
  <2> QED BY <2>1, ForgettingStep DEF NothingForgotten
<1> QED
  BY <1>1, <1>2, <1>3, TypeCorrect, KnownHolds, RememberedHolds, PTL DEF Spec
=============================================================================

------------------------ MODULE RuntimeSessionsProofs ------------------------
(***************************************************************************)
(* What is proved of RuntimeSessions for every set of nodes, users,        *)
(* attempts and messages, every assignment of keys and addresses, every    *)
(* number of faults and restarts.                                          *)
(***************************************************************************)
EXTENDS RuntimeSessions, SequenceTheorems, TLAPS

-----------------------------------------------------------------------------
(* Queues and packets *)

\* What a pile holds when a packet is pushed or popped.
LEMMA PushElements ==
  ASSUME NEW S, NEW s \in Seq(S), NEW x \in S
  PROVE  Append(s, x) \in Seq(S) /\ ToSet(Append(s, x)) \subseteq ToSet(s) \cup {x}
<1>1. /\ Append(s, x) \in Seq(S) /\ DOMAIN Append(s, x) = 1..Len(s) + 1
      /\ \A i \in 1..Len(s) : Append(s, x)[i] = s[i]
      /\ Append(s, x)[Len(s) + 1] = x
  BY AppendProperties, LenProperties
<1>2. Len(s) \in Nat /\ DOMAIN s = 1..Len(s)
  BY LenProperties
<1> QED BY <1>1, <1>2 DEF ToSet

LEMMA PopElements ==
  ASSUME NEW S, NEW s \in Seq(S), s # <<>>
  PROVE  /\ Head(s) \in S /\ Head(s) \in ToSet(s)
         /\ Tail(s) \in Seq(S) /\ ToSet(Tail(s)) \subseteq ToSet(s)
<1>1. /\ Len(s) \in Nat /\ Len(s) # 0 /\ DOMAIN s = 1..Len(s)
      /\ DOMAIN Tail(s) = 1..Len(s) - 1
  BY EmptySeq, LenProperties, HeadTailProperties
<1>2. /\ Head(s) = s[1] /\ Head(s) \in S /\ Tail(s) \in Seq(S)
      /\ \A i \in 1..Len(s) - 1 : Tail(s)[i] = s[i + 1]
  BY HeadTailProperties
<1> QED BY <1>1, <1>2 DEF ToSet

LEMMA NoElements == ToSet(<<>>) = {}
BY DEF ToSet

\* The fields of a packet, by its kind.
LEMMA PacketFields ==
  ASSUME NEW p \in Packet
  PROVE  /\ p.kind = "hello" => p \in Handshake /\ p.addr \in Address
         /\ p.kind = "reply" => p \in Handshake /\ p.conn \in Conn /\ p.conn[1] = p.tag
         /\ p.kind = "message" <=> p \in Message
         /\ p \in Handshake => p.kind \in {"hello", "reply"} /\ p.tag \in Attempt
         /\ p \in Message => p.conn \in Conn /\ p.msg \in Msg
         /\ p \in Message <=> p \notin Handshake
<1>1. CASE \E h \in Attempt, a \in Address : p = Hello(h, a)
  <2>1. p.kind = "hello" /\ p.tag \in Attempt /\ p.addr \in Address /\ p \in Handshake
    BY <1>1 DEF Hello, Handshake
  <2>2. p \notin Message
    BY <2>1 DEF Message, Cipher
  <2> QED BY <2>1, <2>2
<1>2. CASE \E c \in Conn : p = Reply(c)
  <2>1. /\ p.kind = "reply" /\ p.conn \in Conn /\ p.conn[1] = p.tag /\ p \in Handshake
        /\ p.tag \in Attempt
    BY <1>2 DEF Reply, Handshake, Conn
  <2>2. p \notin Message
    BY <2>1 DEF Message, Cipher
  <2> QED BY <2>1, <2>2
<1>3. CASE \E c \in Conn, m \in Msg : p = Cipher(c, m)
  <2>1. p.kind = "message" /\ p.conn \in Conn /\ p.msg \in Msg /\ p \in Message
    BY <1>3 DEF Cipher, Message
  <2>2. p \notin Handshake
    BY <2>1 DEF Handshake, Hello, Reply
  <2> QED BY <2>1, <2>2
<1> QED BY <1>1, <1>2, <1>3 DEF Packet, Handshake, Message

-----------------------------------------------------------------------------
(* Types *)

LEMMA SessionTypes ==
  /\ UserOf \in [Node -> User]
  /\ From \in [Attempt -> Node] /\ To \in [Attempt -> Node]
  /\ Author \in [Msg -> Node] /\ Recipient \in [Msg -> User]
  /\ MaxAccepts \in Nat /\ MaxFaults \in Nat /\ MaxRestarts \in Nat
BY SessionAssumption

LEMMA PostTypes ==
  ASSUME net \in [Node -> SUBSET Packet], NEW addr \in Address,
         NEW S \in SUBSET Packet, Post(addr, S)
  PROVE  /\ net' \in [Node -> SUBSET Packet]
         /\ \A n \in Node : net'[n] \subseteq net[n] \cup S
         /\ \A n \in Node : n # addr[1] => net'[n] = net[n]
<1>1. addr[1] \in Node
  BY DEF Address
<1>2. CASE addr = LocalAddr(addr[1])
  <2>1. net' = [net EXCEPT ![addr[1]] = @ \cup S]
    BY <1>2 DEF Post
  <2> QED BY <1>1, <2>1
<1>3. CASE addr # LocalAddr(addr[1])
  BY <1>3 DEF Post
<1> QED BY <1>2, <1>3

\* The three tables once session c with peer is in, and once c is out.
LEMMA EstablishTypes ==
  ASSUME TypeOK, NEW n \in Node, NEW c \in Conn, NEW peer \in User, Establish(n, c, peer)
  PROVE  /\ sessions' \in [Node -> SUBSET Conn]
         /\ sessions'[n] = sessions[n] \cup {c}
         /\ \A m \in Node \ {n} : sessions'[m] = sessions[m] /\ connToPk'[m] = connToPk[m]
                                  /\ pkToConn'[m] = pkToConn[m]
         /\ DOMAIN connToPk' = Node
         /\ \A m \in Node : /\ DOMAIN connToPk'[m] \subseteq Conn
                            /\ \A d \in DOMAIN connToPk'[m] : connToPk'[m][d] \in User
         /\ DOMAIN connToPk'[n] = DOMAIN connToPk[n] \cup {c}
         /\ connToPk'[n][c] = peer
         /\ \A d \in DOMAIN connToPk[n] \ {c} : connToPk'[n][d] = connToPk[n][d]
         /\ pkToConn' \in [Node -> [User -> [Conn -> Nat]]]
         /\ pkToConn'[n][peer][c] = pkToConn[n][peer][c] + 1
         /\ \A u \in User, d \in Conn : u # peer \/ d # c =>
              pkToConn'[n][u][d] = pkToConn[n][u][d]
<1>0. /\ sessions \in [Node -> SUBSET Conn] /\ DOMAIN connToPk = Node
      /\ pkToConn \in [Node -> [User -> [Conn -> Nat]]]
      /\ \A m \in Node : /\ DOMAIN connToPk[m] \subseteq Conn
                         /\ \A d \in DOMAIN connToPk[m] : connToPk[m][d] \in User
  BY DEF TypeOK
<1>1. /\ sessions' = [sessions EXCEPT ![n] = sessions[n] \cup {c}]
      /\ connToPk' = [connToPk EXCEPT ![n] =
           [d \in DOMAIN connToPk[n] \cup {c} |-> IF d = c THEN peer ELSE connToPk[n][d]]]
      /\ pkToConn' = [pkToConn EXCEPT ![n][peer][c] = pkToConn[n][peer][c] + 1]
  BY DEF Establish
<1>2. pkToConn[n][peer][c] + 1 \in Nat
  BY <1>0
<1>3. pkToConn' \in [Node -> [User -> [Conn -> Nat]]]
  BY <1>0, <1>1, <1>2
<1>4. ASSUME NEW m \in Node
      PROVE  /\ DOMAIN connToPk'[m] \subseteq Conn
             /\ \A d \in DOMAIN connToPk'[m] : connToPk'[m][d] \in User
  <2>1. CASE m = n
    BY <1>0, <1>1, <2>1
  <2>2. CASE m # n
    BY <1>0, <1>1, <2>2
  <2> QED BY <2>1, <2>2
<1> QED BY <1>0, <1>1, <1>3, <1>4

LEMMA RemoveTypes ==
  ASSUME TypeOK, NEW n \in Node, NEW c \in Conn, RemoveStaleConn(n, c)
  PROVE  /\ sessions' \in [Node -> SUBSET Conn]
         /\ sessions'[n] = sessions[n] \ {c}
         /\ \A m \in Node \ {n} : sessions'[m] = sessions[m] /\ connToPk'[m] = connToPk[m]
                                  /\ pkToConn'[m] = pkToConn[m]
         /\ DOMAIN connToPk' = Node
         /\ \A m \in Node : /\ DOMAIN connToPk'[m] \subseteq Conn
                            /\ \A d \in DOMAIN connToPk'[m] : connToPk'[m][d] \in User
         /\ DOMAIN connToPk'[n] = DOMAIN connToPk[n] \ {c}
         /\ \A d \in DOMAIN connToPk[n] \ {c} : connToPk'[n][d] = connToPk[n][d]
         /\ pkToConn' \in [Node -> [User -> [Conn -> Nat]]]
         /\ c \in DOMAIN connToPk[n] => pkToConn'[n][connToPk[n][c]][c] = 0
         /\ \A u \in User, d \in Conn :
              c \notin DOMAIN connToPk[n] \/ u # connToPk[n][c] \/ d # c =>
                pkToConn'[n][u][d] = pkToConn[n][u][d]
<1>0. /\ sessions \in [Node -> SUBSET Conn] /\ DOMAIN connToPk = Node
      /\ pkToConn \in [Node -> [User -> [Conn -> Nat]]]
      /\ \A m \in Node : /\ DOMAIN connToPk[m] \subseteq Conn
                         /\ \A d \in DOMAIN connToPk[m] : connToPk[m][d] \in User
  BY DEF TypeOK
<1>1. /\ sessions' = [sessions EXCEPT ![n] = sessions[n] \ {c}]
      /\ connToPk' = [connToPk EXCEPT ![n] = [d \in DOMAIN connToPk[n] \ {c} |-> connToPk[n][d]]]
  BY DEF RemoveStaleConn
<1>4. ASSUME NEW m \in Node
      PROVE  /\ DOMAIN connToPk'[m] \subseteq Conn
             /\ \A d \in DOMAIN connToPk'[m] : connToPk'[m][d] \in User
  <2>1. CASE m = n
    BY <1>0, <1>1, <2>1
  <2>2. CASE m # n
    BY <1>0, <1>1, <2>2
  <2> QED BY <2>1, <2>2
<1>2. CASE c \in DOMAIN connToPk[n]
  <2>1. pkToConn' = [pkToConn EXCEPT ![n][connToPk[n][c]][c] = 0]
    BY <1>2 DEF RemoveStaleConn
  <2>2. pkToConn' \in [Node -> [User -> [Conn -> Nat]]]
    BY <1>0, <1>2, <2>1
  <2> QED BY <1>0, <1>1, <1>2, <1>4, <2>1, <2>2
<1>3. CASE c \notin DOMAIN connToPk[n]
  BY <1>0, <1>1, <1>3, <1>4 DEF RemoveStaleConn
<1> QED BY <1>2, <1>3

\* Every variable keeps its shape: in particular a session is a connection of
\* an attempt, handshake packets never reach the message pile, and no address
\* is newer than its node.
THEOREM TypeCorrect == Spec => []TypeOK
<1>1. Init => TypeOK
  <2> SUFFICES ASSUME Init PROVE TypeOK
    OBVIOUS
  <2>1. \A n \in Node : DOMAIN connToPk[n] = {}
    BY DEF Init, NoConn
  <2>2. pkToConn \in [Node -> [User -> [Conn -> Nat]]]
    BY DEF Init, NoneListed
  <2>3. /\ relayPile \in [Node -> Seq(Packet)] /\ handshakePile \in [Node -> Seq(Handshake)]
        /\ messagePile \in [Node -> Seq(Message)]
    BY EmptySeq DEF Init
  <2>4. DOMAIN connToPk = Node
    BY DEF Init
  <2> QED BY <2>1, <2>2, <2>3, <2>4, SessionTypes DEF Init, TypeOK, Phases
<1>2. TypeOK /\ [Next]_vars => TypeOK'
  <2> SUFFICES ASSUME TypeOK, [Next]_vars PROVE TypeOK'
    OBVIOUS
  <2>0. /\ net \in [Node -> SUBSET Packet] /\ port \in [Node -> 0..restarts]
        /\ restarts \in 0..MaxRestarts /\ faults \in 0..MaxFaults
        /\ relayPile \in [Node -> Seq(Packet)] /\ handshakePile \in [Node -> Seq(Handshake)]
        /\ messagePile \in [Node -> Seq(Message)] /\ phase \in [Node -> Phases]
        /\ Handshake \subseteq Packet /\ Message \subseteq Packet
        /\ addrs \in [Node -> [User -> Address \cup {NoAddr}]]
    BY DEF TypeOK, Packet
  <2>10. \A n \in Node : \A k \in 0..port[n] : <<n, k>> \in Address
    BY <2>0, SessionTypes DEF Address
  <2>11. ASSUME NEW n \in Node, NEW ph \in Phases, At(n, ph) PROVE phase' \in [Node -> Phases]
    <3>1. After[ph] \in Phases
      BY DEF After, Phases
    <3> QED BY <2>0, <2>11, <3>1 DEF At
  <2>1. ASSUME NEW h \in Attempt, Contact(h) PROVE TypeOK'
    <3>0. From[h] \in Node /\ To[h] \in Node /\ UserOf[To[h]] \in User
      BY SessionTypes
    <3>1. PICK addr \in {To[h]} \X (0..port[To[h]]) :
            /\ addrs' = [addrs EXCEPT ![From[h]][UserOf[To[h]]] = addr]
            /\ Post(addr, {Hello(h, LocalAddr(From[h]))})
      BY <2>1 DEF Contact, SendHello
    <3>2. addr \in Address
      BY <2>10, <3>0
    <3>3. Hello(h, LocalAddr(From[h])) \in Packet
      <4>1. LocalAddr(From[h]) \in Address
        BY <2>0, <2>10, <3>0 DEF LocalAddr
      <4> QED BY <4>1 DEF Packet, Handshake
    <3>4. net' \in [Node -> SUBSET Packet]
      BY <2>0, <3>1, <3>2, <3>3, PostTypes
    <3>5. addrs' \in [Node -> [User -> Address \cup {NoAddr}]]
      BY <2>0, <3>0, <3>1, <3>2
    <3>6. pending' \in [Node -> SUBSET Attempt]
      BY <2>1, <3>0 DEF Contact, TypeOK
    <3> QED
      BY <2>1, <3>4, <3>5, <3>6 DEF Contact, TypeOK, tables, piles, history, counters
  <2>2. ASSUME NEW m \in Msg, SendMessage(m) PROVE TypeOK'
    <3> DEFINE n == Author[m]
               peer == Recipient[m]
               conns == {c \in sessions[n] : pkToConn[n][peer][c] > 0}
    <3>0. n \in Node /\ peer \in User
      BY SessionTypes
    <3>1. addrs[n][peer] \in Address
      BY <2>0, <2>2, <3>0 DEF SendMessage
    <3>2. {Cipher(c, m) : c \in conns} \in SUBSET Packet
      BY <3>0 DEF Packet, Message, TypeOK
    <3>3. Post(addrs[n][peer], {Cipher(c, m) : c \in conns})
      BY <2>2 DEF SendMessage
    <3>4. net' \in [Node -> SUBSET Packet]
      <4> HIDE DEF n, peer, conns
      <4> QED BY <2>0, <3>1, <3>2, <3>3, PostTypes
    <3> QED BY <2>2, <3>4 DEF SendMessage, TypeOK, tables, piles, history, counters
  <2>3. ASSUME NEW n \in Node, TickRelay(n) PROVE TypeOK'
    <3>1. phase' \in [Node -> Phases]
      BY <2>3, <2>11 DEF TickRelay, Phases
    <3>2. /\ relayPile' \in [Node -> Seq(Packet)] /\ handshakePile' \in [Node -> Seq(Handshake)]
          /\ messagePile' \in [Node -> Seq(Message)]
      <4>1. CASE relayPile[n] = <<>>
        BY <2>0, <2>3, <4>1 DEF TickRelay, piles
      <4>2. CASE relayPile[n] # <<>>
        <5> DEFINE p == Head(relayPile[n])
        <5>1. p \in Packet /\ Tail(relayPile[n]) \in Seq(Packet)
          BY <2>0, <4>2, PopElements
        <5>2. /\ relayPile' = [relayPile EXCEPT ![n] = Tail(@)]
              /\ handshakePile' = [handshakePile EXCEPT ![n] =
                                     IF p \in Handshake THEN Append(@, p) ELSE @]
              /\ messagePile' = [messagePile EXCEPT ![n] =
                                   IF p \in Handshake THEN @ ELSE Append(@, p)]
          BY <2>3, <4>2 DEF TickRelay
        <5> HIDE DEF p
        <5>3. p \in Handshake => Append(handshakePile[n], p) \in Seq(Handshake)
          BY <2>0, PushElements
        <5>4. p \notin Handshake => Append(messagePile[n], p) \in Seq(Message)
          BY <2>0, <5>1, PushElements, PacketFields
        <5> QED BY <2>0, <5>1, <5>2, <5>3, <5>4
      <4> QED BY <4>1, <4>2
    <3>3. acked' \in [Node -> SUBSET (Conn \X Msg)]
      <4>0. acked \in [Node -> SUBSET (Conn \X Msg)]
        BY DEF TypeOK
      <4>1. CASE relayPile[n] = <<>>
        BY <2>3, <4>0, <4>1 DEF TickRelay
      <4>2. CASE relayPile[n] # <<>>
        <5>0. PICK p : p = Head(relayPile[n])
          OBVIOUS
        <5>1. p \in Packet
          BY <2>0, <4>2, <5>0, PopElements
        <5>2. acked' = [acked EXCEPT ![n] =
                         IF p \in Handshake THEN @ ELSE @ \cup {<<p.conn, p.msg>>}]
          BY <2>3, <4>2, <5>0 DEF TickRelay
        <5>3. p \notin Handshake => <<p.conn, p.msg>> \in Conn \X Msg
          BY <5>1, PacketFields
        <5> QED BY <4>0, <5>2, <5>3
      <4> QED BY <4>1, <4>2
    <3> QED BY <2>3, <3>1, <3>2, <3>3 DEF TickRelay, TypeOK, tables, history, counters
  <2>4. ASSUME NEW n \in Node, TickHandshake(n) PROVE TypeOK'
    <3>0. phase' \in [Node -> Phases]
      BY <2>4, <2>11 DEF TickHandshake, Phases
    <3>1. CASE handshakePile[n] = <<>>
      BY <2>4, <3>0, <3>1 DEF TickHandshake, TypeOK, tables, history, counters
    <3>2. CASE handshakePile[n] # <<>>
      <4> DEFINE p == Head(handshakePile[n])
      <4>1. p \in Handshake /\ Tail(handshakePile[n]) \in Seq(Handshake)
        BY <2>0, <3>2, PopElements
      <4>2. /\ handshakePile' = [handshakePile EXCEPT ![n] = Tail(@)]
            /\ pending' = [pending EXCEPT ![n] = @ \ {p.tag}]
            /\ HandshakeReply(n, p) \/ HandshakeHello(n, p) \/ HandshakeDropped(n, p)
            /\ UNCHANGED <<relayPile, messagePile, receivedKeys, port, begun, sent, history,
                           acked, counters>>
        BY <2>4, <3>2 DEF TickHandshake
      <4> HIDE DEF p
      <4>3. p \in Packet /\ p.tag \in Attempt
        BY <2>0, <4>1, PacketFields
      <4>4. /\ handshakePile' \in [Node -> Seq(Handshake)]
            /\ pending' \in [Node -> SUBSET Attempt]
        BY <2>0, <4>1, <4>2 DEF TypeOK
      <4>5. CASE HandshakeReply(n, p)
        <5>1. p.conn \in Conn /\ UserOf[To[p.tag]] \in User
          BY <4>3, <4>5, PacketFields, SessionTypes DEF HandshakeReply, Completes, Finishes
        <5>2. Establish(n, p.conn, UserOf[To[p.tag]]) /\ UNCHANGED <<addrs, seenTags, net, accepted>>
          BY <4>5 DEF HandshakeReply
        <5>3. /\ sessions' \in [Node -> SUBSET Conn] /\ DOMAIN connToPk' = Node
              /\ pkToConn' \in [Node -> [User -> [Conn -> Nat]]]
              /\ \A m \in Node : /\ DOMAIN connToPk'[m] \subseteq Conn
                                 /\ \A c \in DOMAIN connToPk'[m] : connToPk'[m][c] \in User
          BY <5>1, <5>2, EstablishTypes
        <5> QED BY <3>0, <4>2, <4>4, <5>2, <5>3 DEF TypeOK, history, counters
      <4>6. CASE HandshakeHello(n, p)
        <5> DEFINE c == <<p.tag, accepted[p.tag] + 1>>
                   peer == UserOf[From[p.tag]]
        <5>0. /\ accepted' = [accepted EXCEPT ![p.tag] = @ + 1]
              /\ addrs' = [addrs EXCEPT ![n][peer] = p.addr]
              /\ Establish(n, c, peer)
              /\ seenTags' = [seenTags EXCEPT ![n] = @ \cup {p.tag}]
              /\ Post(p.addr, {Reply(c)})
              /\ accepted[p.tag] < MaxAccepts
          BY <4>6 DEF HandshakeHello
        <5>1. p.addr \in Address /\ peer \in User
          BY <4>3, <4>6, PacketFields, SessionTypes DEF HandshakeHello, Accepts
        <5>2. accepted \in [Attempt -> 0..MaxAccepts]
          BY DEF TypeOK
        <5>3. accepted[p.tag] + 1 \in 1..MaxAccepts /\ c \in Conn
          BY <4>3, <5>0, <5>2, SessionTypes DEF Conn
        <5> HIDE DEF c, peer
        <5>4. /\ sessions' \in [Node -> SUBSET Conn] /\ DOMAIN connToPk' = Node
              /\ pkToConn' \in [Node -> [User -> [Conn -> Nat]]]
              /\ \A m \in Node : /\ DOMAIN connToPk'[m] \subseteq Conn
                                 /\ \A d \in DOMAIN connToPk'[m] : connToPk'[m][d] \in User
          BY <5>0, <5>1, <5>3, EstablishTypes
        <5>5. net' \in [Node -> SUBSET Packet]
          <6>1. {Reply(c)} \in SUBSET Packet
            BY <5>3 DEF Packet, Handshake
          <6> QED BY <2>0, <5>0, <5>1, <6>1, PostTypes
        <5>6. /\ accepted' \in [Attempt -> 0..MaxAccepts]
              /\ seenTags' \in [Node -> SUBSET Attempt]
          <6>1. accepted[p.tag] + 1 \in 0..MaxAccepts
            BY <5>3, SessionTypes
          <6> QED BY <4>3, <5>0, <5>2, <6>1 DEF TypeOK
        <5>7. addrs' \in [Node -> [User -> Address \cup {NoAddr}]]
          BY <2>0, <5>0, <5>1
        <5> QED BY <3>0, <4>2, <4>4, <5>4, <5>5, <5>6, <5>7 DEF TypeOK, history, counters
      <4>7. CASE HandshakeDropped(n, p)
        BY <3>0, <4>2, <4>4, <4>7 DEF HandshakeDropped, TypeOK, tables, history, counters
      <4> QED BY <4>2, <4>5, <4>6, <4>7
    <3> QED BY <3>1, <3>2
  <2>5. ASSUME NEW n \in Node, TickMessage(n) PROVE TypeOK'
    <3>0. phase' \in [Node -> Phases]
      BY <2>5, <2>11 DEF TickMessage, Phases
    <3>1. CASE messagePile[n] = <<>>
      BY <2>5, <3>0, <3>1 DEF TickMessage, TypeOK, tables, history
    <3>2. CASE messagePile[n] # <<>>
      <4> DEFINE p == Head(messagePile[n])
      <4>1. p \in Message /\ Tail(messagePile[n]) \in Seq(Message)
        BY <2>0, <3>2, PopElements
      <4>2. /\ messagePile' = [messagePile EXCEPT ![n] = Tail(@)]
            /\ Opened(n, p.conn, p.msg) \/ Undecryptable(n, p.conn, p.msg)
            /\ UNCHANGED <<pending, addrs, seenTags, relayPile, handshakePile, net, port, begun,
                           accepted, sent, acked, restarts>>
        BY <2>5, <3>2 DEF TickMessage
      <4> HIDE DEF p
      <4>3. p.conn \in Conn /\ p.msg \in Msg
        BY <2>0, <4>1, PacketFields
      <4>4. messagePile' \in [Node -> Seq(Message)]
        BY <2>0, <4>1, <4>2
      <4>5. CASE Opened(n, p.conn, p.msg)
        <5>1. /\ receivedKeys' \in [Node -> SUBSET Msg]
              /\ forgotten' \in [Node -> SUBSET Msg]
              /\ delivered' \in [Node -> [Msg -> 0..2]]
          <6>1. /\ receivedKeys \in [Node -> SUBSET Msg]
                /\ forgotten \in [Node -> SUBSET Msg]
                /\ delivered \in [Node -> [Msg -> 0..2]]
            BY DEF TypeOK
          <6>2. CASE Duplicate(n, p.msg)
            BY <4>5, <6>1, <6>2 DEF Opened
          <6>3. CASE ~Duplicate(n, p.msg)
            <7>1. PICK old \in SUBSET receivedKeys[n] :
                    /\ receivedKeys' = [receivedKeys EXCEPT ![n] = (@ \ old) \cup {p.msg}]
                    /\ forgotten' = [forgotten EXCEPT ![n] = @ \cup (old \cap UnderWay(n))]
              BY <4>5, <6>3 DEF Opened
            <7>2. delivered' = [delivered EXCEPT ![n][p.msg] = IF @ = 0 THEN 1 ELSE 2]
              BY <4>5, <6>3 DEF Opened
            <7>3. receivedKeys' \in [Node -> SUBSET Msg]
              BY <4>3, <6>1, <7>1
            <7>4. forgotten' \in [Node -> SUBSET Msg]
              BY <6>1, <7>1
            <7>5. delivered' \in [Node -> [Msg -> 0..2]]
              BY <4>3, <6>1, <7>2
            <7> QED BY <7>3, <7>4, <7>5
          <6> QED BY <6>2, <6>3
        <5>2. opened' \in [Node -> SUBSET (Conn \X Msg)]
          BY <4>3, <4>5 DEF Opened, TypeOK
        <5> QED BY <3>0, <4>2, <4>4, <4>5, <5>1, <5>2 DEF Opened, TypeOK, tables
      <4>6. CASE Undecryptable(n, p.conn, p.msg)
        <5>1. /\ RemoveStaleConn(n, p.conn) /\ UNCHANGED <<receivedKeys, history>>
              /\ faults' \in 0..MaxFaults
          BY <2>0, <4>6, SessionTypes DEF Undecryptable
        <5>2. /\ sessions' \in [Node -> SUBSET Conn] /\ DOMAIN connToPk' = Node
              /\ pkToConn' \in [Node -> [User -> [Conn -> Nat]]]
              /\ \A m \in Node : /\ DOMAIN connToPk'[m] \subseteq Conn
                                 /\ \A c \in DOMAIN connToPk'[m] : connToPk'[m][c] \in User
          BY <4>3, <5>1, RemoveTypes
        <5> QED BY <3>0, <4>2, <4>4, <5>1, <5>2 DEF TypeOK, history
      <4> QED BY <4>2, <4>5, <4>6
    <3> QED BY <3>1, <3>2
  <2>6. ASSUME NEW n \in Node, Restart(n) PROVE TypeOK'
    <3>1. restarts' \in 0..MaxRestarts /\ port' \in [Node -> 0..restarts'] /\ net' \in [Node -> SUBSET Packet]
      <4>1. restarts' = restarts + 1 /\ restarts' \in 0..MaxRestarts
        BY <2>0, <2>6, SessionTypes DEF Restart
      <4>2. \/ port' = [port EXCEPT ![n] = @ + 1] /\ net' = [net EXCEPT ![n] = {}]
            \/ UNCHANGED <<port, net>>
        BY <2>6 DEF Restart
      <4>3. \A m \in Node : port[m] \in 0..restarts + 1 /\ port[m] + 1 \in 0..restarts + 1
        BY <2>0
      <4> QED BY <2>0, <4>1, <4>2, <4>3
    <3>2. addrs' \in [Node -> [User -> Address \cup {NoAddr}]]
      <4>1. PICK saved \in SUBSET User :
              addrs' = [addrs EXCEPT ![n] = [u \in User |-> IF u \in saved THEN @[u] ELSE NoAddr]]
        BY <2>6 DEF Restart
      <4> QED BY <2>0, <4>1
    <3>3. /\ sessions' \in [Node -> SUBSET Conn] /\ DOMAIN connToPk' = Node
          /\ pkToConn' \in [Node -> [User -> [Conn -> Nat]]]
          /\ \A m \in Node : /\ DOMAIN connToPk'[m] \subseteq Conn
                             /\ \A c \in DOMAIN connToPk'[m] : connToPk'[m][c] \in User
      BY <2>6 DEF Restart, TypeOK, NoConn, NoneListed
    <3>4. /\ relayPile' \in [Node -> Seq(Packet)] /\ handshakePile' \in [Node -> Seq(Handshake)]
          /\ messagePile' \in [Node -> Seq(Message)] /\ phase' \in [Node -> Phases]
      BY <2>0, <2>6, EmptySeq DEF Restart, Phases
    <3>5. /\ pending' \in [Node -> SUBSET Attempt] /\ seenTags' \in [Node -> SUBSET Attempt]
          /\ receivedKeys' \in [Node -> SUBSET Msg]
          /\ opened' \in [Node -> SUBSET (Conn \X Msg)]
      BY <2>6 DEF Restart, TypeOK
    <3> QED BY <2>6, <3>1, <3>2, <3>3, <3>4, <3>5 DEF Restart, TypeOK
  <2>7. ASSUME NEW n \in Node, NEW p \in net[n], Lose(n, p) PROVE TypeOK'
    <3>1. net' \in [Node -> SUBSET Packet] /\ faults' \in 0..MaxFaults
      BY <2>0, <2>7, SessionTypes DEF Lose
    <3> QED BY <2>7, <3>1 DEF Lose, TypeOK, tables, piles, history
  <2>8. ASSUME NEW n \in Node, NEW p \in net[n], NEW keep \in BOOLEAN, Arrive(n, p, keep)
        PROVE  TypeOK'
    <3>0. p \in Packet
      BY <2>0
    <3>1. net' \in [Node -> SUBSET Packet] /\ faults' \in 0..MaxFaults
      BY <2>0, <2>8, SessionTypes DEF Arrive
    <3>2. /\ relayPile' \in [Node -> Seq(Packet)] /\ handshakePile' \in [Node -> Seq(Handshake)]
          /\ messagePile' \in [Node -> Seq(Message)]
      <4>1. /\ relayPile' = [relayPile EXCEPT ![n] = Append(@, p)]
            /\ UNCHANGED <<handshakePile, messagePile>>
        BY <2>8 DEF Arrive
      <4>2. Append(relayPile[n], p) \in Seq(Packet)
        BY <2>0, <3>0, PushElements
      <4> QED BY <2>0, <4>1, <4>2
    <3> QED BY <2>8, <3>1, <3>2 DEF Arrive, TypeOK, tables, history
  <2>9. CASE UNCHANGED vars
    BY <2>9 DEF vars, TypeOK, tables, piles, history, counters
  <2> QED BY <2>1, <2>2, <2>3, <2>4, <2>5, <2>6, <2>7, <2>8, <2>9 DEF Next, Tick
<1> QED BY <1>1, <1>2, PTL DEF Spec

-----------------------------------------------------------------------------
(* What travels *)

\* The packets on their way to a node and in its piles.
Traffic(n) == net[n] \cup ToSet(relayPile[n]) \cup ToSet(handshakePile[n])
                     \cup ToSet(messagePile[n])

\* The three places a packet is made.
Greets(n, p) == \E h \in Attempt :
  Contact(h) /\ n = To[h] /\ p = Hello(h, LocalAddr(From[h]))
Writes(n, p) == \E m \in Msg :
  /\ SendMessage(m) /\ n = addrs[Author[m]][Recipient[m]][1]
  /\ \E c \in sessions[Author[m]] :
       pkToConn[Author[m]][Recipient[m]][c] > 0 /\ p = Cipher(c, m)
Replies(p) == \E n \in Node :
  /\ TickHandshake(n) /\ handshakePile[n] # <<>>
  /\ LET q == Head(handshakePile[n]) IN
       HandshakeHello(n, q) /\ p = Reply(<<q.tag, accepted[q.tag] + 1>>)

\* No other step makes a packet: the ticks and the sort thread move them.
LEMMA TrafficGrows ==
  ASSUME TypeOK, [Next]_vars, NEW n \in Node, NEW p \in Traffic(n)', p \notin Traffic(n)
  PROVE  Greets(n, p) \/ Writes(n, p) \/ Replies(p)
<1>0. /\ net \in [Node -> SUBSET Packet] /\ relayPile \in [Node -> Seq(Packet)]
      /\ handshakePile \in [Node -> Seq(Handshake)]
      /\ messagePile \in [Node -> Seq(Message)]
  BY DEF TypeOK
<1>1. ASSUME NEW h \in Attempt, Contact(h) PROVE Greets(n, p)
  <2>1. PICK addr \in {To[h]} \X (0..port[To[h]]) : Post(addr, {Hello(h, LocalAddr(From[h]))})
    BY <1>1 DEF Contact, SendHello
  <2>2. \A k \in Node : /\ net'[k] \subseteq net[k] \cup {Hello(h, LocalAddr(From[h]))}
                        /\ k # To[h] => net'[k] = net[k]
    BY <1>0, <2>1 DEF Post
  <2>3. UNCHANGED piles
    BY <1>1 DEF Contact
  <2> QED BY <1>1, <2>2, <2>3 DEF Traffic, piles, Greets
<1>2. ASSUME NEW m \in Msg, SendMessage(m) PROVE Writes(n, p)
  <2> DEFINE S == {Cipher(c, m) : c \in {c \in sessions[Author[m]] :
                                           pkToConn[Author[m]][Recipient[m]][c] > 0}}
  <2>1. Post(addrs[Author[m]][Recipient[m]], S) /\ UNCHANGED piles
    BY <1>2 DEF SendMessage
  <2>2. net'[n] \subseteq net[n] \cup S /\ (n # addrs[Author[m]][Recipient[m]][1] => net'[n] = net[n])
    <3> HIDE DEF S
    <3> QED BY <1>0, <2>1 DEF Post
  <2>3. p \in S /\ n = addrs[Author[m]][Recipient[m]][1]
    <3> HIDE DEF S
    <3> QED BY <2>1, <2>2 DEF Traffic, piles
  <2> QED BY <1>2, <2>3 DEF Writes
<1>3. ASSUME NEW k \in Node, TickRelay(k) PROVE FALSE
  <2>1. CASE relayPile[k] = <<>>
    BY <1>3, <2>1 DEF TickRelay, piles, Traffic
  <2>2. CASE relayPile[k] # <<>>
    <3> DEFINE q == Head(relayPile[k])
    <3>1. /\ q \in Packet /\ q \in ToSet(relayPile[k])
          /\ ToSet(Tail(relayPile[k])) \subseteq ToSet(relayPile[k])
      BY <1>0, <2>2, PopElements
    <3>2. /\ relayPile' = [relayPile EXCEPT ![k] = Tail(@)]
          /\ handshakePile' = [handshakePile EXCEPT ![k] =
                                 IF q \in Handshake THEN Append(@, q) ELSE @]
          /\ messagePile' = [messagePile EXCEPT ![k] =
                               IF q \in Handshake THEN @ ELSE Append(@, q)]
          /\ UNCHANGED net
      BY <1>3, <2>2 DEF TickRelay
    <3> HIDE DEF q
    <3>3. q \in Handshake =>
            ToSet(Append(handshakePile[k], q)) \subseteq ToSet(handshakePile[k]) \cup {q}
      BY <1>0, PushElements
    <3>4. q \notin Handshake =>
            ToSet(Append(messagePile[k], q)) \subseteq ToSet(messagePile[k]) \cup {q}
      BY <1>0, <3>1, PushElements, PacketFields
    <3>5. CASE n = k
      <4>1. ToSet(relayPile'[k]) \subseteq ToSet(relayPile[k])
        BY <1>0, <3>1, <3>2
      <4>2. ToSet(handshakePile'[k]) \subseteq ToSet(handshakePile[k]) \cup {q}
        BY <1>0, <3>2, <3>3
      <4>3. ToSet(messagePile'[k]) \subseteq ToSet(messagePile[k]) \cup {q}
        BY <1>0, <3>2, <3>4
      <4> QED BY <3>1, <3>2, <3>5, <4>1, <4>2, <4>3 DEF Traffic
    <3>6. CASE n # k
      BY <1>0, <3>2, <3>6 DEF Traffic
    <3> QED BY <3>5, <3>6
  <2> QED BY <2>1, <2>2
<1>4. ASSUME NEW k \in Node, TickHandshake(k) PROVE Replies(p)
  <2>1. CASE handshakePile[k] = <<>>
    BY <1>4, <2>1 DEF TickHandshake, Traffic
  <2>2. CASE handshakePile[k] # <<>>
    <3> DEFINE q == Head(handshakePile[k])
    <3>1. ToSet(Tail(handshakePile[k])) \subseteq ToSet(handshakePile[k])
      BY <1>0, <2>2, PopElements
    <3>2. /\ handshakePile' = [handshakePile EXCEPT ![k] = Tail(@)]
          /\ UNCHANGED <<relayPile, messagePile>>
          /\ HandshakeReply(k, q) \/ HandshakeHello(k, q) \/ HandshakeDropped(k, q)
      BY <1>4, <2>2 DEF TickHandshake
    <3>3. ToSet(handshakePile'[n]) \subseteq ToSet(handshakePile[n])
      BY <1>0, <3>1, <3>2
    <3>4. CASE UNCHANGED net
      BY <3>2, <3>3, <3>4 DEF Traffic
    <3>5. CASE HandshakeHello(k, q)
      <4>1. Post(q.addr, {Reply(<<q.tag, accepted[q.tag] + 1>>)})
        BY <3>5 DEF HandshakeHello
      <4>2. net'[n] \subseteq net[n] \cup {Reply(<<q.tag, accepted[q.tag] + 1>>)}
        <5> HIDE DEF q
        <5> QED BY <1>0, <4>1 DEF Post
      <4>3. p = Reply(<<q.tag, accepted[q.tag] + 1>>)
        <5> HIDE DEF q
        <5> QED BY <3>2, <3>3, <4>2 DEF Traffic
      <4> QED BY <1>4, <2>2, <3>5, <4>3 DEF Replies
    <3> QED BY <3>2, <3>4, <3>5 DEF HandshakeReply, HandshakeDropped
  <2> QED BY <2>1, <2>2
<1>5. ASSUME NEW k \in Node, TickMessage(k) PROVE FALSE
  <2>1. CASE messagePile[k] = <<>>
    BY <1>5, <2>1 DEF TickMessage, Traffic
  <2>2. CASE messagePile[k] # <<>>
    <3>1. ToSet(Tail(messagePile[k])) \subseteq ToSet(messagePile[k])
      BY <1>0, <2>2, PopElements
    <3>2. messagePile' = [messagePile EXCEPT ![k] = Tail(@)]
      BY <1>5, <2>2 DEF TickMessage
    <3>3. ToSet(messagePile'[n]) \subseteq ToSet(messagePile[n])
      BY <1>0, <3>1, <3>2
    <3> QED BY <1>5, <3>3 DEF TickMessage, Traffic
  <2> QED BY <2>1, <2>2
<1>6. ASSUME NEW k \in Node, Restart(k) PROVE FALSE
  <2>1. /\ net'[n] \subseteq net[n] /\ ToSet(relayPile'[n]) \subseteq ToSet(relayPile[n])
        /\ ToSet(handshakePile'[n]) \subseteq ToSet(handshakePile[n])
        /\ ToSet(messagePile'[n]) \subseteq ToSet(messagePile[n])
    BY <1>0, <1>6, NoElements DEF Restart
  <2> QED BY <2>1 DEF Traffic
<1>7. ASSUME NEW k \in Node, NEW q \in net[k], Lose(k, q) PROVE FALSE
  <2>1. net'[n] \subseteq net[n] /\ UNCHANGED piles
    BY <1>0, <1>7 DEF Lose
  <2> QED BY <2>1 DEF Traffic, piles
<1>8. ASSUME NEW k \in Node, NEW q \in net[k], NEW keep \in BOOLEAN, Arrive(k, q, keep)
      PROVE  FALSE
  <2>0. q \in Packet /\ q \in Traffic(k)
    BY <1>0 DEF Traffic
  <2>1. net'[n] \subseteq net[n]
    BY <1>0, <1>8 DEF Arrive
  <2>2. /\ \A m \in Node : relayPile'[m] # relayPile[m] =>
             m = k /\ ToSet(relayPile'[m]) \subseteq ToSet(relayPile[m]) \cup {q}
        /\ \A m \in Node : handshakePile'[m] # handshakePile[m] =>
             m = k /\ ToSet(handshakePile'[m]) \subseteq ToSet(handshakePile[m]) \cup {q}
        /\ \A m \in Node : messagePile'[m] # messagePile[m] =>
             m = k /\ ToSet(messagePile'[m]) \subseteq ToSet(messagePile[m]) \cup {q}
    <3>1. /\ relayPile' = [relayPile EXCEPT ![k] = Append(@, q)]
          /\ UNCHANGED <<handshakePile, messagePile>>
      BY <1>8 DEF Arrive
    <3>2. ToSet(Append(relayPile[k], q)) \subseteq ToSet(relayPile[k]) \cup {q}
      BY <1>0, <2>0, PushElements
    <3> QED BY <1>0, <3>1, <3>2
  <2> QED BY <2>0, <2>1, <2>2 DEF Traffic
<1>9. CASE UNCHANGED vars
  BY <1>9 DEF vars, piles, Traffic
<1> QED BY <1>1, <1>2, <1>3, <1>4, <1>5, <1>6, <1>7, <1>8, <1>9 DEF Next, Tick

-----------------------------------------------------------------------------
(* Where sessions come from *)

\* A connection of an attempt that was begun, which a responder has made.
Known(c) == c[1] \in begun /\ c[2] <= accepted[c[1]]

\* A first message travels only to the device it is addressed to; replies
\* and messages are about connections that exist.
Genuine(n, p) ==
  /\ p.kind = "hello" => n = To[p.tag] /\ p.tag \in begun
  /\ p.kind = "reply" => Known(p.conn)
  /\ p.kind = "message" => Known(p.conn) /\ p.msg \in sent
TrafficGenuine == \A n \in Node : \A p \in Traffic(n) : Genuine(n, p)

PendingBegun == \A n \in Node : pending[n] \subseteq {h \in begun : From[h] = n}

\* A node has a session as one of the two ends of its attempt, under the user of
\* the other, and then no initiator is left in pending_sessions.
SessionEnds == \A n \in Node : \A c \in sessions[n] :
  /\ Known(c) /\ c[1] \notin pending[n]
  /\ \/ n = To[c[1]] /\ connToPk[n][c] = UserOf[From[c[1]]]
     \/ n = From[c[1]] /\ connToPk[n][c] = UserOf[To[c[1]]]

SessionOrigin == TrafficGenuine /\ PendingBegun /\ SessionEnds /\ TablesConsistent

\* Attempts stay begun, messages sent, and responders only make more sessions.
LEMMA HistoryGrows ==
  ASSUME TypeOK, [Next]_vars
  PROVE  /\ begun \subseteq begun' /\ sent \subseteq sent'
         /\ \A h \in Attempt : accepted'[h] \in Nat /\ accepted[h] <= accepted'[h]
         /\ \A c \in Conn : Known(c) => Known(c)'
<1>0. accepted \in [Attempt -> 0..MaxAccepts] /\ MaxAccepts \in Nat
  BY SessionTypes DEF TypeOK
<1>1. UNCHANGED accepted \/ \E n \in Node : TickHandshake(n) /\ handshakePile[n] # <<>>
  BY DEF Next, Contact, SendMessage, Tick, TickRelay, TickHandshake, TickMessage, Restart,
         Lose, Arrive, vars
<1>2. \A h \in Attempt : accepted'[h] \in Nat /\ accepted[h] <= accepted'[h]
  <2>1. CASE UNCHANGED accepted
    BY <1>0, <2>1
  <2>2. ASSUME NEW n \in Node, TickHandshake(n), handshakePile[n] # <<>>
        PROVE  \A h \in Attempt : accepted'[h] \in Nat /\ accepted[h] <= accepted'[h]
    <3> DEFINE p == Head(handshakePile[n])
    <3>1. HandshakeReply(n, p) \/ HandshakeHello(n, p) \/ HandshakeDropped(n, p)
      BY <2>2 DEF TickHandshake
    <3>2. accepted' = accepted \/ accepted' = [accepted EXCEPT ![p.tag] = @ + 1]
      BY <3>1 DEF HandshakeReply, HandshakeHello, HandshakeDropped
    <3> HIDE DEF p
    <3> QED BY <1>0, <3>2
  <2> QED BY <1>1, <2>1, <2>2
<1>3. begun \subseteq begun' /\ sent \subseteq sent'
  BY DEF Next, Contact, SendMessage, Tick, TickRelay, TickHandshake, TickMessage, Restart,
         Lose, Arrive, vars, counters
<1>4. \A c \in Conn : Known(c) => Known(c)'
  BY <1>0, <1>2, <1>3 DEF Known, Conn
<1> QED BY <1>2, <1>3, <1>4

\* A packet made in a step is genuine after it.
LEMMA NewTrafficGenuine ==
  ASSUME TypeOK, SessionOrigin, [Next]_vars, NEW n \in Node, NEW p,
         Greets(n, p) \/ Writes(n, p) \/ Replies(p)
  PROVE  Genuine(n, p)'
<1>1. ASSUME NEW h \in Attempt, Contact(h), n = To[h], p = Hello(h, LocalAddr(From[h]))
      PROVE  Genuine(n, p)'
  BY <1>1 DEF Contact, Hello, Genuine
<1>2. ASSUME NEW m \in Msg, SendMessage(m), NEW c \in sessions[Author[m]], p = Cipher(c, m)
      PROVE  Genuine(n, p)'
  <2>1. Author[m] \in Node /\ c \in Conn
    BY SessionTypes DEF TypeOK
  <2>2. Known(c)'
    BY <2>1, HistoryGrows DEF SessionOrigin, SessionEnds
  <2>3. m \in sent'
    BY <1>2 DEF SendMessage
  <2> QED BY <1>2, <2>2, <2>3 DEF Genuine, Cipher
<1>3. ASSUME NEW k \in Node, TickHandshake(k), handshakePile[k] # <<>>,
             HandshakeHello(k, Head(handshakePile[k])),
             p = Reply(<<Head(handshakePile[k]).tag, accepted[Head(handshakePile[k]).tag] + 1>>)
      PROVE  Genuine(n, p)'
  <2> DEFINE q == Head(handshakePile[k])
  <2>1. q \in Handshake /\ q \in Traffic(k) /\ q \in Packet
    <3>1. handshakePile[k] \in Seq(Handshake)
      BY DEF TypeOK
    <3> QED BY <1>3, <3>1, PopElements DEF Traffic, Packet
  <2>2. q.kind = "hello" /\ accepted' = [accepted EXCEPT ![q.tag] = @ + 1] /\ UNCHANGED begun
    BY <1>3 DEF HandshakeHello, Accepts, TickHandshake
  <2> HIDE DEF q
  <2>3. q.tag \in begun /\ q.tag \in Attempt
    BY <2>1, <2>2, PacketFields DEF SessionOrigin, TrafficGenuine, Genuine
  <2>4. accepted'[q.tag] = accepted[q.tag] + 1 /\ accepted[q.tag] \in Nat
    <3>1. accepted \in [Attempt -> 0..MaxAccepts]
      BY DEF TypeOK
    <3> QED BY <2>2, <2>3, <3>1
  <2> DEFINE i == accepted[q.tag] + 1
  <2>5. /\ p.kind = "reply" /\ p.conn[1] = q.tag /\ p.conn[2] = i
        /\ p.kind # "hello" /\ p.kind # "message"
    BY <1>3 DEF Reply, q
  <2>6. p.conn[1] \in begun' /\ p.conn[2] <= accepted'[p.conn[1]]
    <3>1. i \in Nat /\ accepted'[q.tag] = i
      BY <2>4
    <3> HIDE DEF i
    <3> QED BY <2>2, <2>3, <2>5, <3>1
  <2> QED BY <2>5, <2>6 DEF Genuine, Known
<1> QED BY <1>1, <1>2, <1>3 DEF Greets, Writes, Replies

LEMMA TrafficStaysGenuine ==
  ASSUME TypeOK, SessionOrigin, [Next]_vars
  PROVE  TrafficGenuine'
<1> SUFFICES ASSUME NEW n \in Node, NEW p \in Traffic(n)' PROVE Genuine(n, p)'
  BY DEF TrafficGenuine
<1>1. CASE p \in Traffic(n)
  <2>1. p \in Packet
    <3>1. /\ net[n] \subseteq Packet /\ relayPile[n] \in Seq(Packet)
          /\ handshakePile[n] \in Seq(Handshake) /\ messagePile[n] \in Seq(Message)
      BY DEF TypeOK
    <3>2. \A S, s : s \in Seq(S) => ToSet(s) \subseteq S
      BY ElementOfSeq, LenProperties DEF ToSet
    <3> QED BY <1>1, <3>1, <3>2 DEF Traffic, Packet
  <2>2. Genuine(n, p)
    BY <1>1 DEF SessionOrigin, TrafficGenuine
  <2>3. \A h \in begun : h \in begun'
    BY HistoryGrows
  <2> QED BY <2>1, <2>2, <2>3, HistoryGrows, PacketFields DEF Genuine
<1>2. CASE p \notin Traffic(n)
  BY <1>2, TrafficGrows, NewTrafficGenuine
<1> QED BY <1>1, <1>2

\* A handshake makes a session at most at the node that runs it, a new one, and
\* leaves no initiator of the attempt behind there.
LEMMA HandshakeMakes ==
  ASSUME TypeOK, SessionOrigin, NEW n \in Node, TickHandshake(n)
  PROVE  \/ /\ UNCHANGED <<tables, begun>>
            /\ \A m \in Node : pending'[m] \subseteq pending[m]
         \/ \E c \in Conn, peer \in User :
              /\ Establish(n, c, peer) /\ UNCHANGED begun
              /\ c \notin sessions[n] /\ Known(c)'
              /\ Known(c) => c[1] \in pending[n]
              /\ pending'[n] = pending[n] \ {c[1]}
              /\ \A m \in Node \ {n} : pending'[m] = pending[m]
              /\ \/ n = To[c[1]] /\ peer = UserOf[From[c[1]]]
                 \/ n = From[c[1]] /\ peer = UserOf[To[c[1]]]
<1>0. /\ handshakePile \in [Node -> Seq(Handshake)] /\ pending \in [Node -> SUBSET Attempt]
      /\ accepted \in [Attempt -> 0..MaxAccepts] /\ MaxAccepts \in Nat
  BY SessionTypes DEF TypeOK
<1>1. CASE handshakePile[n] = <<>>
  BY <1>1 DEF TickHandshake
<1>2. CASE handshakePile[n] # <<>>
  <2>0. PICK p : p = Head(handshakePile[n])
    OBVIOUS
  <2>1. p \in Handshake /\ p \in Traffic(n) /\ p \in Packet
    BY <1>0, <1>2, <2>0, PopElements DEF Traffic, Packet
  <2>2. /\ pending' = [pending EXCEPT ![n] = @ \ {p.tag}]
        /\ HandshakeReply(n, p) \/ HandshakeHello(n, p) \/ HandshakeDropped(n, p)
        /\ UNCHANGED begun
    BY <1>2, <2>0 DEF TickHandshake
  <2>3. p.tag \in Attempt /\ UserOf[From[p.tag]] \in User /\ UserOf[To[p.tag]] \in User
    BY <2>1, PacketFields, SessionTypes
  <2>4. /\ pending'[n] = pending[n] \ {p.tag}
        /\ \A m \in Node \ {n} : pending'[m] = pending[m]
    BY <1>0, <2>2
  <2>5. CASE HandshakeReply(n, p)
    <3>1. p.kind = "reply" /\ p.tag \in pending[n] /\ Establish(n, p.conn, UserOf[To[p.tag]])
          /\ UNCHANGED accepted
      BY <2>5 DEF HandshakeReply, Completes, Finishes
    <3>2. p.conn \in Conn /\ p.conn[1] = p.tag
      BY <2>1, <3>1, PacketFields
    <3>3. p.conn \notin sessions[n] /\ n = From[p.tag]
      BY <3>1, <3>2 DEF SessionOrigin, SessionEnds, PendingBegun
    <3>4. Known(p.conn)'
      <4>1. Known(p.conn)
        BY <2>1, <3>1 DEF SessionOrigin, TrafficGenuine, Genuine
      <4> QED BY <2>2, <3>1, <4>1 DEF Known
    <3>5. /\ Establish(n, p.conn, UserOf[To[p.tag]]) /\ UNCHANGED begun
          /\ p.conn \notin sessions[n] /\ Known(p.conn)'
          /\ Known(p.conn) => p.conn[1] \in pending[n]
          /\ pending'[n] = pending[n] \ {p.conn[1]}
          /\ \A m \in Node \ {n} : pending'[m] = pending[m]
          /\ n = From[p.conn[1]] /\ UserOf[To[p.tag]] = UserOf[To[p.conn[1]]]
      BY <2>2, <2>4, <3>1, <3>2, <3>3, <3>4
    <3> QED BY <2>3, <3>2, <3>5
  <2>6. CASE HandshakeHello(n, p)
    <3>0. PICK c : c = <<p.tag, accepted[p.tag] + 1>>
      OBVIOUS
    <3>1. /\ Establish(n, c, UserOf[From[p.tag]]) /\ p.kind = "hello"
          /\ accepted' = [accepted EXCEPT ![p.tag] = @ + 1]
          /\ accepted[p.tag] < MaxAccepts
      BY <2>6, <3>0 DEF HandshakeHello, Accepts
    <3>2. /\ accepted[p.tag] \in Nat /\ accepted'[p.tag] = accepted[p.tag] + 1
          /\ accepted[p.tag] + 1 \in 1..MaxAccepts
      BY <1>0, <2>3, <3>1
    <3>3. /\ c \in Conn /\ c[1] = p.tag /\ c[2] = accepted[p.tag] + 1
      BY <2>3, <3>0, <3>2 DEF Conn
    <3>4. n = To[p.tag] /\ p.tag \in begun
      BY <2>1, <3>1 DEF SessionOrigin, TrafficGenuine, Genuine
    <3>5. ~(c[2] <= accepted[c[1]]) /\ c[2] <= accepted'[c[1]]
      BY <3>2, <3>3
    <3>6. Known(c)'
      BY <2>2, <3>3, <3>4, <3>5 DEF Known
    <3>7. c \notin sessions[n] /\ ~Known(c)
      <4>1. ~Known(c)
        BY <3>5 DEF Known
      <4> QED BY <4>1 DEF SessionOrigin, SessionEnds
    <3>8. /\ Establish(n, c, UserOf[From[p.tag]]) /\ UNCHANGED begun
          /\ c \notin sessions[n] /\ Known(c)'
          /\ Known(c) => c[1] \in pending[n]
          /\ pending'[n] = pending[n] \ {c[1]}
          /\ \A m \in Node \ {n} : pending'[m] = pending[m]
          /\ n = To[c[1]] /\ UserOf[From[p.tag]] = UserOf[From[c[1]]]
      BY <2>2, <2>4, <3>1, <3>3, <3>4, <3>6, <3>7
    <3> QED BY <2>3, <3>3, <3>8
  <2>7. CASE HandshakeDropped(n, p)
    BY <2>2, <2>4, <2>7 DEF HandshakeDropped
  <2> QED BY <2>2, <2>5, <2>6, <2>7
<1> QED BY <1>1, <1>2

\* A message changes the tables only by taking a connection out.
LEMMA MessageTakes ==
  ASSUME TypeOK, NEW n \in Node, TickMessage(n)
  PROVE  UNCHANGED tables \/ \E c \in Conn : RemoveStaleConn(n, c)
<1>1. CASE messagePile[n] = <<>>
  BY <1>1 DEF TickMessage
<1>2. CASE messagePile[n] # <<>>
  <2> DEFINE p == Head(messagePile[n])
  <2>1. p \in Message /\ p \in Packet
    <3>1. messagePile \in [Node -> Seq(Message)]
      BY DEF TypeOK
    <3> QED BY <1>2, <3>1, PopElements DEF Packet
  <2>2. Opened(n, p.conn, p.msg) \/ Undecryptable(n, p.conn, p.msg)
    BY <1>2 DEF TickMessage
  <2> HIDE DEF p
  <2>3. p.conn \in Conn
    BY <2>1, PacketFields
  <2> QED BY <2>2, <2>3 DEF Opened, Undecryptable
<1> QED BY <1>1, <1>2

\* The steps by what they do to the tables and to pending_sessions.
LEMMA TableSteps ==
  ASSUME [Next]_vars
  PROVE  \/ \E h \in Attempt : Contact(h) /\ UNCHANGED tables
         \/ \E n \in Node : TickHandshake(n) \/ (TickMessage(n) /\ UNCHANGED <<pending, begun>>)
                            \/ Restart(n)
         \/ UNCHANGED <<tables, pending, begun>>
BY DEF Next, Contact, SendMessage, Tick, TickRelay, TickMessage, Lose, Arrive, vars

\* Putting a new session in, taking a connection out and forgetting all of
\* them leave the three tables in agreement.
LEMMA TablesStayConsistent ==
  ASSUME TypeOK, SessionOrigin, [Next]_vars
  PROVE  TablesConsistent'
<1>0. /\ TablesConsistent /\ sessions \in [Node -> SUBSET Conn]
      /\ DOMAIN connToPk = Node /\ pkToConn \in [Node -> [User -> [Conn -> Nat]]]
  BY DEF TypeOK, SessionOrigin
<1>1. ASSUME NEW n \in Node, NEW c \in Conn, NEW peer \in User, Establish(n, c, peer),
             c \notin sessions[n]
      PROVE  TablesConsistent'
  <2>1. ASSUME NEW m \in Node
        PROVE  /\ DOMAIN connToPk'[m] = sessions'[m]
               /\ \A u \in User, d \in Conn : pkToConn'[m][u][d] =
                    IF d \in sessions'[m] /\ connToPk'[m][d] = u THEN 1 ELSE 0
    <3>1. CASE m = n
      <4>1. DOMAIN connToPk'[n] = sessions'[n]
        <5>1. DOMAIN connToPk[n] = sessions[n]
          BY <1>0 DEF TablesConsistent
        <5> QED BY <1>1, <5>1, EstablishTypes
      <4>2. ASSUME NEW u \in User, NEW d \in Conn
            PROVE  pkToConn'[n][u][d] =
                     IF d \in sessions'[n] /\ connToPk'[n][d] = u THEN 1 ELSE 0
        <5>1. pkToConn[n][u][d] = IF d \in sessions[n] /\ connToPk[n][d] = u THEN 1 ELSE 0
          BY <1>0 DEF TablesConsistent
        <5>2. CASE d = c
          <6>1. pkToConn[n][peer][c] = 0
            BY <1>0, <1>1 DEF TablesConsistent
          <6>2. d \in sessions'[n] /\ connToPk'[n][d] = peer /\ pkToConn'[n][peer][d] = 1
            BY <1>1, <5>2, <6>1, EstablishTypes
          <6>3. u # peer => pkToConn'[n][u][d] = pkToConn[n][u][d]
            BY <1>1, EstablishTypes
          <6> QED BY <1>1, <5>1, <5>2, <6>2, <6>3
        <5>3. CASE d # c
          <6>1. /\ pkToConn'[n][u][d] = pkToConn[n][u][d]
                /\ d \in sessions'[n] <=> d \in sessions[n]
            BY <1>1, <5>3, EstablishTypes
          <6>2. d \in sessions[n] => connToPk'[n][d] = connToPk[n][d]
            BY <1>0, <1>1, <5>3, EstablishTypes DEF TablesConsistent
          <6> QED BY <5>1, <6>1, <6>2
        <5> QED BY <5>2, <5>3
      <4> QED BY <3>1, <4>1, <4>2
    <3>2. CASE m # n
      <4>1. /\ sessions'[m] = sessions[m] /\ connToPk'[m] = connToPk[m]
            /\ pkToConn'[m] = pkToConn[m]
        BY <1>1, <3>2, EstablishTypes
      <4> QED BY <1>0, <4>1 DEF TablesConsistent
    <3> QED BY <3>1, <3>2
  <2> QED BY <2>1 DEF TablesConsistent
<1>2. ASSUME NEW n \in Node, NEW c \in Conn, RemoveStaleConn(n, c)
      PROVE  TablesConsistent'
  <2>1. ASSUME NEW m \in Node
        PROVE  /\ DOMAIN connToPk'[m] = sessions'[m]
               /\ \A u \in User, d \in Conn : pkToConn'[m][u][d] =
                    IF d \in sessions'[m] /\ connToPk'[m][d] = u THEN 1 ELSE 0
    <3>1. CASE m = n
      <4>1. DOMAIN connToPk'[n] = sessions'[n]
        <5>1. DOMAIN connToPk[n] = sessions[n]
          BY <1>0 DEF TablesConsistent
        <5> QED BY <1>2, <5>1, RemoveTypes
      <4>2. ASSUME NEW u \in User, NEW d \in Conn
            PROVE  pkToConn'[n][u][d] =
                     IF d \in sessions'[n] /\ connToPk'[n][d] = u THEN 1 ELSE 0
        <5>1. /\ pkToConn[n][u][d] = IF d \in sessions[n] /\ connToPk[n][d] = u THEN 1 ELSE 0
              /\ DOMAIN connToPk[n] = sessions[n]
          BY <1>0 DEF TablesConsistent
        <5>2. CASE d = c
          <6>1. d \notin sessions'[n]
            BY <1>2, <5>2, RemoveTypes
          <6>2. CASE d \in sessions[n] /\ connToPk[n][d] = u
            BY <1>2, <5>1, <5>2, <6>1, <6>2, RemoveTypes
          <6>3. CASE ~(d \in sessions[n] /\ connToPk[n][d] = u)
            <7>1. pkToConn'[n][u][d] = pkToConn[n][u][d]
              BY <1>2, <5>1, <5>2, <6>3, RemoveTypes
            <7> QED BY <5>1, <6>1, <6>3, <7>1
          <6> QED BY <6>2, <6>3
        <5>3. CASE d # c
          <6>1. /\ pkToConn'[n][u][d] = pkToConn[n][u][d]
                /\ d \in sessions'[n] <=> d \in sessions[n]
            BY <1>2, <5>3, RemoveTypes
          <6>2. d \in sessions[n] => connToPk'[n][d] = connToPk[n][d]
            BY <1>2, <5>1, <5>3, RemoveTypes
          <6> QED BY <5>1, <6>1, <6>2
        <5> QED BY <5>2, <5>3
      <4> QED BY <3>1, <4>1, <4>2
    <3>2. CASE m # n
      <4>1. /\ sessions'[m] = sessions[m] /\ connToPk'[m] = connToPk[m]
            /\ pkToConn'[m] = pkToConn[m]
        BY <1>2, <3>2, RemoveTypes
      <4> QED BY <1>0, <4>1 DEF TablesConsistent
    <3> QED BY <3>1, <3>2
  <2> QED BY <2>1 DEF TablesConsistent
<1>3. ASSUME NEW n \in Node, Restart(n) PROVE TablesConsistent'
  <2>1. /\ sessions' = [sessions EXCEPT ![n] = {}] /\ connToPk' = [connToPk EXCEPT ![n] = NoConn]
        /\ pkToConn' = [pkToConn EXCEPT ![n] = NoneListed]
    BY <1>3 DEF Restart
  <2>2. DOMAIN NoConn = {} /\ \A u \in User, d \in Conn : NoneListed[u][d] = 0
    BY DEF NoConn, NoneListed
  <2>3. /\ sessions'[n] = {} /\ connToPk'[n] = NoConn /\ pkToConn'[n] = NoneListed
        /\ \A m \in Node \ {n} : /\ sessions'[m] = sessions[m] /\ connToPk'[m] = connToPk[m]
                                 /\ pkToConn'[m] = pkToConn[m]
    BY <1>0, <2>1
  <2>4. ASSUME NEW m \in Node
        PROVE  /\ DOMAIN connToPk'[m] = sessions'[m]
               /\ \A u \in User, d \in Conn : pkToConn'[m][u][d] =
                    IF d \in sessions'[m] /\ connToPk'[m][d] = u THEN 1 ELSE 0
    <3>1. CASE m = n
      BY <2>2, <2>3, <3>1
    <3>2. CASE m # n
      <4>1. /\ sessions'[m] = sessions[m] /\ connToPk'[m] = connToPk[m]
            /\ pkToConn'[m] = pkToConn[m]
        BY <2>3, <3>2
      <4> QED BY <1>0, <4>1 DEF TablesConsistent
    <3> QED BY <3>1, <3>2
  <2> QED BY <2>4 DEF TablesConsistent
<1>4. UNCHANGED tables => TablesConsistent'
  BY <1>0 DEF TablesConsistent, tables
<1> QED BY <1>1, <1>2, <1>3, <1>4, TableSteps, HandshakeMakes, MessageTakes

\* Sessions keep the two ends of their attempt.
LEMMA SessionsKeepEnds ==
  ASSUME TypeOK, SessionOrigin, [Next]_vars
  PROVE  PendingBegun' /\ SessionEnds'
<1>0. /\ PendingBegun /\ SessionEnds /\ TablesConsistent
      /\ sessions \in [Node -> SUBSET Conn] /\ pending \in [Node -> SUBSET Attempt]
      /\ DOMAIN connToPk = Node
      /\ \A c \in Conn : Known(c) => Known(c)'
      /\ begun \subseteq begun'
  BY HistoryGrows DEF TypeOK, SessionOrigin
<1>1. ASSUME NEW h \in Attempt, Contact(h), UNCHANGED tables
      PROVE  PendingBegun' /\ SessionEnds'
  <2>1. /\ h \notin begun /\ begun' = begun \cup {h} /\ UNCHANGED <<sessions, connToPk>>
        /\ pending' = [pending EXCEPT ![From[h]] = @ \cup {h}]
    BY <1>1 DEF Contact, tables
  <2>2. \A n \in Node : pending'[n] = IF n = From[h] THEN pending[n] \cup {h} ELSE pending[n]
    BY <1>0, <2>1, SessionTypes
  <2>3. PendingBegun'
    BY <1>0, <2>1, <2>2 DEF PendingBegun
  <2>4. \A n \in Node : \A c \in sessions[n] : c[1] \in begun
    BY <1>0 DEF SessionEnds, Known
  <2> QED BY <1>0, <2>1, <2>2, <2>3, <2>4 DEF SessionEnds
<1>2. ASSUME NEW n \in Node, NEW c \in Conn, NEW peer \in User,
             Establish(n, c, peer), UNCHANGED begun, Known(c)',
             pending'[n] = pending[n] \ {c[1]},
             \A m \in Node \ {n} : pending'[m] = pending[m],
             \/ n = To[c[1]] /\ peer = UserOf[From[c[1]]]
             \/ n = From[c[1]] /\ peer = UserOf[To[c[1]]]
      PROVE  PendingBegun' /\ SessionEnds'
  <2>1. PendingBegun'
    BY <1>0, <1>2 DEF PendingBegun
  <2>2. ASSUME NEW m \in Node, NEW d \in sessions'[m]
        PROVE  /\ Known(d)' /\ d[1] \notin pending'[m]
               /\ \/ m = To[d[1]] /\ connToPk'[m][d] = UserOf[From[d[1]]]
                  \/ m = From[d[1]] /\ connToPk'[m][d] = UserOf[To[d[1]]]
    <3>1. CASE m = n /\ d = c
      BY <1>2, <3>1, EstablishTypes
    <3>2. CASE ~(m = n /\ d = c)
      <4>1. d \in sessions[m] /\ connToPk'[m][d] = connToPk[m][d]
        BY <1>0, <1>2, <2>2, <3>2, EstablishTypes DEF TablesConsistent
      <4>2. pending'[m] \subseteq pending[m]
        BY <1>2
      <4> QED BY <1>0, <4>1, <4>2 DEF SessionEnds
    <3> QED BY <3>1, <3>2
  <2> QED BY <2>1, <2>2 DEF SessionEnds
<1>3. ASSUME \A n \in Node : pending'[n] \subseteq pending[n],
             \A n \in Node : /\ sessions'[n] \subseteq sessions[n]
                             /\ \A c \in sessions'[n] : connToPk'[n][c] = connToPk[n][c]
      PROVE  PendingBegun' /\ SessionEnds'
  BY <1>0, <1>3 DEF PendingBegun, SessionEnds
<1>4. ASSUME NEW n \in Node, TickMessage(n), UNCHANGED <<pending, begun>>
      PROVE  PendingBegun' /\ SessionEnds'
  <2>1. CASE UNCHANGED tables
    BY <1>3, <1>4, <2>1 DEF tables
  <2>2. ASSUME NEW c \in Conn, RemoveStaleConn(n, c) PROVE PendingBegun' /\ SessionEnds'
    <3>1. \A m \in Node : /\ sessions'[m] \subseteq sessions[m]
                          /\ \A d \in sessions'[m] : connToPk'[m][d] = connToPk[m][d]
      <4>1. DOMAIN connToPk[n] = sessions[n]
        BY <1>0 DEF TablesConsistent
      <4> QED BY <2>2, <4>1, RemoveTypes
    <3> QED BY <1>3, <1>4, <3>1
  <2> QED BY <1>4, <2>1, <2>2, MessageTakes
<1>5. ASSUME NEW n \in Node, Restart(n) PROVE PendingBegun' /\ SessionEnds'
  <2>1. /\ sessions' = [sessions EXCEPT ![n] = {}] /\ pending' = [pending EXCEPT ![n] = {}]
        /\ connToPk' = [connToPk EXCEPT ![n] = NoConn]
    BY <1>5 DEF Restart
  <2>2. /\ sessions'[n] = {} /\ pending'[n] = {}
        /\ \A m \in Node \ {n} : /\ sessions'[m] = sessions[m] /\ pending'[m] = pending[m]
                                 /\ connToPk'[m] = connToPk[m]
    BY <1>0, <2>1
  <2> QED BY <1>3, <2>2
<1>6. UNCHANGED <<tables, pending>> => PendingBegun' /\ SessionEnds'
  BY <1>3 DEF tables
<1>7. ASSUME NEW n \in Node, TickHandshake(n) PROVE PendingBegun' /\ SessionEnds'
  <2>1. UNCHANGED tables /\ (\A m \in Node : pending'[m] \subseteq pending[m])
          => PendingBegun' /\ SessionEnds'
    BY <1>3 DEF tables
  <2> QED BY <1>2, <1>7, <2>1, HandshakeMakes
<1> QED BY <1>1, <1>4, <1>5, <1>6, <1>7, TableSteps

LEMMA SessionOriginHolds == Spec => []SessionOrigin
<1>1. Init => SessionOrigin
  <2> SUFFICES ASSUME Init PROVE SessionOrigin
    OBVIOUS
  <2>1. \A n \in Node : Traffic(n) = {}
    BY NoElements DEF Init, Traffic
  <2>2. \A n \in Node : sessions[n] = {} /\ pending[n] = {} /\ connToPk[n] = NoConn
                        /\ pkToConn[n] = NoneListed
    BY DEF Init
  <2>3. DOMAIN NoConn = {} /\ \A u \in User, c \in Conn : NoneListed[u][c] = 0
    BY DEF NoConn, NoneListed
  <2> QED
    BY <2>1, <2>2, <2>3
    DEF SessionOrigin, TrafficGenuine, PendingBegun, SessionEnds, TablesConsistent
<1>2. TypeOK /\ SessionOrigin /\ [Next]_vars => SessionOrigin'
  BY TrafficStaysGenuine, SessionsKeepEnds, TablesStayConsistent DEF SessionOrigin
<1> QED BY <1>1, <1>2, TypeCorrect, PTL DEF Spec

\* After any sequence of handshakes, failed decryptions, removals and restarts
\* sessions, conn_to_pk and pk_to_conn tell the same story.
THEOREM TablesAgree == Spec => []TablesConsistent
<1>1. SessionOrigin => TablesConsistent
  BY DEF SessionOrigin
<1> QED BY <1>1, SessionOriginHolds, PTL

\* Two nodes that share a connection have it under each other's user: a first
\* message is read only where it was addressed to, a reply only by its attempt.
THEOREM PeersAgreeOnSessions == Spec => []PeersAgree
<1>1. TypeOK /\ SessionOrigin => PeersAgree
  <2> SUFFICES ASSUME TypeOK, SessionOrigin, NEW n \in Node, NEW m \in Node \ {n},
                      NEW c \in sessions[n] \cap sessions[m]
               PROVE  connToPk[n][c] = UserOf[m]
    BY DEF PeersAgree
  <2>1. \/ n = To[c[1]] /\ connToPk[n][c] = UserOf[From[c[1]]]
        \/ n = From[c[1]] /\ connToPk[n][c] = UserOf[To[c[1]]]
    BY DEF SessionOrigin, SessionEnds
  <2>2. m = To[c[1]] \/ m = From[c[1]]
    BY DEF SessionOrigin, SessionEnds
  <2> QED BY <2>1, <2>2
<1> QED BY <1>1, SessionOriginHolds, TypeCorrect, PTL

-----------------------------------------------------------------------------
(* One session of an attempt *)

\* Until a responder restarts, the tags it has made sessions for are seen.
SeenOnce == restarts = 0 => \A h \in Attempt :
  accepted[h] <= 1 /\ (accepted[h] = 1 => h \in seenTags[To[h]])

LEMMA SeenOnceHolds == Spec => []SeenOnce
<1>1. Init => SeenOnce
  <2> SUFFICES ASSUME Init, NEW h \in Attempt PROVE accepted[h] = 0
    BY DEF SeenOnce
  <2> QED BY DEF Init
<1>2. TypeOK /\ SessionOrigin /\ SeenOnce /\ [Next]_vars => SeenOnce'
  <2> SUFFICES ASSUME TypeOK, SessionOrigin, SeenOnce, [Next]_vars, restarts' = 0,
                      NEW h \in Attempt
               PROVE  /\ accepted'[h] <= 1
                      /\ accepted'[h] = 1 => h \in seenTags'[To[h]]
    BY DEF SeenOnce
  <2>0. /\ restarts \in Nat /\ accepted \in [Attempt -> 0..MaxAccepts] /\ To[h] \in Node
        /\ seenTags \in [Node -> SUBSET Attempt] /\ handshakePile \in [Node -> Seq(Handshake)]
    BY SessionTypes DEF TypeOK
  <2>1. CASE UNCHANGED <<accepted, seenTags, restarts>>
    BY <2>1 DEF SeenOnce
  <2>2. ASSUME NEW n \in Node, Restart(n) PROVE FALSE
    BY <2>0, <2>2 DEF Restart
  <2>3. ASSUME NEW n \in Node, TickHandshake(n), handshakePile[n] # <<>>,
               HandshakeHello(n, Head(handshakePile[n]))
        PROVE  accepted'[h] <= 1 /\ (accepted'[h] = 1 => h \in seenTags'[To[h]])
    <3>0. PICK p : p = Head(handshakePile[n])
      OBVIOUS
    <3>1. p \in Handshake /\ p \in Traffic(n) /\ p \in Packet
      BY <2>0, <2>3, <3>0, PopElements DEF Traffic, Packet
    <3>2. /\ p.kind = "hello" /\ p.tag \notin seenTags[n]
          /\ accepted' = [accepted EXCEPT ![p.tag] = @ + 1]
          /\ seenTags' = [seenTags EXCEPT ![n] = @ \cup {p.tag}]
          /\ restarts = 0
      BY <2>3, <3>0 DEF HandshakeHello, Accepts, TickHandshake, counters
    <3>3. p.tag \in Attempt /\ n = To[p.tag]
      BY <3>1, <3>2, PacketFields DEF SessionOrigin, TrafficGenuine, Genuine
    <3>4. CASE h = p.tag
      <4>1. accepted[h] \in Nat /\ accepted[h] <= 1 /\ accepted[h] # 1
        BY <2>0, <3>2, <3>3, <3>4 DEF SeenOnce
      <4>2. accepted'[h] = accepted[h] + 1
        BY <2>0, <3>2, <3>4
      <4>3. h \in seenTags'[To[h]]
        BY <2>0, <3>2, <3>3, <3>4
      <4> QED BY <4>1, <4>2, <4>3
    <3>5. CASE h # p.tag
      <4>1. accepted'[h] = accepted[h] /\ seenTags[To[h]] \subseteq seenTags'[To[h]]
        BY <2>0, <3>2, <3>5
      <4> QED BY <3>2, <4>1 DEF SeenOnce
    <3> QED BY <3>4, <3>5
  <2>4. ASSUME NEW n \in Node, TickHandshake(n),
               ~(handshakePile[n] # <<>> /\ HandshakeHello(n, Head(handshakePile[n])))
        PROVE  UNCHANGED <<accepted, seenTags, restarts>>
    BY <2>4 DEF TickHandshake, HandshakeReply, HandshakeDropped, counters
  <2> QED
    BY <2>1, <2>2, <2>3, <2>4
    DEF Next, Contact, SendMessage, Tick, TickRelay, TickMessage, Lose, Arrive, vars, counters
<1> QED BY <1>1, <1>2, TypeCorrect, SessionOriginHolds, PTL DEF Spec

\* Unless its responder restarts, a retried or duplicated first message makes
\* no second session: it is read by one device, and seen_tags stops it there.
THEOREM OneSession == Spec => []OneSessionPerAttempt
<1>1. SeenOnce => OneSessionPerAttempt
  BY DEF SeenOnce, OneSessionPerAttempt
<1> QED BY <1>1, SeenOnceHolds, PTL

-----------------------------------------------------------------------------
(* Messages delivered once *)

\* A connection that exists, is no session here and cannot become one.
Dead(n, c) == Known(c) /\ c \notin sessions[n] /\ c[1] \notin pending[n]

\* A known key is that of a delivered message, a delivered message was sent.
KeysDelivered == \A n \in Node, m \in Msg :
  /\ m \in receivedKeys[n] => delivered[n][m] > 0
  /\ delivered[n][m] > 0 => m \in sent

\* Copies of a message whose key is not known any more, but was not forgotten too
\* early, cannot be decrypted.
ForgottenIsDead == \A n \in Node, m \in Msg :
  delivered[n][m] > 0 /\ m \notin receivedKeys[n] \cup forgotten[n] =>
    \A p \in Traffic(n) : p.kind = "message" /\ p.msg = m => Dead(n, p.conn)

DeliveredOnce == KeysDelivered /\ ForgottenIsDead /\ DeliveredAtMostOnce

\* An initiator is drawn once, and responders make only new connections.
LEMMA DeadStays ==
  ASSUME TypeOK, SessionOrigin, [Next]_vars, NEW n \in Node, NEW c \in Conn, Dead(n, c)
  PROVE  Dead(n, c)'
<1>0. /\ sessions \in [Node -> SUBSET Conn] /\ pending \in [Node -> SUBSET Attempt]
      /\ Known(c)' /\ c[1] \in begun /\ c \notin sessions[n] /\ c[1] \notin pending[n]
  BY HistoryGrows DEF TypeOK, Dead, Known
<1>1. ASSUME NEW h \in Attempt, Contact(h), UNCHANGED tables PROVE Dead(n, c)'
  <2>1. h # c[1] /\ UNCHANGED sessions /\ pending' = [pending EXCEPT ![From[h]] = @ \cup {h}]
    BY <1>0, <1>1 DEF Contact, tables
  <2>2. c[1] \notin pending'[n]
    BY <1>0, <2>1
  <2> QED BY <1>0, <2>1, <2>2 DEF Dead
<1>2. ASSUME NEW k \in Node, TickHandshake(k) PROVE Dead(n, c)'
  <2>1. CASE UNCHANGED tables /\ \A m \in Node : pending'[m] \subseteq pending[m]
    BY <1>0, <2>1 DEF Dead, tables
  <2>2. ASSUME NEW d \in Conn, NEW peer \in User, Establish(k, d, peer),
               Known(d) => d[1] \in pending[k],
               pending'[k] = pending[k] \ {d[1]},
               \A m \in Node \ {k} : pending'[m] = pending[m]
        PROVE  Dead(n, c)'
    <3>1. ~(k = n /\ d = c)
      BY <2>2 DEF Dead
    <3>2. c \notin sessions'[n]
      <4>1. /\ sessions'[k] = sessions[k] \cup {d}
            /\ \A m \in Node \ {k} : sessions'[m] = sessions[m]
        BY <2>2, EstablishTypes
      <4> QED BY <1>0, <3>1, <4>1
    <3>3. c[1] \notin pending'[n]
      BY <1>0, <2>2
    <3> QED BY <1>0, <3>2, <3>3 DEF Dead
  <2> QED BY <1>2, <2>1, <2>2, HandshakeMakes
<1>3. ASSUME NEW k \in Node, TickMessage(k), UNCHANGED <<pending, begun>> PROVE Dead(n, c)'
  <2>1. UNCHANGED tables => Dead(n, c)'
    BY <1>0, <1>3 DEF Dead, tables
  <2>2. ASSUME NEW d \in Conn, RemoveStaleConn(k, d) PROVE Dead(n, c)'
    <3>1. c \notin sessions'[n]
      BY <1>0, <2>2, RemoveTypes
    <3> QED BY <1>0, <1>3, <3>1 DEF Dead
  <2> QED BY <1>3, <2>1, <2>2, MessageTakes
<1>4. ASSUME NEW k \in Node, Restart(k) PROVE Dead(n, c)'
  <2>1. sessions'[n] \subseteq sessions[n] /\ pending'[n] \subseteq pending[n]
    BY <1>0, <1>4 DEF Restart
  <2> QED BY <1>0, <2>1 DEF Dead
<1>5. UNCHANGED <<tables, pending, begun>> => Dead(n, c)'
  BY <1>0 DEF Dead, tables
<1> QED BY <1>1, <1>2, <1>3, <1>4, <1>5, TableSteps

\* No step makes a copy of a message sent before it.
LEMMA MessagesAreOld ==
  ASSUME TypeOK, [Next]_vars, NEW n \in Node, NEW p \in Traffic(n)',
         p.kind = "message", p.msg \in sent
  PROVE  p \in Traffic(n)
<1>1. ~Greets(n, p)
  BY DEF Greets, Hello
<1>2. ~Writes(n, p)
  <2>1. ASSUME NEW m \in Msg, SendMessage(m), NEW c, p = Cipher(c, m) PROVE FALSE
    <3>1. m \notin sent
      BY <2>1 DEF SendMessage
    <3>2. p.msg = m
      BY <2>1 DEF Cipher
    <3> QED BY <3>1, <3>2
  <2> QED BY <2>1 DEF Writes
<1>3. ~Replies(p)
  BY DEF Replies, Reply
<1> QED BY <1>1, <1>2, <1>3, TrafficGrows

\* The steps by what they do to the keys received and to what was delivered.
LEMMA DeliverySteps ==
  ASSUME [Next]_vars
  PROVE  \/ UNCHANGED <<receivedKeys, delivered, forgotten>>
         \/ \E n \in Node : Restart(n)
         \/ \E n \in Node :
              /\ TickMessage(n) /\ messagePile[n] # <<>>
              /\ Opened(n, Head(messagePile[n]).conn, Head(messagePile[n]).msg)
<1>1. ASSUME NEW n \in Node, TickMessage(n)
      PROVE  \/ UNCHANGED <<receivedKeys, delivered, forgotten>>
             \/ /\ messagePile[n] # <<>>
                /\ Opened(n, Head(messagePile[n]).conn, Head(messagePile[n]).msg)
  BY <1>1 DEF TickMessage, Undecryptable, history
<1> QED
  BY <1>1 DEF Next, Contact, SendMessage, Tick, TickRelay, TickHandshake, Lose, Arrive,
               vars, history

\* What a new message leaves behind: a key of which a copy is under way is kept,
\* or its message is one forgotten too early.
LEMMA OpenedKeys ==
  ASSUME TypeOK, NEW n \in Node, NEW c \in Conn, NEW m \in Msg, Opened(n, c, m)
  PROVE  /\ \A k \in Node \ {n} : /\ receivedKeys'[k] = receivedKeys[k]
                                  /\ delivered'[k] = delivered[k]
                                  /\ forgotten'[k] = forgotten[k]
         /\ \A x \in Msg \ {m} : delivered'[n][x] = delivered[n][x]
         /\ receivedKeys'[n] \subseteq receivedKeys[n] \cup {m}
         /\ m \in receivedKeys'[n] /\ forgotten[n] \subseteq forgotten'[n]
         /\ m \in receivedKeys[n] => delivered'[n][m] = delivered[n][m]
         /\ m \notin receivedKeys[n] =>
              delivered'[n][m] = IF delivered[n][m] = 0 THEN 1 ELSE 2
         /\ \A p \in Traffic(n) : p.kind = "message" /\ p.msg \in receivedKeys[n] =>
              p.msg \in receivedKeys'[n] \cup forgotten'[n]
<1>0. /\ receivedKeys \in [Node -> SUBSET Msg] /\ delivered \in [Node -> [Msg -> 0..2]]
      /\ forgotten \in [Node -> SUBSET Msg] /\ handshakePile[n] \in Seq(Handshake)
  BY DEF TypeOK
<1>2. CASE m \in receivedKeys[n]
  BY <1>0, <1>2 DEF Opened, Duplicate
<1>3. CASE m \notin receivedKeys[n]
  <2>1. PICK old \in SUBSET receivedKeys[n] :
          /\ receivedKeys' = [receivedKeys EXCEPT ![n] = (@ \ old) \cup {m}]
          /\ forgotten' = [forgotten EXCEPT ![n] = @ \cup (old \cap UnderWay(n))]
    BY <1>3 DEF Opened, Duplicate
  <2>2. delivered' = [delivered EXCEPT ![n][m] = IF @ = 0 THEN 1 ELSE 2]
    BY <1>3 DEF Opened, Duplicate
  <2>3. /\ receivedKeys'[n] = (receivedKeys[n] \ old) \cup {m}
        /\ forgotten'[n] = forgotten[n] \cup (old \cap UnderWay(n))
    BY <1>0, <2>1
  <2>4. ASSUME NEW p \in Traffic(n), p.kind = "message", p.msg \in receivedKeys[n]
        PROVE  p.msg \in receivedKeys'[n] \cup forgotten'[n]
    <3>1. ToSet(handshakePile[n]) \subseteq Handshake
      BY <1>0, ElementOfSeq, LenProperties DEF ToSet
    <3>2. p \notin ToSet(handshakePile[n])
      BY <2>4, <3>1 DEF Handshake, Hello, Reply
    <3>3. p \in net[n] \cup ToSet(relayPile[n]) \cup ToSet(messagePile[n])
      BY <2>4, <3>2 DEF Traffic
    <3>4. p.msg \in UnderWay(n)
      BY <2>4, <3>3 DEF UnderWay
    <3> QED BY <2>3, <2>4, <3>4
  <2>5. /\ \A k \in Node \ {n} : /\ receivedKeys'[k] = receivedKeys[k]
                                 /\ delivered'[k] = delivered[k]
                                 /\ forgotten'[k] = forgotten[k]
        /\ \A x \in Msg \ {m} : delivered'[n][x] = delivered[n][x]
        /\ delivered'[n][m] = IF delivered[n][m] = 0 THEN 1 ELSE 2
    BY <1>0, <2>1, <2>2
  <2> QED BY <1>3, <2>3, <2>4, <2>5
<1> QED BY <1>2, <1>3

LEMMA DeliveredOnceHolds == Spec => []DeliveredOnce
<1>1. Init => DeliveredOnce
  <2> SUFFICES ASSUME Init PROVE DeliveredOnce
    OBVIOUS
  <2>1. \A n \in Node, m \in Msg : delivered[n][m] = 0 /\ receivedKeys[n] = {}
    BY DEF Init
  <2> QED BY <2>1 DEF DeliveredOnce, KeysDelivered, ForgottenIsDead, DeliveredAtMostOnce
<1>2. TypeOK /\ SessionOrigin /\ DeliveredOnce /\ [Next]_vars => DeliveredOnce'
  <2> SUFFICES ASSUME TypeOK, SessionOrigin, DeliveredOnce, [Next]_vars,
                      NEW n \in Node, NEW m \in Msg
               PROVE  /\ m \in receivedKeys'[n] => delivered'[n][m] > 0
                      /\ delivered'[n][m] > 0 => m \in sent'
                      /\ delivered'[n][m] > 0 /\ m \notin receivedKeys'[n] \cup forgotten'[n] =>
                           \A p \in Traffic(n)' : p.kind = "message" /\ p.msg = m =>
                             Dead(n, p.conn)'
                      /\ delivered'[n][m] <= 1 \/ m \in forgotten'[n]
    BY DEF DeliveredOnce, KeysDelivered, ForgottenIsDead, DeliveredAtMostOnce
  <2>0. /\ m \in receivedKeys[n] => delivered[n][m] > 0
        /\ delivered[n][m] > 0 => m \in sent
        /\ delivered[n][m] <= 1 \/ m \in forgotten[n]
        /\ delivered[n][m] \in Nat /\ sent \subseteq sent'
        /\ receivedKeys \in [Node -> SUBSET Msg]
    <3>1. /\ m \in receivedKeys[n] => delivered[n][m] > 0
          /\ delivered[n][m] > 0 => m \in sent
          /\ delivered[n][m] <= 1 \/ m \in forgotten[n]
      BY DEF DeliveredOnce, KeysDelivered, DeliveredAtMostOnce
    <3>2. /\ delivered \in [Node -> [Msg -> 0..2]]
          /\ receivedKeys \in [Node -> SUBSET Msg]
      BY DEF TypeOK
    <3> QED BY <3>1, <3>2, HistoryGrows
  <2>1. ASSUME m \in sent, NEW p \in Traffic(n)', p.kind = "message", p.msg = m
        PROVE  p \in Traffic(n) /\ p.conn \in Conn /\ Known(p.conn)'
    <3>1. p \in Traffic(n)
      BY <2>1, MessagesAreOld
    <3>2. Known(p.conn)
      BY <2>1, <3>1 DEF SessionOrigin, TrafficGenuine, Genuine
    <3>3. p \in Packet
      <4>1. /\ net[n] \subseteq Packet /\ relayPile[n] \in Seq(Packet)
            /\ handshakePile[n] \in Seq(Handshake) /\ messagePile[n] \in Seq(Message)
        BY DEF TypeOK
      <4>2. \A S, s : s \in Seq(S) => ToSet(s) \subseteq S
        BY ElementOfSeq, LenProperties DEF ToSet
      <4> QED BY <3>1, <4>1, <4>2 DEF Traffic, Packet
    <3>4. p.conn \in Conn
      BY <2>1, <3>3, PacketFields
    <3> QED BY <3>1, <3>2, <3>4, HistoryGrows
  <2>2. ASSUME m \notin receivedKeys[n] \cup forgotten[n], delivered[n][m] > 0,
               NEW p \in Traffic(n)', p.kind = "message", p.msg = m
        PROVE  Dead(n, p.conn)'
    <3>1. p \in Traffic(n) /\ p.conn \in Conn
      BY <2>0, <2>1, <2>2
    <3>2. Dead(n, p.conn)
      BY <2>2, <3>1 DEF DeliveredOnce, ForgottenIsDead
    <3> QED BY <3>1, <3>2, DeadStays
  <2>3. CASE /\ delivered'[n][m] = delivered[n][m] /\ receivedKeys'[n] = receivedKeys[n]
             /\ forgotten'[n] = forgotten[n]
    BY <2>0, <2>2, <2>3
  <2>4. ASSUME NEW k \in Node, Restart(k)
        PROVE  /\ delivered'[n][m] = delivered[n][m] /\ forgotten'[n] = forgotten[n]
               /\ \/ receivedKeys'[n] = receivedKeys[n]
                  \/ /\ n = k /\ receivedKeys'[n] = {}
                     /\ sessions'[n] = {} /\ pending'[n] = {}
    <3>1. UNCHANGED <<delivered, forgotten>> /\ receivedKeys' = [receivedKeys EXCEPT ![k] = {}]
          /\ sessions' = [sessions EXCEPT ![k] = {}] /\ pending' = [pending EXCEPT ![k] = {}]
      BY <2>4 DEF Restart
    <3>2. /\ sessions \in [Node -> SUBSET Conn] /\ pending \in [Node -> SUBSET Attempt]
      BY DEF TypeOK
    <3> QED BY <2>0, <3>1, <3>2
  <2>5. CASE /\ delivered'[n][m] = delivered[n][m] /\ receivedKeys'[n] = {}
             /\ forgotten'[n] = forgotten[n]
             /\ sessions'[n] = {} /\ pending'[n] = {}
    <3>1. ASSUME delivered[n][m] > 0, NEW p \in Traffic(n)', p.kind = "message", p.msg = m
          PROVE  Dead(n, p.conn)'
      BY <2>0, <2>1, <2>5, <3>1 DEF Dead
    <3> QED BY <2>0, <2>5, <3>1
  <2>6. ASSUME NEW k \in Node, TickMessage(k), messagePile[k] # <<>>,
               NEW q, q = Head(messagePile[k]), Opened(k, q.conn, q.msg)
        PROVE  /\ m \in receivedKeys'[n] => delivered'[n][m] > 0
               /\ delivered'[n][m] > 0 => m \in sent'
               /\ delivered'[n][m] > 0 /\ m \notin receivedKeys'[n] \cup forgotten'[n] =>
                    \A p \in Traffic(n)' : p.kind = "message" /\ p.msg = m =>
                      Dead(n, p.conn)'
               /\ delivered'[n][m] <= 1 \/ m \in forgotten'[n]
    <3>1. q \in Message /\ q \in Packet /\ q \in Traffic(k)
      <4>1. messagePile[k] \in Seq(Message)
        BY DEF TypeOK
      <4> QED BY <2>6, <4>1, PopElements DEF Packet, Traffic
    <3>2. q.kind = "message" /\ q.conn \in Conn /\ q.msg \in Msg
      BY <3>1, PacketFields
    <3>3. q.msg \in sent /\ q.conn \in sessions[k]
      BY <2>6, <3>1, <3>2 DEF SessionOrigin, TrafficGenuine, Genuine, Opened
    <3>4. CASE n # k
      <4>1. /\ delivered'[n][m] = delivered[n][m] /\ receivedKeys'[n] = receivedKeys[n]
            /\ forgotten'[n] = forgotten[n]
        BY <2>6, <3>2, <3>4, OpenedKeys
      <4> QED BY <2>3, <4>1
    <3>5. CASE n = k /\ m = q.msg
      <4>1. m \in receivedKeys'[n] /\ forgotten[n] \subseteq forgotten'[n]
        BY <2>6, <3>2, <3>5, OpenedKeys
      <4>2. CASE m \in receivedKeys[n]
        <5>1. delivered'[n][m] = delivered[n][m]
          BY <2>6, <3>2, <3>5, <4>2, OpenedKeys
        <5> QED BY <2>0, <4>1, <4>2, <5>1
      <4>3. CASE m \notin receivedKeys[n]
        <5>1. delivered'[n][m] = IF delivered[n][m] = 0 THEN 1 ELSE 2
          BY <2>6, <3>2, <3>5, <4>3, OpenedKeys
        <5>2. CASE m \in forgotten[n]
          BY <2>0, <3>3, <3>5, <4>1, <5>1, <5>2
        <5>3. CASE m \notin forgotten[n]
          <6>1. ~(delivered[n][m] > 0)
            BY <3>1, <3>2, <3>3, <3>5, <4>3, <5>3 DEF DeliveredOnce, ForgottenIsDead, Dead
          <6>2. delivered[n][m] = 0
            BY <2>0, <6>1
          <6> QED BY <2>0, <3>3, <3>5, <4>1, <5>1, <6>2
        <5> QED BY <5>2, <5>3
      <4> QED BY <4>2, <4>3
    <3>6. CASE n = k /\ m # q.msg
      <4>1. /\ delivered'[n][m] = delivered[n][m]
            /\ m \in receivedKeys'[n] => m \in receivedKeys[n]
            /\ forgotten[n] \subseteq forgotten'[n]
            /\ \A p \in Traffic(n) : p.kind = "message" /\ p.msg = m /\ m \in receivedKeys[n] =>
                 m \in receivedKeys'[n] \cup forgotten'[n]
        BY <2>6, <3>2, <3>6, OpenedKeys
      <4>2. ASSUME delivered[n][m] > 0, m \notin receivedKeys'[n] \cup forgotten'[n],
                   NEW p \in Traffic(n)', p.kind = "message", p.msg = m
            PROVE  Dead(n, p.conn)'
        <5>1. p \in Traffic(n)
          BY <2>0, <2>1, <4>2
        <5>2. m \notin receivedKeys[n] \cup forgotten[n]
          BY <4>1, <4>2, <5>1
        <5> QED BY <2>2, <4>2, <5>2
      <4> QED BY <2>0, <4>1, <4>2
    <3> QED BY <3>4, <3>5, <3>6
  <2> QED BY <2>3, <2>4, <2>5, <2>6, DeliverySteps
<1> QED BY <1>1, <1>2, TypeCorrect, SessionOriginHolds, PTL DEF Spec

\* A message reaches the application of a device at most once, unless its key was
\* forgotten while a copy was under way: as long as its key is known a copy is a
\* duplicate, and if a restart took the key, every copy left is for a session this
\* process does not have and cannot have again.
THEOREM DeliveredOnceOnly == Spec => []DeliveredAtMostOnce
<1>1. DeliveredOnce => DeliveredAtMostOnce
  BY DEF DeliveredOnce
<1> QED BY <1>1, DeliveredOnceHolds, PTL

-----------------------------------------------------------------------------
(* Messages stay between the two users *)

\* The users at the two ends of connection c are the author's and the recipient of m.
Between(c, m) ==
  \/ Author[m] = To[c[1]] /\ Recipient[m] = UserOf[From[c[1]]]
  \/ Author[m] = From[c[1]] /\ Recipient[m] = UserOf[To[c[1]]]

\* A first message gives its sender's address; a message is on its way to a device
\* of its recipient, over a connection with its author's user.
Routed(n, p) ==
  /\ p.kind = "hello" => p.addr[1] = From[p.tag]
  /\ p.kind = "message" => UserOf[n] = Recipient[p.msg] /\ Between(p.conn, p.msg)
TrafficRouted == \A n \in Node : \A p \in Traffic(n) : Routed(n, p)

\* The address kept for a user is that of a device of this user.
AddrsOfUsers == \A n \in Node, u \in User :
  addrs[n][u] # NoAddr => UserOf[addrs[n][u][1]] = u

OpenedByRecipient == \A n \in Node, c \in Conn, m \in Msg :
  <<c, m>> \in opened[n] => UserOf[n] = Recipient[m] /\ Between(c, m)

Addressed == TrafficRouted /\ AddrsOfUsers /\ OpenedByRecipient

\* What a step puts on its way goes where the address of its recipient is.
LEMMA TrafficStaysRouted ==
  ASSUME TypeOK, SessionOrigin, Addressed, [Next]_vars
  PROVE  TrafficRouted'
<1> SUFFICES ASSUME NEW n \in Node, NEW p \in Traffic(n)', p \notin Traffic(n)
             PROVE  Routed(n, p)
  BY DEF Addressed, TrafficRouted, Routed, Between
<1>1. ASSUME NEW h \in Attempt, p = Hello(h, LocalAddr(From[h])) PROVE Routed(n, p)
  BY <1>1 DEF Routed, Hello, LocalAddr
<1>2. ASSUME NEW m \in Msg, SendMessage(m), n = addrs[Author[m]][Recipient[m]][1],
             NEW c \in sessions[Author[m]], pkToConn[Author[m]][Recipient[m]][c] > 0,
             p = Cipher(c, m)
      PROVE  Routed(n, p)
  <2>1. /\ Author[m] \in Node /\ Recipient[m] \in User /\ c \in Conn
        /\ addrs[Author[m]][Recipient[m]] # NoAddr
    BY <1>2, SessionTypes DEF TypeOK, SendMessage
  <2>2. UserOf[n] = Recipient[m]
    BY <1>2, <2>1 DEF Addressed, AddrsOfUsers
  <2>3. connToPk[Author[m]][c] = Recipient[m]
    BY <1>2, <2>1 DEF SessionOrigin, TablesConsistent
  <2>4. Between(c, m)
    BY <2>1, <2>3 DEF SessionOrigin, SessionEnds, Between
  <2> QED BY <1>2, <2>2, <2>4 DEF Routed, Cipher
<1>3. Replies(p) => Routed(n, p)
  BY DEF Replies, Reply, Routed
<1> QED BY <1>1, <1>2, <1>3, TrafficGrows DEF Greets, Writes

\* Addresses come from the contact record or from the first message of an attempt.
LEMMA AddrsStayOfUsers ==
  ASSUME TypeOK, SessionOrigin, Addressed, [Next]_vars
  PROVE  AddrsOfUsers'
<1>0. addrs \in [Node -> [User -> Address \cup {NoAddr}]] /\ AddrsOfUsers
  BY DEF TypeOK, Addressed
<1>1. ASSUME NEW h \in Attempt, Contact(h) PROVE AddrsOfUsers'
  <2>1. PICK addr \in {To[h]} \X (0..port[To[h]]) :
          addrs' = [addrs EXCEPT ![From[h]][UserOf[To[h]]] = addr]
    BY <1>1 DEF Contact
  <2>2. addr[1] = To[h] /\ From[h] \in Node /\ UserOf[To[h]] \in User
    BY SessionTypes
  <2> QED BY <1>0, <2>1, <2>2 DEF AddrsOfUsers
<1>2. ASSUME NEW n \in Node, TickHandshake(n), handshakePile[n] # <<>>,
             HandshakeHello(n, Head(handshakePile[n]))
      PROVE  AddrsOfUsers'
  <2>0. PICK p : p = Head(handshakePile[n])
    OBVIOUS
  <2>1. p \in Handshake /\ p \in Traffic(n) /\ p \in Packet
    <3>1. handshakePile[n] \in Seq(Handshake)
      BY DEF TypeOK
    <3> QED BY <1>2, <2>0, <3>1, PopElements DEF Traffic, Packet
  <2>2. /\ p.kind = "hello"
        /\ addrs' = [addrs EXCEPT ![n][UserOf[From[p.tag]]] = p.addr]
    BY <1>2, <2>0 DEF HandshakeHello, Accepts
  <2>3. p.addr[1] = From[p.tag] /\ UserOf[From[p.tag]] \in User
    BY <2>1, <2>2, PacketFields, SessionTypes DEF Addressed, TrafficRouted, Routed
  <2> QED BY <1>0, <2>2, <2>3 DEF AddrsOfUsers
<1>3. ASSUME NEW n \in Node, Restart(n) PROVE AddrsOfUsers'
  <2>1. PICK saved \in SUBSET User :
          addrs' = [addrs EXCEPT ![n] = [u \in User |-> IF u \in saved THEN @[u] ELSE NoAddr]]
    BY <1>3 DEF Restart
  <2> QED BY <1>0, <2>1 DEF AddrsOfUsers
<1>4. UNCHANGED addrs => AddrsOfUsers'
  BY <1>0 DEF AddrsOfUsers
<1>5. ASSUME NEW n \in Node, TickHandshake(n),
             ~(handshakePile[n] # <<>> /\ HandshakeHello(n, Head(handshakePile[n])))
      PROVE  UNCHANGED addrs
  BY <1>5 DEF TickHandshake, HandshakeReply, HandshakeDropped
<1> QED
  BY <1>1, <1>2, <1>3, <1>4, <1>5
  DEF Next, SendMessage, Tick, TickRelay, TickMessage, Lose, Arrive, vars

\* What is decrypted has come to the node.
LEMMA OpenedStaysByRecipient ==
  ASSUME TypeOK, Addressed, [Next]_vars
  PROVE  OpenedByRecipient'
<1>0. opened \in [Node -> SUBSET (Conn \X Msg)] /\ OpenedByRecipient
  BY DEF TypeOK, Addressed
<1>1. ASSUME NEW n \in Node, TickMessage(n), messagePile[n] # <<>>, NEW q,
             q = Head(messagePile[n]), Opened(n, q.conn, q.msg)
      PROVE  OpenedByRecipient'
  <2>1. q \in Message /\ q \in Packet /\ q \in Traffic(n)
    <3>1. messagePile[n] \in Seq(Message)
      BY DEF TypeOK
    <3> QED BY <1>1, <3>1, PopElements DEF Packet, Traffic
  <2>2. UserOf[n] = Recipient[q.msg] /\ Between(q.conn, q.msg)
    BY <2>1, PacketFields DEF Addressed, TrafficRouted, Routed
  <2>3. opened' = [opened EXCEPT ![n] = @ \cup {<<q.conn, q.msg>>}]
    BY <1>1 DEF Opened
  <2> QED BY <1>0, <2>2, <2>3 DEF OpenedByRecipient, Between
<1>2. ASSUME \A n \in Node : opened'[n] \subseteq opened[n] PROVE OpenedByRecipient'
  BY <1>0, <1>2 DEF OpenedByRecipient, Between
<1>3. ASSUME NEW n \in Node, Restart(n) PROVE \A k \in Node : opened'[k] \subseteq opened[k]
  BY <1>0, <1>3 DEF Restart
<1>4. ASSUME NEW n \in Node, TickMessage(n)
      PROVE  \/ UNCHANGED opened
             \/ /\ messagePile[n] # <<>>
                /\ Opened(n, Head(messagePile[n]).conn, Head(messagePile[n]).msg)
  BY <1>4 DEF TickMessage, Undecryptable, history
<1>5. UNCHANGED opened \/ (\E n \in Node : Restart(n) \/ TickMessage(n))
  BY DEF Next, Contact, SendMessage, Tick, TickRelay, TickHandshake, Lose, Arrive, vars, history
<1> QED BY <1>1, <1>2, <1>3, <1>4, <1>5

\* A message is decrypted only at a device of the user it was sent to, under a
\* session with the user who sent it, though addresses are kept per user, change
\* and are handed on from contact records and first messages.
THEOREM MessagesBetweenUsers == Spec => []BetweenItsUsers
<1>1. Init => Addressed
  <2> SUFFICES ASSUME Init PROVE Addressed
    OBVIOUS
  <2>1. \A n \in Node : Traffic(n) = {} /\ opened[n] = {}
    BY NoElements DEF Init, Traffic
  <2>2. \A n \in Node, u \in User : addrs[n][u] = NoAddr
    BY DEF Init
  <2> QED BY <2>1, <2>2 DEF Addressed, TrafficRouted, AddrsOfUsers, OpenedByRecipient
<1>2. TypeOK /\ SessionOrigin /\ Addressed /\ [Next]_vars => Addressed'
  BY TrafficStaysRouted, AddrsStayOfUsers, OpenedStaysByRecipient DEF Addressed
<1>3. TypeOK /\ SessionOrigin /\ Addressed => BetweenItsUsers
  <2> SUFFICES ASSUME TypeOK, SessionOrigin, Addressed, NEW n \in Node, NEW c \in Conn,
                      NEW m \in Msg, <<c, m>> \in opened[n]
               PROVE  /\ UserOf[n] = Recipient[m]
                      /\ c \in sessions[n] => connToPk[n][c] = UserOf[Author[m]]
    BY DEF BetweenItsUsers
  <2>1. UserOf[n] = Recipient[m] /\ Between(c, m)
    BY DEF Addressed, OpenedByRecipient
  <2> QED BY <2>1 DEF SessionOrigin, SessionEnds, Between
<1> QED BY <1>1, <1>2, <1>3, TypeCorrect, SessionOriginHolds, PTL DEF Spec
=============================================================================

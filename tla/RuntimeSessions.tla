--------------------------- MODULE RuntimeSessions ---------------------------
(***************************************************************************)
(* The session layer of src/runtime.rs: handshakes (contact of api.rs,     *)
(* enable_session_initiator, initiate_handshake, tick_handshake), the      *)
(* tables of established sessions, and messages (send_message,             *)
(* tick_message), at any number of nodes that restart.                     *)
(*                                                                         *)
(* A node's state is behind one mutex, held for a whole tick and for every *)
(* call of the application; the sort thread alone runs beside it and feeds *)
(* the piles (Arrive).  A user, named by the master key, has any number of *)
(* devices, but a node keeps one address for a user.  Every start binds a  *)
(* port of the system's choice, so that an address is a node and how often *)
(* it has been given a new one.  A connection is named by the attempt that *)
(* made it and by the responder's reply, whose fresh key enters its id.    *)
(* What the ratchet does with a message is in DoubleRatchet: here          *)
(* decryption fails whenever the bound on faults allows it.                *)
(*                                                                         *)
(* A definition marked `deviation' is a mistake the code could have        *)
(* contained in place of the one that follows it; no action uses it.       *)
(***************************************************************************)
EXTENDS Integers, FiniteSets, SequencesExt

CONSTANTS
  Node,          \* processes, each a device of a user
  User, UserOf,  \* users, and [Node -> User] whose device it is
  KeyOf,         \* [Node -> its static key]
  Attempt,       \* handshakes, each under its own random tag
  From,          \* [Attempt -> Node] who initiates it
  To,            \* [Attempt -> Node] whose address the contact record gives
  ForKey,        \* [Attempt -> key] of the device in the record's list it is for
  BadCert,       \* attempts whose reply fails a check of complete_handshake
  Msg,           \* messages, each encrypted once under its own random key
  Author,        \* [Msg -> Node]
  Recipient,     \* [Msg -> User]
  MaxAccepts,    \* bound: sessions a responder makes of one attempt
  MaxFaults,     \* bound: packets lost or duplicated, failed decryptions
  MaxRestarts    \* bound: restarts

ASSUME SessionAssumption ==
  /\ UserOf \in [Node -> User] /\ DOMAIN KeyOf = Node
  /\ From \in [Attempt -> Node] /\ To \in [Attempt -> Node] /\ DOMAIN ForKey = Attempt
  /\ BadCert \subseteq Attempt
  /\ Author \in [Msg -> Node] /\ Recipient \in [Msg -> User]
  /\ {MaxAccepts, MaxFaults, MaxRestarts} \subseteq Nat

Conn == Attempt \X (1..MaxAccepts)

Address == Node \X (0..MaxRestarts)
NoAddr == <<>>

\* Packets of the Handshake tag carry their attempt's tag, a first message also
\* its sender's address; those of the Message tag their connection id.
Hello(h, addr) == [kind |-> "hello", tag |-> h, addr |-> addr]
Reply(c) == [kind |-> "reply", tag |-> c[1], conn |-> c]
Cipher(c, m) == [kind |-> "message", conn |-> c, msg |-> m]
Handshake == {Hello(h, a) : h \in Attempt, a \in Address} \cup {Reply(c) : c \in Conn}
Message == {Cipher(c, m) : c \in Conn, m \in Msg}
Packet == Handshake \cup Message

VARIABLES
  phase,         \* [Node -> tick_* the node is to run next]
  pending,       \* [Node -> attempts in pending_sessions still initiators]
  sessions,      \* [Node -> keys of `sessions']
  connToPk,      \* [Node -> conn_to_pk]
  pkToConn,      \* [Node -> [User -> [Conn -> times pk_to_conn lists it]]]
  addrs,         \* [Node -> [User -> pk_to_addr]]
  seenTags,      \* [Node -> seen_tags]
  receivedKeys,  \* [Node -> messages whose key is in received_keys]
  relayPile, handshakePile, messagePile,   \* [Node -> sequence of packets]
  net,           \* [Node -> packets on their way to it]
  port,          \* [Node -> times it has been given a new address]
  begun,         \* attempts begun, a tag being drawn once
  accepted,      \* [Attempt -> sessions responders have made of it]
  sent,          \* messages send_message has taken
  opened,        \* [Node -> <<conn, message>> its ratchets have decrypted]
  delivered,     \* history: [Node -> [Msg -> times msg_tx carried it]] (2: or more)
  forgotten,     \* history: [Node -> messages whose key it forgot too early]
  acked,         \* history: [Node -> <<conn, message>> in frames it confirmed]
  faults, restarts

tables == <<sessions, connToPk, pkToConn>>
piles == <<relayPile, handshakePile, messagePile>>
history == <<opened, delivered, forgotten>>
counters == <<faults, restarts>>
vars == <<phase, pending, tables, addrs, seenTags, receivedKeys, piles, net,
          port, begun, accepted, sent, history, acked, counters>>

Phases == {"relay", "handshake", "message"}

TypeOK ==
  /\ phase \in [Node -> Phases]
  /\ pending \in [Node -> SUBSET Attempt]
  /\ sessions \in [Node -> SUBSET Conn]
  /\ DOMAIN connToPk = Node
  /\ \A n \in Node : /\ DOMAIN connToPk[n] \subseteq Conn
                     /\ \A c \in DOMAIN connToPk[n] : connToPk[n][c] \in User
  /\ pkToConn \in [Node -> [User -> [Conn -> Nat]]]
  /\ addrs \in [Node -> [User -> Address \cup {NoAddr}]]
  /\ seenTags \in [Node -> SUBSET Attempt]
  /\ receivedKeys \in [Node -> SUBSET Msg]
  /\ relayPile \in [Node -> Seq(Packet)]
  /\ handshakePile \in [Node -> Seq(Handshake)]
  /\ messagePile \in [Node -> Seq(Message)]
  /\ net \in [Node -> SUBSET Packet]
  /\ port \in [Node -> 0..restarts]
  /\ begun \subseteq Attempt /\ sent \subseteq Msg
  /\ accepted \in [Attempt -> 0..MaxAccepts]
  /\ opened \in [Node -> SUBSET (Conn \X Msg)]
  /\ delivered \in [Node -> [Msg -> 0..2]]
  /\ forgotten \in [Node -> SUBSET Msg] /\ acked \in [Node -> SUBSET (Conn \X Msg)]
  /\ faults \in 0..MaxFaults /\ restarts \in 0..MaxRestarts

NoConn == [c \in {} |-> c]
\* The lists of pk_to_conn are pushed to, filtered and walked through: their
\* order shows nowhere.
NoneListed == [u \in User |-> [c \in Conn |-> 0]]

Init ==
  /\ phase = [n \in Node |-> "relay"]
  /\ pending = [n \in Node |-> {}]
  /\ sessions = [n \in Node |-> {}]
  /\ connToPk = [n \in Node |-> NoConn]
  /\ pkToConn = [n \in Node |-> NoneListed]
  /\ addrs = [n \in Node |-> [u \in User |-> NoAddr]]
  /\ seenTags = [n \in Node |-> {}]
  /\ receivedKeys = [n \in Node |-> {}]
  /\ relayPile = [n \in Node |-> <<>>]
  /\ handshakePile = [n \in Node |-> <<>>]
  /\ messagePile = [n \in Node |-> <<>>]
  /\ net = [n \in Node |-> {}] /\ port = [n \in Node |-> 0]
  /\ begun = {} /\ sent = {}
  /\ accepted = [h \in Attempt |-> 0]
  /\ opened = [n \in Node |-> {}]
  /\ delivered = [n \in Node |-> [m \in Msg |-> 0]]
  /\ forgotten = [n \in Node |-> {}] /\ acked = [n \in Node |-> {}]
  /\ faults = 0 /\ restarts = 0

-----------------------------------------------------------------------------
(* The application, between two ticks *)

\* local_addr, and what reaches an address: nobody listens at an old one.
LocalAddr(n) == <<n, port[n]>>
Post(addr, packets) ==
  net' = IF addr = LocalAddr(addr[1])
           THEN [net EXCEPT ![addr[1]] = @ \cup packets]
           ELSE net

\* initiate_handshake.
SendHello(h, addr) == Post(addr, {Hello(h, LocalAddr(From[h]))})

\* Client::contact for one listed device: the address from the contact record,
\* which may be outdated, a pending session, and the first handshake message.
Contact(h) ==
  LET n == From[h]
      peer == UserOf[To[h]]
  IN
  /\ h \notin begun /\ phase[n] = "relay"
  /\ begun' = begun \cup {h}
  /\ pending' = [pending EXCEPT ![n] = @ \cup {h}]
  /\ \E addr \in {To[h]} \X (0..port[To[h]]) :
       /\ addrs' = [addrs EXCEPT ![n][peer] = addr]
       /\ SendHello(h, addr)
  /\ UNCHANGED <<phase, tables, seenTags, receivedKeys, piles, port, accepted, sent,
                 history, acked, counters>>

\* send_message: one encryption under a fresh key, one packet per session
\* with the peer, all to the one address; an error, and no key spent, if there
\* is none.
SendMessage(m) ==
  LET n == Author[m]
      peer == Recipient[m]
      conns == {c \in sessions[n] : pkToConn[n][peer][c] > 0}
  IN
  /\ m \notin sent /\ phase[n] = "relay"
  /\ addrs[n][peer] # NoAddr /\ conns # {}
  /\ sent' = sent \cup {m}
  /\ Post(addrs[n][peer], {Cipher(c, m) : c \in conns})
  /\ UNCHANGED <<phase, pending, tables, addrs, seenTags, receivedKeys, piles, port,
                 begun, accepted, history, acked, counters>>

-----------------------------------------------------------------------------
(* The sort thread *)

\* Every packet of this layer comes in a relay frame (send_packet).
Arrive(n, p, keep) ==
  /\ p \in net[n]
  /\ keep => faults < MaxFaults
  /\ faults' = IF keep THEN faults + 1 ELSE faults
  /\ net' = IF keep THEN net ELSE [net EXCEPT ![n] = @ \ {p}]
  /\ relayPile' = [relayPile EXCEPT ![n] = Append(@, p)]
  /\ UNCHANGED <<phase, pending, tables, addrs, seenTags, receivedKeys, handshakePile,
                 messagePile, port, begun, accepted, sent, history, acked, restarts>>

-----------------------------------------------------------------------------
(* The ticks; an empty pile ends one at once, and a round of three that finds
   all piles empty does nothing and is left out *)

After == [relay |-> "handshake", handshake |-> "message", message |-> "relay"]
Idle(n) == relayPile[n] = <<>> /\ handshakePile[n] = <<>> /\ messagePile[n] = <<>>
At(n, ph) ==
  /\ phase[n] = ph /\ (ph = "relay" => ~Idle(n))
  /\ phase' = [phase EXCEPT ![n] = After[ph]]

\* tick_relay: a frame for this node is unwrapped onto the pile of its tag and
\* confirmed at once.  The packet inside asks for no acknowledgement, and the
\* ticks that take it up send none.
TickRelay(n) ==
  /\ At(n, "relay")
  /\ IF relayPile[n] = <<>>
       THEN UNCHANGED <<piles, acked>>
       ELSE LET p == Head(relayPile[n]) IN
            /\ relayPile' = [relayPile EXCEPT ![n] = Tail(@)]
            /\ handshakePile' = [handshakePile EXCEPT ![n] =
                                   IF p \in Handshake THEN Append(@, p) ELSE @]
            /\ messagePile' = [messagePile EXCEPT ![n] =
                                 IF p \in Handshake THEN @ ELSE Append(@, p)]
            /\ acked' = [acked EXCEPT ![n] =
                           IF p \in Handshake THEN @ ELSE @ \cup {<<p.conn, p.msg>>}]
  /\ UNCHANGED <<pending, tables, addrs, seenTags, receivedKeys, net, port, begun,
                 accepted, sent, history, counters>>

EstablishTag(n, c, peer) ==                                 \* deviation
  /\ sessions' = [sessions EXCEPT ![n] = @ \cup {c[1]}]
  /\ connToPk' = [connToPk EXCEPT ![n] =
       [d \in DOMAIN @ \cup {c} |-> IF d = c THEN peer ELSE @[d]]]
  /\ pkToConn' = [pkToConn EXCEPT ![n][peer][c] = @ + 1]

\* The session c with peer enters the three tables.
Establish(n, c, peer) ==
  /\ sessions' = [sessions EXCEPT ![n] = @ \cup {c}]
  /\ connToPk' = [connToPk EXCEPT ![n] =
       [d \in DOMAIN @ \cup {c} |-> IF d = c THEN peer ELSE @[d]]]
  /\ pkToConn' = [pkToConn EXCEPT ![n][peer][c] = @ + 1]

\* Initiator::finish reads only the reply to its own first message; it is a
\* session if the certificate in it passes the checks of complete_handshake.
Finishes(n, p) == p.kind = "reply" /\ p.tag \in pending[n]
Certified(p) == p.tag \notin BadCert
Completes(n, p) == Finishes(n, p) /\ Certified(p)

\* accept_handshake: only a node with the static key the attempt was made for can
\* read its first message.
Readable(n, p) == ForKey[p.tag] = KeyOf[n]

AcceptsAgain(n, p) == p.kind = "hello" /\ Readable(n, p)     \* deviation
AcceptsIdle(n, p) ==                                        \* deviation
  p.kind = "hello" /\ p.tag \notin seenTags[n] /\ Readable(n, p) /\ pending[n] = {}

\* The first message of an attempt with this node makes a session, once.
Accepts(n, p) == p.kind = "hello" /\ p.tag \notin seenTags[n] /\ Readable(n, p)

HandshakeReplyOwn(n, p) ==                                  \* deviation
  /\ Completes(n, p)
  /\ Establish(n, p.conn, UserOf[n])
  /\ UNCHANGED <<addrs, seenTags, net, accepted>>
HandshakeReply(n, p) ==
  /\ Completes(n, p)
  /\ Establish(n, p.conn, UserOf[To[p.tag]])
  /\ UNCHANGED <<addrs, seenTags, net, accepted>>

HandshakeHello(n, p) ==
  LET c == <<p.tag, accepted[p.tag] + 1>>
      peer == UserOf[From[p.tag]]
  IN
  /\ ~Completes(n, p) /\ Accepts(n, p) /\ accepted[p.tag] < MaxAccepts
  /\ accepted' = [accepted EXCEPT ![p.tag] = @ + 1]
  /\ addrs' = [addrs EXCEPT ![n][peer] = p.addr]
  /\ Establish(n, c, peer)
  /\ seenTags' = [seenTags EXCEPT ![n] = @ \cup {p.tag}]
  /\ Post(p.addr, {Reply(c)})

HandshakeDropped(n, p) ==
  /\ ~Completes(n, p) /\ ~Accepts(n, p)
  /\ UNCHANGED <<addrs, tables, seenTags, net, accepted>>

\* tick_handshake; whatever comes under the tag of a pending initiator uses
\* it up, complete_handshake taking the initiator out before it can fail.
TickHandshake(n) ==
  /\ At(n, "handshake")
  /\ IF handshakePile[n] = <<>>
       THEN UNCHANGED <<handshakePile, pending, tables, addrs, seenTags, net, accepted>>
       ELSE LET p == Head(handshakePile[n]) IN
            /\ handshakePile' = [handshakePile EXCEPT ![n] = Tail(@)]
            /\ pending' = [pending EXCEPT ![n] = @ \ {p.tag}]
            /\ HandshakeReply(n, p) \/ HandshakeHello(n, p) \/ HandshakeDropped(n, p)
  /\ UNCHANGED <<relayPile, messagePile, receivedKeys, port, begun, sent, history, acked,
                 counters>>

RemoveStaleHalf(n, c) ==                                    \* deviation
  /\ sessions' = [sessions EXCEPT ![n] = @ \ {c}]
  /\ connToPk' = [connToPk EXCEPT ![n] = [d \in DOMAIN @ \ {c} |-> @[d]]]
  /\ UNCHANGED pkToConn
RemoveAllConns(n, c) ==                                     \* deviation
  /\ sessions' = [sessions EXCEPT ![n] = {}]
  /\ connToPk' = [connToPk EXCEPT ![n] = NoConn]
  /\ pkToConn' = [pkToConn EXCEPT ![n] = NoneListed]

\* remove_stale_conn.
RemoveStaleConn(n, c) ==
  /\ sessions' = [sessions EXCEPT ![n] = @ \ {c}]
  /\ connToPk' = [connToPk EXCEPT ![n] = [d \in DOMAIN @ \ {c} |-> @[d]]]
  /\ pkToConn' = IF c \in DOMAIN connToPk[n]
                   THEN [pkToConn EXCEPT ![n][connToPk[n][c]][c] = 0]
                   ELSE pkToConn

DuplicateUnknown(n, m) == FALSE                             \* deviation
Duplicate(n, m) == m \in receivedKeys[n]

\* The messages of which a copy is still to be looked at.
UnderWay(n) ==
  {p.msg : p \in {x \in net[n] \cup ToSet(relayPile[n]) \cup ToSet(messagePile[n]) :
                    x.kind = "message"}}

\* Decrypted: the body of a new message goes to the application.  Keys older than
\* 60 s are forgotten first.  Time is left out: any key may be that old, also one
\* of which a copy waits, as a lookup holds the mutex for 5 s for every silent
\* node it asks.
Opened(n, c, m) ==
  /\ c \in sessions[n] /\ <<c, m>> \notin opened[n]
  /\ opened' = [opened EXCEPT ![n] = @ \cup {<<c, m>>}]
  /\ IF Duplicate(n, m)
       THEN UNCHANGED <<receivedKeys, delivered, forgotten>>
       ELSE /\ \E old \in SUBSET receivedKeys[n] :
                 /\ receivedKeys' = [receivedKeys EXCEPT ![n] = (@ \ old) \cup {m}]
                 /\ forgotten' = [forgotten EXCEPT ![n] = @ \cup (old \cap UnderWay(n))]
            /\ delivered' = [delivered EXCEPT ![n][m] = IF @ = 0 THEN 1 ELSE 2]
  /\ UNCHANGED <<tables, faults>>

\* No such session, or the ratchet cannot decrypt, as for what it has decrypted
\* before: the connection is forgotten.
Undecryptable(n, c, m) ==
  /\ IF c \in sessions[n] /\ <<c, m>> \notin opened[n]
       THEN faults < MaxFaults /\ faults' = faults + 1
       ELSE faults' = faults
  /\ RemoveStaleConn(n, c)
  /\ UNCHANGED <<receivedKeys, history>>

TickMessage(n) ==
  /\ At(n, "message")
  /\ IF messagePile[n] = <<>>
       THEN UNCHANGED <<messagePile, tables, receivedKeys, history, faults>>
       ELSE LET p == Head(messagePile[n]) IN
            /\ messagePile' = [messagePile EXCEPT ![n] = Tail(@)]
            /\ Opened(n, p.conn, p.msg) \/ Undecryptable(n, p.conn, p.msg)
  /\ UNCHANGED <<pending, addrs, seenTags, relayPile, handshakePile, net, port, begun,
                 accepted, sent, acked, restarts>>

-----------------------------------------------------------------------------
(* The environment *)

\* The transport gives up on a packet.
Lose(n, p) ==
  /\ p \in net[n] /\ faults < MaxFaults
  /\ faults' = faults + 1
  /\ net' = [net EXCEPT ![n] = @ \ {p}]
  /\ UNCHANGED <<phase, pending, tables, addrs, seenTags, receivedKeys, piles, port,
                 begun, accepted, sent, history, acked, restarts>>

\* The process ends and starts again, at the same or, as a rule, another port:
\* all this state is in memory, but for the addresses, of which load_peer_state
\* brings back those last saved.
Restart(n) ==
  /\ restarts < MaxRestarts
  /\ restarts' = restarts + 1
  /\ \E saved \in SUBSET User :
       addrs' = [addrs EXCEPT ![n] = [u \in User |-> IF u \in saved THEN @[u] ELSE NoAddr]]
  /\ \/ /\ port' = [port EXCEPT ![n] = @ + 1]
        /\ net' = [net EXCEPT ![n] = {}]
     \/ UNCHANGED <<port, net>>
  /\ phase' = [phase EXCEPT ![n] = "relay"]
  /\ pending' = [pending EXCEPT ![n] = {}]
  /\ sessions' = [sessions EXCEPT ![n] = {}]
  /\ connToPk' = [connToPk EXCEPT ![n] = NoConn]
  /\ pkToConn' = [pkToConn EXCEPT ![n] = NoneListed]
  /\ seenTags' = [seenTags EXCEPT ![n] = {}]
  /\ receivedKeys' = [receivedKeys EXCEPT ![n] = {}]
  /\ relayPile' = [relayPile EXCEPT ![n] = <<>>]
  /\ handshakePile' = [handshakePile EXCEPT ![n] = <<>>]
  /\ messagePile' = [messagePile EXCEPT ![n] = <<>>]
  /\ opened' = [opened EXCEPT ![n] = {}]
  /\ UNCHANGED <<begun, accepted, sent, delivered, forgotten, acked, faults>>

Tick(n) == TickRelay(n) \/ TickHandshake(n) \/ TickMessage(n)

Next ==
  \/ \E h \in Attempt : Contact(h)
  \/ \E m \in Msg : SendMessage(m)
  \/ \E n \in Node : \/ Tick(n) \/ Restart(n)
                     \/ \E p \in net[n] : Lose(n, p) \/ (\E keep \in BOOLEAN : Arrive(n, p, keep))

Spec == Init /\ [][Next]_vars

\* The tick loop and the sort thread run for ever, and as long as packets are on
\* their way some arrive.
Fairness ==
  \A n \in Node : /\ WF_vars(Tick(n))
                  /\ WF_vars(\E p \in net[n] : Arrive(n, p, FALSE))

FairSpec == Spec /\ Fairness

-----------------------------------------------------------------------------
\* The three tables tell the same story after any sequence of handshakes,
\* failures, removals and restarts: a session has a peer, the peer lists it
\* once, and lists nothing else.
TablesConsistent ==
  \A n \in Node :
    /\ DOMAIN connToPk[n] = sessions[n]
    /\ \A u \in User, c \in Conn : pkToConn[n][u][c] =
         IF c \in sessions[n] /\ connToPk[n][c] = u THEN 1 ELSE 0

\* A message reaches the application of a device at most once, though a copy
\* travels over every session with its user, packets are duplicated and the keys
\* already received are forgotten in a restart; unless its key was pruned
\* (runtime.rs:731) while a copy was still on its way or waiting in a pile.
DeliveredAtMostOnce ==
  \A n \in Node : \A m \in Msg : delivered[n][m] <= 1 \/ m \in forgotten[n]

\* tick_relay confirms a frame before the message in it is decrypted, and nobody
\* sends it again then.  Without faults and restarts the responder of the session
\* still delivers the message, or has it waiting: a stale connection removed for
\* another packet takes no other session with it.  (At the initiator a message
\* that overtakes the reply to the handshake is confirmed and lost.)
AckedNotLost ==
  faults = 0 /\ restarts = 0 =>
    \A n \in Node, c \in Conn, m \in Msg :
      \/ <<c, m>> \notin acked[n] \/ From[c[1]] = n
      \/ delivered[n][m] > 0
      \/ Cipher(c, m) \in ToSet(messagePile[n])

\* The two ends agree on whose connection it is, whichever device of a user made
\* it, simultaneous attempts in both directions and stale entries included.
PeersAgree ==
  \A n \in Node : \A m \in Node \ {n} :
    \A c \in sessions[n] \cap sessions[m] : connToPk[n][c] = UserOf[m]

\* A message is decrypted only at a device of the user it was sent to, and there
\* under a session with the user who sent it, whichever of a user's devices made
\* the session and whoever's address pk_to_addr holds by now.
BetweenItsUsers ==
  \A n \in Node, c \in Conn, m \in Msg :
    <<c, m>> \in opened[n] =>
      /\ UserOf[n] = Recipient[m]
      /\ c \in sessions[n] => connToPk[n][c] = UserOf[Author[m]]

\* A retried or duplicated first message makes no second session at its
\* responder, seen_tags stopping it, unless the responder has restarted.
OneSessionPerAttempt ==
  restarts = 0 => \A h \in Attempt : accepted[h] <= 1

\* Without faults an attempt ends in a session at both ends, and it stays, if
\* it is for the device whose address is in the contact record.  (The user's other
\* devices are never reached.)
ContactEstablishes ==
  \A h \in Attempt \ BadCert :
    ForKey[h] = KeyOf[To[h]] =>
      (h \in begun ~> [](\E k \in 1..MaxAccepts :
                           <<h, k>> \in sessions[From[h]] \cap sessions[To[h]]))

\* Without faults, a message on its way to a device over a session this device
\* has is delivered there, whatever handshakes and stale copies come before it.
\* (A message that overtakes the reply to the handshake finds no session and is
\* lost, and so is one the ratchet fails on, of which DoubleRatchet has more.)
SentInSessionIsDelivered ==
  \A n \in Node : \A m \in Msg : \A c \in Conn :
    Cipher(c, m) \in net[n] /\ c \in sessions[n] ~> delivered[n][m] = 1
=============================================================================

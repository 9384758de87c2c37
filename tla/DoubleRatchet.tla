---------------------------- MODULE DoubleRatchet ----------------------------
(***************************************************************************)
(* src/crypto/ratchet.rs under src/protocol/session.rs: the two ends of    *)
(* one session, each with a DoubleRatchet, exchanging encrypted messages   *)
(* over a transport that may lose, reorder and duplicate them.             *)
(*                                                                         *)
(* Keys are symbolic.  A party's k-th Diffie-Hellman key pair is           *)
(* <<party, k>>, the shared secret of two pairs is the set of both, and    *)
(* what kdf_rk derives is named by the secrets that went into it: the root *)
(* key and the chain key it returns by the sequence of these secrets, a    *)
(* message key by its chain and its number.  Two parties hold the same key *)
(* exactly when the names agree, and a ciphertext decrypts under no other. *)
(*                                                                         *)
(* A definition marked `deviation' is a mistake the code could have        *)
(* contained in place of the one that follows it; no action uses it.       *)
(***************************************************************************)
EXTENDS Integers, FiniteSets, Sequences, SequencesExt

CONSTANTS
  I, R,            \* the initiator and the responder of the handshake
  MaxSkip,         \* MAX_SKIP (2048)
  MaxSavedChains,  \* MAX_SAVED_CHAINS (8)
  MaxKeys,         \* bound: key pairs a party makes after its first
  MaxSends,        \* bound: messages a party sends
  MaxFaults,       \* bound: messages lost or duplicated, in all
  Duplicates       \* whether messages may be duplicated

Party == {I, R}
Peer(p) == IF p = I THEN R ELSE I

ASSUME RatchetAssumption ==
  /\ I # R
  /\ MaxSkip \in Nat /\ MaxSavedChains \in Nat \ {0}
  /\ {MaxKeys, MaxSends, MaxFaults} \subseteq Nat /\ Duplicates \in BOOLEAN

VARIABLES
  status,          \* [Party -> "opening" | "open" | "closed"] its session
  root,            \* [Party -> root_key]
  sending,         \* [Party -> sending_chain]
  receiving,       \* [Party -> receiving_chains, by the peer's public key]
  ours,            \* [Party -> number of our_dh_priv]
  theirs,          \* [Party -> their_dh_pub]
  wire,            \* [Party -> messages on their way to it, oldest first]
  sent,            \* [Party -> messages sent, oldest first]
  received,        \* [Party -> messages decrypted, in order]
  rejected,        \* [Party -> messages decrypt() failed on]
  faults           \* losses and duplicates so far

ratchet == <<root, sending, receiving, ours, theirs>>
vars == <<status, ratchet, wire, sent, received, rejected, faults>>

Pair(p, k) == <<p, k>>
Pub(p) == Pair(p, ours[p])
DH(a, b) == {a, b}

NewChain(id) == [id |-> id, number |-> 0, skipped |-> {}]
InitialRoot == <<DH(Pair(I, 0), Pair(R, 0))>>

\* kdf_rk: the new root key and, under the same name, the new chain key.
Kdf(rk, secret) == Append(rk, secret)

MessageKey(m) == <<m.chain, m.number>>

-----------------------------------------------------------------------------
(* DoubleRatchet::new; the initiator's session exists only when it has the
   reply to its handshake, the responder's as soon as it has replied. *)

Init ==
  /\ status = [p \in Party |-> IF p = I THEN "opening" ELSE "open"]
  /\ root = [p \in Party |-> InitialRoot]
  /\ sending = [p \in Party |-> NewChain(InitialRoot)]
  /\ receiving = [p \in Party |-> [k \in {Pair(Peer(p), 0)} |-> NewChain(InitialRoot)]]
  /\ ours = [p \in Party |-> 0]
  /\ theirs = [p \in Party |-> Pair(Peer(p), 0)]
  /\ wire = [p \in Party |-> <<>>]
  /\ sent = [p \in Party |-> <<>>]
  /\ received = [p \in Party |-> <<>>]
  /\ rejected = [p \in Party |-> {}]
  /\ faults = 0

PreRatchetSkipped(p) == UNCHANGED <<root, sending, ours>>   \* deviation

\* initiator_pre_ratchet: a new key pair and sending chain; what it receives
\* is still expected under the initial chain.
PreRatchet(p) ==
  LET fresh == ours[p] + 1
      rk == Kdf(root[p], DH(Pair(p, fresh), theirs[p]))
  IN /\ root' = [root EXCEPT ![p] = rk]
     /\ sending' = [sending EXCEPT ![p] = NewChain(rk)]
     /\ ours' = [ours EXCEPT ![p] = fresh]

\* Session::complete_handshake.
Complete ==
  /\ status[I] = "opening"
  /\ status' = [status EXCEPT ![I] = "open"]
  /\ PreRatchet(I)
  /\ UNCHANGED <<receiving, theirs, wire, sent, received, rejected, faults>>

-----------------------------------------------------------------------------
(* Session::send, DoubleRatchet::encrypt *)

Encrypt(p) ==
  LET m == [from |-> p, pub |-> Pub(p), chain |-> sending[p].id,
            number |-> sending[p].number + 1]
  IN
  /\ status[p] = "open" /\ Len(sent[p]) < MaxSends
  /\ sending' = [sending EXCEPT ![p].number = @ + 1]
  /\ sent' = [sent EXCEPT ![p] = Append(@, m)]
  /\ wire' = [wire EXCEPT ![Peer(p)] = Append(@, m)]
  /\ UNCHANGED <<status, root, receiving, ours, theirs, received, rejected, faults>>

-----------------------------------------------------------------------------
(* Session::receive, DoubleRatchet::decrypt *)

\* insert_receiving_chain.  Timestamps are whole seconds, so that within one
\* second any saved chain may be the oldest.
Saved(chains) ==
  IF Cardinality(DOMAIN chains) >= MaxSavedChains
    THEN {[k \in DOMAIN chains \ {old} |-> chains[k]] : old \in DOMAIN chains}
    ELSE {chains}

RatchetStepOldRoot(p, pub, kept) ==                         \* deviation
  LET fresh == ours[p] + 1
      rkSend == Kdf(root[p], DH(Pair(p, fresh), pub))
  IN [root |-> rkSend, sending |-> NewChain(rkSend), ours |-> fresh, theirs |-> pub,
      chains |-> [k \in DOMAIN kept \cup {pub} |->
                    IF k = pub THEN NewChain(Kdf(root[p], DH(Pub(p), pub))) ELSE kept[k]]]

\* dh_ratchet_step(pub), with the chains saved before it as `kept'.
RatchetStep(p, pub, kept) ==
  LET fresh == ours[p] + 1
      rkRecv == Kdf(root[p], DH(Pub(p), pub))
      rkSend == Kdf(rkRecv, DH(Pair(p, fresh), pub))
  IN [root |-> rkSend, sending |-> NewChain(rkSend), ours |-> fresh, theirs |-> pub,
      chains |-> [k \in DOMAIN kept \cup {pub} |->
                    IF k = pub THEN NewChain(rkRecv) ELSE kept[k]]]

\* The ratchet as it stands when the message key is looked up.
Prepared(p, m) ==
  IF theirs[p] = m.pub
    THEN {[root |-> root[p], sending |-> sending[p], ours |-> ours[p],
           theirs |-> theirs[p], chains |-> receiving[p]]}
    ELSE {RatchetStep(p, m.pub, kept) : kept \in Saved(receiving[p])}

HasKeyTarget(c, n) ==                                       \* deviation
  n = c.number + 1 \/ (n > c.number /\ n <= MaxSkip) \/ n \in c.skipped

\* advance, skip_to and try_skipped: whether the chain has a key of that
\* number, and the chain once it is taken.
HasKey(c, n) == \/ n > c.number /\ (n = c.number + 1 \/ n - c.number <= MaxSkip)
                \/ n \in c.skipped
TakeKeyOff(c, n) ==                                         \* deviation
  IF n > c.number
    THEN [c EXCEPT !.number = n, !.skipped = @ \cup c.number..(n - 1)]
    ELSE [c EXCEPT !.skipped = @ \ {n}]
TakeKeyKept(c, n) ==                                        \* deviation
  IF n > c.number
    THEN [c EXCEPT !.number = n, !.skipped = @ \cup (c.number + 1)..n]
    ELSE [c EXCEPT !.skipped = @ \ {n}]
TakeKeyTwice(c, n) ==                                       \* deviation
  IF n > c.number
    THEN [c EXCEPT !.number = n, !.skipped = @ \cup (c.number + 1)..(n - 1)]
    ELSE c
TakeKey(c, n) ==
  IF n > c.number
    THEN [c EXCEPT !.number = n, !.skipped = @ \cup (c.number + 1)..(n - 1)]
    ELSE [c EXCEPT !.skipped = @ \ {n}]

\* Any message on its way may be the next to arrive.  tick_message closes the
\* session on any failure.
Decrypt(p, i, keep) ==
  LET m == wire[p][i] IN
  /\ status[p] = "open" /\ i \in DOMAIN wire[p]
  /\ ours[p] < MaxKeys \/ theirs[p] = m.pub
  /\ keep => Duplicates /\ faults < MaxFaults
  /\ faults' = IF keep THEN faults + 1 ELSE faults
  /\ wire' = [wire EXCEPT ![p] = IF keep THEN @ ELSE RemoveAt(@, i)]
  /\ \E s \in Prepared(p, m) :
       LET c == s.chains[m.pub]
           ok == HasKey(c, m.number) /\ c.id = m.chain
       IN
       /\ root' = [root EXCEPT ![p] = s.root]
       /\ sending' = [sending EXCEPT ![p] = s.sending]
       /\ ours' = [ours EXCEPT ![p] = s.ours]
       /\ theirs' = [theirs EXCEPT ![p] = s.theirs]
       /\ receiving' = [receiving EXCEPT ![p] =
            IF HasKey(c, m.number) THEN [s.chains EXCEPT ![m.pub] = TakeKey(c, m.number)]
                                   ELSE s.chains]
       /\ received' = [received EXCEPT ![p] = IF ok THEN Append(@, m) ELSE @]
       /\ rejected' = [rejected EXCEPT ![p] = IF ok THEN @ ELSE @ \cup {m}]
       /\ status' = [status EXCEPT ![p] = IF ok THEN "open" ELSE "closed"]
  /\ UNCHANGED sent

\* No session yet, or none any more: tick_message drops the packet.
Discard(p) ==
  /\ status[p] # "open" /\ wire[p] # <<>>
  /\ wire' = [wire EXCEPT ![p] = Tail(@)]
  /\ UNCHANGED <<status, ratchet, sent, received, rejected, faults>>

\* The transport gives up on a message.
Lose(p, i) ==
  /\ i \in DOMAIN wire[p] /\ faults < MaxFaults
  /\ faults' = faults + 1
  /\ wire' = [wire EXCEPT ![p] = RemoveAt(@, i)]
  /\ UNCHANGED <<status, ratchet, sent, received, rejected>>

Next ==
  \/ Complete
  \/ \E p \in Party : Encrypt(p) \/ Discard(p)
  \/ \E p \in Party : \E i \in DOMAIN wire[p] :
       Lose(p, i) \/ (\E keep \in BOOLEAN : Decrypt(p, i, keep))

Spec == Init /\ [][Next]_vars

-----------------------------------------------------------------------------
Key == Party \X (0..MaxKeys + 1)
Root == Seq(SUBSET Key)
Chain == [id : Root, number : 0..MaxSends, skipped : SUBSET (1..MaxSends)]
Message == [from : Party, pub : Key, chain : Root, number : 1..MaxSends]

TypeOK ==
  /\ status \in [Party -> {"opening", "open", "closed"}]
  /\ root \in [Party -> Root] /\ sending \in [Party -> Chain]
  /\ ours \in [Party -> 0..MaxKeys + 1] /\ theirs \in [Party -> Key]
  /\ DOMAIN receiving = Party
  /\ \A p \in Party : /\ DOMAIN receiving[p] \subseteq Key
                      /\ \A k \in DOMAIN receiving[p] : receiving[p][k] \in Chain
                      /\ theirs[p] \in DOMAIN receiving[p]
  /\ wire \in [Party -> Seq(Message)] /\ sent \in [Party -> Seq(Message)]
  /\ received \in [Party -> Seq(Message)]
  /\ rejected \in [Party -> SUBSET Message]
  /\ faults \in 0..MaxFaults

\* No message key encrypts twice, in either direction: the two ends start
\* from the same initial chain and the initiator must leave it at once
\* (initiator_pre_ratchet), every later chain starts from a fresh key pair.
NoKeyReuse ==
  \A p, q \in Party : \A i \in DOMAIN sent[p], j \in DOMAIN sent[q] :
    MessageKey(sent[p][i]) = MessageKey(sent[q][j]) => p = q /\ i = j

\* While no end has closed the session, the two ends have derived the same
\* root keys and one is at most one step ahead of the other, whatever was lost
\* or reordered, whoever spoke first, and both of them speaking at once.
RootsAgree ==
  (\A p \in Party : status[p] # "closed") =>
    \E p \in Party : /\ IsPrefix(root[p], root[Peer(p)])
                     /\ Len(root[Peer(p)]) <= Len(root[p]) + 1

\* A message of a later key pair of the same sender was decrypted before it.
Overtaken(p, m) == \E r \in ToSet(received[p]) : r.pub[2] > m.pub[2]

\* More than MAX_SKIP past every message of its chain decrypted before it, and
\* past the chain's start.
TooFar(p, m) ==
  /\ m.number > MaxSkip
  /\ \A r \in ToSet(received[p]) : r.pub = m.pub => m.number - r.number > MaxSkip

RejectsExcused ==
  \A p \in Party : \A m \in rejected'[p] \ rejected[p] :
    m \in ToSet(received[p]) \/ Overtaken(p, m) \/ TooFar(p, m)

\* decrypt() fails on a genuine message only if it was decrypted already, if a
\* message of a later key of its sender overtook it (SavedChainDecrypts says
\* what the code does then) or if it lies more than MAX_SKIP ahead of what its
\* chain has reached (ratchet.rs:27): losses, reordering within a chain and the
\* replies sent before the initiator's session is open are no obstacle.
GenuineDecrypts == [][RejectsExcused]_vars

\* A message is accepted once, however often it is delivered.
NoReplay == \A p \in Party : IsInjective(received[p])

\* Once a message is decrypted the receiver can no longer derive its key.
ForwardSecrecy ==
  \A p \in Party : \A i \in DOMAIN received[p] :
    LET m == received[p][i] IN
      m.pub \in DOMAIN receiving[p] /\ receiving[p][m.pub].id = m.chain
        => ~HasKey(receiving[p][m.pub], m.number)

\* insert_receiving_chain keeps the saved chains within MAX_SAVED_CHAINS.
SavedChainsBounded ==
  \A p \in Party : Cardinality(DOMAIN receiving[p]) <= MaxSavedChains

\* No message is rejected in this step whose saved chain has its key.
RejectsOnlyUsed ==
  \A p \in Party : \A m \in rejected'[p] \ rejected[p] :
    m.pub \in DOMAIN receiving[p] /\ receiving[p][m.pub].id = m.chain
      => ~HasKey(receiving[p][m.pub], m.number)

\* ratchet.rs:64, 81: chains are saved, and the oldest dropped only above
\* MAX_SAVED_CHAINS, so that a message of a saved chain whose key has not
\* been used still decrypts.
SavedChainDecrypts == [][RejectsOnlyUsed]_vars
=============================================================================

------------------------ MODULE DoubleRatchetProofs -------------------------
(***************************************************************************)
(* What is proved of DoubleRatchet for every MAX_SKIP, every               *)
(* MAX_SAVED_CHAINS, any number of key pairs, messages and faults, with or *)
(* without duplicates, over a transport that keeps no order.               *)
(***************************************************************************)
EXTENDS DoubleRatchet, SequenceLemmas, FiniteSetTheorems, TLAPS

-----------------------------------------------------------------------------
(* Types *)

LEMMA Bounds ==
  /\ I # R /\ MaxSkip \in Nat /\ MaxSavedChains \in Nat /\ MaxSavedChains > 0
  /\ MaxKeys \in Nat /\ MaxSends \in Nat /\ MaxFaults \in Nat
BY RatchetAssumption

LEMMA Peers ==
  ASSUME NEW p \in Party
  PROVE  Peer(p) \in Party /\ Peer(p) # p /\ Peer(Peer(p)) = p
         /\ \A q \in Party : q = p \/ q = Peer(p)
BY Bounds DEF Party, Peer

LEMMA SecretsAreKeys ==
  ASSUME NEW a \in Key, NEW b \in Key
  PROVE  DH(a, b) \in SUBSET Key
BY DEF DH

LEMMA InitialRootType == InitialRoot \in Root /\ Len(InitialRoot) = 1
<1>1. Pair(I, 0) \in Key /\ Pair(R, 0) \in Key
  BY Bounds DEF Pair, Key, Party
<1>2. DH(Pair(I, 0), Pair(R, 0)) \in SUBSET Key
  BY <1>1, SecretsAreKeys
<1> QED BY <1>2 DEF InitialRoot, Root

\* A derived key is named by one secret more.
LEMMA KdfType ==
  ASSUME NEW rk \in Root, NEW a \in Key, NEW b \in Key
  PROVE  /\ Kdf(rk, DH(a, b)) \in Root /\ Len(rk) \in Nat
         /\ Len(Kdf(rk, DH(a, b))) = Len(rk) + 1
BY SecretsAreKeys, AppendAt DEF Kdf, Root

LEMMA NewChainType ==
  ASSUME NEW rk \in Root
  PROVE  /\ NewChain(rk) \in Chain /\ NewChain(rk).id = rk
         /\ NewChain(rk).number = 0 /\ NewChain(rk).skipped = {}
BY Bounds DEF NewChain, Chain

LEMMA ChainFields ==
  ASSUME NEW c \in Chain
  PROVE  c.id \in Root /\ c.number \in 0..MaxSends /\ c.skipped \in SUBSET (1..MaxSends)
BY DEF Chain

LEMMA MessageFields ==
  ASSUME NEW m \in Message
  PROVE  /\ m.from \in Party /\ m.pub \in Key /\ m.chain \in Root
         /\ m.number \in 1..MaxSends
         /\ m.pub[1] \in Party /\ m.pub[2] \in 0..MaxKeys + 1 /\ m.pub = Pair(m.pub[1], m.pub[2])
BY DEF Message, Key, Pair

\* What taking a key makes of a chain.
LEMMA TakeKeyTypes ==
  ASSUME NEW c \in Chain, NEW n \in 1..MaxSends
  PROVE  /\ TakeKey(c, n) \in Chain /\ TakeKey(c, n).id = c.id
         /\ TakeKey(c, n).number = IF n > c.number THEN n ELSE c.number
         /\ TakeKey(c, n).skipped =
              IF n > c.number THEN c.skipped \cup (c.number + 1)..(n - 1) ELSE c.skipped \ {n}
<1>0. c.id \in Root /\ c.number \in 0..MaxSends /\ c.skipped \in SUBSET (1..MaxSends)
  BY DEF Chain
<1>1. CASE n > c.number
  <2>1. TakeKey(c, n) = [c EXCEPT !.number = n, !.skipped = @ \cup (c.number + 1)..(n - 1)]
    BY <1>1 DEF TakeKey
  <2>2. c.skipped \cup (c.number + 1)..(n - 1) \in SUBSET (1..MaxSends) /\ n \in 0..MaxSends
    BY <1>0, Bounds
  <2> QED BY <1>0, <1>1, <2>1, <2>2 DEF Chain
<1>2. CASE ~(n > c.number)
  <2>1. TakeKey(c, n) = [c EXCEPT !.skipped = @ \ {n}]
    BY <1>2 DEF TakeKey
  <2> QED BY <1>0, <1>2, <2>1 DEF Chain
<1> QED BY <1>1, <1>2

\* The ratchet that looks a key up is the one there was, or one step further.
Same(p, m, s) ==
  /\ theirs[p] = m.pub /\ s.root = root[p] /\ s.sending = sending[p]
  /\ s.ours = ours[p] /\ s.theirs = theirs[p] /\ s.chains = receiving[p]
Stepped(p, m, s) ==
  /\ theirs[p] # m.pub
  /\ s.root = Kdf(Kdf(root[p], DH(Pub(p), m.pub)), DH(Pair(p, ours[p] + 1), m.pub))
  /\ s.sending = NewChain(s.root) /\ s.ours = ours[p] + 1 /\ s.theirs = m.pub
  /\ m.pub \in DOMAIN s.chains
  /\ s.chains[m.pub] = NewChain(Kdf(root[p], DH(Pub(p), m.pub)))
  /\ \A k \in DOMAIN s.chains \ {m.pub} :
       k \in DOMAIN receiving[p] /\ s.chains[k] = receiving[p][k]

LEMMA PreparedCases ==
  ASSUME NEW p, NEW m, NEW s \in Prepared(p, m)
  PROVE  Same(p, m, s) \/ Stepped(p, m, s)
<1>1. CASE theirs[p] = m.pub
  BY <1>1 DEF Prepared, Same
<1>2. CASE theirs[p] # m.pub
  <2>1. PICK kept \in Saved(receiving[p]) : s = RatchetStep(p, m.pub, kept)
    BY <1>2 DEF Prepared
  <2>2. DOMAIN kept \subseteq DOMAIN receiving[p] /\ \A k \in DOMAIN kept : kept[k] = receiving[p][k]
    BY DEF Saved
  <2>3. /\ s.root = Kdf(Kdf(root[p], DH(Pub(p), m.pub)), DH(Pair(p, ours[p] + 1), m.pub))
        /\ s.sending = NewChain(s.root) /\ s.ours = ours[p] + 1 /\ s.theirs = m.pub
        /\ s.chains = [k \in DOMAIN kept \cup {m.pub} |->
             IF k = m.pub THEN NewChain(Kdf(root[p], DH(Pub(p), m.pub))) ELSE kept[k]]
    BY <2>1 DEF RatchetStep
  <2> QED BY <1>2, <2>2, <2>3 DEF Stepped
<1> QED BY <1>1, <1>2

\* What Decrypt does at p, and what it leaves alone at the other end.
Uses(p, m, s) ==
  LET c == s.chains[m.pub]
      ok == HasKey(c, m.number) /\ c.id = m.chain
  IN
  /\ root'[p] = s.root /\ sending'[p] = s.sending /\ ours'[p] = s.ours
  /\ theirs'[p] = s.theirs
  /\ DOMAIN receiving'[p] = DOMAIN s.chains
  /\ \A k \in DOMAIN s.chains \ {m.pub} : receiving'[p][k] = s.chains[k]
  /\ receiving'[p][m.pub] = IF HasKey(c, m.number) THEN TakeKey(c, m.number) ELSE c
  /\ received'[p] = IF ok THEN Append(received[p], m) ELSE received[p]
  /\ rejected'[p] = IF ok THEN rejected[p] ELSE rejected[p] \cup {m}
  /\ status'[p] = IF ok THEN "open" ELSE "closed"
OnlyAt(p) == \A q \in Party \ {p} :
  /\ root'[q] = root[q] /\ sending'[q] = sending[q] /\ ours'[q] = ours[q]
  /\ theirs'[q] = theirs[q] /\ receiving'[q] = receiving[q] /\ received'[q] = received[q]
  /\ rejected'[q] = rejected[q] /\ status'[q] = status[q] /\ wire'[q] = wire[q]

LEMMA PreparedTypes ==
  ASSUME TypeOK, NEW p \in Party, NEW m \in Message, NEW s \in Prepared(p, m),
         ours[p] < MaxKeys \/ theirs[p] = m.pub
  PROVE  /\ s.root \in Root /\ s.sending \in Chain /\ s.ours \in 0..MaxKeys + 1
         /\ s.theirs = m.pub /\ m.pub \in DOMAIN s.chains /\ DOMAIN s.chains \subseteq Key
         /\ \A k \in DOMAIN s.chains : s.chains[k] \in Chain
         /\ Stepped(p, m, s) =>
              /\ Pub(p) \in Key /\ Pair(p, ours[p] + 1) \in Key
              /\ Kdf(root[p], DH(Pub(p), m.pub)) \in Root
<1>0. /\ root[p] \in Root /\ sending[p] \in Chain /\ ours[p] \in 0..MaxKeys + 1
      /\ DOMAIN receiving[p] \subseteq Key /\ theirs[p] \in DOMAIN receiving[p]
      /\ \A k \in DOMAIN receiving[p] : receiving[p][k] \in Chain
      /\ m.pub \in Key
  BY MessageFields DEF TypeOK
<1>1. CASE Same(p, m, s)
  BY <1>0, <1>1 DEF Same, Stepped
<1>2. CASE Stepped(p, m, s)
  <2>1. ours[p] + 1 \in 0..MaxKeys + 1 /\ Pub(p) \in Key /\ Pair(p, ours[p] + 1) \in Key
    BY <1>0, <1>2, Bounds DEF Stepped, Pub, Pair, Key
  <2>2. Kdf(root[p], DH(Pub(p), m.pub)) \in Root
    BY <1>0, <2>1, KdfType
  <2>3. s.root \in Root
    BY <1>0, <1>2, <2>1, <2>2, KdfType DEF Stepped
  <2> QED BY <1>0, <1>2, <2>1, <2>2, <2>3, NewChainType DEF Stepped
<1> QED BY <1>1, <1>2, PreparedCases

LEMMA Decrypted ==
  ASSUME TypeOK, NEW p \in Party, NEW i \in DOMAIN wire[p], NEW keep \in BOOLEAN,
         Decrypt(p, i, keep)
  PROVE  /\ wire[p][i] \in Message /\ OnlyAt(p) /\ status[p] = "open"
         /\ ours[p] < MaxKeys \/ theirs[p] = wire[p][i].pub
         /\ wire'[p] = IF keep THEN wire[p] ELSE RemoveAt(wire[p], i)
         /\ UNCHANGED sent
         /\ root' = [root EXCEPT ![p] = root'[p]] /\ sending' = [sending EXCEPT ![p] = sending'[p]]
         /\ ours' = [ours EXCEPT ![p] = ours'[p]] /\ theirs' = [theirs EXCEPT ![p] = theirs'[p]]
         /\ receiving' = [receiving EXCEPT ![p] = receiving'[p]]
         /\ received' = [received EXCEPT ![p] = received'[p]]
         /\ rejected' = [rejected EXCEPT ![p] = rejected'[p]]
         /\ status' = [status EXCEPT ![p] = status'[p]]
         /\ \E s \in Prepared(p, wire[p][i]) : Uses(p, wire[p][i], s)
<1>0. /\ status \in [Party -> {"opening", "open", "closed"}]
      /\ root \in [Party -> Root] /\ sending \in [Party -> Chain]
      /\ ours \in [Party -> 0..MaxKeys + 1] /\ theirs \in [Party -> Key]
      /\ DOMAIN receiving = Party /\ wire \in [Party -> Seq(Message)]
      /\ received \in [Party -> Seq(Message)] /\ rejected \in [Party -> SUBSET Message]
  BY DEF TypeOK
<1>1. wire[p][i] \in Message
  BY <1>0, ElementOfSeq, LenProperties
<1>2. PICK m : m = wire[p][i]
  OBVIOUS
<1>3. PICK s \in Prepared(p, m) :
        LET c == s.chains[m.pub]
            ok == HasKey(c, m.number) /\ c.id = m.chain
        IN
        /\ root' = [root EXCEPT ![p] = s.root]
        /\ sending' = [sending EXCEPT ![p] = s.sending]
        /\ ours' = [ours EXCEPT ![p] = s.ours]
        /\ theirs' = [theirs EXCEPT ![p] = s.theirs]
        /\ receiving' = [receiving EXCEPT ![p] =
             IF HasKey(c, m.number) THEN [s.chains EXCEPT ![m.pub] = TakeKey(c, m.number)]
                                    ELSE s.chains]
        /\ received' = [received EXCEPT ![p] = IF ok THEN Append(@, m) ELSE @]
        /\ rejected' = [rejected EXCEPT ![p] = IF ok THEN @ ELSE @ \cup {m}]
        /\ status' = [status EXCEPT ![p] = IF ok THEN "open" ELSE "closed"]
  BY <1>2 DEF Decrypt
<1>4. /\ status[p] = "open"
      /\ ours[p] < MaxKeys \/ theirs[p] = m.pub
      /\ wire' = [wire EXCEPT ![p] = IF keep THEN @ ELSE RemoveAt(@, i)] /\ UNCHANGED sent
  BY <1>2 DEF Decrypt
<1>5. m.pub \in DOMAIN s.chains
  BY <1>1, <1>2, <1>4, PreparedTypes
<1>6. OnlyAt(p)
  BY <1>0, <1>3, <1>4 DEF OnlyAt
<1>7. Uses(p, m, s)
  BY <1>0, <1>3, <1>5 DEF Uses
<1>8. wire'[p] = IF keep THEN wire[p] ELSE RemoveAt(wire[p], i)
  BY <1>0, <1>4
<1>9. \E r \in Prepared(p, wire[p][i]) : Uses(p, wire[p][i], r)
  BY <1>2, <1>7
<1>10. /\ root' = [root EXCEPT ![p] = root'[p]] /\ sending' = [sending EXCEPT ![p] = sending'[p]]
       /\ ours' = [ours EXCEPT ![p] = ours'[p]] /\ theirs' = [theirs EXCEPT ![p] = theirs'[p]]
       /\ receiving' = [receiving EXCEPT ![p] = receiving'[p]]
       /\ received' = [received EXCEPT ![p] = received'[p]]
       /\ rejected' = [rejected EXCEPT ![p] = rejected'[p]]
       /\ status' = [status EXCEPT ![p] = status'[p]]
  BY <1>0, <1>3
<1> QED BY <1>1, <1>2, <1>4, <1>6, <1>8, <1>9, <1>10

\* How many secrets go into the keys a party sends under with its k-th pair:
\* an odd number at the responder, and an even one at the initiator once it has
\* left the initial chain.
Depth(p, k) == IF p = R \/ k = 0 THEN 2 * k + 1 ELSE 2 * k

\* The sending chain is the one the root key was made with, and both are as
\* deep as the party's key pair is young.
KeysFresh ==
  /\ status[R] # "opening"
  /\ status[I] = "opening" <=> ours[I] = 0
  /\ \A p \in Party : /\ sending[p].id = root[p] /\ sending[p].number <= Len(sent[p])
                      /\ Len(root[p]) = Depth(p, ours[p])

LEMMA DecryptKeepsTypes ==
  ASSUME TypeOK, NEW p \in Party, NEW i \in DOMAIN wire[p], NEW keep \in BOOLEAN,
         Decrypt(p, i, keep)
  PROVE  TypeOK'
<1>0. /\ status \in [Party -> {"opening", "open", "closed"}]
      /\ root \in [Party -> Root] /\ sending \in [Party -> Chain]
      /\ ours \in [Party -> 0..MaxKeys + 1] /\ theirs \in [Party -> Key]
      /\ DOMAIN receiving = Party /\ wire \in [Party -> Seq(Message)]
      /\ received \in [Party -> Seq(Message)] /\ rejected \in [Party -> SUBSET Message]
      /\ sent \in [Party -> Seq(Message)] /\ faults \in 0..MaxFaults
  BY DEF TypeOK
<1>1. PICK m : m = wire[p][i]
  OBVIOUS
<1>2. /\ m \in Message /\ OnlyAt(p) /\ UNCHANGED sent
      /\ ours[p] < MaxKeys \/ theirs[p] = m.pub
  BY <1>1, Decrypted
<1>3. PICK s \in Prepared(p, m) : Uses(p, m, s)
  BY <1>1, Decrypted
<1>4. /\ s.root \in Root /\ s.sending \in Chain /\ s.ours \in 0..MaxKeys + 1
      /\ s.theirs = m.pub /\ m.pub \in DOMAIN s.chains /\ DOMAIN s.chains \subseteq Key
      /\ \A k \in DOMAIN s.chains : s.chains[k] \in Chain
  BY <1>2, PreparedTypes
<1>5. m.number \in 1..MaxSends /\ m.pub \in Key
  BY <1>2, MessageFields
<1>6. /\ root' = [root EXCEPT ![p] = root'[p]] /\ sending' = [sending EXCEPT ![p] = sending'[p]]
      /\ ours' = [ours EXCEPT ![p] = ours'[p]] /\ theirs' = [theirs EXCEPT ![p] = theirs'[p]]
      /\ receiving' = [receiving EXCEPT ![p] = receiving'[p]]
      /\ received' = [received EXCEPT ![p] = received'[p]]
      /\ rejected' = [rejected EXCEPT ![p] = rejected'[p]]
      /\ status' = [status EXCEPT ![p] = status'[p]]
  BY <1>1, Decrypted
<1>7. /\ root' \in [Party -> Root] /\ sending' \in [Party -> Chain]
      /\ ours' \in [Party -> 0..MaxKeys + 1] /\ theirs' \in [Party -> Key]
      /\ DOMAIN receiving' = Party
  <2>1. /\ root'[p] = s.root /\ sending'[p] = s.sending /\ ours'[p] = s.ours
        /\ theirs'[p] = m.pub
    BY <1>3, <1>4 DEF Uses
  <2>2. /\ root'[p] \in Root /\ sending'[p] \in Chain /\ ours'[p] \in 0..MaxKeys + 1
        /\ theirs'[p] \in Key
    BY <1>4, <1>5, <2>1
  <2> QED BY <1>0, <1>6, <2>2
<1>8. \A q \in Party : /\ DOMAIN receiving'[q] \subseteq Key
                       /\ \A k \in DOMAIN receiving'[q] : receiving'[q][k] \in Chain
                       /\ theirs'[q] \in DOMAIN receiving'[q]
  <2> TAKE q \in Party
  <2>1. CASE q = p
    <3>1. receiving'[p][m.pub] \in Chain
      <4>1. s.chains[m.pub] \in Chain /\ TakeKey(s.chains[m.pub], m.number) \in Chain
        BY <1>4, <1>5, TakeKeyTypes
      <4> QED BY <1>3, <4>1 DEF Uses
    <3>2. /\ DOMAIN receiving'[p] = DOMAIN s.chains /\ theirs'[p] = m.pub
          /\ \A k \in DOMAIN s.chains \ {m.pub} : receiving'[p][k] = s.chains[k]
      BY <1>3, <1>4 DEF Uses
    <3> QED BY <1>4, <2>1, <3>1, <3>2
  <2>2. CASE q # p
    BY <1>2, <2>2 DEF OnlyAt, TypeOK
  <2> QED BY <2>1, <2>2
<1>9. /\ received' \in [Party -> Seq(Message)] /\ rejected' \in [Party -> SUBSET Message]
      /\ status' \in [Party -> {"opening", "open", "closed"}]
  <2>1. /\ received'[p] = received[p] \/ received'[p] = Append(received[p], m)
        /\ rejected'[p] = rejected[p] \/ rejected'[p] = rejected[p] \cup {m}
        /\ status'[p] \in {"open", "closed"}
    BY <1>3 DEF Uses
  <2>2. Append(received[p], m) \in Seq(Message)
    BY <1>0, <1>2, AppendAt
  <2>3. /\ received'[p] \in Seq(Message) /\ rejected'[p] \in SUBSET Message
        /\ status'[p] \in {"opening", "open", "closed"}
    BY <1>0, <1>2, <2>1, <2>2
  <2> QED BY <1>0, <1>6, <2>3
<1>10. wire' \in [Party -> Seq(Message)] /\ faults' \in 0..MaxFaults
  <2>1. RemoveAt(wire[p], i) \in Seq(Message)
    BY <1>0, RemoveAtAt
  <2>2. wire' = [wire EXCEPT ![p] = IF keep THEN @ ELSE RemoveAt(@, i)]
    BY DEF Decrypt
  <2>3. /\ keep => faults < MaxFaults
        /\ faults' = IF keep THEN faults + 1 ELSE faults
    BY DEF Decrypt
  <2>4. faults' \in 0..MaxFaults
    BY <1>0, <2>3, Bounds
  <2> QED BY <1>0, <2>1, <2>2, <2>4
<1> QED BY <1>0, <1>2, <1>7, <1>8, <1>9, <1>10 DEF TypeOK

LEMMA DecryptKeepsFresh ==
  ASSUME TypeOK, KeysFresh, NEW p \in Party, NEW i \in DOMAIN wire[p], NEW keep \in BOOLEAN,
         Decrypt(p, i, keep)
  PROVE  KeysFresh'
<1>0. /\ \A q \in Party : root[q] \in Root /\ ours[q] \in 0..MaxKeys + 1 /\ Len(sent[q]) \in Nat
      /\ I \in Party /\ R \in Party
  BY LenProperties DEF TypeOK, Party
<1>1. PICK m : m = wire[p][i]
  OBVIOUS
<1>2. /\ m \in Message /\ OnlyAt(p) /\ UNCHANGED sent /\ status[p] = "open"
      /\ ours[p] < MaxKeys \/ theirs[p] = m.pub
  BY <1>1, Decrypted
<1>3. PICK s \in Prepared(p, m) : Uses(p, m, s)
  BY <1>1, Decrypted
<1>4. /\ root'[p] = s.root /\ sending'[p] = s.sending /\ ours'[p] = s.ours
      /\ status'[p] # "opening"
  BY <1>3 DEF Uses
<1>5. p = I => ours[p] # 0
  BY <1>2 DEF KeysFresh
<1>6. /\ s.sending.id = s.root /\ s.sending.number <= Len(sent[p])
      /\ Len(s.root) = Depth(p, s.ours) /\ (p = I => s.ours # 0)
  <2>1. CASE Same(p, m, s)
    BY <1>5, <2>1 DEF Same, KeysFresh
  <2>2. CASE Stepped(p, m, s)
    <3>1. /\ Pub(p) \in Key /\ Pair(p, ours[p] + 1) \in Key /\ m.pub \in Key
          /\ Kdf(root[p], DH(Pub(p), m.pub)) \in Root /\ s.root \in Root
      BY <1>2, <2>2, PreparedTypes, MessageFields
    <3>2. Len(Kdf(root[p], DH(Pub(p), m.pub))) = Len(root[p]) + 1 /\ Len(root[p]) \in Nat
      BY <1>0, <3>1, KdfType
    <3>3. Len(s.root) = Len(Kdf(root[p], DH(Pub(p), m.pub))) + 1
      BY <2>2, <3>1, KdfType DEF Stepped
    <3>4. Depth(p, ours[p] + 1) = Depth(p, ours[p]) + 2
      BY <1>0, <1>5, Bounds DEF Depth, Party
    <3>5. Len(root[p]) = Depth(p, ours[p])
      BY DEF KeysFresh
    <3>6. Len(s.root) = Depth(p, ours[p] + 1)
      BY <3>2, <3>3, <3>4, <3>5
    <3>7. s.ours = ours[p] + 1 /\ s.sending.id = s.root /\ s.sending.number = 0
      BY <2>2, <3>1, NewChainType DEF Stepped
    <3> QED BY <1>0, <3>6, <3>7
  <2> QED BY <2>1, <2>2, PreparedCases
<1> QED BY <1>0, <1>2, <1>4, <1>5, <1>6 DEF KeysFresh, OnlyAt

LEMMA KeysFreshHolds == Spec => [](TypeOK /\ KeysFresh)
<1>1. Init => TypeOK /\ KeysFresh
  <2> SUFFICES ASSUME Init PROVE TypeOK /\ KeysFresh
    OBVIOUS
  <2>1. /\ \A p \in Party : Pair(p, 0) \in Key
        /\ NewChain(InitialRoot) \in Chain /\ NewChain(InitialRoot).id = InitialRoot
        /\ NewChain(InitialRoot).number = 0
        /\ \A p \in Party : Peer(p) \in Party
        /\ <<>> \in Seq(Message) /\ Len(<<>>) = 0
    BY Bounds, InitialRootType, NewChainType, Peers, EmptySeq DEF Pair, Key
  <2>2. KeysFresh
    BY <2>1, InitialRootType, Bounds DEF Init, KeysFresh, Party, Depth
  <2>3. /\ DOMAIN receiving = Party
        /\ \A p \in Party : /\ DOMAIN receiving[p] \subseteq Key
                            /\ \A k \in DOMAIN receiving[p] : receiving[p][k] \in Chain
                            /\ theirs[p] \in DOMAIN receiving[p]
    BY <2>1 DEF Init
  <2> QED BY <2>1, <2>2, <2>3, InitialRootType, Bounds DEF Init, TypeOK
<1>2. TypeOK /\ KeysFresh /\ [Next]_vars => TypeOK' /\ KeysFresh'
  <2> SUFFICES ASSUME TypeOK, KeysFresh, [Next]_vars PROVE TypeOK' /\ KeysFresh'
    OBVIOUS
  <2>0. /\ root \in [Party -> Root] /\ sending \in [Party -> Chain]
        /\ ours \in [Party -> 0..MaxKeys + 1] /\ theirs \in [Party -> Key]
        /\ wire \in [Party -> Seq(Message)] /\ sent \in [Party -> Seq(Message)]
        /\ faults \in 0..MaxFaults /\ I \in Party /\ R \in Party
        /\ status \in [Party -> {"opening", "open", "closed"}]
    BY DEF TypeOK, Party
  <2>1. ASSUME Complete PROVE TypeOK' /\ KeysFresh'
    <3> DEFINE rk == Kdf(root[I], DH(Pair(I, 1), theirs[I]))
    <3>1. ours[I] = 0 /\ status[I] = "opening" /\ Pair(I, 1) \in Key
      BY <2>0, <2>1, Bounds DEF Complete, KeysFresh, Pair, Key
    <3>2. rk \in Root /\ Len(rk) = 2
      <4>1. Len(root[I]) = Depth(I, 0)
        BY <2>0, <3>1 DEF KeysFresh
      <4>2. Depth(I, 0) = 1
        BY DEF Depth
      <4>3. rk \in Root /\ Len(rk) = Len(root[I]) + 1
        BY <2>0, <3>1, KdfType
      <4> HIDE DEF rk
      <4> QED BY <4>1, <4>2, <4>3
    <3>3. /\ root' = [root EXCEPT ![I] = rk] /\ sending' = [sending EXCEPT ![I] = NewChain(rk)]
          /\ ours' = [ours EXCEPT ![I] = 1] /\ status' = [status EXCEPT ![I] = "open"]
          /\ UNCHANGED <<receiving, theirs, wire, sent, received, rejected, faults>>
      BY <2>1, <3>1 DEF Complete, PreRatchet
    <3> HIDE DEF rk
    <3>4. NewChain(rk) \in Chain /\ NewChain(rk).id = rk /\ NewChain(rk).number = 0
      BY <3>2, NewChainType
    <3>5. TypeOK'
      BY <2>0, <3>2, <3>3, <3>4, Bounds DEF TypeOK
    <3>6. Len(sent[I]) \in Nat
      BY <2>0, LenProperties
    <3>7. KeysFresh'
      <4>1. /\ root'[I] = rk /\ sending'[I] = NewChain(rk) /\ ours'[I] = 1 /\ status'[I] = "open"
            /\ root'[R] = root[R] /\ sending'[R] = sending[R] /\ ours'[R] = ours[R]
            /\ status'[R] = status[R] /\ UNCHANGED sent
        BY <2>0, <3>3, Bounds
      <4>2. Depth(I, 1) = 2
        BY Bounds DEF Depth
      <4>3. /\ sending'[I].id = root'[I] /\ sending'[I].number <= Len(sent'[I])
            /\ Len(root'[I]) = Depth(I, ours'[I])
        BY <3>2, <3>4, <3>6, <4>1, <4>2
      <4>4. /\ sending'[R].id = root'[R] /\ sending'[R].number <= Len(sent'[R])
            /\ Len(root'[R]) = Depth(R, ours'[R]) /\ status'[R] # "opening"
        BY <2>0, <4>1 DEF KeysFresh
      <4> QED BY <4>1, <4>3, <4>4 DEF KeysFresh, Party
    <3> QED BY <3>5, <3>7
  <2>2. ASSUME NEW p \in Party, Encrypt(p) PROVE TypeOK' /\ KeysFresh'
    <3>0. PICK m : m = [from |-> p, pub |-> Pub(p), chain |-> sending[p].id,
                        number |-> sending[p].number + 1]
      OBVIOUS
    <3>1. /\ Len(sent[p]) < MaxSends /\ sending' = [sending EXCEPT ![p].number = @ + 1]
          /\ sent' = [sent EXCEPT ![p] = Append(@, m)]
          /\ wire' = [wire EXCEPT ![Peer(p)] = Append(@, m)]
          /\ UNCHANGED <<status, root, receiving, ours, theirs, received, rejected, faults>>
      BY <2>2, <3>0 DEF Encrypt
    <3>2. /\ sending[p].id \in Root /\ sending[p].number \in Nat
          /\ sending[p].skipped \in SUBSET (1..MaxSends) /\ Len(sent[p]) \in Nat
          /\ sending[p].number <= Len(sent[p])
      BY <2>0, ChainFields, LenProperties DEF KeysFresh
    <3>3. sending[p].number + 1 \in 1..MaxSends
      BY <3>1, <3>2, Bounds
    <3>4. m \in Message
      BY <2>0, <3>0, <3>2, <3>3 DEF Message, Pub, Pair, Key
    <3>5. /\ Append(sent[p], m) \in Seq(Message) /\ Append(wire[Peer(p)], m) \in Seq(Message)
          /\ Len(Append(sent[p], m)) = Len(sent[p]) + 1
      BY <2>0, <3>4, Peers, AppendAt
    <3>6. [sending[p] EXCEPT !.number = @ + 1] \in Chain
      <4>1. sending[p] \in Chain /\ sending[p].number + 1 \in 0..MaxSends
        BY <2>0, <3>3, Bounds
      <4> QED BY <4>1 DEF Chain
    <3>7. /\ sending'[p] = [sending[p] EXCEPT !.number = @ + 1]
          /\ sending' \in [Party -> Chain]
      BY <2>0, <3>1, <3>6
    <3>8. TypeOK'
      BY <2>0, <3>1, <3>5, <3>7 DEF TypeOK
    <3>9. /\ sending'[p].id = sending[p].id /\ sending'[p].number = sending[p].number + 1
          /\ Len(sent'[p]) = Len(sent[p]) + 1
          /\ \A q \in Party \ {p} : sending'[q] = sending[q] /\ sent'[q] = sent[q]
      <4>1. sending[p] \in Chain
        BY <2>0
      <4>2. /\ [sending[p] EXCEPT !.number = @ + 1].id = sending[p].id
            /\ [sending[p] EXCEPT !.number = @ + 1].number = sending[p].number + 1
        BY <4>1 DEF Chain
      <4> QED BY <2>0, <3>1, <3>5, <3>7, <4>2
    <3>10. KeysFresh'
      BY <3>1, <3>2, <3>9 DEF KeysFresh
    <3> QED BY <3>8, <3>10
  <2>3. ASSUME NEW p \in Party, Discard(p) PROVE TypeOK' /\ KeysFresh'
    <3>1. Tail(wire[p]) \in Seq(Message)
      BY <2>0, <2>3, HeadTailProperties DEF Discard
    <3>2. wire' \in [Party -> Seq(Message)]
      BY <2>0, <2>3, <3>1 DEF Discard
    <3> QED BY <2>3, <3>2 DEF Discard, TypeOK, KeysFresh, ratchet
  <2>4. ASSUME NEW p \in Party, NEW i \in DOMAIN wire[p], Lose(p, i) PROVE TypeOK' /\ KeysFresh'
    <3>1. RemoveAt(wire[p], i) \in Seq(Message)
      BY <2>0, RemoveAtAt
    <3>2. wire' \in [Party -> Seq(Message)] /\ faults' \in 0..MaxFaults
      BY <2>0, <2>4, <3>1, Bounds DEF Lose
    <3> QED BY <2>4, <3>2 DEF Lose, TypeOK, KeysFresh, ratchet
  <2>5. ASSUME NEW p \in Party, NEW i \in DOMAIN wire[p], NEW keep \in BOOLEAN,
               Decrypt(p, i, keep)
        PROVE  TypeOK' /\ KeysFresh'
    BY <2>5, DecryptKeepsTypes, DecryptKeepsFresh
  <2>6. CASE UNCHANGED vars
    BY <2>6 DEF vars, ratchet, TypeOK, KeysFresh
  <2> QED BY <2>1, <2>2, <2>3, <2>4, <2>5, <2>6 DEF Next
<1> QED BY <1>1, <1>2, PTL DEF Spec

\* Every variable keeps its shape: in particular no message number outgrows
\* what was sent, and the chain of the peer's current key is always there.
THEOREM TypeCorrect == Spec => []TypeOK
<1> QED BY KeysFreshHolds, PTL

-----------------------------------------------------------------------------
(* Message keys encrypt once *)

\* What was sent under the current key pair is under the current chain and no
\* newer than it; no two messages of a party share a key.
SentKeys == \A p \in Party :
  /\ ours[I] = 0 => sent[I] = <<>>
  /\ \A i \in DOMAIN sent[p] :
       /\ sent[p][i].pub[2] \in 0..ours[p] /\ (p = I => sent[p][i].pub[2] # 0)
       /\ Len(sent[p][i].chain) = Depth(p, sent[p][i].pub[2])
       /\ sent[p][i].pub[2] = ours[p] => sent[p][i].number <= sending[p].number
  /\ \A i, j \in DOMAIN sent[p] : i # j => MessageKey(sent[p][i]) # MessageKey(sent[p][j])

\* The chain names of different key pairs have different lengths.
LEMMA DepthsDiffer ==
  ASSUME NEW p \in Party, NEW k \in Nat, NEW j \in Nat,
         p = I => k # 0 /\ j # 0, Depth(p, k) = Depth(p, j)
  PROVE  k = j
BY Bounds DEF Depth, Party

LEMMA EncryptKeepsKeys ==
  ASSUME TypeOK, KeysFresh, SentKeys, NEW p \in Party, Encrypt(p)
  PROVE  SentKeys'
<1>0. /\ sent \in [Party -> Seq(Message)] /\ sending \in [Party -> Chain]
      /\ ours[p] \in 0..MaxKeys + 1 /\ I \in Party
      /\ sending[p].number \in 0..MaxSends
  BY ChainFields DEF TypeOK, Party
<1>1. PICK m : m = [from |-> p, pub |-> Pub(p), chain |-> sending[p].id,
                    number |-> sending[p].number + 1]
  OBVIOUS
<1>2. /\ sent' = [sent EXCEPT ![p] = Append(@, m)] /\ UNCHANGED ours
      /\ sending' = [sending EXCEPT ![p].number = @ + 1] /\ status[p] = "open"
  BY <1>1 DEF Encrypt
<1>3. /\ m.pub[2] = ours[p] /\ m.number = sending[p].number + 1
      /\ Len(m.chain) = Depth(p, ours[p]) /\ (p = I => ours[p] # 0)
  BY <1>1, <1>2 DEF Pub, Pair, KeysFresh
<1>4. m \in Message
  <2>1. m.number \in 1..MaxSends
    <3>1. sending[p].number <= Len(sent[p]) /\ Len(sent[p]) < MaxSends /\ Len(sent[p]) \in Nat
      BY <1>0, LenProperties DEF KeysFresh, Encrypt
    <3> QED BY <1>0, <1>3, <3>1, Bounds
  <2> QED BY <1>0, <1>1, <2>1, ChainFields DEF Message, Pub, Pair, Key
<1>5. /\ DOMAIN sent[p] = 1..Len(sent[p]) /\ Len(sent[p]) \in Nat
      /\ DOMAIN sent'[p] = 1..Len(sent[p]) + 1
      /\ \A i \in DOMAIN sent[p] : sent'[p][i] = sent[p][i]
      /\ sent'[p][Len(sent[p]) + 1] = m
      /\ sending'[p].number = sending[p].number + 1
      /\ \A q \in Party \ {p} : sent'[q] = sent[q] /\ sending'[q] = sending[q]
  <2>1. sent'[p] = Append(sent[p], m)
    BY <1>0, <1>2
  <2>2. sending'[p].number = sending[p].number + 1
    <3>1. sending[p] \in Chain
      BY <1>0
    <3>2. [sending[p] EXCEPT !.number = @ + 1].number = sending[p].number + 1
      BY <3>1 DEF Chain
    <3> QED BY <1>0, <1>2, <3>2
  <2>3. \A q \in Party \ {p} : sent'[q] = sent[q] /\ sending'[q] = sending[q]
    BY <1>0, <1>2
  <2> QED BY <1>0, <1>4, <2>1, <2>2, <2>3, AppendAt
<1>6. ASSUME NEW i \in DOMAIN sent[p]
      PROVE  MessageKey(sent[p][i]) # MessageKey(m)
  <2>1. sent[p][i] \in Message
    BY <1>0, ElementOfSeq, LenProperties
  <2>2. SUFFICES ASSUME sent[p][i].chain = m.chain, sent[p][i].number = m.number
                 PROVE  FALSE
    BY DEF MessageKey
  <2>3. /\ sent[p][i].pub[2] \in 0..ours[p] /\ (p = I => sent[p][i].pub[2] # 0)
        /\ Len(sent[p][i].chain) = Depth(p, sent[p][i].pub[2])
        /\ sent[p][i].pub[2] = ours[p] => sent[p][i].number <= sending[p].number
    BY DEF SentKeys
  <2>4. sent[p][i].pub[2] = ours[p]
    <3>1. /\ sent[p][i].pub[2] \in Nat /\ ours[p] \in Nat
          /\ Depth(p, sent[p][i].pub[2]) = Depth(p, ours[p])
      BY <1>0, <1>3, <2>2, <2>3
    <3>2. p = I => sent[p][i].pub[2] # 0 /\ ours[p] # 0
      BY <1>3, <2>3
    <3> QED BY <3>1, <3>2, DepthsDiffer
  <2> QED BY <1>0, <1>3, <2>2, <2>3, <2>4
<1>7. ASSUME NEW i \in DOMAIN sent'[p]
      PROVE  /\ sent'[p][i].pub[2] \in 0..ours[p] /\ (p = I => sent'[p][i].pub[2] # 0)
             /\ Len(sent'[p][i].chain) = Depth(p, sent'[p][i].pub[2])
             /\ sent'[p][i].pub[2] = ours[p] => sent'[p][i].number <= sending'[p].number
  <2>1. CASE i \in DOMAIN sent[p]
    <3>1. sent'[p][i] = sent[p][i] /\ sent[p][i] \in Message
      BY <1>0, <1>5, <2>1, ElementOfSeq
    <3>2. sent[p][i].number \in 1..MaxSends
      BY <3>1, MessageFields
    <3>3. sent[p][i].number <= sending[p].number => sent[p][i].number <= sending'[p].number
      BY <1>0, <1>5, <3>2
    <3> QED BY <2>1, <3>1, <3>3 DEF SentKeys
  <2>2. CASE i = Len(sent[p]) + 1
    <3>1. sent'[p][i] = m
      BY <1>5, <2>2
    <3>2. m.number <= sending'[p].number
      BY <1>0, <1>3, <1>5
    <3> QED BY <1>0, <1>3, <3>1, <3>2
  <2> QED BY <1>5, <2>1, <2>2
<1>8. \A i, j \in DOMAIN sent'[p] :
        i # j => MessageKey(sent'[p][i]) # MessageKey(sent'[p][j])
  <2> TAKE i, j \in DOMAIN sent'[p]
  <2>1. \A k \in DOMAIN sent'[p] :
          k \notin DOMAIN sent[p] => k = Len(sent[p]) + 1 /\ sent'[p][k] = m
    <3> TAKE k \in DOMAIN sent'[p]
    <3>1. k \in 1..Len(sent[p]) + 1 /\ Len(sent[p]) \in Nat
      BY <1>5
    <3>2. k \in 1..Len(sent[p]) \/ k = Len(sent[p]) + 1
      BY <3>1
    <3> QED BY <1>5, <3>2
  <2>2. CASE i \in DOMAIN sent[p] /\ j \in DOMAIN sent[p]
    BY <1>5, <2>2 DEF SentKeys
  <2>3. CASE i \in DOMAIN sent[p] /\ j \notin DOMAIN sent[p]
    BY <1>5, <1>6, <2>1, <2>3
  <2>4. CASE i \notin DOMAIN sent[p] /\ j \in DOMAIN sent[p]
    BY <1>5, <1>6, <2>1, <2>4
  <2>5. CASE i \notin DOMAIN sent[p] /\ j \notin DOMAIN sent[p]
    BY <2>1, <2>5
  <2> QED BY <2>2, <2>3, <2>4, <2>5
<1>9. ours[I] = 0 => sent'[I] = <<>>
  <2>1. CASE p = I
    BY <1>3, <2>1
  <2>2. CASE p # I
    BY <1>0, <1>5, <2>2 DEF SentKeys
  <2> QED BY <2>1, <2>2
<1>10. ASSUME NEW q \in Party
       PROVE  /\ \A i \in DOMAIN sent'[q] :
                   /\ sent'[q][i].pub[2] \in 0..ours[q] /\ (q = I => sent'[q][i].pub[2] # 0)
                   /\ Len(sent'[q][i].chain) = Depth(q, sent'[q][i].pub[2])
                   /\ sent'[q][i].pub[2] = ours[q] => sent'[q][i].number <= sending'[q].number
              /\ \A i, j \in DOMAIN sent'[q] :
                   i # j => MessageKey(sent'[q][i]) # MessageKey(sent'[q][j])
  <2>1. CASE q = p
    BY <1>7, <1>8, <2>1
  <2>2. CASE q # p
    BY <1>5, <2>2 DEF SentKeys
  <2> QED BY <2>1, <2>2
<1> QED BY <1>2, <1>9, <1>10 DEF SentKeys, MessageKey

\* A new key pair starts a chain nothing has been sent under.
LEMMA NewPairKeepsKeys ==
  ASSUME TypeOK, SentKeys, UNCHANGED sent, NEW p \in Party,
         \/ ours'[p] = ours[p] /\ sending'[p] = sending[p]
         \/ ours'[p] = ours[p] + 1,
         \A q \in Party \ {p} : ours'[q] = ours[q] /\ sending'[q] = sending[q]
  PROVE  SentKeys'
<1>0. \A q \in Party : ours[q] \in Nat
  BY DEF TypeOK
<1>1. I \in Party /\ (ours'[I] = 0 => ours[I] = 0)
  BY <1>0 DEF Party
<1>2. ASSUME NEW q \in Party, NEW i \in DOMAIN sent[q]
      PROVE  /\ sent[q][i].pub[2] \in 0..ours'[q]
             /\ sent[q][i].pub[2] = ours'[q] => sent[q][i].number <= sending'[q].number
  <2>1. /\ sent[q][i].pub[2] \in 0..ours[q]
        /\ sent[q][i].pub[2] = ours[q] => sent[q][i].number <= sending[q].number
    BY DEF SentKeys
  <2>2. CASE ours'[q] = ours[q] /\ sending'[q] = sending[q]
    BY <2>1, <2>2
  <2>3. CASE ours'[q] = ours[q] + 1
    BY <1>0, <2>1, <2>3
  <2> QED BY <2>2, <2>3
<1> QED BY <1>1, <1>2 DEF SentKeys, MessageKey

LEMMA SentKeysHold == Spec => []SentKeys
<1>1. Init => SentKeys
  BY DEF Init, SentKeys, Party
<1>2. TypeOK /\ KeysFresh /\ SentKeys /\ [Next]_vars => SentKeys'
  <2> SUFFICES ASSUME TypeOK, KeysFresh, SentKeys, [Next]_vars PROVE SentKeys'
    OBVIOUS
  <2>1. ASSUME Complete PROVE SentKeys'
    <3>1. /\ ours' = [ours EXCEPT ![I] = ours[I] + 1] /\ UNCHANGED sent
          /\ \E c : sending' = [sending EXCEPT ![I] = c]
      BY <2>1 DEF Complete, PreRatchet
    <3>2. I \in Party /\ ours \in [Party -> 0..MaxKeys + 1] /\ sending \in [Party -> Chain]
      BY DEF Party, TypeOK
    <3>3. /\ ours'[I] = ours[I] + 1
          /\ \A q \in Party \ {I} : ours'[q] = ours[q] /\ sending'[q] = sending[q]
      BY <3>1, <3>2
    <3> QED BY <3>1, <3>2, <3>3, NewPairKeepsKeys
  <2>2. ASSUME NEW p \in Party, NEW i \in DOMAIN wire[p], NEW keep \in BOOLEAN,
               Decrypt(p, i, keep)
        PROVE  SentKeys'
    <3>1. PICK s \in Prepared(p, wire[p][i]) : Uses(p, wire[p][i], s)
      BY <2>2, Decrypted
    <3>2. OnlyAt(p) /\ UNCHANGED sent
      BY <2>2, Decrypted
    <3>3. \/ ours'[p] = ours[p] /\ sending'[p] = sending[p]
          \/ ours'[p] = ours[p] + 1
      BY <3>1, PreparedCases DEF Uses, Same, Stepped
    <3> QED BY <3>2, <3>3, NewPairKeepsKeys DEF OnlyAt
  <2>3. UNCHANGED <<ours, sending, sent>> => SentKeys'
    BY DEF SentKeys, MessageKey
  <2> QED BY <2>1, <2>2, <2>3, EncryptKeepsKeys DEF Next, Discard, Lose, vars, ratchet
<1> QED BY <1>1, <1>2, KeysFreshHolds, PTL DEF Spec

\* No message key encrypts twice: a party's chains differ in depth from each
\* other, and the initiator's from the responder's, as it sends nothing under
\* the chain both started with.
THEOREM KeysEncryptOnce == Spec => []NoKeyReuse
<1>1. TypeOK /\ SentKeys => NoKeyReuse
  <2> SUFFICES ASSUME TypeOK, SentKeys, NEW p \in Party, NEW q \in Party,
                      NEW i \in DOMAIN sent[p], NEW j \in DOMAIN sent[q],
                      MessageKey(sent[p][i]) = MessageKey(sent[q][j])
               PROVE  p = q /\ i = j
    BY DEF NoKeyReuse
  <2>1. sent[p][i].chain = sent[q][j].chain
    BY DEF MessageKey
  <2>2. /\ sent[p][i].pub[2] \in 0..ours[p] /\ (p = I => sent[p][i].pub[2] # 0)
        /\ Len(sent[p][i].chain) = Depth(p, sent[p][i].pub[2])
        /\ sent[q][j].pub[2] \in 0..ours[q] /\ (q = I => sent[q][j].pub[2] # 0)
        /\ Len(sent[q][j].chain) = Depth(q, sent[q][j].pub[2])
        /\ ours[p] \in Nat /\ ours[q] \in Nat
    BY DEF SentKeys, TypeOK
  <2>3. p = q
    BY <2>1, <2>2, Bounds DEF Depth, Party
  <2> QED BY <2>3 DEF SentKeys
<1> QED BY <1>1, SentKeysHold, TypeCorrect, PTL

-----------------------------------------------------------------------------
(* Saved chains *)

\* There is room for one chain more once insert_receiving_chain has dropped one.
LEMMA SavedLeavesRoom ==
  ASSUME NEW chains, IsFiniteSet(DOMAIN chains),
         Cardinality(DOMAIN chains) <= MaxSavedChains, NEW kept \in Saved(chains)
  PROVE  /\ IsFiniteSet(DOMAIN kept) /\ Cardinality(DOMAIN kept) \in Nat
         /\ Cardinality(DOMAIN kept) + 1 <= MaxSavedChains
<1>0. Cardinality(DOMAIN chains) \in Nat
  BY FS_CardinalityType
<1>1. CASE Cardinality(DOMAIN chains) >= MaxSavedChains
  <2>1. PICK old \in DOMAIN chains : kept = [k \in DOMAIN chains \ {old} |-> chains[k]]
    BY <1>1 DEF Saved
  <2>2. DOMAIN kept = DOMAIN chains \ {old}
    BY <2>1
  <2>3. /\ IsFiniteSet(DOMAIN chains \ {old})
        /\ Cardinality(DOMAIN chains \ {old}) = Cardinality(DOMAIN chains) - 1
    BY FS_RemoveElement
  <2>4. Cardinality(DOMAIN chains) = MaxSavedChains
    BY <1>0, <1>1, Bounds
  <2>5. Cardinality(DOMAIN kept) = MaxSavedChains - 1
    BY <2>2, <2>3, <2>4
  <2> QED BY <2>2, <2>3, <2>5, Bounds
<1>2. CASE ~(Cardinality(DOMAIN chains) >= MaxSavedChains)
  <2>1. kept = chains
    BY <1>2 DEF Saved
  <2> QED BY <1>0, <1>2, <2>1, Bounds
<1> QED BY <1>1, <1>2

\* No more than MAX_SAVED_CHAINS receiving chains are ever kept, whatever key
\* pairs the peer's messages come with.
THEOREM ChainsWithinCap == Spec => []SavedChainsBounded
<1> DEFINE Counted == \A p \in Party : /\ IsFiniteSet(DOMAIN receiving[p])
                                       /\ Cardinality(DOMAIN receiving[p]) <= MaxSavedChains
<1>1. Init => Counted
  <2> SUFFICES ASSUME Init, NEW p \in Party
               PROVE  /\ IsFiniteSet(DOMAIN receiving[p])
                      /\ Cardinality(DOMAIN receiving[p]) <= MaxSavedChains
    OBVIOUS
  <2>1. DOMAIN receiving[p] = {Pair(Peer(p), 0)}
    BY DEF Init
  <2>2. IsFiniteSet({Pair(Peer(p), 0)}) /\ Cardinality({Pair(Peer(p), 0)}) = 1
    BY FS_Singleton
  <2> QED BY <2>1, <2>2, Bounds
<1>2. TypeOK /\ Counted /\ [Next]_vars => Counted'
  <2> SUFFICES ASSUME TypeOK, Counted, [Next]_vars, NEW q \in Party
               PROVE  /\ IsFiniteSet(DOMAIN receiving'[q])
                      /\ Cardinality(DOMAIN receiving'[q]) <= MaxSavedChains
    OBVIOUS
  <2>0. IsFiniteSet(DOMAIN receiving[q]) /\ Cardinality(DOMAIN receiving[q]) <= MaxSavedChains
    OBVIOUS
  <2>1. ASSUME NEW p \in Party, NEW i \in DOMAIN wire[p], NEW keep \in BOOLEAN,
               Decrypt(p, i, keep)
        PROVE  /\ IsFiniteSet(DOMAIN receiving'[q])
               /\ Cardinality(DOMAIN receiving'[q]) <= MaxSavedChains
    <3>1. CASE q # p
      <4>1. receiving'[q] = receiving[q]
        BY <2>1, <3>1, Decrypted DEF OnlyAt
      <4> QED BY <2>0, <4>1
    <3>2. CASE q = p
      <4>1. PICK m : m = wire[p][i]
        OBVIOUS
      <4>2. PICK s \in Prepared(p, m) : Uses(p, m, s)
        BY <2>1, <4>1, Decrypted
      <4>3. DOMAIN receiving'[p] = DOMAIN s.chains
        BY <4>2 DEF Uses
      <4>4. CASE theirs[p] = m.pub
        <5>1. s.chains = receiving[p]
          BY <4>4 DEF Prepared
        <5> QED BY <2>0, <3>2, <4>3, <5>1
      <4>5. CASE theirs[p] # m.pub
        <5>1. PICK kept \in Saved(receiving[p]) : s = RatchetStep(p, m.pub, kept)
          BY <4>5 DEF Prepared
        <5>2. DOMAIN s.chains = DOMAIN kept \cup {m.pub}
          BY <5>1 DEF RatchetStep
        <5>3. /\ IsFiniteSet(DOMAIN kept) /\ Cardinality(DOMAIN kept) \in Nat
              /\ Cardinality(DOMAIN kept) + 1 <= MaxSavedChains
          BY <2>0, <3>2, SavedLeavesRoom
        <5>4. /\ IsFiniteSet(DOMAIN kept \cup {m.pub})
              /\ Cardinality(DOMAIN kept \cup {m.pub}) =
                   IF m.pub \in DOMAIN kept THEN Cardinality(DOMAIN kept)
                                            ELSE Cardinality(DOMAIN kept) + 1
          BY <5>3, FS_AddElement
        <5>5. Cardinality(DOMAIN kept \cup {m.pub}) <= MaxSavedChains
          BY <5>3, <5>4, Bounds
        <5> QED BY <3>2, <4>3, <5>2, <5>4, <5>5
      <4> QED BY <4>4, <4>5
    <3> QED BY <3>1, <3>2
  <2>2. UNCHANGED receiving => /\ IsFiniteSet(DOMAIN receiving'[q])
                               /\ Cardinality(DOMAIN receiving'[q]) <= MaxSavedChains
    BY <2>0
  <2> QED BY <2>1, <2>2 DEF Next, Complete, Encrypt, Discard, Lose, vars, ratchet
<1>3. Counted => SavedChainsBounded
  BY DEF SavedChainsBounded
<1> QED BY <1>1, <1>2, <1>3, TypeCorrect, PTL DEF Spec

-----------------------------------------------------------------------------
(* Message keys decrypt once *)

\* A chain no longer has the key of this number, nor can it get it back.
Used(c, n) == n <= c.number /\ n \notin c.skipped

\* Skipped keys are of numbers behind the chain, no chain is younger than the
\* root key, and what was received is used up in the chain it came under.
ChainsUsed == \A p \in Party :
  /\ \A k \in DOMAIN receiving[p] :
       /\ receiving[p][k].skipped \subseteq 1..receiving[p][k].number
       /\ Len(receiving[p][k].id) <= Len(root[p])
  /\ \A i \in DOMAIN received[p] : LET m == received[p][i] IN
       /\ Len(m.chain) <= Len(root[p])
       /\ m.pub \in DOMAIN receiving[p] /\ receiving[p][m.pub].id = m.chain =>
            Used(receiving[p][m.pub], m.number)

LEMMA UsedHasNoKey ==
  ASSUME NEW c \in Chain, NEW n \in Nat, Used(c, n)
  PROVE  ~HasKey(c, n)
BY ChainFields DEF Used, HasKey

\* Taking a key uses it up and gives none back.
LEMMA TakeKeyUses ==
  ASSUME NEW c \in Chain, NEW n \in 1..MaxSends, c.skipped \subseteq 1..c.number
  PROVE  /\ TakeKey(c, n).skipped \subseteq 1..TakeKey(c, n).number
         /\ Used(TakeKey(c, n), n)
         /\ \A x \in Nat : Used(c, x) => Used(TakeKey(c, n), x)
<1>0. c.number \in Nat /\ n \in Nat /\ n > 0 /\ c.skipped \subseteq Nat
  BY ChainFields, Bounds
<1>1. CASE n > c.number
  <2>1. /\ TakeKey(c, n).number = n
        /\ TakeKey(c, n).skipped = c.skipped \cup (c.number + 1)..(n - 1)
    BY <1>1, TakeKeyTypes
  <2> QED BY <1>0, <1>1, <2>1 DEF Used
<1>2. CASE ~(n > c.number)
  <2>1. TakeKey(c, n).number = c.number /\ TakeKey(c, n).skipped = c.skipped \ {n}
    BY <1>2, TakeKeyTypes
  <2> QED BY <1>0, <1>2, <2>1 DEF Used
<1> QED BY <1>1, <1>2

\* The chain a message is looked up in is the old one under its key pair, or
\* a new one, younger than whatever was received before.
LEMMA LookedUp ==
  ASSUME TypeOK, ChainsUsed, NEW p \in Party, NEW m \in Message, NEW s \in Prepared(p, m),
         ours[p] < MaxKeys \/ theirs[p] = m.pub
  PROVE  /\ Len(root[p]) \in Nat /\ Len(s.root) \in Nat /\ Len(root[p]) <= Len(s.root)
         /\ \A k \in DOMAIN s.chains : /\ s.chains[k].skipped \subseteq 1..s.chains[k].number
                                       /\ Len(s.chains[k].id) <= Len(s.root)
         /\ \A k \in DOMAIN s.chains \ {m.pub} :
              k \in DOMAIN receiving[p] /\ s.chains[k] = receiving[p][k]
         /\ \/ m.pub \in DOMAIN receiving[p] /\ s.chains[m.pub] = receiving[p][m.pub]
            \/ Len(s.chains[m.pub].id) > Len(root[p]) /\ s.chains[m.pub].number = 0
<1>0. /\ root[p] \in Root /\ Len(root[p]) \in Nat /\ m.pub \in Key
      /\ theirs[p] \in DOMAIN receiving[p]
      /\ \A k \in DOMAIN receiving[p] : receiving[p][k] \in Chain
  BY LenProperties, MessageFields DEF TypeOK, Root
<1>1. CASE Same(p, m, s)
  BY <1>0, <1>1 DEF Same, ChainsUsed
<1>2. CASE Stepped(p, m, s)
  <2>1. PICK rk : rk = Kdf(root[p], DH(Pub(p), m.pub))
    OBVIOUS
  <2>2. /\ Pub(p) \in Key /\ Pair(p, ours[p] + 1) \in Key /\ rk \in Root /\ s.root \in Root
    BY <1>2, <2>1, PreparedTypes
  <2>3. Len(rk) = Len(root[p]) + 1
    BY <1>0, <2>1, <2>2, KdfType
  <2>4. Len(s.root) = Len(rk) + 1
    BY <1>0, <1>2, <2>1, <2>2, KdfType DEF Stepped
  <2>5. /\ s.chains[m.pub] = NewChain(rk) /\ s.chains[m.pub].id = rk
        /\ s.chains[m.pub].number = 0 /\ s.chains[m.pub].skipped = {}
    BY <1>2, <2>1, <2>2, NewChainType DEF Stepped
  <2>6. ASSUME NEW k \in DOMAIN s.chains \ {m.pub}
        PROVE  /\ k \in DOMAIN receiving[p] /\ s.chains[k] = receiving[p][k]
               /\ s.chains[k].skipped \subseteq 1..s.chains[k].number
               /\ Len(s.chains[k].id) <= Len(s.root)
    <3>1. k \in DOMAIN receiving[p] /\ s.chains[k] = receiving[p][k]
      BY <1>2 DEF Stepped
    <3>2. /\ receiving[p][k].skipped \subseteq 1..receiving[p][k].number
          /\ Len(receiving[p][k].id) <= Len(root[p])
      BY <3>1 DEF ChainsUsed
    <3>3. Len(receiving[p][k].id) \in Nat
      BY <1>0, <3>1, ChainFields, LenProperties DEF Root
    <3> QED BY <1>0, <2>3, <2>4, <3>1, <3>2, <3>3
  <2>7. /\ s.chains[m.pub].skipped \subseteq 1..s.chains[m.pub].number
        /\ Len(s.chains[m.pub].id) <= Len(s.root) /\ Len(s.chains[m.pub].id) > Len(root[p])
        /\ Len(s.root) \in Nat /\ Len(root[p]) <= Len(s.root)
    BY <1>0, <2>3, <2>4, <2>5
  <2> QED BY <1>0, <2>5, <2>6, <2>7
<1> QED BY <1>1, <1>2, PreparedCases

LEMMA DecryptKeepsUsed ==
  ASSUME TypeOK, ChainsUsed, NoReplay, NEW p \in Party, NEW i \in DOMAIN wire[p],
         NEW keep \in BOOLEAN, Decrypt(p, i, keep)
  PROVE  ChainsUsed' /\ NoReplay'
<1>0. PICK m : m = wire[p][i]
  OBVIOUS
<1>1. /\ m \in Message /\ OnlyAt(p)
      /\ ours[p] < MaxKeys \/ theirs[p] = m.pub
  BY <1>0, Decrypted
<1>2. PICK s \in Prepared(p, m) : Uses(p, m, s)
  BY <1>0, Decrypted
<1>3. PICK c : c = s.chains[m.pub]
  OBVIOUS
<1>4. /\ c \in Chain /\ m.pub \in DOMAIN s.chains
      /\ \A k \in DOMAIN s.chains : s.chains[k] \in Chain
  BY <1>1, <1>3, PreparedTypes
<1>5. m.number \in 1..MaxSends /\ m.number \in Nat /\ m.chain \in Root /\ m.pub \in Key
  BY <1>1, MessageFields, Bounds
<1>6. /\ received[p] \in Seq(Message) /\ Len(received[p]) \in Nat
      /\ DOMAIN received[p] = 1..Len(received[p])
      /\ \A j \in DOMAIN received[p] : received[p][j] \in Message
  BY ElementOfSeq, LenProperties DEF TypeOK
<1>7. /\ Len(root[p]) \in Nat /\ Len(s.root) \in Nat /\ Len(root[p]) <= Len(s.root)
      /\ \A k \in DOMAIN s.chains : /\ s.chains[k].skipped \subseteq 1..s.chains[k].number
                                    /\ Len(s.chains[k].id) <= Len(s.root)
      /\ \A k \in DOMAIN s.chains \ {m.pub} :
           k \in DOMAIN receiving[p] /\ s.chains[k] = receiving[p][k]
      /\ \/ m.pub \in DOMAIN receiving[p] /\ c = receiving[p][m.pub]
         \/ Len(c.id) > Len(root[p])
  BY <1>1, <1>3, LookedUp
<1>8. /\ root'[p] = s.root /\ DOMAIN receiving'[p] = DOMAIN s.chains
      /\ \A k \in DOMAIN s.chains \ {m.pub} : receiving'[p][k] = s.chains[k]
      /\ receiving'[p][m.pub] = IF HasKey(c, m.number) THEN TakeKey(c, m.number) ELSE c
      /\ received'[p] = IF HasKey(c, m.number) /\ c.id = m.chain
                          THEN Append(received[p], m) ELSE received[p]
  BY <1>2, <1>3 DEF Uses
<1>9. PICK d : d = receiving'[p][m.pub]
  OBVIOUS
<1>10. /\ d.skipped \subseteq 1..d.number /\ d.id = c.id /\ Len(d.id) <= Len(s.root)
       /\ \A x \in Nat : Used(c, x) => Used(d, x)
       /\ HasKey(c, m.number) => Used(d, m.number)
  <2>1. c.skipped \subseteq 1..c.number /\ Len(c.id) <= Len(s.root)
    BY <1>3, <1>4, <1>7
  <2>2. CASE HasKey(c, m.number)
    <3>1. d = TakeKey(c, m.number)
      BY <1>8, <1>9, <2>2
    <3>2. d.id = c.id
      BY <1>4, <1>5, <3>1, TakeKeyTypes
    <3>3. /\ d.skipped \subseteq 1..d.number /\ Used(d, m.number)
          /\ \A x \in Nat : Used(c, x) => Used(d, x)
      BY <1>4, <1>5, <2>1, <3>1, TakeKeyUses
    <3> QED BY <2>1, <3>2, <3>3
  <2>3. CASE ~HasKey(c, m.number)
    <3>1. d = c
      BY <1>8, <1>9, <2>3
    <3> QED BY <2>1, <2>3, <3>1
  <2> QED BY <2>2, <2>3
\* What has been received before is used up still.
<1>11. ASSUME NEW j \in DOMAIN received[p]
       PROVE  LET x == received[p][j] IN
              /\ Len(x.chain) <= Len(s.root)
              /\ x.pub \in DOMAIN receiving'[p] /\ receiving'[p][x.pub].id = x.chain =>
                   Used(receiving'[p][x.pub], x.number)
  <2>1. PICK x : x = received[p][j]
    OBVIOUS
  <2>2. x \in Message /\ x.number \in Nat /\ Len(x.chain) \in Nat /\ Len(x.chain) <= Len(root[p])
    BY <1>6, <2>1, MessageFields, LenProperties DEF ChainsUsed, Root
  <2>3. x.pub \in DOMAIN receiving[p] /\ receiving[p][x.pub].id = x.chain =>
          Used(receiving[p][x.pub], x.number)
    BY <2>1 DEF ChainsUsed
  <2>4. ASSUME x.pub \in DOMAIN receiving'[p], receiving'[p][x.pub].id = x.chain
        PROVE  Used(receiving'[p][x.pub], x.number)
    <3>1. CASE x.pub = m.pub
      <4>1. c.id = x.chain /\ ~(Len(c.id) > Len(root[p]))
        BY <1>9, <1>10, <2>2, <2>4, <3>1, <1>7
      <4>2. Used(c, x.number)
        BY <1>7, <2>3, <3>1, <4>1
      <4> QED BY <1>9, <1>10, <2>2, <3>1, <4>2
    <3>2. CASE x.pub # m.pub
      BY <1>7, <1>8, <2>3, <2>4, <3>2
    <3> QED BY <3>1, <3>2
  <2>5. Len(x.chain) <= Len(s.root)
    BY <1>7, <2>2
  <2>6. /\ Len(x.chain) <= Len(s.root)
        /\ x.pub \in DOMAIN receiving'[p] /\ receiving'[p][x.pub].id = x.chain =>
             Used(receiving'[p][x.pub], x.number)
    BY <2>4, <2>5
  <2> QED BY <2>1, <2>6
\* What is received now was not.
<1>12. ASSUME HasKey(c, m.number), c.id = m.chain, NEW j \in DOMAIN received[p]
       PROVE  received[p][j] # m
  <2>1. SUFFICES ASSUME received[p][j] = m PROVE FALSE
    OBVIOUS
  <2>2. Len(m.chain) <= Len(root[p]) /\ Len(m.chain) \in Nat
    BY <1>5, <2>1, LenProperties DEF ChainsUsed, Root
  <2>3. m.pub \in DOMAIN receiving[p] /\ c = receiving[p][m.pub]
    BY <1>7, <1>12, <2>2
  <2>4. Used(c, m.number)
    BY <1>12, <2>1, <2>3 DEF ChainsUsed
  <2> QED BY <1>4, <1>5, <1>12, <2>4, UsedHasNoKey
<1>13. ASSUME NEW k \in DOMAIN receiving'[p]
       PROVE  /\ receiving'[p][k].skipped \subseteq 1..receiving'[p][k].number
              /\ Len(receiving'[p][k].id) <= Len(s.root)
  <2>1. CASE k = m.pub
    BY <1>9, <1>10, <2>1
  <2>2. CASE k # m.pub
    BY <1>7, <1>8, <2>2
  <2> QED BY <2>1, <2>2
<1>14. CASE HasKey(c, m.number) /\ c.id = m.chain
  <2>1. /\ DOMAIN received'[p] = 1..Len(received[p]) + 1
        /\ \A j \in DOMAIN received[p] : received'[p][j] = received[p][j]
        /\ received'[p][Len(received[p]) + 1] = m
    BY <1>1, <1>6, <1>8, <1>14, AppendAt
  <2>2. \A j \in DOMAIN received'[p] :
          j \notin DOMAIN received[p] => j = Len(received[p]) + 1 /\ received'[p][j] = m
    <3> TAKE j \in DOMAIN received'[p]
    <3>1. j \in 1..Len(received[p]) \/ j = Len(received[p]) + 1
      BY <1>6, <2>1
    <3> QED BY <1>6, <2>1, <3>1
  <2>3. Len(m.chain) <= Len(s.root) /\ Used(d, m.number)
    BY <1>10, <1>14
  <2>4. \A j \in DOMAIN received'[p] : LET x == received'[p][j] IN
          /\ Len(x.chain) <= Len(s.root)
          /\ x.pub \in DOMAIN receiving'[p] /\ receiving'[p][x.pub].id = x.chain =>
               Used(receiving'[p][x.pub], x.number)
    BY <1>9, <1>11, <2>1, <2>2, <2>3
  <2>5. ChainsUsed'
    <3>1. \A q \in Party \ {p} : /\ root'[q] = root[q] /\ receiving'[q] = receiving[q]
                                 /\ received'[q] = received[q]
      BY <1>1 DEF OnlyAt
    <3>2. ASSUME NEW q \in Party
          PROVE  /\ \A k \in DOMAIN receiving'[q] :
                      /\ receiving'[q][k].skipped \subseteq 1..receiving'[q][k].number
                      /\ Len(receiving'[q][k].id) <= Len(root'[q])
                 /\ \A j \in DOMAIN received'[q] : LET x == received'[q][j] IN
                      /\ Len(x.chain) <= Len(root'[q])
                      /\ x.pub \in DOMAIN receiving'[q] /\ receiving'[q][x.pub].id = x.chain =>
                           Used(receiving'[q][x.pub], x.number)
      <4>1. CASE q = p
        BY <1>8, <1>13, <2>4, <4>1
      <4>2. CASE q # p
        BY <3>1, <4>2 DEF ChainsUsed
      <4> QED BY <4>1, <4>2
    <3> QED BY <3>2 DEF ChainsUsed, Used
  <2>6. IsInjective(received'[p])
    <3>1. IsInjective(received[p])
      BY DEF NoReplay
    <3> QED BY <1>12, <1>14, <2>1, <2>2, <3>1 DEF IsInjective
  <2>7. NoReplay'
    BY <1>1, <2>6 DEF NoReplay, OnlyAt
  <2> QED BY <2>5, <2>7
<1>15. CASE ~(HasKey(c, m.number) /\ c.id = m.chain)
  <2>1. received'[p] = received[p]
    BY <1>8, <1>15
  <2>2. ChainsUsed'
    <3>1. \A q \in Party \ {p} : /\ root'[q] = root[q] /\ receiving'[q] = receiving[q]
                                 /\ received'[q] = received[q]
      BY <1>1 DEF OnlyAt
    <3> QED BY <1>8, <1>11, <1>13, <2>1, <3>1 DEF ChainsUsed, Used
  <2>3. NoReplay'
    BY <1>1, <2>1 DEF NoReplay, OnlyAt
  <2> QED BY <2>2, <2>3
<1> QED BY <1>14, <1>15

LEMMA ChainsUsedHolds == Spec => [](ChainsUsed /\ NoReplay)
<1>1. Init => ChainsUsed /\ NoReplay
  <2> SUFFICES ASSUME Init PROVE ChainsUsed /\ NoReplay
    OBVIOUS
  <2>1. \A p \in Party : /\ received[p] = <<>> /\ DOMAIN <<>> = {}
                         /\ root[p] = InitialRoot
                         /\ \A k \in DOMAIN receiving[p] : receiving[p][k] = NewChain(InitialRoot)
    BY DEF Init
  <2>2. NewChain(InitialRoot).skipped = {} /\ Len(NewChain(InitialRoot).id) <= Len(InitialRoot)
    <3>1. /\ NewChain(InitialRoot).id = InitialRoot /\ NewChain(InitialRoot).skipped = {}
          /\ Len(InitialRoot) = 1
      BY InitialRootType, NewChainType
    <3> QED BY <3>1
  <2> QED BY <2>1, <2>2 DEF ChainsUsed, NoReplay, IsInjective
<1>2. TypeOK /\ KeysFresh /\ ChainsUsed /\ NoReplay /\ [Next]_vars => ChainsUsed' /\ NoReplay'
  <2> SUFFICES ASSUME TypeOK, KeysFresh, ChainsUsed, NoReplay, [Next]_vars
               PROVE  ChainsUsed' /\ NoReplay'
    OBVIOUS
  <2>1. ASSUME Complete PROVE ChainsUsed' /\ NoReplay'
    <3>1. /\ root' = [root EXCEPT ![I] = Kdf(root[I], DH(Pair(I, ours[I] + 1), theirs[I]))]
          /\ UNCHANGED <<receiving, received>>
      BY <2>1 DEF Complete, PreRatchet
    <3>2. I \in Party /\ root[I] \in Root /\ theirs[I] \in Key /\ Pair(I, ours[I] + 1) \in Key
      <4>1. ours[I] = 0 /\ I \in Party
        BY <2>1 DEF Complete, KeysFresh, Party
      <4>2. Pair(I, ours[I] + 1) \in Key
        BY <4>1, Bounds DEF Pair, Key
      <4> QED BY <4>1, <4>2 DEF TypeOK
    <3>3. Len(root'[I]) = Len(root[I]) + 1 /\ Len(root[I]) \in Nat
      BY <3>1, <3>2, KdfType DEF TypeOK
    <3>4. \A q \in Party \ {I} : root'[q] = root[q]
      BY <3>1 DEF TypeOK
    <3>5. ASSUME NEW q \in Party, NEW x \in Nat, x <= Len(root[q]) PROVE x <= Len(root'[q])
      <4>1. CASE q = I
        BY <3>3, <3>5, <4>1
      <4>2. CASE q # I
        BY <3>4, <3>5, <4>2
      <4> QED BY <4>1, <4>2
    <3>6. ASSUME NEW q \in Party
          PROVE  /\ \A k \in DOMAIN receiving[q] : Len(receiving[q][k].id) \in Nat
                 /\ \A j \in DOMAIN received[q] : Len(received[q][j].chain) \in Nat
      <4>1. /\ \A k \in DOMAIN receiving[q] : receiving[q][k] \in Chain
            /\ \A j \in DOMAIN received[q] : received[q][j] \in Message
        BY ElementOfSeq, LenProperties DEF TypeOK
      <4> QED BY <4>1, ChainFields, MessageFields, LenProperties DEF Root
    <3>7. ChainsUsed'
      BY <3>1, <3>5, <3>6 DEF ChainsUsed, Used
    <3> QED BY <3>1, <3>7 DEF NoReplay
  <2>2. UNCHANGED <<root, receiving, received>> => ChainsUsed' /\ NoReplay'
    BY DEF ChainsUsed, NoReplay, Used
  <2> QED
    BY <2>1, <2>2, DecryptKeepsUsed DEF Next, Encrypt, Discard, Lose, vars, ratchet
<1> QED BY <1>1, <1>2, KeysFreshHolds, PTL DEF Spec

\* A message is accepted once, however often it is delivered and in whatever
\* order: its key is used up in the chain it came under, and should that chain be
\* dropped, a later one under the same key pair is derived from a younger root.
THEOREM ReplaysRejected == Spec => []NoReplay
<1> QED BY ChainsUsedHolds, PTL

\* The receiver cannot derive the key of a message it has decrypted again.
THEOREM UsedKeysAreGone == Spec => []ForwardSecrecy
<1>1. TypeOK /\ ChainsUsed => ForwardSecrecy
  <2> SUFFICES ASSUME TypeOK, ChainsUsed, NEW p \in Party, NEW i \in DOMAIN received[p],
                      received[p][i].pub \in DOMAIN receiving[p],
                      receiving[p][received[p][i].pub].id = received[p][i].chain
               PROVE  ~HasKey(receiving[p][received[p][i].pub], received[p][i].number)
    BY DEF ForwardSecrecy
  <2>1. received[p][i] \in Message
    BY ElementOfSeq, LenProperties DEF TypeOK
  <2>2. /\ receiving[p][received[p][i].pub] \in Chain /\ received[p][i].number \in Nat
        /\ Used(receiving[p][received[p][i].pub], received[p][i].number)
    BY <2>1, MessageFields DEF TypeOK, ChainsUsed
  <2> QED BY <2>2, UsedHasNoKey
<1> QED BY <1>1, ChainsUsedHolds, TypeCorrect, PTL

-----------------------------------------------------------------------------
(* Two ends in step, whatever the transport does *)

\* One end is a key pair ahead, and has derived one root key more, from it and
\* the pair of the other, which it knows; the other knows its pair before.
Leads(p) == LET q == Peer(p) IN
  /\ ours[p] > 0 /\ theirs[p] = Pub(q) /\ theirs[q] = Pair(p, ours[p] - 1)
  /\ root[p] = Kdf(root[q], DH(Pub(p), Pub(q)))
  /\ receiving[p][Pub(q)].id = root[q]

\* Until the initiator's session is open the two ends are as they were made.
Opening ==
  /\ ours[R] = 0 /\ wire[R] = <<>>
  /\ \A p \in Party : /\ root[p] = InitialRoot /\ theirs[p] = Pair(Peer(p), 0)
                      /\ receiving[p][Pair(Peer(p), 0)].id = InitialRoot

TakeTurns ==
  IF ours[I] = 0 THEN Opening
                 ELSE (\A p \in Party : status[p] # "closed") => \E p \in Party : Leads(p)

\* A message on its way to p comes under the key pair p reads, in the chain p
\* reads it with; under the next, in the chain p will derive for it; or under an
\* older one, in a chain no younger than p's root key.
Known(p, m) ==
  /\ m.from = Peer(p) /\ m.pub[1] = Peer(p)
  /\ m.pub[2] <= ours[Peer(p)] /\ m.pub[2] <= theirs[p][2] + 1
  /\ m.pub[2] = theirs[p][2] => m.chain = receiving[p][theirs[p]].id
  /\ m.pub[2] > theirs[p][2] => m.chain = Kdf(root[p], DH(Pub(p), m.pub))
  /\ m.pub[2] < theirs[p][2] => Len(m.chain) <= Len(root[p])

\* The key pair p reads was learnt from a message, p decrypted none of a later
\* one, and the keys gone from the chain it reads have decrypted their messages.
Heard(p) == LET c == receiving[p][theirs[p]] IN
  /\ theirs[p][1] = Peer(p)
  /\ theirs[p][2] = 0 \/ \E j \in DOMAIN received[p] : received[p][j].pub = theirs[p]
  /\ \A j \in DOMAIN received[p] :
       /\ received[p][j].pub[2] <= theirs[p][2]
       /\ received[p][j].pub = theirs[p] => received[p][j].chain = c.id
  /\ \A n \in 1..c.number : n \notin c.skipped =>
       \E j \in DOMAIN received[p] :
         received[p][j] = [from |-> Peer(p), pub |-> theirs[p], chain |-> c.id, number |-> n]

InStep ==
  /\ TakeTurns
  /\ \A p \in Party : status[p] # "closed" =>
       Heard(p) /\ \A i \in DOMAIN wire[p] : Known(p, wire[p][i])

\* Losing or dropping a message.
LEMMA DropKeepsInStep ==
  ASSUME TypeOK, InStep, NEW p \in Party, NEW w,
         wire' = [wire EXCEPT ![p] = w],
         \/ \E i \in DOMAIN wire[p] : w = RemoveAt(wire[p], i)
         \/ wire[p] # <<>> /\ w = Tail(wire[p]),
         UNCHANGED <<status, root, receiving, ours, theirs, received>>
  PROVE  InStep'
<1>0. /\ wire[p] \in Seq(Message) /\ Len(wire[p]) \in Nat /\ DOMAIN wire[p] = 1..Len(wire[p])
  BY LenProperties DEF TypeOK
<1>1. /\ \A j \in DOMAIN w : \E k \in DOMAIN wire[p] : w[j] = wire[p][k]
      /\ wire[p] # <<>>
  <2>1. ASSUME NEW i \in DOMAIN wire[p], w = RemoveAt(wire[p], i)
        PROVE  /\ \A j \in DOMAIN w : \E k \in DOMAIN wire[p] : w[j] = wire[p][k]
               /\ wire[p] # <<>>
    <3>1. /\ DOMAIN w = 1..Len(wire[p]) - 1 /\ i \in 1..Len(wire[p])
          /\ \A j \in 1..Len(wire[p]) - 1 : w[j] = wire[p][IF j < i THEN j ELSE j + 1]
      BY <1>0, <2>1, RemoveAtAt
    <3>2. ASSUME NEW j \in DOMAIN w PROVE \E k \in DOMAIN wire[p] : w[j] = wire[p][k]
      <4>0. j \in 1..Len(wire[p]) - 1
        BY <3>1, <3>2
      <4>1. PICK k : k = IF j < i THEN j ELSE j + 1
        OBVIOUS
      <4>2. k \in 1..Len(wire[p])
        BY <1>0, <3>1, <4>0, <4>1
      <4>3. w[j] = wire[p][k]
        BY <3>1, <4>0, <4>1
      <4> QED BY <1>0, <4>2, <4>3
    <3>3. wire[p] # <<>>
      BY <1>0, <3>1, EmptySeq
    <3> QED BY <3>2, <3>3
  <2>2. CASE wire[p] # <<>> /\ w = Tail(wire[p])
    <3>1. /\ w \in Seq(Message) /\ Len(w) = Len(wire[p]) - 1
          /\ \A j \in 1..Len(w) : w[j] = wire[p][j + 1]
      BY <1>0, <2>2, HeadTailProperties
    <3>2. DOMAIN w = 1..Len(wire[p]) - 1
      BY <3>1, LenProperties
    <3>3. \A j \in DOMAIN w : j + 1 \in DOMAIN wire[p] /\ w[j] = wire[p][j + 1]
      BY <1>0, <3>1, <3>2
    <3> QED BY <2>2, <3>3
  <2> QED BY <2>1, <2>2
<1>2. wire'[p] = w /\ \A q \in Party \ {p} : wire'[q] = wire[q]
  BY DEF TypeOK
<1>3. TakeTurns'
  <2>1. CASE ours[I] = 0
    <3>1. Opening /\ R \in Party
      BY <2>1 DEF InStep, TakeTurns, Party
    <3>2. wire'[R] = <<>>
      BY <1>1, <1>2, <3>1 DEF Opening
    <3> QED BY <2>1, <3>1, <3>2 DEF TakeTurns, Opening
  <2>2. CASE ours[I] # 0
    BY <2>2 DEF InStep, TakeTurns, Leads, Pub
  <2> QED BY <2>1, <2>2
<1>4. ASSUME NEW q \in Party, status[q] # "closed"
      PROVE  \A i \in DOMAIN wire'[q] : Known(q, wire'[q][i])
  <2>1. \A i \in DOMAIN wire[q] : Known(q, wire[q][i])
    BY <1>4 DEF InStep
  <2>2. CASE q = p
    <3> TAKE i \in DOMAIN wire'[q]
    <3>1. PICK k \in DOMAIN wire[p] : wire'[p][i] = wire[p][k]
      BY <1>1, <1>2, <2>2
    <3> QED BY <2>1, <2>2, <3>1
  <2>3. CASE q # p
    BY <1>2, <2>1, <2>3
  <2> QED BY <2>2, <2>3
<1>5. ASSUME NEW q \in Party, status'[q] # "closed"
      PROVE  Heard(q)' /\ \A i \in DOMAIN wire'[q] : Known(q, wire[q][i])'
  <2>1. Heard(q)'
    BY <1>5 DEF InStep, Heard
  <2> QED BY <1>4, <1>5, <2>1 DEF Known, Pub
<1> QED BY <1>3, <1>5 DEF InStep

\* What a party sends is of its last key pair, which the other end reads or can
\* derive the chain of.
LEMMA EncryptKeepsInStep ==
  ASSUME TypeOK, KeysFresh, InStep, NEW p \in Party, Encrypt(p)
  PROVE  InStep'
<1>0. PICK q : q = Peer(p)
  OBVIOUS
<1>1. /\ q \in Party /\ q # p /\ Peer(q) = p /\ I \in Party /\ R \in Party
      /\ \A r \in Party : r = p \/ r = q
  BY <1>0, Peers DEF Party
<1>2. PICK m : m = [from |-> p, pub |-> Pub(p), chain |-> sending[p].id,
                    number |-> sending[p].number + 1]
  OBVIOUS
<1>3. /\ wire' = [wire EXCEPT ![q] = Append(@, m)] /\ status[p] = "open"
      /\ UNCHANGED <<status, root, receiving, ours, theirs, received>>
  BY <1>0, <1>2 DEF Encrypt
<1>4. /\ wire \in [Party -> Seq(Message)] /\ Len(wire[q]) \in Nat
      /\ DOMAIN wire[q] = 1..Len(wire[q]) /\ ours[p] \in Nat /\ wire'[p] = wire[p]
      /\ wire'[q] = Append(wire[q], m)
  BY <1>1, <1>3, LenProperties DEF TypeOK
<1>5. m \in Message
  <2>1. /\ sending[p] \in Chain /\ ours[p] \in 0..MaxKeys + 1 /\ Len(sent[p]) \in Nat
        /\ sending[p].number <= Len(sent[p]) /\ Len(sent[p]) < MaxSends
    BY LenProperties DEF TypeOK, KeysFresh, Encrypt
  <2>2. sending[p].id \in Root /\ sending[p].number \in Nat
    BY <2>1, ChainFields, Bounds
  <2>3. sending[p].number + 1 \in 1..MaxSends
    BY <2>1, <2>2, Bounds
  <2> QED BY <1>2, <2>1, <2>2, <2>3 DEF Message, Pub, Pair, Key
<1>6. /\ DOMAIN wire'[q] = 1..Len(wire[q]) + 1
      /\ \A i \in DOMAIN wire[q] : wire'[q][i] = wire[q][i]
      /\ wire'[q][Len(wire[q]) + 1] = m
  BY <1>1, <1>4, <1>5, AppendAt
<1>7. /\ m.from = p /\ m.pub = Pair(p, ours[p]) /\ m.pub[1] = p /\ m.pub[2] = ours[p]
      /\ m.chain = root[p]
  BY <1>2 DEF Pub, Pair, KeysFresh
<1>8. p = I => ours[I] # 0
  BY <1>3 DEF KeysFresh
<1>9. ASSUME status[q] # "closed" PROVE Known(q, m)
  <2>1. CASE ours[I] = 0
    <3>1. Opening /\ p = R /\ ours[R] = 0
      BY <1>1, <1>8, <2>1 DEF InStep, TakeTurns, Opening, Party
    <3>2. theirs[q] = Pair(p, 0) /\ receiving[q][theirs[q]].id = InitialRoot /\ root[p] = InitialRoot
      BY <1>1, <3>1 DEF Opening
    <3> QED BY <1>1, <1>7, <3>1, <3>2 DEF Pair, Known
  <2>2. CASE Leads(q)
    <3>1. theirs[q] = Pair(p, ours[p]) /\ receiving[q][theirs[q]].id = root[p]
      BY <1>1, <2>2 DEF Leads, Pub
    <3>2. theirs[q][2] = ours[p]
      BY <3>1 DEF Pair
    <3> QED BY <1>1, <1>4, <1>7, <3>1, <3>2 DEF Known
  <2>3. CASE Leads(p)
    <3>1. theirs[q] = Pair(p, ours[p] - 1) /\ root[p] = Kdf(root[q], DH(Pub(p), Pub(q)))
      BY <1>0, <2>3 DEF Leads
    <3>2. theirs[q][2] = ours[p] - 1
      BY <3>1 DEF Pair
    <3>3. DH(Pub(p), Pub(q)) = DH(Pub(q), m.pub)
      BY <1>7 DEF DH, Pub
    <3> QED BY <1>1, <1>4, <1>7, <3>1, <3>2, <3>3 DEF Known
  <2>4. \A r \in Party : status[r] # "closed"
    BY <1>1, <1>3, <1>9
  <2> QED BY <1>1, <2>1, <2>2, <2>3, <2>4 DEF InStep, TakeTurns
<1>10. TakeTurns'
  <2>1. CASE ours[I] = 0
    <3>1. Opening /\ wire'[R] = wire[R]
      BY <1>1, <1>4, <1>8, <2>1 DEF InStep, TakeTurns, Party
    <3> QED BY <1>3, <2>1, <3>1 DEF TakeTurns, Opening
  <2>2. CASE ours[I] # 0
    BY <1>3, <2>2 DEF InStep, TakeTurns, Leads, Pub
  <2> QED BY <2>1, <2>2
<1>11. ASSUME NEW r \in Party, status[r] # "closed", NEW i \in DOMAIN wire'[r]
       PROVE  Known(r, wire'[r][i])
  <2>1. CASE r = q
    <3>1. i \in 1..Len(wire[q]) \/ i = Len(wire[q]) + 1
      BY <1>4, <1>6, <1>11, <2>1
    <3>2. CASE i \in 1..Len(wire[q])
      <4>1. i \in DOMAIN wire[q] /\ wire'[q][i] = wire[q][i]
        BY <1>4, <1>6, <3>2
      <4> QED BY <1>11, <2>1, <4>1 DEF InStep
    <3>3. CASE i = Len(wire[q]) + 1
      BY <1>6, <1>9, <1>11, <2>1, <3>3
    <3> QED BY <3>1, <3>2, <3>3
  <2>2. CASE r = p
    BY <1>4, <1>11, <2>2 DEF InStep
  <2> QED BY <1>1, <2>1, <2>2
<1>12. ASSUME NEW r \in Party, status'[r] # "closed"
       PROVE  Heard(r)' /\ \A i \in DOMAIN wire'[r] : Known(r, wire[r][i])'
  <2>1. Heard(r)'
    BY <1>3, <1>12 DEF InStep, Heard
  <2> QED BY <1>3, <1>11, <1>12, <2>1 DEF Known, Pub
<1> QED BY <1>10, <1>12 DEF InStep

\* With its session open the initiator leads.
LEMMA CompleteKeepsInStep ==
  ASSUME TypeOK, KeysFresh, InStep, Complete
  PROVE  InStep'
<1>1. /\ I \in Party /\ R \in Party /\ Peer(I) = R /\ Peer(R) = I /\ I # R
      /\ \A r \in Party : r = I \/ r = R
  BY Bounds DEF Party, Peer
<1>2. ours[I] = 0 /\ Opening /\ status[I] = "opening"
  BY DEF Complete, KeysFresh, InStep, TakeTurns
<1>3. /\ ours[R] = 0 /\ wire[R] = <<>> /\ DOMAIN <<>> = {}
      /\ root[I] = InitialRoot /\ root[R] = InitialRoot
      /\ theirs[I] = Pair(R, 0) /\ theirs[R] = Pair(I, 0)
      /\ receiving[I][Pair(R, 0)].id = InitialRoot
  BY <1>1, <1>2 DEF Opening
<1>4. /\ root'[I] = Kdf(root[I], DH(Pair(I, 1), theirs[I])) /\ root'[R] = root[R]
      /\ ours'[I] = 1 /\ ours'[R] = 0 /\ status'[R] = status[R]
      /\ UNCHANGED <<receiving, theirs, wire, received>>
  BY <1>1, <1>2, <1>3 DEF Complete, PreRatchet, TypeOK
<1>5. Leads(I)'
  BY <1>1, <1>3, <1>4 DEF Leads, Pub
<1>6. TakeTurns'
  BY <1>1, <1>4, <1>5 DEF TakeTurns
<1>7. ASSUME NEW i \in DOMAIN wire[I] PROVE Known(I, wire[I][i])'
  <2>0. wire[I] \in Seq(Message) /\ theirs[I][2] = 0
    BY <1>1, <1>3 DEF TypeOK, Pair
  <2>1. wire[I][i] \in Message /\ Known(I, wire[I][i])
    BY <1>1, <1>2, <1>7, <2>0, ElementOfSeq, LenProperties DEF InStep
  <2>2. wire[I][i].pub[2] \in Nat
    BY <2>1, MessageFields, Bounds
  <2>3. wire[I][i].pub[2] = theirs[I][2]
    BY <1>1, <1>3, <2>0, <2>1, <2>2 DEF Known
  <2> QED BY <1>1, <1>3, <1>4, <2>1, <2>2, <2>3 DEF Known
<1>8. ASSUME NEW r \in Party, status'[r] # "closed"
      PROVE  Heard(r)' /\ \A i \in DOMAIN wire'[r] : Known(r, wire[r][i])'
  <2>1. status[r] # "closed"
    BY <1>1, <1>2, <1>4, <1>8
  <2>2. Heard(r)'
    BY <1>4, <2>1 DEF InStep, Heard
  <2> QED BY <1>1, <1>3, <1>4, <1>7, <2>2
<1> QED BY <1>6, <1>8 DEF InStep

\* The chain a message is looked up in is the one it came under, unless a message
\* of a later key pair was decrypted before it; then it is a younger one.
LEMMA ChainsMeet ==
  ASSUME TypeOK, KeysFresh, InStep, NEW p \in Party, NEW i \in DOMAIN wire[p],
         NEW keep \in BOOLEAN, Decrypt(p, i, keep), NEW m, m = wire[p][i],
         NEW s \in Prepared(p, m)
  PROVE  /\ ours[I] # 0 /\ m.from = Peer(p) /\ m.pub[1] = Peer(p)
         /\ m.pub = Pair(Peer(p), m.pub[2])
         /\ m.pub[2] \in Nat /\ theirs[p][2] \in Nat
         /\ theirs[p] = Pair(Peer(p), theirs[p][2])
         /\ \/ Same(p, m, s) /\ s.chains[m.pub].id = m.chain
            \/ /\ Stepped(p, m, s) /\ m.pub[2] = theirs[p][2] + 1
               /\ s.chains[m.pub].id = m.chain
            \/ /\ Stepped(p, m, s) /\ m.pub[2] < theirs[p][2]
               /\ s.chains[m.pub].id # m.chain
<1>0. PICK q : q = Peer(p)
  OBVIOUS
<1>1. /\ q \in Party /\ q # p /\ Peer(q) = p /\ \A r \in Party : r = p \/ r = q
  BY <1>0, Peers
<1>2. /\ m \in Message /\ status[p] = "open" /\ (ours[p] < MaxKeys \/ theirs[p] = m.pub)
  BY Decrypted
<1>3. Known(p, m) /\ Heard(p)
  BY <1>2 DEF InStep
<1>4. /\ m.pub = Pair(m.pub[1], m.pub[2]) /\ m.pub[2] \in Nat /\ m.pub \in Key
      /\ theirs[p] = Pair(theirs[p][1], theirs[p][2]) /\ theirs[p][2] \in Nat
      /\ root[p] \in Root /\ m.chain \in Root
  <2>1. theirs[p] \in Key /\ root[p] \in Root
    BY DEF TypeOK
  <2>2. /\ m.pub[2] \in 0..MaxKeys + 1 /\ m.pub = Pair(m.pub[1], m.pub[2])
        /\ m.pub \in Key /\ m.chain \in Root
    BY <1>2, MessageFields
  <2>3. theirs[p] = Pair(theirs[p][1], theirs[p][2]) /\ theirs[p][2] \in 0..MaxKeys + 1
    BY <2>1 DEF Key, Pair
  <2>4. \A k \in 0..MaxKeys + 1 : k \in Nat
    BY Bounds
  <2> QED BY <2>1, <2>2, <2>3, <2>4
<1>5. ours[I] # 0
  <2>1. CASE p = I
    BY <1>2, <2>1 DEF KeysFresh
  <2>2. CASE p = R
    <3>1. ~Opening
      BY <2>2 DEF Opening
    <3> QED BY <3>1 DEF InStep, TakeTurns
  <2> QED BY <2>1, <2>2 DEF Party
<1>6. m.pub[1] = q /\ theirs[p][1] = q /\ m.from = q
  BY <1>0, <1>3 DEF Known, Heard
<1>7. CASE Same(p, m, s)
  <2>1. s.chains[m.pub].id = m.chain
    BY <1>3, <1>7 DEF Same, Known
  <2> QED BY <1>0, <1>4, <1>5, <1>6, <1>7, <2>1
<1>8. CASE Stepped(p, m, s)
  <2>1. m.pub[2] # theirs[p][2]
    BY <1>4, <1>6, <1>8 DEF Stepped
  <2>2. PICK rk : rk = Kdf(root[p], DH(Pub(p), m.pub))
    OBVIOUS
  <2>3. Pub(p) \in Key /\ rk \in Root
    BY <1>2, <1>8, <2>2, PreparedTypes
  <2>4. s.chains[m.pub].id = rk /\ Len(rk) = Len(root[p]) + 1 /\ Len(root[p]) \in Nat
    BY <1>4, <1>8, <2>2, <2>3, NewChainType, KdfType DEF Stepped
  <2>5. CASE m.pub[2] > theirs[p][2]
    <3>1. m.pub[2] = theirs[p][2] + 1 /\ m.chain = rk
      BY <1>3, <1>4, <2>2, <2>5 DEF Known
    <3> QED BY <1>0, <1>4, <1>5, <1>6, <1>8, <2>4, <3>1
  <2>6. CASE m.pub[2] < theirs[p][2]
    <3>1. Len(m.chain) <= Len(root[p])
      BY <1>3, <2>6 DEF Known
    <3>2. rk # m.chain
      BY <2>4, <3>1
    <3> QED BY <1>0, <1>4, <1>5, <1>6, <1>8, <2>4, <2>6, <3>2
  <2> QED BY <1>4, <2>1, <2>5, <2>6
<1> QED BY <1>7, <1>8, PreparedCases

\* A message that decrypts leaves p in step; one that does not closes p's session.
LEMMA DecryptKeepsInStep ==
  ASSUME TypeOK, KeysFresh, ChainsUsed, InStep, NEW p \in Party,
         NEW i \in DOMAIN wire[p], NEW keep \in BOOLEAN, Decrypt(p, i, keep)
  PROVE  InStep'
<1>0. PICK q : q = Peer(p)
  OBVIOUS
<1>1. /\ q \in Party /\ q # p /\ Peer(q) = p /\ \A r \in Party : r = p \/ r = q
      /\ Peer(p) = q
  BY <1>0, Peers
<1>2. PICK m : m = wire[p][i]
  OBVIOUS
<1>3. /\ m \in Message /\ OnlyAt(p) /\ status[p] = "open"
      /\ ours[p] < MaxKeys \/ theirs[p] = m.pub
      /\ wire'[p] = wire[p] \/ wire'[p] = RemoveAt(wire[p], i)
  BY <1>2, Decrypted
<1>4. PICK s \in Prepared(p, m) : Uses(p, m, s)
  BY <1>2, Decrypted
<1>5. PICK c : c = s.chains[m.pub]
  OBVIOUS
<1>6. PICK d : d = receiving'[p][m.pub]
  OBVIOUS
<1>7. /\ ours[I] # 0 /\ m.from = q /\ m.pub[1] = q /\ m.pub = Pair(q, m.pub[2])
      /\ m.pub[2] \in Nat /\ theirs[p][2] \in Nat /\ theirs[p] = Pair(q, theirs[p][2])
      /\ \/ Same(p, m, s) /\ c.id = m.chain
         \/ Stepped(p, m, s) /\ m.pub[2] = theirs[p][2] + 1 /\ c.id = m.chain
         \/ Stepped(p, m, s) /\ m.pub[2] < theirs[p][2] /\ c.id # m.chain
  BY <1>1, <1>2, <1>5, ChainsMeet
<1>8. /\ c \in Chain /\ m.pub \in DOMAIN s.chains /\ m.number \in 1..MaxSends
      /\ s.theirs = m.pub
  BY <1>3, <1>5, PreparedTypes, MessageFields
<1>9. /\ root'[p] = s.root /\ ours'[p] = s.ours /\ theirs'[p] = m.pub
      /\ DOMAIN receiving'[p] = DOMAIN s.chains
      /\ \A k \in DOMAIN s.chains \ {m.pub} : receiving'[p][k] = s.chains[k]
      /\ d = IF HasKey(c, m.number) THEN TakeKey(c, m.number) ELSE c
      /\ status'[p] # "closed" =>
           /\ HasKey(c, m.number) /\ c.id = m.chain
           /\ received'[p] = Append(received[p], m)
  BY <1>4, <1>5, <1>6, <1>8 DEF Uses
<1>10. /\ root'[q] = root[q] /\ ours'[q] = ours[q] /\ theirs'[q] = theirs[q]
       /\ receiving'[q] = receiving[q] /\ wire'[q] = wire[q] /\ received'[q] = received[q]
       /\ status'[q] = status[q]
  BY <1>1, <1>3 DEF OnlyAt
<1>11. d.id = c.id
  BY <1>8, <1>9, TakeKeyTypes
<1>12. /\ ours[q] \in Nat /\ ours[p] \in Nat /\ m.pub \in Key /\ I \in Party
       /\ ours'[p] \in {ours[p], ours[p] + 1}
  <2>1. s.ours \in {ours[p], ours[p] + 1}
    BY <1>7 DEF Same, Stepped
  <2> QED BY <1>1, <1>3, <1>9, <2>1, MessageFields DEF TypeOK, Key, Party
<1>13. Heard(p) /\ \A k \in DOMAIN wire[p] : Known(p, wire[p][k])
  BY <1>3 DEF InStep
\* Whose turn it is.
<1>14. TakeTurns'
  <2>1. ours'[I] # 0
    BY <1>1, <1>7, <1>10, <1>12
  <2>2. ASSUME \A r \in Party : status'[r] # "closed" PROVE \E x \in Party : Leads(x)'
    <3>0. /\ c.id = m.chain /\ \A r \in Party : status[r] # "closed"
          /\ \E x \in Party : Leads(x)
      <4>1. c.id = m.chain /\ \A r \in Party : status[r] # "closed"
        BY <1>1, <1>3, <1>9, <1>10, <2>2
      <4> QED BY <1>7, <4>1 DEF InStep, TakeTurns
    <3>1. CASE Same(p, m, s)
      <4>1. /\ s.root = root[p] /\ s.ours = ours[p] /\ theirs[p] = m.pub
            /\ s.chains = receiving[p]
        BY <3>1 DEF Same
      <4>2. \A k \in DOMAIN receiving[p] : receiving'[p][k].id = receiving[p][k].id
        BY <1>5, <1>6, <1>9, <1>11, <4>1
      <4>3. PICK x \in Party : Leads(x)
        BY <3>0
      <4>4. CASE x = p
        <5>1. m.pub = Pub(q) /\ Pub(q) \in DOMAIN receiving[p]
          BY <1>1, <1>8, <4>1, <4>3, <4>4 DEF Leads
        <5>2. Leads(p)'
          BY <1>1, <1>9, <1>10, <4>1, <4>2, <4>3, <4>4, <5>1 DEF Leads, Pub
        <5> QED BY <5>2
      <4>5. CASE x = q
        <5>1. Leads(q)'
          BY <1>1, <1>9, <1>10, <4>1, <4>3, <4>5 DEF Leads, Pub
        <5> QED BY <1>1, <5>1
      <4> QED BY <1>1, <4>4, <4>5
    <3>2. CASE Stepped(p, m, s) /\ m.pub[2] = theirs[p][2] + 1
      <4>1. m.pub[2] <= ours[q]
        BY <1>1, <1>2, <1>13 DEF Known
      <4>2. ~Leads(p)
        <5>1. SUFFICES ASSUME Leads(p) PROVE FALSE
          OBVIOUS
        <5>2. theirs[p][2] = ours[q]
          BY <1>1, <5>1 DEF Leads, Pub, Pair
        <5> QED BY <1>7, <1>12, <3>2, <4>1, <5>2
      <4>3. Leads(q)
        BY <1>1, <3>0, <4>2
      <4>4. /\ theirs[p] = Pair(q, ours[q] - 1) /\ root[q] = Kdf(root[p], DH(Pub(q), Pub(p)))
            /\ theirs[q] = Pair(p, ours[p])
        BY <1>1, <4>3 DEF Leads, Pub
      <4>5. theirs[p][2] = ours[q] - 1
        BY <4>4 DEF Pair
      <4>6. m.pub = Pub(q) /\ Kdf(root[p], DH(Pub(p), m.pub)) = root[q]
        <5>1. m.pub = Pub(q)
          BY <1>7, <1>12, <3>2, <4>5 DEF Pub
        <5>2. DH(Pub(p), Pub(q)) = DH(Pub(q), Pub(p))
          BY DEF DH
        <5> QED BY <4>4, <5>1, <5>2
      <4>7. /\ s.root = Kdf(root[q], DH(Pair(p, ours[p] + 1), m.pub)) /\ s.ours = ours[p] + 1
            /\ c = NewChain(root[q])
        BY <1>5, <3>2, <4>6 DEF Stepped
      <4>8. d.id = root[q]
        <5>1. root[q] \in Root
          BY <1>1 DEF TypeOK
        <5> QED BY <1>11, <4>7, <5>1, NewChainType
      <4>9. /\ ours'[p] > 0 /\ theirs'[p] = Pair(q, ours'[q])
            /\ theirs'[q] = Pair(p, ours'[p] - 1)
            /\ root'[p] = Kdf(root'[q], DH(Pair(p, ours'[p]), Pair(q, ours'[q])))
            /\ receiving'[p][Pair(q, ours'[q])].id = root'[q]
        <5>1. ours[p] + 1 > 0 /\ (ours[p] + 1) - 1 = ours[p] /\ ours'[p] = ours[p] + 1
          BY <1>9, <1>12, <4>7
        <5>2. m.pub = Pair(q, ours'[q])
          BY <1>10, <4>6 DEF Pub
        <5> QED BY <1>6, <1>9, <1>10, <4>4, <4>7, <4>8, <5>1, <5>2
      <4>10. Leads(p)'
        BY <1>1, <4>9 DEF Leads, Pub
      <4> QED BY <4>10
    <3> QED BY <1>7, <3>0, <3>1, <3>2
  <2> QED BY <2>1, <2>2 DEF TakeTurns
\* The other end: what is on its way to it was sent before.
<1>15. ASSUME status'[q] # "closed"
       PROVE  Heard(q)' /\ \A j \in DOMAIN wire'[q] : Known(q, wire[q][j])'
  <2>1. Heard(q) /\ \A j \in DOMAIN wire[q] : Known(q, wire[q][j])
    BY <1>1, <1>10, <1>15 DEF InStep
  <2>2. Heard(q)'
    BY <1>10, <2>1 DEF Heard
  <2>3. ASSUME NEW j \in DOMAIN wire'[q] PROVE Known(q, wire[q][j])'
    <3>1. wire[q] \in Seq(Message)
      BY <1>1 DEF TypeOK
    <3>2. wire[q][j] \in Message /\ Known(q, wire[q][j])
      BY <1>10, <2>1, <2>3, <3>1, ElementOfSeq, LenProperties
    <3>3. wire[q][j].pub[2] \in Nat
      BY <3>2, MessageFields, Bounds
    <3>4. wire[q][j].pub[2] <= ours'[p]
      BY <1>1, <1>12, <3>2, <3>3 DEF Known
    <3> QED BY <1>1, <1>10, <3>2, <3>4 DEF Known, Pub
  <2> QED BY <2>2, <2>3
\* This end, if the message decrypts.
<1>16. ASSUME status'[p] # "closed"
       PROVE  Heard(p)' /\ \A j \in DOMAIN wire'[p] : Known(p, wire[p][j])'
  <2>1. /\ HasKey(c, m.number) /\ c.id = m.chain /\ received'[p] = Append(received[p], m)
        /\ d = TakeKey(c, m.number) /\ d.id = m.chain
        /\ theirs'[p] = m.pub /\ receiving'[p][theirs'[p]] = d
    BY <1>6, <1>9, <1>11, <1>16
  <2>2. \/ Same(p, m, s)
        \/ Stepped(p, m, s) /\ m.pub[2] = theirs[p][2] + 1
    BY <1>7, <2>1
  <2>3. /\ received[p] \in Seq(Message) /\ Len(received[p]) \in Nat
        /\ DOMAIN received[p] = 1..Len(received[p])
        /\ DOMAIN received'[p] = 1..Len(received[p]) + 1
        /\ \A j \in 1..Len(received[p]) : received'[p][j] = received[p][j]
        /\ received'[p][Len(received[p]) + 1] = m
    BY <1>3, <2>1, AppendAt, LenProperties DEF TypeOK
  <2>4. /\ \A j \in DOMAIN received[p] : j \in DOMAIN received'[p] /\ received'[p][j] = received[p][j]
        /\ \E j \in DOMAIN received'[p] : received'[p][j] = m
        /\ \A j \in DOMAIN received'[p] : received'[p][j] = m \/ j \in DOMAIN received[p]
    <3>1. /\ Len(received[p]) + 1 \in 1..Len(received[p]) + 1
          /\ \A j \in 1..Len(received[p]) : j \in 1..Len(received[p]) + 1
          /\ \A j \in 1..Len(received[p]) + 1 : j \in 1..Len(received[p]) \/ j = Len(received[p]) + 1
      BY <2>3
    <3> QED BY <2>3, <3>1
  <2>5. \A j \in DOMAIN received[p] :
          received[p][j].pub[2] \in Nat /\ received[p][j].pub[2] <= theirs[p][2]
    <3> TAKE j \in DOMAIN received[p]
    <3>1. received[p][j] \in Message
      BY <2>3, ElementOfSeq
    <3> QED BY <1>13, <3>1, MessageFields, Bounds DEF Heard
  <2>6. \A j \in DOMAIN received'[p] :
          /\ received'[p][j].pub[2] <= m.pub[2]
          /\ received'[p][j].pub = m.pub => received'[p][j].chain = d.id
    <3> TAKE j \in DOMAIN received'[p]
    <3>1. CASE received'[p][j] = m
      BY <1>7, <2>1, <3>1
    <3>2. CASE j \in DOMAIN received[p]
      <4>1. received'[p][j] = received[p][j]
        BY <2>4, <3>2
      <4>2. CASE Same(p, m, s)
        <5>1. theirs[p] = m.pub /\ c = receiving[p][theirs[p]]
          BY <1>5, <4>2 DEF Same
        <5> QED BY <1>11, <1>13, <3>2, <4>1, <5>1 DEF Heard
      <4>3. CASE m.pub[2] = theirs[p][2] + 1
        <5>1. received[p][j].pub[2] \in Nat /\ received[p][j].pub[2] <= theirs[p][2]
          BY <2>5, <3>2
        <5>2. received[p][j].pub[2] <= m.pub[2] /\ received[p][j].pub[2] # m.pub[2]
          BY <1>7, <4>3, <5>1
        <5> QED BY <4>1, <5>2
      <4> QED BY <2>2, <4>2, <4>3
    <3> QED BY <2>4, <3>1, <3>2
  <2>7. ASSUME NEW n \in 1..d.number, n \notin d.skipped
        PROVE  \E j \in DOMAIN received'[p] : received'[p][j] =
                 [from |-> q, pub |-> m.pub, chain |-> d.id, number |-> n]
    <3>0. c.number \in Nat /\ d.number \in Nat /\ d = TakeKey(c, m.number)
      <4>1. d \in Chain /\ d = TakeKey(c, m.number)
        BY <1>8, <2>1, TakeKeyTypes
      <4>2. c.number \in 0..MaxSends /\ d.number \in 0..MaxSends
        BY <1>8, <4>1, ChainFields
      <4> QED BY <4>1, <4>2, Bounds
    <3>1. CASE n = m.number
      <4>1. m = [from |-> q, pub |-> m.pub, chain |-> d.id, number |-> n]
        BY <1>3, <1>7, <2>1, <3>1 DEF Message
      <4> QED BY <2>4, <4>1
    <3>2. CASE n # m.number
      <4>1. n \in 1..c.number /\ n \notin c.skipped
        <5>1. CASE m.number > c.number
          <6>1. d.number = m.number /\ d.skipped = c.skipped \cup (c.number + 1)..(m.number - 1)
            BY <1>8, <3>0, <5>1, TakeKeyTypes
          <6>2. n \in 1..m.number /\ m.number \in Nat /\ n \notin (c.number + 1)..(m.number - 1)
            BY <1>8, <2>7, <6>1, Bounds
          <6> QED BY <2>7, <3>0, <3>2, <6>1, <6>2
        <5>2. CASE ~(m.number > c.number)
          <6>1. d.number = c.number /\ d.skipped = c.skipped \ {m.number}
            BY <1>8, <3>0, <5>2, TakeKeyTypes
          <6> QED BY <2>7, <3>2, <6>1
        <5> QED BY <5>1, <5>2
      <4>2. CASE Same(p, m, s)
        <5>1. theirs[p] = m.pub /\ c = receiving[p][theirs[p]]
          BY <1>5, <4>2 DEF Same
        <5>2. \E j \in DOMAIN received[p] : received[p][j] =
                [from |-> q, pub |-> m.pub, chain |-> c.id, number |-> n]
          BY <1>1, <1>13, <4>1, <5>1 DEF Heard
        <5> QED BY <1>11, <2>4, <5>2
      <4>3. CASE Stepped(p, m, s)
        <5>1. c = NewChain(Kdf(root[p], DH(Pub(p), m.pub)))
              /\ Kdf(root[p], DH(Pub(p), m.pub)) \in Root
          BY <1>3, <1>5, <4>3, PreparedTypes DEF Stepped
        <5>2. c.number = 0
          BY <5>1, NewChainType
        <5> QED BY <4>1, <5>2
      <4> QED BY <2>2, <4>2, <4>3
    <3> QED BY <3>1, <3>2
  <2>8. Heard(p)'
    <3>1. Peer(p) = q /\ m.pub[1] = q /\ \E j \in DOMAIN received'[p] : received'[p][j].pub = m.pub
      BY <1>1, <1>7, <2>4
    <3> QED BY <2>1, <2>6, <2>7, <3>1 DEF Heard
  <2>9. \A j \in DOMAIN wire'[p] : \E k \in DOMAIN wire[p] : wire'[p][j] = wire[p][k]
    <3>1. wire[p] \in Seq(Message) /\ DOMAIN wire[p] = 1..Len(wire[p]) /\ Len(wire[p]) \in Nat
      BY LenProperties DEF TypeOK
    <3>2. ASSUME wire'[p] = RemoveAt(wire[p], i), NEW j \in DOMAIN wire'[p]
          PROVE  \E k \in DOMAIN wire[p] : wire'[p][j] = wire[p][k]
      <4>1. /\ DOMAIN wire'[p] = 1..Len(wire[p]) - 1 /\ i \in 1..Len(wire[p])
            /\ \A x \in 1..Len(wire[p]) - 1 : wire'[p][x] = wire[p][IF x < i THEN x ELSE x + 1]
        BY <3>1, <3>2, RemoveAtAt
      <4>2. PICK k : k = IF j < i THEN j ELSE j + 1
        OBVIOUS
      <4>3. j \in 1..Len(wire[p]) - 1
        BY <3>2, <4>1
      <4>4. k \in 1..Len(wire[p])
        BY <3>1, <4>1, <4>2, <4>3
      <4>5. wire'[p][j] = wire[p][k]
        BY <4>1, <4>2, <4>3
      <4> QED BY <3>1, <4>4, <4>5
    <3> QED BY <1>3, <3>2
  <2>10. ASSUME NEW x, NEW k \in DOMAIN wire[p], x = wire[p][k] PROVE Known(p, x)'
    <3>2. x \in Message
      <4>1. wire[p] \in Seq(Message)
        BY DEF TypeOK
      <4> QED BY <2>10, <4>1, ElementOfSeq, LenProperties
    <3>3. /\ Known(p, x) /\ x.pub[2] \in Nat /\ x.pub = Pair(x.pub[1], x.pub[2])
          /\ x.pub = Pair(q, x.pub[2]) /\ Len(x.chain) \in Nat
      <4>1. Known(p, x)
        BY <1>13, <2>10
      <4>2. x.pub[1] = q
        BY <1>1, <4>1 DEF Known
      <4> QED BY <3>2, <4>1, <4>2, MessageFields, Bounds, LenProperties DEF Root
    <3>4. CASE Same(p, m, s)
      <4>1. /\ root'[p] = root[p] /\ ours'[p] = ours[p] /\ theirs'[p] = theirs[p]
            /\ receiving'[p][theirs'[p]].id = receiving[p][theirs[p]].id
        BY <1>5, <1>9, <2>1, <3>4 DEF Same
      <4> QED BY <1>1, <1>10, <3>3, <4>1 DEF Known, Pub
    <3>5. CASE Stepped(p, m, s) /\ m.pub[2] = theirs[p][2] + 1
      <4>1. /\ Len(root[p]) \in Nat /\ Len(s.root) \in Nat /\ Len(root[p]) <= Len(s.root)
        BY <1>3, LookedUp
      <4>2. x.pub[2] <= m.pub[2] /\ x.from = q /\ x.pub[2] <= ours[q]
        BY <1>1, <3>3, <3>5 DEF Known
      <4>3. ASSUME x.pub[2] = m.pub[2] PROVE x.chain = d.id
        <5>1. x.pub = m.pub /\ x.pub[2] > theirs[p][2]
          BY <1>7, <3>3, <3>5, <4>3
        <5>2. x.chain = Kdf(root[p], DH(Pub(p), m.pub))
          BY <3>3, <5>1 DEF Known
        <5>3. /\ c = NewChain(Kdf(root[p], DH(Pub(p), m.pub)))
              /\ Kdf(root[p], DH(Pub(p), m.pub)) \in Root
          BY <1>3, <1>5, <3>5, PreparedTypes DEF Stepped
        <5> QED BY <1>11, <5>2, <5>3, NewChainType
      <4>4. ASSUME x.pub[2] < m.pub[2] PROVE Len(x.chain) <= Len(s.root)
        <5>1. x.pub[2] = theirs[p][2] \/ x.pub[2] < theirs[p][2]
          BY <1>7, <3>3, <3>5, <4>4
        <5>2. CASE x.pub[2] = theirs[p][2]
          <6>1. x.chain = receiving[p][theirs[p]].id /\ theirs[p] \in DOMAIN receiving[p]
            BY <3>3, <5>2 DEF Known, TypeOK
          <6>2. Len(x.chain) <= Len(root[p])
            BY <6>1 DEF ChainsUsed
          <6> QED BY <3>3, <4>1, <6>2
        <5>3. CASE x.pub[2] < theirs[p][2]
          <6>1. Len(x.chain) <= Len(root[p])
            BY <3>3, <5>3 DEF Known
          <6> QED BY <3>3, <4>1, <6>1
        <5> QED BY <5>1, <5>2, <5>3
      <4>5. x.pub[2] <= m.pub[2] + 1 /\ ~(x.pub[2] > m.pub[2])
        BY <1>7, <3>3, <4>2
      <4>6. x.pub[1] = q
        BY <1>1, <3>3 DEF Known
      <4> QED BY <1>1, <1>9, <1>10, <2>1, <4>2, <4>3, <4>4, <4>5, <4>6 DEF Known
    <3> QED BY <2>2, <3>4, <3>5
  <2>11. ASSUME NEW j \in DOMAIN wire'[p] PROVE Known(p, wire[p][j])'
    <3>1. PICK x : x = wire'[p][j]
      OBVIOUS
    <3>2. PICK k \in DOMAIN wire[p] : x = wire[p][k]
      BY <2>9, <2>11, <3>1
    <3>3. Known(p, x)'
      BY <2>10, <3>2
    <3> QED BY <3>1, <3>3 DEF Known, Pub
  <2> QED BY <2>8, <2>11
<1> QED BY <1>1, <1>14, <1>15, <1>16 DEF InStep

LEMMA InStepHolds == Spec => []InStep
<1>1. Init => InStep
  <2> SUFFICES ASSUME Init PROVE InStep
    OBVIOUS
  <2>1. I \in Party /\ R \in Party /\ \A p \in Party : Peer(p) \in Party
    BY Peers DEF Party
  <2>2. /\ NewChain(InitialRoot).id = InitialRoot /\ NewChain(InitialRoot).number = 0
        /\ \A i : i \notin DOMAIN <<>>
    BY InitialRootType, NewChainType
  <2>3. \A p \in Party :
          /\ ours[p] = 0 /\ wire[p] = <<>> /\ root[p] = InitialRoot /\ received[p] = <<>>
          /\ theirs[p] = Pair(Peer(p), 0) /\ theirs[p][1] = Peer(p) /\ theirs[p][2] = 0
          /\ receiving[p][Pair(Peer(p), 0)] = NewChain(InitialRoot)
    BY DEF Init, Pair
  <2>4. TakeTurns
    BY <2>1, <2>2, <2>3 DEF TakeTurns, Opening
  <2>5. ASSUME NEW p \in Party PROVE Heard(p)
    <3>1. receiving[p][theirs[p]].number = 0 /\ 1..0 = {}
      BY <2>2, <2>3
    <3> QED BY <2>2, <2>3, <3>1 DEF Heard
  <2> QED BY <2>2, <2>3, <2>4, <2>5 DEF InStep
<1>2. TypeOK /\ KeysFresh /\ ChainsUsed /\ InStep /\ [Next]_vars => InStep'
  <2> SUFFICES ASSUME TypeOK, KeysFresh, ChainsUsed, InStep, [Next]_vars
               PROVE  InStep'
    OBVIOUS
  <2>1. ASSUME NEW p \in Party, Discard(p) PROVE InStep'
    <3>1. /\ wire[p] # <<>> /\ wire' = [wire EXCEPT ![p] = Tail(wire[p])]
          /\ UNCHANGED <<status, root, receiving, ours, theirs, received>>
      BY <2>1 DEF Discard, ratchet
    <3> QED BY <3>1, DropKeepsInStep
  <2>2. ASSUME NEW p \in Party, NEW i \in DOMAIN wire[p], Lose(p, i) PROVE InStep'
    <3>1. /\ wire' = [wire EXCEPT ![p] = RemoveAt(wire[p], i)]
          /\ UNCHANGED <<status, root, receiving, ours, theirs, received>>
      BY <2>2 DEF Lose, ratchet
    <3> QED BY <3>1, DropKeepsInStep
  <2>3. CASE UNCHANGED vars
    BY <2>3 DEF vars, ratchet, InStep, TakeTurns, Opening, Leads, Pub, Known, Heard
  <2> QED
    BY <2>1, <2>2, <2>3, CompleteKeepsInStep, EncryptKeepsInStep, DecryptKeepsInStep DEF Next
<1> QED BY <1>1, <1>2, KeysFreshHolds, ChainsUsedHolds, PTL DEF Spec

\* While neither end has closed the session, one end's root keys are the other's,
\* or those and one more, whatever the transport lost, repeated or reordered.
THEOREM OneRootAhead == Spec => []RootsAgree
<1>1. ASSUME NEW S, NEW s \in Seq(S), NEW x \in S
      PROVE  IsPrefix(s, s) /\ IsPrefix(s, Append(s, x)) /\ Len(Append(s, x)) <= Len(s) + 1
             /\ Len(s) <= Len(s) + 1
  <2>1. /\ Append(s, x) \in Seq(S) /\ Len(s) \in Nat /\ Len(Append(s, x)) = Len(s) + 1
        /\ \A i \in 1..Len(s) : Append(s, x)[i] = s[i] /\ s[i] \in S
    BY AppendAt, ElementOfSeq
  <2>2. \A t \in {s, Append(s, x)} :
          /\ SubSeq(t, 1, Len(s)) \in Seq(S) /\ Len(SubSeq(t, 1, Len(s))) = Len(s)
          /\ \A i \in 1..Len(s) : SubSeq(t, 1, Len(s))[i] = s[i]
    <3> TAKE t \in {s, Append(s, x)}
    <3>1. \A i \in 1..Len(s) : t[i] = s[i] /\ t[i] \in S
      BY <2>1
    <3>2. /\ SubSeq(t, 1, Len(s)) \in Seq(S)
          /\ Len(SubSeq(t, 1, Len(s))) = IF 1 <= Len(s) THEN Len(s) - 1 + 1 ELSE 0
          /\ \A i \in 1..Len(s) - 1 + 1 : SubSeq(t, 1, Len(s))[i] = t[1 + i - 1]
      <4>1. 1 \in Int /\ Len(s) \in Int
        BY <2>1
      <4> QED BY <3>1, <4>1, SubSeqProperties
    <3> QED BY <2>1, <3>1, <3>2
  <2>3. SubSeq(s, 1, Len(s)) = SubSeq(Append(s, x), 1, Len(s))
    BY <2>1, <2>2, SeqEqual
  <2> QED BY <2>1, <2>3 DEF IsPrefix
<1>2. TypeOK /\ InStep => RootsAgree
  <2> SUFFICES ASSUME TypeOK, InStep, \A p \in Party : status[p] # "closed"
               PROVE  \E p \in Party : /\ IsPrefix(root[p], root[Peer(p)])
                                       /\ Len(root[Peer(p)]) <= Len(root[p]) + 1
    BY DEF RootsAgree
  <2>0. I \in Party /\ Peer(I) = R /\ R \in Party
    BY Bounds DEF Peer, Party
  <2>1. CASE ours[I] = 0
    <3>1. root[I] = InitialRoot /\ root[R] = InitialRoot
      BY <2>1 DEF InStep, TakeTurns, Opening, Party
    <3>2. InitialRoot \in Seq(SUBSET Key) /\ {} \in SUBSET Key
      BY InitialRootType DEF Root
    <3>3. IsPrefix(InitialRoot, InitialRoot) /\ Len(InitialRoot) <= Len(InitialRoot) + 1
      BY <1>1, <3>2
    <3> QED BY <2>0, <3>1, <3>3
  <2>2. ASSUME NEW q \in Party, Leads(q)
        PROVE  \E p \in Party : /\ IsPrefix(root[p], root[Peer(p)])
                                /\ Len(root[Peer(p)]) <= Len(root[p]) + 1
    <3>0. PICK p : p = Peer(q)
      OBVIOUS
    <3>1. root[q] = Append(root[p], DH(Pub(q), Pub(p)))
      BY <2>2, <3>0 DEF Leads, Kdf
    <3>2. p \in Party /\ Peer(p) = q /\ \A r \in Party : Pub(r) \in Key
      BY <3>0, Peers DEF TypeOK, Pub, Pair, Key
    <3>3. root[p] \in Seq(SUBSET Key) /\ DH(Pub(q), Pub(p)) \in SUBSET Key
      BY <3>2, SecretsAreKeys DEF TypeOK, Root
    <3>4. IsPrefix(root[p], root[q]) /\ Len(root[q]) <= Len(root[p]) + 1
      BY <1>1, <3>1, <3>3
    <3> QED BY <3>2, <3>4
  <2> QED BY <2>1, <2>2 DEF InStep, TakeTurns
<1> QED BY <1>2, InStepHolds, TypeCorrect, PTL

\* A genuine message decrypts when it first arrives, unless one of a later key of
\* its sender came before it or it is more than MAX_SKIP ahead of its chain.
THEOREM GenuineMessagesDecrypt == Spec => GenuineDecrypts
<1>1. TypeOK /\ KeysFresh /\ ChainsUsed /\ InStep /\ [Next]_vars => [RejectsExcused]_vars
  <2> SUFFICES ASSUME TypeOK, KeysFresh, ChainsUsed, InStep, Next,
                      NEW x \in Party, NEW m \in rejected'[x] \ rejected[x]
               PROVE  m \in ToSet(received[x]) \/ Overtaken(x, m) \/ TooFar(x, m)
    BY DEF RejectsExcused
  <2>1. PICK p \in Party : \E i \in DOMAIN wire[p], keep \in BOOLEAN : Decrypt(p, i, keep)
    BY DEF Next, Complete, Encrypt, Discard, Lose
  <2>2. PICK i \in DOMAIN wire[p], keep \in BOOLEAN : Decrypt(p, i, keep)
    BY <2>1
  <2>3. PICK n : n = wire[p][i]
    OBVIOUS
  <2>4. /\ n \in Message /\ OnlyAt(p) /\ (ours[p] < MaxKeys \/ theirs[p] = n.pub)
        /\ status[p] = "open"
    BY <2>2, <2>3, Decrypted
  <2>5. PICK s \in Prepared(p, n) : Uses(p, n, s)
    BY <2>2, <2>3, Decrypted
  <2>6. PICK c : c = s.chains[n.pub]
    OBVIOUS
  <2>7. /\ x = p /\ m = n /\ ~(HasKey(c, n.number) /\ c.id = n.chain)
    <3>1. x = p
      BY <2>4 DEF OnlyAt
    <3>2. rejected'[p] = IF HasKey(c, n.number) /\ c.id = n.chain THEN rejected[p]
                                                                 ELSE rejected[p] \cup {n}
      BY <2>5, <2>6 DEF Uses
    <3> QED BY <3>1, <3>2
  <2>8. Heard(p)
    BY <2>4 DEF InStep
  <2>9. /\ m.from = Peer(p) /\ m.pub[2] \in Nat /\ theirs[p][2] \in Nat
        /\ \/ Same(p, m, s) /\ c.id = m.chain
           \/ Stepped(p, m, s) /\ m.pub[2] = theirs[p][2] + 1 /\ c.id = m.chain
           \/ Stepped(p, m, s) /\ m.pub[2] < theirs[p][2]
    BY <2>2, <2>3, <2>6, <2>7, ChainsMeet
  <2>10. /\ c \in Chain /\ c.number \in Nat /\ m.number \in Nat /\ m.number > 0 /\ MaxSkip \in Nat
    <3>1. c \in Chain
      BY <2>4, <2>6, PreparedTypes
    <3>2. c.number \in 0..MaxSends /\ m.number \in 1..MaxSends
      BY <2>4, <2>7, <3>1, ChainFields, MessageFields
    <3> QED BY <3>1, <3>2, Bounds
  <2>11. \A j \in DOMAIN received[p] : /\ received[p][j] \in Message
                                       /\ received[p][j].pub[2] \in Nat
                                       /\ received[p][j].number \in Nat
    <3> TAKE j \in DOMAIN received[p]
    <3>1. received[p][j] \in Message
      BY ElementOfSeq, LenProperties DEF TypeOK
    <3> QED BY <3>1, MessageFields, Bounds
  <2>12. ToSet(received[p]) = {received[p][j] : j \in DOMAIN received[p]}
    BY DEF ToSet
\* Overtaken: the key pair p reads was learnt from a later message.
  <2>13. CASE m.pub[2] < theirs[p][2]
    <3>1. PICK j \in DOMAIN received[p] : received[p][j].pub = theirs[p]
      BY <2>8, <2>9, <2>13 DEF Heard
    <3>2. received[p][j] \in ToSet(received[p]) /\ received[p][j].pub[2] > m.pub[2]
      BY <2>9, <2>11, <2>12, <2>13, <3>1
    <3> QED BY <2>7, <3>2 DEF Overtaken
  <2>14. ASSUME c.id = m.chain,
                \/ Same(p, m, s)
                \/ Stepped(p, m, s) /\ m.pub[2] = theirs[p][2] + 1
         PROVE  m \in ToSet(received[p]) \/ TooFar(p, m)
    <3>1. \/ m.number > c.number /\ ~(m.number - c.number <= MaxSkip)
          \/ ~(m.number > c.number) /\ m.number \notin c.skipped
      BY <2>7, <2>10, <2>14 DEF HasKey
    <3>2. CASE m.number > c.number /\ ~(m.number - c.number <= MaxSkip)
      <4>1. m.number > MaxSkip
        BY <2>10, <3>2
      <4>2. ASSUME NEW j \in DOMAIN received[p], received[p][j].pub = m.pub
            PROVE  m.number - received[p][j].number > MaxSkip
        <5>1. Same(p, m, s)
          <6>1. received[p][j].pub[2] <= theirs[p][2]
            BY <2>8 DEF Heard
          <6> QED BY <2>9, <2>14, <4>2, <6>1
        <5>2. theirs[p] = m.pub /\ c = receiving[p][theirs[p]] /\ theirs[p] \in DOMAIN receiving[p]
          BY <2>6, <2>7, <5>1 DEF Same, TypeOK
        <5>3. received[p][j].chain = c.id
          BY <2>8, <4>2, <5>2 DEF Heard
        <5>4. Used(c, received[p][j].number)
          BY <4>2, <5>2, <5>3 DEF ChainsUsed
        <5> QED BY <2>10, <2>11, <3>2, <5>4 DEF Used
      <4> QED BY <2>12, <4>1, <4>2 DEF TooFar
    <3>3. CASE ~(m.number > c.number) /\ m.number \notin c.skipped
      <4>1. m.number \in 1..c.number
        BY <2>10, <3>3
      <4>2. Same(p, m, s)
        <5>1. CASE Stepped(p, m, s)
          <6>1. /\ c = NewChain(Kdf(root[p], DH(Pub(p), m.pub)))
                /\ Kdf(root[p], DH(Pub(p), m.pub)) \in Root
            BY <2>4, <2>6, <2>7, <5>1, PreparedTypes DEF Stepped
          <6>2. c.number = 0
            BY <6>1, NewChainType
          <6> QED BY <4>1, <6>2
        <5> QED BY <2>14, <5>1
      <4>3. theirs[p] = m.pub /\ c = receiving[p][theirs[p]]
        BY <2>6, <2>7, <4>2 DEF Same
      <4>4. PICK j \in DOMAIN received[p] : received[p][j] =
              [from |-> Peer(p), pub |-> m.pub, chain |-> c.id, number |-> m.number]
        BY <2>8, <3>3, <4>1, <4>3 DEF Heard
      <4>5. m = [from |-> Peer(p), pub |-> m.pub, chain |-> c.id, number |-> m.number]
        BY <2>4, <2>7, <2>9, <2>14 DEF Message
      <4> QED BY <2>12, <4>4, <4>5
    <3> QED BY <3>1, <3>2, <3>3
  <2> QED BY <2>7, <2>9, <2>13, <2>14
<1> QED BY <1>1, InStepHolds, KeysFreshHolds, ChainsUsedHolds, PTL DEF Spec, GenuineDecrypts
=============================================================================

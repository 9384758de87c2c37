# insub: specifications, model checking and proofs

insub is a peer-to-peer messenger in Rust (one crate, `src/src/`): a master identity with several
devices, end-to-end encryption with a double ratchet, a Kademlia-like DHT for contact records, relays
that forward packets, and a reliable transport over UDP. The repository has no tests and no documents:
its comments are what the code is compared with. This directory holds TLA+ modules translated from the
source, the TLC configurations that check them on small instances, and proofs checked by TLAPS.

## Inventory

| Component (sources) | State | Operations | Hard behaviour | What makes it correct |
|---|---|---|---|---|
| Reliable transport (`transport/reliable.rs`, `fragment.rs`) | `pending` (id, retries, last sent), `seen`, peer keys, reassemblies | `send`, `confirm`, the receive thread, `Reassembler::feed`, `evict_stale`, `verify_ack` | three threads on one map; loss, duplication, delay; retries only when idle; caps and time-outs; chunks counted in a `u8` | forwarded once, and again only if it was forgotten; acknowledged only if a tick took it up; every entry ends; what is put together is what was sent |
| Double ratchet (`crypto/ratchet.rs`) | root key, sending chain, saved receiving chains with skipped keys, own and peer DH keys | `encrypt`, `decrypt`, `dh_ratchet_step`, `initiator_pre_ratchet` | loss, reorder, duplicates; both ends stepping at once; `MAX_SKIP`, `MAX_SAVED_CHAINS` | no key used twice, ends agree, genuine messages decrypt once, used keys gone |
| Sessions (`runtime.rs`, `protocol/session.rs`, `crypto/handshake.rs`) | `pending_sessions`, `sessions`, `conn_to_pk`, `pk_to_conn`, `pk_to_addr`, `seen_tags`, `received_keys`, three piles | contact, `send_message`, `tick_relay`, `tick_handshake`, `tick_message`, `remove_stale_conn` | simultaneous contacts, several devices behind one address, repeated or overtaken packets, restarts on another port, failure in the middle of an update | the tables agree, each message delivered at most once, valid contacts become sessions |
| Routing table (`dht/routing.rs`) | per bucket: active and candidate lists with `last_seen`, `last_pinged` | `add_node`, `evict_stale`, `closest_nodes` | both lists full; entries that change lists | one entry per node, no candidate waits beside a free place, current nodes stay |
| DHT lookups (`dht/client.rs`, `runtime.rs`) | one `PendingLookup`: shortlist, queried set, value | join, lookup, find value, store; `handle_response`, `skip_node`, `recv_dht` | silent nodes, late answers taken for later ones, duplicates in a bounded list | lookups end, the closest node is asked, what was stored is found |
| DHT node (`dht/node.rs`) | `store` with expiry | answers to Ping, FindNode, FindValue, Store | a value expires or is replaced while others look for it | a stored value is returned until it expires |
| Device lists and contact records (`identity/*.rs`, `dht/record/*.rs`, `api.rs`) | device list with sequence number, certificates, keychain; the file of each client, the record at each replica | `new`, `open`, `from_mnemonic`, `save`, `add_device`, `revoke_device`, `connect` | read-modify-write of one replicated record by several clients; failed lookups, lost stores, crashes before the save | changes made one after the other add up; the record verifies, so that the user is found |
| Relays (`network/relay.rs`, `registry.rs`) | registry of reachable peers, in practice the node alone | unwrap, forward | none reached: nobody enters another node's address | a frame for the node is unwrapped, and confirmed before anybody looks into it |
| Storage (`storage.rs`) | `peer_state`, and the files of `Client::save` | save and load | a crash between truncation and write | a restart finds the old or the new state, or says that it cannot |
| Primitives (`crypto/cipher.rs`, `hkdf.rs`, `exchange.rs`, `argon.rs`) | none | pure functions | none | - |
| Encodings (`protocol/packet.rs`, `payload.rs`, `message.rs`, `wire.rs`, `dht/protocol.rs`) | none | serialise, parse | lengths | - |
| Command line (`main.rs`), `transport/udp.rs` (unused) | none | menu | which key it binds the runtime with | - |

How they interact: the application thread holds the node's mutex for a whole call or tick. It talks to
the *sort thread* by channels (outgoing packets, acknowledgements to send) and takes packets from four
piles the sort thread fills (DHT, relay, handshake, message). The sort thread is the only caller of
`ReliableTransport::send` and `confirm`; below it the transport's receive thread shares `pending` and
the peer keys with it. Sessions call the ratchet for each message; the client API calls the DHT for
contact records and the sessions for handshakes and messages.

## Modules

| Module | Models | Correspondence |
|---|---|---|
| `Delivery` | the promise of the transport | abstract: one hand-over of a packet and another only after it was forgotten, acknowledgement only after the application took it up, whatever came of that |
| `ReliableTransport` | `reliable.rs`, `fragment.rs`, their use in `runtime.rs` | `Send`, `WritePiece`, `Register`, `SocketError` are `send` cut where another thread can step in; `ReceiveData`, `ReceiveAck`, `Timeout`, `ReceiverStops` are the receive thread; `Handle` is a tick of the runtime that takes a packet from its pile and leaves something to confirm, or not (`ToConfirm`); `Confirm`, `LearnKey` the other callers |
| `ReliableTransportProofs` | theorems about it; that it implements `Delivery` | see Proofs |
| `Reassembly` | the promise of `fragment.rs` to the transport | abstract: a receiver gathers pieces in any order and number, and gives a packet out when it has them all |
| `Fragments` | `split_packet`, `Reassembler`, `PendingReassembly` and the calls in `reliable.rs`, for packets of any size | `Send`, `SplitPanics` are `split_packet` under `send`, as it ends with and without overflow checks; `ReceiveWhole`, `Feed`, `FeedPanics`, `EvictStale` the receive thread; `Index` and `Total` are the casts to `u8` |
| `FragmentsProofs` | theorems about it; that it implements `Reassembly` | see Proofs |
| `DoubleRatchet` | `ratchet.rs` with the session calls around it | `Complete` is the end of the handshake with `initiator_pre_ratchet`, `Encrypt`, `Decrypt` the two calls; keys are terms: a DH secret is the set of its two pairs, a root key the sequence of secrets that went into it |
| `RuntimeSessions` | the session half of `runtime.rs`, `session.rs`, `handshake.rs`, and `contact` and `send` of `api.rs` | `Contact`, `SendMessage` are the API; `Arrive` the sort thread, which finds every packet of this layer in a relay frame; `TickRelay` (which confirms the frame), `TickHandshake`, `TickMessage` run in the order of the main loop (`phase`); `Post` is `send_packet` to an address, where somebody listens or not; `Restart` loses what is only in memory and may change the address |
| `RoutingTable` | one bucket of `routing.rs` | `AddNode` under each of its callers (`Heard`, `Answered`, `Pong`), `EvictStale`; `Within` is `retain`: the elements of a list that are in a set, in order |
| `DoubleRatchetProofs`, `RuntimeSessionsProofs`, `RoutingTableProofs`, `DeviceListsProofs`, `DhtLookupProofs` | theorems about the module of the name; `SequenceLemmas` has what three of them need of sequences and of places in an order | see Proofs |
| `Kademlia` | `node_id.rs`, `closest_nodes` | identifiers as vectors of `Bits` bits; XOR distances to a target are compared as the byte arrays are, at the first bit where two identifiers differ |
| `DhtLookup` | `client.rs`, the DHT half of `runtime.rs`, the answers of `node.rs` | `Start`, `Receive`, `Timeout` step a lookup of the client's `Plan`; `Serve` is another node, which adds the client to its table (`met`), and leaves it out of what it answers (`Named`), `Expire` the end of a value's ttl; `TickServer` takes what no lookup took |
| `DeviceLists` | the rest of `api.rs`, `devices.rs`, `contact.rs`, `publish_contact` and `find_contact` | `FromMnemonic`, `AddDevice`, `RevokeDevice` fetch and change a list, `Publish` and `Save` are the rest of these calls, cut where other clients, stores and crashes step in; `Connect`, `Open`, `Create` the other calls; `StoreArrives` a replica; `Crash`, `StoreLost`, `Forget` and the failure inside `Begin` the environment |
| `MC...` | instances for TLC | nodes, packets, plans and tables as values |

Every module keeps, beside some definitions, *deviations* of them: what the definition would be had the
programmer made a plausible mistake (`AlreadySeenDropped`: no duplicate check). No action uses them;
putting one in the place of its definition breaks the property named for it in `PROJECT.json`, which
shows that the property depends on that code.

### Abstractions

- Identifiers (128-bit packet ids, tags, message keys) are drawn at random in the code and distinct in
  the models. Bytes, headers, signatures and encryption are left out: an acknowledgement names its
  signer's key, a ciphertext the key that made it.
- `Fragments` has neither time nor acknowledgements: what was sent may arrive at any moment, any number of
  times, and a reassembly may be evicted at any moment. Chunks are their numbers. `ReliableTransport` in
  turn takes a packet for a set of at most 255 pieces.
- Time is a counter of ticks in the transport and in the routing table, each age saturating where the
  code stops telling ages apart. In the transport a tick passes outside a `send` and, unless `Busy`,
  only after each socket has been idle once.
- Handshakes and messages of `RuntimeSessions` are not themselves retransmitted: `Lose` and the
  duplicates of `Arrive` are what is left of the transport below. An address is a node and the number
  of times its port has changed; packets to an old one are lost. Rounds of the main loop that find all
  piles empty change nothing and are left out. What `peer_state` brings back at a restart is any part
  of the addresses the node had, as it saves them in `save` only. There is no time either: at each new
  message any of the remembered keys may be old enough to be pruned (60 s, `runtime.rs:731`), whether a
  copy of it still waits or not.
- `ToConfirm` stands for four ticks. What they handle with success they confirm. Of what fails,
  `tick_server` and `tick_handshake` confirm requests without an answer and hellos they refuse,
  `tick_relay` every frame for the node; `tick_message`, and a hello already seen, return without. The
  model takes either course when handling fails.
- A node of `DhtLookup` knows the client once it has served it, and beside it a fixed set of others
  (`Knows`), since nobody else asks it; the client's own table is learnt. Values are named by their keys.
- A lookup of `DeviceLists` is one step that ends at a replica holding a record, or fails: `DhtLookup`
  has the steps. A device is its key, and a user has only two keys: those of the mnemonic with and
  without a password. The sequence number and the master signature of a list are left out, since
  nothing that fetches a list looks at them.

## Runs

| Run | Question | Bounds and why they are enough |
|---|---|---|
| `transport_safety` | is a packet ever forwarded without having been sent or forgotten, or acknowledged without having been taken up; is a genuine acknowledgement accepted? And what if a socket never falls idle? | two packets one way (interchangeable: symmetry; safety only), one retry, one fault, `Busy`; `MaxSeen` 1 and `DedupTTL` 1, so that the cap is reached, packets are forgotten early and are forwarded again |
| `transport_fragments` | does the filter outlast the retransmissions, does every entry end, does a packet arrive? | one packet in two pieces, two retries, two faults: each piece can lose all but one transmission; one receive thread that stops; `MaxSeen` 2, so that the filter does not overflow; a datagram lives one tick; `DedupTTL` 6 and `EntryTimeout` 6 above the whole retry span, as 300 s and 60 s are above about 12 s |
| `fragments` | is what is put together what was sent, and who can make a thread panic? | packets of 1, 2, 3, 5 and 6 chunks in numbers of four values (`U8`): whole, in two and three pieces, and the two kinds of size that wrap around, to a total of 1 and of 2; builds with and without overflow checks; datagrams of two chunks |
| `transport_fragment_acks` | are fragments acknowledged? (they are not) | no faults |
| `transport_cli_keys` | do the keys of the command line work? (they do not) | no faults |
| `ratchet_order` | safety of the ratchet with losses, duplicates and any reordering | three messages and four new keys each, `MaxSkip` 2 and `MaxSavedChains` 2: gaps of 1, 2 and 3, at a chain's start, fall below, at and beyond the limit, and chains are evicted; two losses or duplicates |
| `ratchet_late` | is a message of a saved chain readable? (it is not) | reordering without losses |
| `sessions_tables` | are the session tables consistent, is a message delivered once, is a confirmed one lost? | two nodes, attempts in both directions, two messages one way, so that the second can prune the key of the first, a fault (loss, duplicate or failed decryption) and a restart, a responder that may accept an attempt twice |
| `sessions_live` | do contacts succeed, do messages arrive, and at the right user? | three nodes, two of them devices of one user; no faults; four attempts, one with a bad certificate, one for a device that is not at the record's address, one from the other device |
| `routing_bucket` | is a full bucket kept correctly? | lists of two, five contacts: both lists full and one contact left over; contacts are interchangeable (symmetry; safety only) |
| `dht_lookups` | do lookups end and meet? | five nodes with 4-bit identifiers, one silent, the shortlist cut at two; a join, a store and two searches, the second for another key, so that a late reply to the first can be taken for its own; any answer may be late, a value expires |
| `device_lists` | do changes to a device list add up? | two clients, two replicas (symmetry; safety only), four calls, one fault of the DHT or one crash; the creator has a password, so that the two clients differ in their keys; `MaxDevices` 5 is out of reach with two keys, as it is in the code |

`CHECK_DEADLOCK FALSE` where every packet, message, lookup or call of the instance may be done; the
routing table never stops.

What the passing runs show beside the plain reading of their properties:

- `RefinesDelivery`: all of the transport's retransmission and reassembly is invisible above but for one
  thing, that a packet is forwarded again when its receiver has forgotten it too early. `transport_safety`
  has instances of that, under `Busy` and with the filter at its cap; in `transport_fragments`, where
  sockets fall idle in time and the load is below the cap, `NothingForgotten` says that it does not happen.
- `RefinesDelivery` says of an acknowledgement that a tick of the receiver's runtime took the packet up. It
  does not say that handling it succeeded, since the code does not see to that (see below).
- `EntriesResolved`: an acknowledgement can arrive between `send_to` and the insertion in `pending`. It
  is then ignored, and the entry is retransmitted for nothing until it is given up; it does end. An entry
  of a node whose receive thread ended stays, and is excepted.
- `GenuineDecrypts`, `RootsAgree`: in spite of losses, duplicates, reordering and both ends sending at once,
  decryption fails only of a message already read, of one that a later key pair of its sender overtook, or
  of one that is more than `MAX_SKIP` past all that was read of its chain; and until such a failure closes a
  session, the ends are within one root key of each other. `ratchet_late` shows that the second exception
  is a defect.
- `AckedNotLost`: `tick_relay` confirms a frame before the message in it is decrypted. The property says what
  is left of the acknowledgement: at the responder of the session the message waits or is delivered, if
  nothing fails and nobody restarts. At the initiator a message that overtakes the handshake's reply is
  acknowledged and lost, and is excepted.
- `DeliveredAtMostOnce` excepts messages whose key was pruned while a copy was under way or in a pile. TLC
  finds such a message delivered twice when the exception is taken out.
- `SentInSessionIsDelivered` speaks of sessions the recipient already has. A message that overtakes the
  handshake reply is dropped by `tick_message`; nothing sends it again. It is claimed per device, since
  all packets for a user go to one address, and for decryptions that do not fail: `DoubleRatchet` says
  which do.
- `BetweenItsUsers`: whichever device's address `pk_to_addr` holds, a message is decrypted only by a device of
  the user it was sent to.
- `ContactEstablishes` claims a session with the device at the address of the contact record. `contact`
  writes to every listed device, but the record has one address, that of the last publisher.
- `PeersAgree`: the two ends of a session name each other's user, also with crossing attempts and when an
  end has restarted in between.
- `AssembledIsSent`, `OnlyLargePanic`, `RefinesReassembly`: for packets of up to 255 chunks (some 300 kB)
  the one-byte numbers are enough, however fragments are repeated, reordered, lost or evicted in between;
  this is what `ReliableTransport` takes for granted when it models chunks as sets. Of larger ones nothing
  is claimed: their totals wrap around.
- `ClosestQueried` claims the closest node only: the stronger claim of `client.rs:78` does not hold (see
  below). `StoredIsFound` and `FoundForKey` are claimed only while no answer was late: `recv_dht`
  recognises a reply by its address alone. `StoredIsFound` holds up to the last holder: it is enough that
  one live node kept the value, which an expiry elsewhere on the path must not hide.
- `OwnBucketAnswered` says how far `closest_nodes` can be relied on: the target's own bucket comes first and
  no other can hold a nearer node. Of the other buckets it reads those above and below alternately until
  it has enough, although all of those below are nearer than all above.
- `ChangesAddUp` and `RecordsVerify` say how far the unprotected read-modify-write goes: through crashes,
  reopened files and stores in any order, as long as calls do not overlap, no DHT fault occurs, `connect`
  is not called with an outdated list and no client publishes a list without itself. Each of these
  exceptions loses a change or makes the record unreadable (TLC finds a state for each when it is taken
  out of the history variable `clean` or of the hypothesis `faults = 0`).

### Where the code departs from its comments

- `reliable.rs:150-175` (`transport_fragment_acks`): `send` sets `AckRequired` on the fragments and registers
  each under an id of its own. What the receiver puts together is the packet as it was before, without the
  flag, so that nobody calls `confirm` for it. All fragments are retransmitted until given up.
- `main.rs:90` (`transport_cli_keys`): acknowledgements are signed with the master key, while after a
  handshake the peer expects the device key of the certificate.
- `ratchet.rs:106` (`ratchet_late`): every DH key other than the last one starts a new chain, also one
  whose chain was kept, so the saved chains are never used.

Seen in the source and modelled as it is, without a run of its own: `confirm` is to be called "after the packet
has been successfully handled" (`reliable.rs:175-178`), but `tick_relay` confirms a frame whose packet does not
parse or is not decrypted later (`runtime.rs:514-527`), `tick_server` a request without an answer (`484-496`) and
`tick_handshake` a hello it refuses (`577-633`), so that the sender takes for handled what was lost; the keys by
which "duplicates across devices are dropped" (`runtime.rs:716`) are pruned after 60 s, whatever still waits (`731`):
a copy over a second session that waits while a lookup holds the mutex, 5 s for each silent node (`444`), is
delivered again if another message is taken up before it; a `Value` that comes late ends the lookup of `store`,
which then sends its value to all of an unsorted and uncut shortlist (`runtime.rs:377-395`); a packet of more than 255 chunks is
split in pieces whose totals and indices wrap around (`fragment.rs:17`, `27`), so that two chunks of 258 make
a packet, a receiver indexes out of bounds (`fragment.rs:85`) or, with overflow checks, the sender panics
(`fragment.rs:28`); a node named by several replies fills several places of the shortlist, so that a lookup
may end before the K closest have been queried (`client.rs:158`, against the comment at `client.rs:78`); all
seeds of a join share the zero identifier, so that only the first is asked (`client.rs:50`); a node merely named by another counts as seen
(`client.rs:137`, `routing.rs:13`); `add_node` marks an entry as pinged although most callers send no
ping (`node.rs`, `routing.rs:14`); `connect` publishes the saved list without fetching (`api.rs:374`); a
failed lookup counts as an absent list (`api.rs:228`, `309`, `338`); a client that is not on the list
publishes a record that does not verify (`contact.rs:59`); all devices restored from a mnemonic have the
same keys, though `api.rs:187` calls them fresh, so there is no telling them apart; `new` derives the
identity without the password (`api.rs:54`) and `from_mnemonic`, `add_device` and `revoke_device` with
it, so that with a password these reach another identity; `add_device` and `revoke_device` count the
sequence number up after it was signed (`api.rs:316`, `348`), which nobody notices, as neither it nor
the master signature is ever checked; one address is kept for a user, and the last hello overwrites it
(`runtime.rs:586`).

### Fairness

- Transport: the threads run, `Timeout` occurs again and again (`RECV_TIMEOUT` is a socket read
  time-out; assumed not to starve when not `Busy`), and a datagram that is not lost arrives. Losses are
  bounded by `MaxFaults`, so weak fairness of delivery is not at odds with them.
- Sessions: the main loop runs the three ticks for ever, and as long as packets are on their way to a
  node one of them arrives, not any given one: the sort thread empties the socket, in no known order.
- DHT: only the deadline of `recv_dht` is fair. No node need ever answer, and lookups end all the same.

## Proofs

Every theorem holds for all values of the constants that the named assumptions of its module allow: any
sets of nodes, packets, contacts or clients, any caps, counts and bounds of the environment. Each
strengthening was checked by TLC on the module's run before it was proved. `PROJECT.json` lists the
theorems with the properties they state.

**Transport** (`ReliableTransportProofs`).

- `TypeCorrect`: `TypeOK` is inductive; the steps that need an argument are the retry counter (a retried
  entry is not exhausted) and the pieces of a packet being a sequence of ids.
- `GenuineAcks`, with `SignKey = CertKey`: a known key is always the peer's signing key, whether it was
  learnt from an acknowledgement or from a certificate. `transport_cli_keys` shows that the hypothesis is
  needed and that `main.rs` breaks it.
- `EntriesResolveOnce`: by `SendOrder`, the pieces a `send` has still to register are distinct and have
  neither an entry nor an outcome; so an id enters `pending` once. The refinement needs it: what was
  acknowledged stays so.
- `SeenCapped`: by `SeenBounded`, an arrival finds at most `MaxSeen` entries and makes room for its own.

**Refinement of `Delivery`** (`ReliableTransportProofs`, second part). `TransportRefines` is unconditional: it holds
for every timing, load and number of faults. That an acknowledgement rests on a confirmation, that on what waits in
`ackq`, that on what was taken up, that on what was forwarded, is `AckChain`, of which each action disturbs at
most one link; that only what was sent is forwarded is `OnlySent`. That a packet is forwarded again only after it
was forgotten is `Recalled`: one that was forwarded, has not been forgotten since, and of which a copy may still
come (`Alive`), is in the filter and younger than `DedupTTL`. It is inductive because no step makes a copy of a packet that
has none left (`NothingRevives`), and because `forgotten` takes in whatever drops out of the filter while there
is one.

`FilterOutlasts` says when nothing is forgotten, and is conditional: under `TimelyAssumption`, that the filter keeps
an entry (`DedupTTL`, 300 s) longer than the whole retry schedule and a datagram's life together (about 12 s and
what the network holds back) and that sockets fall idle in time (`~Busy`), and under `[]LoadBelowCap`, that fewer
than `MaxSeen` (1024) packets reach a node within one `DedupTTL`. The code enforces neither the second nor the
third. The invariant is `Remembered`: the age of a forwarded packet in the filter is bounded by the age of
everything that can still produce a copy of it, a piece within `send` (`SendingFresh`), a datagram in flight
(`FlightWindow`) or an entry with retries left (`RetryWindow`). `transport_fragments` is an instance in which the
hypotheses hold.

**Fragments** (`FragmentsProofs`), for any sizes of packets, any width of the numbers and both kinds of build. The
invariant is `Sound`: beside the types, every datagram under way is a piece `split_packet` made of a packet that
was sent (`Genuine`), and of a packet that the numbers can count, the receiver keeps each chunk at its own place
under the packet's own total (`InPlace`). The last needs that a cast to `u8` is the identity below its bound
(`CastKeeps`), and that `feed()` never drops the slots of such a packet when it compares totals
(`OpenedInPlace`). From it follow `AssembledPackets`, `PanicsNeedLargePackets` (a chunk of such a packet always
has a place in the vector: `SmallNeverPanics`) and, step by step, `FragmentsReassemble`.

**Ratchet** (`DoubleRatchetProofs`, with `SequenceLemmas` on `Append` and `RemoveAt`).

- `TypeCorrect`; `ChainsWithinCap`, that saved chains stay within `MAX_SAVED_CHAINS`; `KeysEncryptOnce`: by `KeysFresh`, the depth of an end's root key
  follows from the number of its key pair, odd at the responder and even at the initiator, and by
  `SentKeys` each key that was used belongs to a chain of another depth or to an earlier number of the
  present one.
- `ReplaysRejected`, `UsedKeysAreGone`: by `ChainsUsed`, in every chain that is kept, a message that was
  received has a number passed and not skipped, so that nothing kept derives its key; a chain that was
  dropped is never made again, since a root key is the sequence of all secrets so far.
- `OneRootAhead`, `GenuineMessagesDecrypt`, over a transport that keeps no order at all. `InStep` says who leads
  the exchange of DH keys (`TakeTurns`, `Leads`: one end has one key pair and one root key more than the other),
  that what is under way to an end is of the chain it reads, of the next, whose key it can derive, or of an
  older one (`Known`), and that the keys gone from the chain it reads have decrypted their messages (`Heard`). So
  the chain a message is looked up in is the one it came under (`ChainsMeet`), unless a message of a later key
  pair was decrypted before it, which is the exception `GenuineDecrypts` makes.

**Sessions** (`RuntimeSessionsProofs`).

- `TypeCorrect`, `TablesAgree`, `PeersAgreeOnSessions`: by `SessionOrigin`, every packet under way or piled
  up was posted by a step that began, accepted or wrote it; every pending attempt was begun; every session
  names the user at its other end.
- `OneSession`: `SeenOnce`, that until a restart the tags of accepted attempts are in `seen_tags`.
- `DeliveredOnceOnly`: `received_keys` is emptied by a restart and pruned at any time. By `KeysDelivered` a key
  that is remembered was delivered; by `ForgottenIsDead` copies of a delivered message whose key is gone, and
  was not pruned with a copy under way, are of connections that exist, are no session at that node and can
  no longer become one (`Dead`).
- `MessagesBetweenUsers`: by `Addressed`, the address kept for a user is that of one of this user's devices, and
  every message under way goes to a device of its recipient over a connection whose ends are its author's
  user and its recipient (`Between`), which by `SessionOrigin` are the users the tables name.

**Routing table** (`RoutingTableProofs`). The lists are built by `Within`, and the lemmas say first that it
keeps the elements of a set, all of them, in their order. The invariant `Bucket` adds to `ListsAgree` that
`recency` has each entry once (`Shape`) and agrees with the ages (`Ordered`). From it follow `TypeCorrect`,
`OneEntryEach` and the action properties `CurrentStay` and `FreshestMoveUp`.

**Device lists** (`DeviceListsProofs`). `TypeCorrect` (with `Filed`: an open client has a file that agrees
with its password). `ChangesSumUp` and `PublishedVerifies` follow from `InOrder`: as long as no fault
occurred and no call overlapped another, every record under way lists the sum of the changes, and so does
every record held, unless one that does is on its way to replace it; and a change still to be published
was made to that sum (`ChangeDue`).

**Lookups** (`DhtLookupProofs`).

- `ValueIsAskedFor`: by `OneExchange`, as long as nobody answered too late, at most one request or answer with
  content is under way, and it is that of the query `recv_dht` waits for.
- `TypeCorrect` and `NearestIsQueried` rest on the order of distances. `NearerOrders`: distances to a target are a
  strict total order, because identifiers that differ do so at a first bit. `Ranked` (in `SequenceLemmas`):
  then each place from the first to the last belongs to one element, so that `Sorted` and `ShortenedOf` can
  say what `sort_by_key` and `truncate` keep: at most K entries, the nearest among them. `TypeCorrect` needs
  beside it `StartedFirst` (nobody is asked before a lookup starts); `NearestIsQueried` follows from
  `ShortlistKnown`: the shortlist is of nodes the lookup heard of, the nearest of all of these is in it or has
  been queried, and when nobody is left to ask, all of it has been queried.
- `AskedHoldersTell`: a live node that holds the value all the while and is asked for it tells, as long as no reply
  is late. By `HadHolds` it still holds it, and by `HoldersAsked` a lookup that goes on without a value has queried
  no such node but the one it waits for: by `OneExchange` the reply that ends the wait is that node's own.
- `NearestHolderFound` joins the three: what `store()` put away is found, whatever the network looks like, if the
  nearest node that the search hears of holds it.
- `OwnBucketIsAnswered`: by `BucketBits`, the bucket of a node is where its bits first leave those of the table's
  owner; so a node of the target's bucket agrees with the target where one of another bucket does not, and is
  nearer (`OwnBucketNearer`). `OwnBucketFirst` states it for any table and target.

### Model-checked only

- All liveness (`EveryLookupEnds`, the progress properties of transport and sessions): fairness and
  `ENABLED` are outside the prover's reach. So are the runs that expect a violation.
- `RuntimeSessions!AckedNotLost`; `ReliableTransport!NothingForgotten` without the conditions of `FilterOutlasts`
  is untrue.
- `DhtLookup!StoredIsFound`: the part that holds of every network is `NearestHolderFound`. That a search hears of a
  holder at all depends on what the nodes of the instance know of each other, and is not true for every
  `Knows`.

## Not modelled

The retransmission of handshake packets as such; `sess_tx`, `poll` and safety numbers; contacting oneself; `remove_node` and `needs_ping` (no
callers); malformed replies and records; what others' requests add to a DHT server's table; DHT traffic
so dense that `tick_server` never returns; forwarding for others, which cannot happen as long as a
registry only holds its own node; the layout of files and messages; and the rest of the components with
status `partly` or `not_modelled` in `PROJECT.json`, each with its reason there.

## Plan

1. Done: transport with its abstract specification; ratchet; sessions with several devices and changing
   addresses; routing bucket; lookups with expiry; device lists; proofs of all their safety properties but
   those named above.
2. Done: `Fragments`, `split_packet` and the reassembly with their `u8` numbers, with its abstract specification;
   `closest_nodes` against the n closest.
3. Left: a DHT server whose table changes through the requests of others while lookups run, composed with `DhtLookup`.

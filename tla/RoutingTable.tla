---------------------------- MODULE RoutingTable -----------------------------
(***************************************************************************)
(* src/dht/routing.rs: one bucket of the routing table, as its callers in  *)
(* dht/node.rs, dht/client.rs and runtime.rs use it.  Buckets do not touch *)
(* one another, and Node is the set of contacts that fall into this one.   *)
(*                                                                         *)
(* Instants are ages in ticks, saturating just above Stale; `recency' keeps*)
(* the exact order of the last_seen instants, which min_by_key and         *)
(* max_by_key compare.  remove_node and needs_ping have no caller and are  *)
(* left out.                                                               *)
(*                                                                         *)
(* A definition marked `deviation' is a mistake the code could have made   *)
(* in place of the one that follows it; no action uses it.                 *)
(***************************************************************************)
EXTENDS Integers, FiniteSets, Sequences, SequencesExt

CONSTANTS
  Node,           \* contacts of this bucket, the local id not among them
  K,              \* K (20): capacity of each of the two lists
  Cooldown,       \* PING_COOLDOWN (60 s), in ticks
  Stale           \* STALE_THRESHOLD (120 s), in ticks

ASSUME RoutingAssumption ==
  K \in Nat \ {0} /\ Cooldown \in Nat /\ Stale \in Nat /\ Cooldown < Stale

VARIABLES
  active, candidates,   \* Bucket.active and Bucket.candidates
  recency,              \* the nodes of both lists, by last_seen, oldest first
  seenAge,              \* [Node -> ticks since Entry.last_seen]
  pinged,               \* [Node -> ticks since Entry.last_pinged, or Never]
  pings                 \* nodes with a Ping of ours on the wire

lists == <<active, candidates, recency>>
vars == <<lists, seenAge, pinged, pings>>

Never == -1
Old == Stale + 1
Aged(a) == IF a = Never \/ a = Old THEN a ELSE a + 1

\* The elements of a list that are in S, in its order: at(k) is the place of the
\* k-th of them.  (SelectSeq, by a definition that proofs can expand.)
Within(list, S) ==
  LET kept == {i \in DOMAIN list : list[i] \in S}
      at(k) == CHOOSE i \in kept : Cardinality({j \in kept : j <= i}) = k
  IN [k \in 1..Cardinality(kept) |-> list[at(k)]]
Without(list, S) == Within(list, ToSet(list) \ S)
Known == ToSet(active) \cup ToSet(candidates)

TypeOK ==
  /\ active \in Seq(Node) /\ candidates \in Seq(Node) /\ recency \in Seq(Node)
  /\ Len(active) <= K /\ Len(candidates) <= K
  /\ IsInjective(recency) /\ ToSet(recency) = Known
  /\ seenAge \in [Node -> 0..Old] /\ pinged \in [Node -> {Never} \cup 0..Old]
  /\ pings \subseteq Node

Init ==
  /\ active = <<>> /\ candidates = <<>> /\ recency = <<>>
  /\ seenAge = [n \in Node |-> 0] /\ pinged = [n \in Node |-> Never]
  /\ pings = {}

-----------------------------------------------------------------------------
(* add_node *)

\* The active entries whose last ping, if any, is old enough, oldest first.
Pingable ==
  Within(recency, {n \in ToSet(active) : pinged[n] = Never \/ pinged[n] > Cooldown})

\* The entry add_node marks and returns when n is new to a full bucket.
ToPing(n) ==
  IF n \notin Known /\ Len(active) = K /\ Len(candidates) < K /\ Pingable # <<>>
    THEN {Head(Pingable)} ELSE {}

\* An entry for n as of now, wherever there is room for it.
Placed(n) ==
  LET current == Append(Without(recency, {n}), n) IN
  \/ /\ n \in ToSet(active)
     /\ active' = Append(Without(active, {n}), n)
     /\ recency' = current /\ UNCHANGED candidates
  \/ /\ n \in ToSet(candidates)
     /\ candidates' = Append(Without(candidates, {n}), n)
     /\ recency' = current /\ UNCHANGED active
  \/ /\ n \notin Known /\ Len(active) < K
     /\ active' = Append(active, n)
     /\ recency' = current /\ UNCHANGED candidates
  \/ /\ n \notin Known /\ Len(active) = K /\ Len(candidates) < K
     /\ candidates' = Append(candidates, n)
     /\ recency' = current /\ UNCHANGED active
  \/ /\ n \notin Known /\ Len(active) = K /\ Len(candidates) = K
     /\ UNCHANGED lists

Stored(n) == n \in Known \/ Len(active) < K \/ Len(candidates) < K

AddNode(n) ==
  /\ Placed(n)
  /\ seenAge' = [seenAge EXCEPT ![n] = 0]
  /\ pinged' = [m \in Node |->
       IF m \in ToPing(n) THEN 0 ELSE IF m = n /\ Stored(n) THEN Never ELSE pinged[m]]

\* process_op, for the sender of a request or response, and handle_response,
\* for each node a reply names, heard from or not: all discard the entry that
\* add_node has marked as pinged.
Heard(n) == AddNode(n) /\ UNCHANGED pings

\* join, lookup_node and find_value: n answered, and they send the ping.
Answered(n) ==
  /\ pings' = pings \cup ToPing(n)
  /\ AddNode(n)

\* The Ping arrives and process_op takes the Pong, or one of them is lost.
Pong(n) ==
  /\ n \in pings
  /\ AddNode(n)
  /\ pings' = pings \ {n}

PingLost(n) ==
  /\ n \in pings /\ pings' = pings \ {n}
  /\ UNCHANGED <<lists, seenAge, pinged>>

-----------------------------------------------------------------------------
(* evict_stale, at the end of every tick_server *)

IsStaleEarly(n) == pinged[n] > Cooldown /\ seenAge[n] >= pinged[n]    \* deviation
IsStale(n) == pinged[n] > Stale /\ seenAge[n] >= pinged[n]

Current == Without(active, {n \in Node : IsStale(n)})

\* The candidates left once the stale ones are dropped and the stale active
\* entries moved down, as far as there is room.
Waiting ==
  LET fresh == Within(candidates, {n \in Node : seenAge[n] < Stale})
      demoted == Within(active, {n \in Node : IsStale(n)})
      room == K - Len(fresh)
  IN fresh \o SubSeq(demoted, 1, IF Len(demoted) < room THEN Len(demoted) ELSE room)

PromotedNone == <<>>                                        \* deviation
PromotedAll == Reverse(Within(recency, ToSet(Waiting)))     \* deviation
PromotedOldest ==                                           \* deviation
  LET byAge == Within(recency, ToSet(Waiting))
      room == K - Len(Current)
  IN SubSeq(byAge, 1, IF Len(byAge) < room THEN Len(byAge) ELSE room)

\* The freshest of them, as many as the active list has room for.
Promoted ==
  LET byFreshness == Reverse(Within(recency, ToSet(Waiting)))
      room == K - Len(Current)
  IN SubSeq(byFreshness, 1, IF Len(byFreshness) < room THEN Len(byFreshness) ELSE room)

EvictStale ==
  /\ active' = Current \o Promoted
  /\ candidates' = Without(Waiting, ToSet(Promoted))
  /\ recency' = Within(recency, ToSet(active') \cup ToSet(candidates'))
  /\ UNCHANGED <<seenAge, pinged, pings>>

\* One tick passes; the clock of an absent entry does not matter.
Tick ==
  /\ seenAge' = [n \in Node |-> IF n \in Known THEN Aged(seenAge[n]) ELSE 0]
  /\ pinged' = [n \in Node |-> IF n \in Known THEN Aged(pinged[n]) ELSE Never]
  /\ UNCHANGED <<lists, pings>>

Next ==
  \/ \E n \in Node : Heard(n) \/ Answered(n) \/ Pong(n) \/ PingLost(n)
  \/ EvictStale
  \/ Tick

Spec == Init /\ [][Next]_vars

-----------------------------------------------------------------------------
\* A contact has one entry in the bucket, whichever lists it has been through,
\* and no candidate waits while the active list has room: add_node and
\* evict_stale agree on when a node belongs in which list.
ListsAgree ==
  /\ IsInjective(active \o candidates)
  /\ candidates # <<>> => Len(active) = K

\* A node heard of within STALE_THRESHOLD stays in the active list, whatever
\* pings were marked before: add_node clears the mark of every entry it touches.
DropsOnlyOld == \A n \in ToSet(active) \ ToSet(active)' : seenAge[n] > Stale
CurrentKept == [][DropsOnlyOld]_vars

\* evict_stale prefers the candidates seen last: whoever enters the active list
\* there, or stays in it although stale, was seen after everyone who waits.
PrefersFreshest ==
  EvictStale =>
    \A n \in ToSet(active)', m \in ToSet(candidates)' :
      n \notin ToSet(active) \/ IsStale(n) => seenAge[n] <= seenAge[m]
FreshestPromoted == [][PrefersFreshest]_vars
=============================================================================

------------------------------ MODULE Kademlia -------------------------------
(***************************************************************************)
(* src/dht/node_id.rs and RoutingTable::closest_nodes of dht/routing.rs:   *)
(* identifiers, their XOR distance, and what a table answers when it is    *)
(* asked for the nodes closest to a target.  Identifiers have Bits bits    *)
(* instead of 256; a table is the set of its active nodes.                 *)
(*                                                                         *)
(* A definition marked `deviation' is a mistake the code could have made   *)
(* in place of the one that follows it; no action uses it.                 *)
(***************************************************************************)
EXTENDS Integers, FiniteSets, FiniteSetsExt, Sequences

CONSTANTS
  Identifier,    \* NodeIDs
  Bits,          \* width of an identifier (256)
  BitOf          \* [Identifier -> its bits, the most significant first]

ASSUME IdentifierAssumption ==
  /\ Bits \in Nat \ {0} /\ IsFiniteSet(Identifier)
  /\ BitOf \in [Identifier -> [0..Bits - 1 -> {0, 1}]]
  /\ \A a, b \in Identifier : BitOf[a] = BitOf[b] => a = b

\* Whether a's distance to target is less than b's, as arrays of bytes are
\* compared: where a and b first differ, it is a that agrees with target.
Ascending ==
  [target \in Identifier |-> [a \in Identifier |-> [b \in Identifier |->
     \E i \in 0..Bits - 1 :
       /\ BitOf[a][i] = BitOf[target][i] /\ BitOf[b][i] # BitOf[target][i]
       /\ \A j \in 0..i - 1 : BitOf[a][j] = BitOf[b][j]]]]
Nearer(target, a, b) == Ascending[target][a][b]

\* RoutingTable::bucket: the leading bits two identifiers share, the last
\* bucket for the local identifier itself.
Bucket(local, id) ==
  LET differing == {i \in 0..Bits - 1 : BitOf[local][i] # BitOf[id][i]}
  IN IF differing = {} THEN Bits - 1 ELSE Min(differing)

ClosestLast(S, target, n) ==                                \* deviation
  {a \in S : Cardinality({b \in S : Nearer(target, a, b)}) < n}

\* The n closest of a set of identifiers, as a set.
Closest(S, target, n) ==
  {a \in S : Cardinality({b \in S : Nearer(target, b, a)}) < n}

\* The buckets closest_nodes has read after r rounds: the target's own, then
\* one more above and one more below it each round.
Gathered(table, local, target, r) ==
  LET start == Bucket(local, target)
  IN {a \in table : Bucket(local, a) \in (start - r)..(start + r)}

\* closest_nodes: it stops reading once it has n nodes or no bucket is left.
ClosestNodes(table, local, target, n) ==
  LET enough == {r \in 0..Bits :
                   \/ Cardinality(Gathered(table, local, target, r)) >= n
                   \/ r = Bits}
  IN Closest(Gathered(table, local, target, Min(enough)), target, n)
==============================================================================

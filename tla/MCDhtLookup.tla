---------------------------- MODULE MCDhtLookup ------------------------------
\* DhtLookup for TLC: five nodes around the client 8, whose nearest neighbours
\* know each other, and some of whom know the far side.
EXTENDS DhtLookup, TLC

Identifiers == 0..15
Binary == [a \in Identifiers |-> [i \in 0..3 |-> (a \div 2^(3 - i)) % 2]]
Nodes == {1, 3, 6, 9, 14}

Ring ==
  (1 :> {3, 6}) @@ (3 :> {1, 6, 14}) @@ (6 :> {1, 3, 9}) @@ (9 :> {6, 14}) @@ (14 :> {1, 9})
OneSeed == <<9>>

Join == [kind |-> "join", target |-> Me]
To(kind, target) == [kind |-> kind, target |-> target]

StoreAndFind == <<Join, To("store", 2), To("value", 2), To("value", 5)>>
==============================================================================

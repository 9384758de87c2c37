--------------------------- MODULE MCRoutingTable ----------------------------
\* RoutingTable for TLC: the contacts of a bucket are interchangeable, and the
\* properties checked with this symmetry are safety properties.
EXTENDS RoutingTable, TLC

Contacts == Permutations(Node)
==============================================================================

----------------------------- MODULE MCFragments -----------------------------
\* Fragments for TLC: packets as far as numbers of four values count, and beyond.
EXTENDS Fragments, TLC

CONSTANTS one, two, three, five, six

Several == {one, two, three, five, six}
Counts == (one :> 1) @@ (two :> 2) @@ (three :> 3) @@ (five :> 5) @@ (six :> 6)
==============================================================================

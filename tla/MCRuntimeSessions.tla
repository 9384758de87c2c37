------------------------- MODULE MCRuntimeSessions --------------------------
(* Small instances of RuntimeSessions for TLC. *)
EXTENDS RuntimeSessions

CONSTANTS a, b, b2, A, B, h1, h2, h3, h4, m1, m2

\* a is A's device; b and b2 are B's, with keys of their own.
MCUserOf == [n \in Node |-> IF n = a THEN A ELSE B]
MCKeyOf == [n \in Node |-> n]

\* h1 and h3 are a's attempts with b, and h4 its attempt with b2, all at the
\* address of b; h2 is an attempt of b with a.
MCFrom == [h \in Attempt |-> IF h = h2 THEN b ELSE a]
MCTo == [h \in Attempt |-> IF h = h2 THEN a ELSE b]
MCForKey == [h \in Attempt |-> IF h = h4 THEN b2 ELSE MCTo[h]]

\* The same, but that h2 comes from b2.
MCFromOther == [h \in Attempt |-> IF h = h2 THEN b2 ELSE a]

\* a writes to B.
MCAuthor == [m \in Msg |-> a]
MCRecipient == [m \in Msg |-> B]
=============================================================================

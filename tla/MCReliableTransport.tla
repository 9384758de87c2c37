------------------------ MODULE MCReliableTransport -------------------------
(* Small instances of ReliableTransport for TLC. *)
EXTENDS ReliableTransport, TLC

CONSTANTS a, b, p1, p2, p3, ka, kb, ma, mb

\* Packets p1, p2 go from a to b and p3 back from b to a.
MCSrc == [p \in Packet |-> IF p = p3 THEN b ELSE a]
MCDst == [p \in Packet |-> IF p = p3 THEN a ELSE b]

\* p1 and p2 are alike where all packets are whole.
SameRoute == Permutations(Packet \ {p3})

AllWhole == [p \in Packet |-> 1]
\* p1 needs two fragments, any other packet none.
FirstSplit == [p \in Packet |-> IF p = p1 THEN 2 ELSE 1]

\* The device keys the certificates carry.
DeviceKeys == a :> ka @@ b :> kb
\* main.rs:90 binds the transport with the master key instead.
MasterKeys == a :> ma @@ b :> mb
=============================================================================

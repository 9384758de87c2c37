----------------------------- MODULE Reassembly ------------------------------
(***************************************************************************)
(* What fragment.rs promises to the transport: a receiver gathers the      *)
(* pieces of a packet, whichever of them arrive, how often and in what     *)
(* order, and gives the packet out when it has them all.  ReliableTransport *)
(* models reassembly in this way.                                          *)
(***************************************************************************)
EXTENDS Naturals

CONSTANTS
  Packet,
  Pieces          \* [Packet -> pieces it is sent in]

VARIABLES
  sent,           \* packets that were sent
  gathered,       \* [Packet -> numbers of the pieces the receiver keeps]
  assembled       \* packets given out, complete

vars == <<sent, gathered, assembled>>

Init == sent = {} /\ gathered = [p \in Packet |-> {}] /\ assembled = {}

Send(p) == sent' = sent \cup {p} /\ UNCHANGED <<gathered, assembled>>

\* A packet that was not split needs no gathering.
ArriveWhole(p) ==
  /\ p \in sent /\ Pieces[p] = 1
  /\ assembled' = assembled \cup {p}
  /\ UNCHANGED <<sent, gathered>>

Arrive(p, i) ==
  /\ p \in sent /\ Pieces[p] > 1
  /\ gathered' = [gathered EXCEPT ![p] = @ \cup {i}]
  /\ assembled' = IF gathered[p] \cup {i} = 1..Pieces[p] THEN assembled \cup {p} ELSE assembled
  /\ UNCHANGED sent

\* An old reassembly is dropped, complete or not.
Drop(p) == gathered' = [gathered EXCEPT ![p] = {}] /\ UNCHANGED <<sent, assembled>>

Next ==
  \E p \in Packet : \/ Send(p) \/ ArriveWhole(p) \/ Drop(p)
                    \/ \E i \in 1..Pieces[p] : Arrive(p, i)

Spec == Init /\ [][Next]_vars
==============================================================================

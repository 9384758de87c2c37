------------------------------ MODULE Delivery ------------------------------
(***************************************************************************)
(* What the reliable transport promises about a packet, whatever the       *)
(* network does: it is forwarded to the application only if it was sent,   *)
(* and a second time only if its receiver forgot it first; an              *)
(* acknowledgement is produced only for a packet the application has taken *)
(* up, whatever came of it, and the sender takes a packet for acknowledged *)
(* only when its receiver has confirmed it.  Nothing is said of whether or *)
(* when these happen: a packet may be lost, and an acknowledgement too.    *)
(***************************************************************************)
EXTENDS Naturals

CONSTANT Packet     \* packets, each sent once, under a random 128-bit id

VARIABLES
  requested,        \* packets the sender has begun to send
  forwarded,        \* how often each was forwarded (2: more than once)
  forgotten,        \* packets forgotten since they were last forwarded
  handled,          \* packets the application has taken up
  confirmed,        \* packets whose receiver produced an acknowledgement
  acknowledged      \* packets the sender knows to be confirmed

vars == <<requested, forwarded, forgotten, handled, confirmed, acknowledged>>

Init ==
  /\ requested = {}
  /\ forwarded = [p \in Packet |-> 0]
  /\ forgotten = {}
  /\ handled = {}
  /\ confirmed = {}
  /\ acknowledged = {}

Request(p) ==
  /\ requested' = requested \cup {p}
  /\ UNCHANGED <<forwarded, forgotten, handled, confirmed, acknowledged>>

\* Packets already forwarded that a receiver may forget.
Forgettable == {p \in Packet : forwarded[p] > 0}

Forget ==
  /\ forgotten \subseteq forgotten'
  /\ forgotten' \subseteq forgotten \cup Forgettable
  /\ UNCHANGED <<requested, forwarded, handled, confirmed, acknowledged>>

\* To remember one packet a receiver may forget others.
Forward(p) ==
  /\ p \in requested
  /\ forwarded[p] = 0 \/ p \in forgotten
  /\ forwarded' = [forwarded EXCEPT ![p] = IF @ = 0 THEN 1 ELSE 2]
  /\ forgotten \ {p} \subseteq forgotten'
  /\ forgotten' \subseteq (forgotten \cup Forgettable) \ {p}
  /\ UNCHANGED <<requested, handled, confirmed, acknowledged>>

Handle(p) ==
  /\ forwarded[p] > 0
  /\ handled' = handled \cup {p}
  /\ UNCHANGED <<requested, forwarded, forgotten, confirmed, acknowledged>>

Confirm(p) ==
  /\ p \in handled
  /\ confirmed' = confirmed \cup {p}
  /\ UNCHANGED <<requested, forwarded, forgotten, handled, acknowledged>>

Acknowledge(p) ==
  /\ p \in confirmed
  /\ acknowledged' = acknowledged \cup {p}
  /\ UNCHANGED <<requested, forwarded, forgotten, handled, confirmed>>

Next ==
  \/ \E p \in Packet :
       Request(p) \/ Forward(p) \/ Handle(p) \/ Confirm(p) \/ Acknowledge(p)
  \/ Forget

Spec == Init /\ [][Next]_vars
=============================================================================

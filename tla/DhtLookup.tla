------------------------------ MODULE DhtLookup ------------------------------
(***************************************************************************)
(* src/dht/client.rs with join, lookup_node, find_value, store and         *)
(* recv_dht of runtime.rs, and the requests dht/node.rs answers: one       *)
(* client making a series of lookups, each a chain of queries answered,    *)
(* late or never.                                                          *)
(*                                                                         *)
(* A node is reached at an address of its own, so its identifier stands    *)
(* for its address too.  A value is named by its key.  The transport and   *)
(* the pile are one set of replies that have still to be taken: a reply    *)
(* that comes after its query timed out stays there for whoever waits for  *)
(* the same address next.                                                  *)
(*                                                                         *)
(* A definition marked `deviation' is a mistake the code could have made   *)
(* in place of the one that follows it; no action uses it.                 *)
(***************************************************************************)
EXTENDS Kademlia, SequencesExt

CONSTANTS
  Me,              \* the client's identifier
  Node,            \* the other nodes
  Alive,           \* those that answer
  Knows,           \* [Node -> the other nodes in its routing table]
  Seeds,           \* addresses join() is given
  Plan,            \* the lookups the client makes, in order
  K,               \* K (20)
  None,            \* no address, no value
  MaxExpired       \* bound: values that expire

\* The empty identifier [0u8; 32] start_join gives to seeds.
Zero == CHOOSE id \in Identifier : \A i \in 0..Bits - 1 : BitOf[id][i] = 0
Operation == [kind : {"join", "node", "value", "store"}, target : Identifier]

ASSUME DhtAssumption ==
  /\ Zero \in Identifier /\ None \notin Identifier
  /\ Node \subseteq Identifier \ {Zero, Me} /\ Me \in Identifier \ {Zero}
  /\ Alive \subseteq Node /\ Knows \in [Node -> SUBSET Node]
  /\ Seeds \in Seq(Node) /\ Plan \in Seq(Operation)
  /\ K \in Nat \ {0} /\ MaxExpired \in Nat
  /\ \A i \in DOMAIN Plan : Plan[i].kind = "join" => Plan[i].target = Me

VARIABLES
  table,           \* active nodes of the client's routing table
  turn,            \* the lookup under way, or just ended
  asking,          \* the address recv_dht waits for, or None: it has ended
  shortlist,       \* PendingLookup.shortlist
  queried,         \* PendingLookup.queried
  found,           \* PendingLookup.found_value, by its key
  requests,        \* requests on their way to a node
  replies,         \* replies on their way to the client or in its dht_pile
  holds,           \* [Node -> keys in its DhtNode.store]
  met,             \* nodes whose routing table holds the client
  known,           \* history: identifiers this lookup started with or was told
  had,             \* history: live nodes that held the key when it started and
                   \* have not let it expire
  expired,         \* values that have expired
  late             \* history: whether a live node has answered too late

pending == <<shortlist, queried, found>>
vars == <<table, turn, asking, pending, requests, replies, holds, met, known, had,
          expired, late>>

Entry == {e \in [id : Node \cup {Zero}, addr : Node] : e.id \in {e.addr, Zero}}
Ids(list) == {list[i].id : i \in DOMAIN list}
Current == Plan[turn]
Ended == turn > 0 /\ asking = None

TypeOK ==
  /\ table \subseteq Node /\ turn \in 0..Len(Plan) /\ asking \in Node \cup {None}
  /\ shortlist \in Seq(Entry)
  /\ turn > 0 /\ Current.kind # "join" /\ found = None => Len(shortlist) <= K
  /\ queried \subseteq Node \cup {Zero} /\ found \in {None} \cup Identifier
  /\ requests \subseteq [to : Node, kind : {"node", "value", "store"}, target : Identifier]
  /\ replies \subseteq [from : Node, target : Identifier, kind : {"node", "value", "ack"},
                        value : {None} \cup Identifier, nodes : SUBSET Node]
  /\ holds \in [Node -> SUBSET Identifier] /\ met \subseteq Node
  /\ known \subseteq Node \cup {Zero} /\ had \subseteq Alive
  /\ expired \in 0..MaxExpired /\ late \in BOOLEAN

Init ==
  /\ table = {} /\ turn = 0 /\ asking = None
  /\ shortlist = <<>> /\ queried = {} /\ found = None
  /\ requests = {} /\ replies = {}
  /\ holds = [n \in Node |-> {}] /\ met = {}
  /\ known = {} /\ had = {} /\ expired = 0 /\ late = FALSE

\* The entries of a list but for the identifiers in skip, by their distance to
\* target: at(k) is the place of the k-th of them.  sort_by_key is stable.
ByDistance(list, skip, target) ==
  LET kept == {i \in DOMAIN list : list[i].id \notin skip}
      ahead(i) == {j \in kept : \/ Nearer(target, list[j].id, list[i].id)
                               \/ (list[j].id = list[i].id /\ j < i)}
      at(k) == CHOOSE i \in kept : Cardinality(ahead(i)) = k - 1
  IN [k \in 1..Cardinality(kept) |-> list[at(k)]]
Entries(nodes, target) ==
  LET nearer(n) == {m \in nodes : Nearer(target, m, n)}
      at(k) == CHOOSE n \in nodes : Cardinality(nearer(n)) = k - 1
  IN [k \in 1..Cardinality(nodes) |-> [id |-> at(k), addr |-> at(k)]]

\* What a response teaches the table: its sender, then the nodes it names,
\* closest to its target first, each if there is room in its bucket's active
\* list (RoutingTable models the candidates).
Learn(r) ==
  LET fresh == ({r.from} \cup r.nodes) \ table
      Earlier(m, n) == m # n /\ (m = r.from \/ (n # r.from
                         /\ Nearer(r.target, m, n)))
      Ahead(n) == {m \in table \cup {m \in fresh : Earlier(m, n)} : Bucket(Me, m) = Bucket(Me, n)}
  IN table \cup {n \in fresh : Cardinality(Ahead(n)) < K}

Query(addr, op) ==
  [to |-> addr, target |-> op.target,
   kind |-> IF op.kind = "value" THEN "value" ELSE "node"]

UnqueriedAll(list, done, target) == ByDistance(list, {}, target)       \* deviation

\* The entries still to be queried, nearest first.
Unqueried(list, done, target) == ByDistance(list, done, target)

\* What follows the end of a lookup: store() sends its value to all of the
\* shortlist, as it stands.
Stores(list, op) ==
  IF op.kind = "store"
    THEN {[to |-> list[i].addr, kind |-> "store", target |-> op.target] : i \in DOMAIN list}
    ELSE {}

\* PendingLookup::next_query on the lookup as it now stands, and the query the
\* caller sends; or, when every node has been queried, the end of the lookup.
NextQuery(list, told, done, op) ==
  LET open == Unqueried(list, done, op.target) IN
  /\ shortlist' = list
  /\ known' = (IF turn' = turn THEN known ELSE {}) \cup told
  /\ \/ /\ open # <<>>
        /\ \E e \in {Head(open)} :
             /\ asking' = e.addr /\ queried' = done \cup {e.id}
             /\ requests' = requests \cup {Query(e.addr, op)}
     \/ /\ open = <<>>
        /\ asking' = None /\ queried' = done
        /\ requests' = requests \cup Stores(list, op)

\* start_join, start_lookup_node, start_find_value.
Start ==
  /\ asking = None /\ turn < Len(Plan)
  /\ turn' = turn + 1
  /\ \E op \in {Plan[turn + 1]} :
       \E list \in {IF op.kind = "join" THEN [i \in DOMAIN Seeds |-> [id |-> Zero, addr |-> Seeds[i]]]
                    ELSE Entries(ClosestNodes(table, Me, op.target, K), op.target)} :
         NextQuery(list, Ids(list), {}, op)
  /\ found' = None
  /\ had' = {n \in Alive : Plan[turn + 1].target \in holds[n]}
  /\ UNCHANGED <<table, replies, holds, met, expired, late>>

ShortenedNever(list, nodes, target) ==                      \* deviation
  ByDistance(list \o Entries(nodes, target), {}, target)
ShortenedUnsorted(list, nodes, target) ==                   \* deviation
  LET all == list \o Entries(nodes, target)
  IN SubSeq(all, 1, IF Len(all) < K THEN Len(all) ELSE K)

\* The shortlist handle_response keeps: the nodes of the reply are added as they
\* come, the rest is sorted and truncated to K.
Shortened(list, nodes, target) ==
  LET all == ByDistance(list \o Entries(nodes, target), {}, target)
  IN SubSeq(all, 1, IF Len(all) < K THEN Len(all) ELSE K)

\* recv_dht takes a Nodes or Value of the expected address, whatever query it
\* answers; then add_node and handle_response.  A value ends any lookup, that
\* of store() too, with the shortlist neither sorted nor cut.
Receive(r) ==
  /\ asking # None /\ r.from = asking /\ r.kind # "ack"
  /\ UNCHANGED <<turn, holds, met, had, expired, late>>
  /\ replies' = replies \ {r}
  /\ table' = Learn(r)
  /\ \/ /\ r.value # None
        /\ found' = r.value /\ asking' = None
        /\ shortlist' = shortlist \o Entries(r.nodes, Current.target)
        /\ requests' = requests \cup Stores(shortlist', Current)
        /\ known' = known \cup r.nodes
        /\ UNCHANGED queried
     \/ /\ r.value = None
        /\ \E list \in {Shortened(shortlist, r.nodes, Current.target)} :
             NextQuery(list, r.nodes, queried, Current)
        /\ UNCHANGED found

\* recv_dht waits 5 seconds in vain: skip_node.
Timeout ==
  /\ asking # None
  /\ late' = (late \/ asking \in Alive)
  /\ UNCHANGED <<table, turn, found, replies, holds, met, had, expired>>
  /\ NextQuery(shortlist, {}, queried, Current)

\* The nodes q.to names in an answer: the K closest of its routing table, the
\* client perhaps among them, and then the client taken out.
Named(q) ==
  LET entries == Knows[q.to] \cup (IF q.to \in met THEN {Me} ELSE {})
  IN ClosestNodes(entries, q.to, q.target, K) \ {Me}

AnswerExpired(q) ==                                         \* deviation
  [from |-> q.to, target |-> q.target,
   kind |-> IF q.kind = "store" THEN "ack" ELSE q.kind, value |-> None,
   nodes |-> IF q.kind = "store" THEN {} ELSE Named(q)]
AnswerAny(q) ==                                             \* deviation
  [from |-> q.to, target |-> q.target,
   kind |-> IF q.kind = "store" THEN "ack" ELSE q.kind,
   value |-> IF q.kind = "value" /\ holds[q.to] # {} THEN CHOOSE key \in holds[q.to] : TRUE ELSE None,
   nodes |-> IF q.kind = "store" THEN {} ELSE Named(q)]

\* DhtNode::process_op at another node: what it answers to FindNode, FindValue
\* and Store.
Answer(q) ==
  [from |-> q.to, target |-> q.target,
   kind |-> IF q.kind = "store" THEN "ack" ELSE q.kind,
   value |-> IF q.kind = "value" /\ q.target \in holds[q.to] THEN q.target ELSE None,
   nodes |-> IF q.kind = "store" THEN {} ELSE Named(q)]

\* A request is answered, a stored value kept and the client added to the
\* table if its bucket has room.
Serve(q) ==
  /\ q.to \in Alive
  /\ requests' = requests \ {q}
  /\ holds' = [holds EXCEPT ![q.to] = IF q.kind = "store" THEN @ \cup {q.target} ELSE @]
  /\ replies' = replies \cup {Answer(q)}
  /\ met' = IF Cardinality({n \in Knows[q.to] : Bucket(q.to, n) = Bucket(q.to, Me)}) < K
              THEN met \cup {q.to} ELSE met
  /\ UNCHANGED <<table, turn, asking, pending, known, had, expired, late>>

\* The ttl of a stored value runs out: process_op no longer returns it.
Expire(n, key) ==
  /\ key \in holds[n] /\ expired < MaxExpired /\ expired' = expired + 1
  /\ holds' = [holds EXCEPT ![n] = @ \ {key}]
  /\ had' = had \ {n}
  /\ UNCHANGED <<table, turn, asking, pending, requests, replies, met, known, late>>

\* tick_server takes what no lookup consumed.
TickServer(r) ==
  /\ asking = None
  /\ replies' = replies \ {r}
  /\ table' = Learn(r)
  /\ UNCHANGED <<turn, asking, pending, requests, holds, met, known, had, expired, late>>

Next ==
  \/ Start \/ Timeout
  \/ \E q \in requests : Serve(q)
  \/ \E r \in replies : Receive(r) \/ TickServer(r)
  \/ \E n \in Node : \E key \in holds[n] : Expire(n, key)

Spec == Init /\ [][Next]_vars

\* recv_dht has a deadline; no node need ever answer.
Fairness == WF_vars(Timeout)
FairSpec == Spec /\ Fairness

-----------------------------------------------------------------------------
\* A lookup that ends without a value has queried the closest of all the nodes
\* it ever heard of: truncation never loses that one, and neither
\* timeouts nor replies to earlier queries end a lookup before it is asked.
ClosestQueried ==
  Ended /\ found = None =>
    \A n \in known : (\A m \in known : ~Nearer(Current.target, m, n)) => n \in queried

\* Every lookup that is started ends, whoever answers late or never: no node is
\* queried twice.
EveryLookupEnds == \A i \in DOMAIN Plan : turn = i ~> turn = i /\ Ended

\* A live node that held the value all the while and was asked for it has told
\* find_value: no other reply ends its turn, and a reply with the value is not
\* passed over, as long as none has outlived its query.
HoldersTell ==
  ~late /\ Ended /\ Current.kind = "value" /\ found = None => queried \cap had = {}

\* What store() put away, find_value finds, as long as the nodes that are alive
\* have answered in time and the value has not expired everywhere: the lookups
\* of the two meet at some node.
StoredIsFound ==
  ~late /\ Ended /\ Current.kind = "value" /\ had # {} => found = Current.target

\* The value find_value returns is the value of the key it was asked for, as
\* long as no reply has outlived its query.
FoundForKey == ~late /\ found # None => Current.kind = "value" /\ found = Current.target

\* What closest_nodes answers to a lookup: when the target's own bucket holds K
\* nodes, the K closest of the whole table, though it has not read the rest;
\* otherwise it leaves none of that bucket out.  Of the other buckets it promises
\* nothing: it reads above and below alternately, and all below are closer.
OwnBucketAnswered ==
  \A i \in DOMAIN Plan :
    LET target == Plan[i].target
        own == {n \in table : Bucket(Me, n) = Bucket(Me, target)}
        answer == ClosestNodes(table, Me, target, K)
    IN IF Cardinality(own) >= K THEN answer = Closest(table, target, K)
                                ELSE own \subseteq answer
=============================================================================

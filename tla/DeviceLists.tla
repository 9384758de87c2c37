----------------------------- MODULE DeviceLists ------------------------------
(***************************************************************************)
(* The device list of one user: src/api.rs (new, open, from_mnemonic, save,*)
(* add_device, revoke_device, connect), identity/devices.rs and            *)
(* dht/record/contact.rs, with store, publish_contact and find_contact of  *)
(* runtime.rs and the store of dht/node.rs.                                *)
(*                                                                         *)
(* Each client of the user fetches the list from the DHT, changes it,      *)
(* publishes it whole and then saves it; other clients and the stores still*)
(* in flight come in between.  A replica keeps the last record to arrive.  *)
(* A lookup reaches the replicas as DhtLookup has it; here it ends at any  *)
(* of those that hold a record, or fails.                                  *)
(*                                                                         *)
(* A device is named by its key.  All keys come from the mnemonic and the  *)
(* password, and add_device and from_mnemonic reach this identity without  *)
(* a password only, so that there are two keys: that of the client which   *)
(* created the identity under a password, and the key of all the others.   *)
(* The sequence number and the master signature of a list are left out:    *)
(* nothing that fetches a list looks at them.                              *)
(*                                                                         *)
(* A definition marked `deviation' is a mistake the code could have made   *)
(* in place of the one that follows it; no action uses it.                 *)
(***************************************************************************)
EXTENDS Integers, FiniteSets, SequencesExt

CONSTANTS
  Client,         \* installations of the program, each with a storage_dir
  Creator,        \* the one that calls new()
  Protected,      \* whether it is given a password
  Replica,        \* the DHT nodes closest to the contact key
  MaxDevices,     \* MAX_DEVICES (5)
  MaxFaults,      \* bound: stores lost, records forgotten, lookups failed, and
                  \* processes that end
  MaxCalls        \* bound: calls made, open() and save() aside

ASSUME DeviceAssumption ==
  /\ Creator \in Client /\ Protected \in BOOLEAN
  /\ MaxDevices \in Nat \ {0} /\ {MaxFaults, MaxCalls} \subseteq Nat

VARIABLES
  status,         \* [Client -> "absent" | "running" | "stopped"]
  key,            \* [Client -> its device key]
  list,           \* [Client -> device_list]
  file,           \* [Client -> what `open' reads of its device_list file]
  step,           \* [Client -> what its call has still to do]
  draft,          \* [Client -> the change that call is to publish]
  joined,         \* clients whose routing table has nodes
  flight,         \* Store requests on their way
  store,          \* [Replica -> the record it holds]
  faults, crashes, calls,
  expected,       \* history: the devices after the changes published so far
  revoked,        \* history: the devices removed by them
  clean           \* history: no calls overlapped, none was made with an
                  \* outdated list or by a client that was revoked

client == <<status, key, list, file, step, draft, joined>>
dht == <<flight, store>>
counters == <<faults, crashes, calls>>
history == <<expected, revoked, clean>>
vars == <<client, dht, counters, history>>

\* Keychain::from_mnemonic.
KeyFor(password) == IF password THEN "protected" ELSE "plain"
Key == {KeyFor(password) : password \in BOOLEAN}
NoKey == "no key"

NoFile == <<"no file">>      \* missing, or cut short by a crash
Devices == {s \in UNION {[1..n -> Key] : n \in 0..2} : IsInjective(s)}

\* A change: the new list, and how it came about.
Change == [devices : Devices, added : SUBSET Key, removed : SUBSET Key]
NoChange == [devices |-> <<>>, added |-> {}, removed |-> {}]

\* A published record: the list, and the device whose key signed it.
Record == [devices : Devices, signer : Key]
NoRecord == [devices |-> <<>>, signer |-> NoKey]

TypeOK ==
  /\ status \in [Client -> {"absent", "running", "stopped"}]
  /\ key \in [Client -> Key \cup {NoKey}]
  /\ list \in [Client -> Devices] /\ file \in [Client -> Devices \cup {NoFile}]
  /\ step \in [Client -> {"idle", "publish", "save"}]
  /\ draft \in [Client -> Change] /\ joined \subseteq Client
  /\ flight \subseteq Replica \X Record
  /\ store \in [Replica -> Record \cup {NoRecord}]
  /\ faults \in 0..MaxFaults /\ crashes \in 0..MaxFaults /\ calls \in 0..MaxCalls
  /\ expected \subseteq Key /\ revoked \subseteq Key /\ clean \in BOOLEAN
  /\ \A c \in Client : status[c] = "running" => key[c] \in Key

Init ==
  /\ status = [c \in Client |-> "absent"]
  /\ key = [c \in Client |-> NoKey]
  /\ list = [c \in Client |-> <<>>] /\ file = [c \in Client |-> NoFile]
  /\ step = [c \in Client |-> "idle"] /\ draft = [c \in Client |-> NoChange]
  /\ joined = {}
  /\ flight = {} /\ store = [r \in Replica |-> NoRecord]
  /\ faults = 0 /\ crashes = 0 /\ calls = 0
  /\ expected = {} /\ revoked = {} /\ clean = TRUE

-----------------------------------------------------------------------------
(* The record in the DHT *)

\* ContactRecord::verify: some listed device made the signature.  (A record
\* of no device, too short for from_serialized, does not verify either.)
Verifies(record) == record.signer \in ToSet(record.devices)

\* publish_contact: the record goes to every node the lookup returned.
Stores(devices, signer) ==
  {<<r, [devices |-> devices, signer |-> signer]>> : r \in Replica}

FetchedNever(otherwise) == {otherwise}                      \* deviation

\* What find_contact can return while no fault happens; `otherwise' is what its
\* caller goes on with if there is no record or the one found does not verify.
Fetched(otherwise) ==
  LET held == {store[r] : r \in {r \in Replica : store[r] # NoRecord}}
  IN IF held = {} THEN {otherwise}
     ELSE {IF Verifies(h) THEN h.devices ELSE otherwise : h \in held}

\* Another call is under way, or stores are.
Disturbed(c) == flight # {} \/ \E d \in Client \ {c} : step[d] = "publish"

-----------------------------------------------------------------------------
(* The calls of a client, one at a time *)

AddedAgain(devices, k) == Append(devices, k)                \* deviation

\* DeviceList::add_device, unless contains_active.
Added(devices, k) ==
  IF k \in ToSet(devices) THEN devices ELSE Append(devices, k)

\* The change from_mnemonic and add_device make to a list, an error if it is
\* full, and those revoke_device can make, by the index it is given.
AdditionToFresh ==                                          \* deviation
  [base \in Devices |->
     {[devices |-> IF base = <<>> THEN <<"plain">> ELSE base, added |-> {"plain"}, removed |-> {}]}]
Addition ==
  [base \in Devices |->
     IF "plain" \in ToSet(base) \/ Len(base) < MaxDevices
       THEN {[devices |-> Added(base, "plain"), added |-> {"plain"}, removed |-> {}]}
       ELSE {}]
Removal ==
  [base \in Devices |->
     {[devices |-> RemoveAt(base, i), added |-> {}, removed |-> {base[i]}] : i \in DOMAIN base}]

\* Client::new: a list of its own device, saved and not yet published.
Create ==
  LET first == Added(<<>>, KeyFor(Protected)) IN
  /\ \A c \in Client : key[c] = NoKey
  /\ status' = [status EXCEPT ![Creator] = "running"]
  /\ key' = [key EXCEPT ![Creator] = KeyFor(Protected)]
  /\ list' = [list EXCEPT ![Creator] = first]
  /\ file' = [file EXCEPT ![Creator] = first]
  /\ UNCHANGED <<step, draft, joined, dht, counters, history>>

\* The first half of from_mnemonic, add_device and revoke_device: the list that
\* is found, or failing that `otherwise', is changed; it remains to publish it.
Begin(c, otherwise, changes) ==
  /\ calls < MaxCalls /\ calls' = calls + 1
  /\ step[c] = "idle" /\ step' = [step EXCEPT ![c] = "publish"]
  /\ \E failed \in BOOLEAN :
       /\ failed => faults + crashes < MaxFaults
       /\ faults' = IF failed THEN faults + 1 ELSE faults
       /\ \E base \in IF failed THEN {otherwise} ELSE Fetched(otherwise) :
            \E change \in changes[base] : draft' = [draft EXCEPT ![c] = change]
  /\ clean' = (clean /\ ~Disturbed(c))
  /\ UNCHANGED <<status, list, file, dht, crashes, expected, revoked>>

\* from_mnemonic, once there is a mnemonic.
FromMnemonic(c) ==
  /\ status[c] = "absent" /\ \E d \in Client : key[d] # NoKey
  /\ key' = [key EXCEPT ![c] = "plain"]
  /\ joined' = joined \cup {c}
  /\ Begin(c, <<>>, Addition)

AddDevice(c) ==
  /\ status[c] = "running" /\ c \in joined
  /\ Begin(c, list[c], Addition)
  /\ UNCHANGED <<key, joined>>

RevokeDevice(c) ==
  /\ status[c] = "running" /\ c \in joined
  /\ Begin(c, list[c], Removal)
  /\ UNCHANGED <<key, joined>>

\* Their second half: the changed list is published, and taken over.
Publish(c) ==
  LET change == draft[c] IN
  /\ step[c] = "publish" /\ step' = [step EXCEPT ![c] = "save"]
  /\ flight' = flight \cup Stores(change.devices, key[c])
  /\ list' = [list EXCEPT ![c] = change.devices]
  /\ draft' = [draft EXCEPT ![c] = NoChange]
  /\ expected' = (expected \cup change.added) \ change.removed
  /\ revoked' = (revoked \cup change.removed) \ change.added
  /\ clean' = (clean /\ key[c] \notin revoked')
  /\ UNCHANGED <<status, key, file, joined, store, counters>>

\* There is nobody to publish to: an error, and nothing is changed or saved.
PublishFails(c) ==
  /\ step[c] = "publish" /\ step' = [step EXCEPT ![c] = "idle"]
  /\ draft' = [draft EXCEPT ![c] = NoChange]
  /\ faults + crashes < MaxFaults /\ faults' = faults + 1
  /\ UNCHANGED <<status, key, list, file, joined, dht, crashes, calls, history>>

\* Their end.
Save(c) ==
  /\ step[c] = "save" /\ step' = [step EXCEPT ![c] = "idle"]
  /\ file' = [file EXCEPT ![c] = list[c]]
  /\ status' = [status EXCEPT ![c] = "running"]
  /\ UNCHANGED <<key, list, draft, joined, dht, counters, history>>

\* Client::save, called by itself.
SaveAgain(c) ==
  /\ status[c] = "running" /\ step[c] = "idle"
  /\ step' = [step EXCEPT ![c] = "save"]
  /\ UNCHANGED <<status, key, list, file, draft, joined, dht, counters, history>>

\* connect: the client joins the DHT and publishes the list it has.
Connect(c) ==
  /\ status[c] = "running" /\ step[c] = "idle"
  /\ calls < MaxCalls /\ calls' = calls + 1
  /\ joined' = joined \cup {c}
  /\ flight' = flight \cup Stores(list[c], key[c])
  /\ expected' = IF expected = {} THEN ToSet(list[c]) ELSE expected
  /\ clean' = (clean /\ ~Disturbed(c) /\ ToSet(list[c]) = expected' /\ key[c] \notin revoked)
  /\ UNCHANGED <<status, key, list, file, step, draft, store, faults, crashes, revoked>>

\* open.
Open(c) ==
  /\ status[c] = "stopped" /\ status' = [status EXCEPT ![c] = "running"]
  /\ list' = [list EXCEPT ![c] = file[c]]
  /\ UNCHANGED <<key, file, step, draft, joined, dht, counters, history>>

-----------------------------------------------------------------------------
(* The environment *)

\* The process ends; a file that was being written may be cut short, and then
\* open() fails and only from_mnemonic is left.
Crash(c) ==
  /\ status[c] = "running" \/ step[c] # "idle"
  /\ faults + crashes < MaxFaults /\ crashes' = crashes + 1
  /\ \E left \in {file[c]} \cup (IF step[c] = "save" THEN {NoFile} ELSE {}) :
       /\ file' = [file EXCEPT ![c] = left]
       /\ status' = [status EXCEPT ![c] = IF left = NoFile THEN "absent" ELSE "stopped"]
  /\ step' = [step EXCEPT ![c] = "idle"] /\ draft' = [draft EXCEPT ![c] = NoChange]
  /\ list' = [list EXCEPT ![c] = <<>>] /\ joined' = joined \ {c}
  /\ UNCHANGED <<key, dht, faults, calls, history>>

\* DhtNode, Store: the record replaces whatever is there.
StoreArrives(r, record) ==
  /\ <<r, record>> \in flight /\ flight' = flight \ {<<r, record>>}
  /\ store' = [store EXCEPT ![r] = record]
  /\ UNCHANGED <<client, counters, history>>

\* The transport gives up on a Store, or its sender ends before it is sent.
StoreLost(r, record) ==
  /\ <<r, record>> \in flight /\ flight' = flight \ {<<r, record>>}
  /\ faults + crashes < MaxFaults /\ faults' = faults + 1
  /\ UNCHANGED <<client, store, crashes, calls, history>>

\* The record expires (nothing publishes it again in time), or the node ends.
Forget(r) ==
  /\ store[r] # NoRecord /\ store' = [store EXCEPT ![r] = NoRecord]
  /\ faults + crashes < MaxFaults /\ faults' = faults + 1
  /\ UNCHANGED <<client, flight, crashes, calls, history>>

Next ==
  \/ Create
  \/ \E c \in Client :
       \/ FromMnemonic(c) \/ AddDevice(c) \/ RevokeDevice(c) \/ Publish(c) \/ PublishFails(c)
       \/ Save(c) \/ SaveAgain(c) \/ Connect(c) \/ Open(c) \/ Crash(c)
  \/ \E s \in flight : StoreArrives(s[1], s[2]) \/ StoreLost(s[1], s[2])
  \/ \E r \in Replica : Forget(r)

Spec == Init /\ [][Next]_vars

-----------------------------------------------------------------------------
\* Changes made one after the other add up, whichever client makes them and
\* wherever clients crash and reopen: once their stores have arrived, every
\* replica lists what all changes together amount to.  To lose one takes two
\* calls that overlap, a fault of the DHT, connect() with an outdated list, or a
\* list published by a client that is no longer on it.
ChangesAddUp ==
  clean /\ faults = 0 /\ flight = {} =>
    \A r \in Replica : store[r] # NoRecord => ToSet(store[r].devices) = expected

\* The user can be found: while none of these has happened, every record that is
\* held or on its way verifies, though a client never makes sure that it is on
\* the list it fetched, changed and signed.
RecordsVerify ==
  clean /\ faults = 0 =>
    \A record \in {s[2] : s \in flight} \cup {store[r] : r \in Replica} :
      record # NoRecord => Verifies(record)
===============================================================================

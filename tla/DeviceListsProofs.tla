-------------------------- MODULE DeviceListsProofs --------------------------
(***************************************************************************)
(* What is proved of DeviceLists for every set of clients and replicas, any*)
(* number of calls, faults and crashes, and whether or not the identity was*)
(* created under a password.                                               *)
(***************************************************************************)
EXTENDS DeviceLists, SequenceLemmas, TLAPS

-----------------------------------------------------------------------------
(* Lists *)

LEMMA Keys == /\ Key = {"plain", "protected"} /\ NoKey \notin Key
              /\ \A password : KeyFor(password) \in Key
<1>1. \A password : KeyFor(password) \in {"plain", "protected"}
  BY DEF KeyFor
<1>2. KeyFor(TRUE) = "protected" /\ KeyFor(FALSE) = "plain"
  BY DEF KeyFor
<1>3. Key = {"plain", "protected"}
  BY <1>1, <1>2 DEF Key
<1> QED BY <1>1, <1>3 DEF NoKey

\* The lists the code makes: no key twice, hence no more keys than there are.
LEMMA DevicesAre ==
  ASSUME NEW s
  PROVE  s \in Devices <=> /\ s \in Seq(Key) /\ Len(s) <= 2
                           /\ \A i, j \in 1..Len(s) : s[i] = s[j] => i = j
<1>1. ASSUME s \in Devices
      PROVE  /\ s \in Seq(Key) /\ Len(s) <= 2
             /\ \A i, j \in 1..Len(s) : s[i] = s[j] => i = j
  <2>1. PICK n \in 0..2 : s \in [1..n -> Key]
    BY <1>1 DEF Devices
  <2>2. s \in Seq(Key) /\ Len(s) = n /\ DOMAIN s = 1..n
    BY <2>1
  <2> QED BY <1>1, <2>2 DEF Devices, IsInjective
<1>2. ASSUME s \in Seq(Key), Len(s) <= 2, \A i, j \in 1..Len(s) : s[i] = s[j] => i = j
      PROVE  s \in Devices
  <2>1. Len(s) \in Nat /\ s \in [1..Len(s) -> Key]
    BY <1>2, LenProperties
  <2>2. Len(s) \in 0..2 /\ DOMAIN s = 1..Len(s)
    BY <1>2, <2>1
  <2>3. s \in UNION {[1..n -> Key] : n \in 0..2}
    BY <2>1, <2>2
  <2> QED BY <1>2, <2>2, <2>3 DEF Devices, IsInjective
<1> QED BY <1>1, <1>2

LEMMA NoDevices == /\ <<>> \in Devices /\ ToSet(<<>>) = {} /\ NoFile \notin Devices
                   /\ NoRecord \notin Record
<1>1. <<>> \in Devices
  <2>1. <<>> \in Seq(Key) /\ Len(<<>>) = 0
    BY EmptySeq
  <2>2. 0 <= 2 /\ \A i, j \in 1..0 : <<>>[i] = <<>>[j] => i = j
    OBVIOUS
  <2> QED BY <2>1, <2>2, DevicesAre
<1>2. NoFile[1] \notin Key /\ Len(NoFile) = 1
  BY Keys DEF NoFile
<1>3. NoFile \notin Devices
  <2> SUFFICES ASSUME NoFile \in Devices PROVE FALSE
    OBVIOUS
  <2>1. NoFile \in Seq(Key) /\ 1 \in 1..Len(NoFile)
    BY <1>2, DevicesAre
  <2> QED BY <1>2, <2>1, ElementOfSeq
<1>4. NoRecord \notin Record
  BY Keys DEF NoRecord, Record
<1> QED BY <1>1, <1>3, <1>4 DEF ToSet

LEMMA Listed ==
  ASSUME NEW s \in Devices
  PROVE  ToSet(s) = {s[i] : i \in 1..Len(s)} /\ ToSet(s) \subseteq Key /\ Len(s) \in Nat
BY DevicesAre, LenProperties, ElementOfSeq DEF ToSet

\* DeviceList::add_device and remove.
LEMMA AddedDevices ==
  ASSUME NEW base \in Devices, NEW k \in Key
  PROVE  Added(base, k) \in Devices /\ ToSet(Added(base, k)) = ToSet(base) \cup {k}
<1>0. /\ base \in Seq(Key) /\ Len(base) <= 2 /\ Len(base) \in Nat
      /\ \A i, j \in 1..Len(base) : base[i] = base[j] => i = j
      /\ ToSet(base) = {base[i] : i \in 1..Len(base)}
  BY DevicesAre, Listed
<1>1. CASE k \in ToSet(base)
  BY <1>1 DEF Added
<1>2. CASE k \notin ToSet(base)
  <2>1. /\ Append(base, k) \in Seq(Key) /\ Len(Append(base, k)) = Len(base) + 1
        /\ \A i \in 1..Len(base) : Append(base, k)[i] = base[i]
        /\ Append(base, k)[Len(base) + 1] = k
    BY <1>0, AppendAt
  <2>2. Len(base) # 2
    <3> SUFFICES ASSUME Len(base) = 2 PROVE FALSE
      OBVIOUS
    <3>1. base[1] \in Key /\ base[2] \in Key /\ base[1] # base[2]
      BY <1>0, ElementOfSeq
    <3>2. base[1] # k /\ base[2] # k
      BY <1>0, <1>2
    <3> QED BY <3>1, <3>2, Keys
  <2>3. \A i, j \in 1..Len(base) + 1 : Append(base, k)[i] = Append(base, k)[j] => i = j
    <3> TAKE i, j \in 1..Len(base) + 1
    <3>1. i \in 1..Len(base) \/ i = Len(base) + 1
      BY <1>0
    <3>2. j \in 1..Len(base) \/ j = Len(base) + 1
      BY <1>0
    <3>3. \A x \in 1..Len(base) : base[x] # k
      BY <1>0, <1>2
    <3> QED BY <1>0, <2>1, <3>1, <3>2, <3>3
  <2>4. Append(base, k) \in Devices
    <3>1. Len(base) + 1 <= 2
      <4>1. Len(base) \in Nat /\ Len(base) <= 2
        BY <1>0
      <4> QED BY <2>2, <4>1
    <3> QED BY <2>1, <2>3, <3>1, DevicesAre
  <2>5. ToSet(Append(base, k)) = ToSet(base) \cup {k}
    <3>1. ToSet(Append(base, k)) = {Append(base, k)[i] : i \in 1..Len(base) + 1}
      BY <2>1, <2>4, Listed
    <3>2. \A i : i \in 1..Len(base) + 1 <=> i \in 1..Len(base) \/ i = Len(base) + 1
      BY <1>0
    <3> QED BY <1>0, <2>1, <3>1, <3>2
  <2> QED BY <1>2, <2>4, <2>5 DEF Added
<1> QED BY <1>1, <1>2

LEMMA RemovedDevice ==
  ASSUME NEW base \in Devices, NEW i \in DOMAIN base
  PROVE  /\ RemoveAt(base, i) \in Devices
         /\ ToSet(RemoveAt(base, i)) = ToSet(base) \ {base[i]} /\ base[i] \in Key
<1> DEFINE rest == RemoveAt(base, i)
<1>0. /\ base \in Seq(Key) /\ Len(base) <= 2 /\ Len(base) \in Nat
      /\ \A x, y \in 1..Len(base) : base[x] = base[y] => x = y
      /\ ToSet(base) = {base[x] : x \in 1..Len(base)}
  BY DevicesAre, Listed
<1>1. /\ rest \in Seq(Key) /\ DOMAIN rest = 1..Len(base) - 1 /\ i \in 1..Len(base)
      /\ \A j \in 1..Len(base) - 1 : rest[j] = base[IF j < i THEN j ELSE j + 1]
  BY <1>0, RemoveAtAt
<1> HIDE DEF rest
<1>2. Len(rest) = Len(base) - 1
  BY <1>0, <1>1, LenProperties
<1>3. \A x, y \in 1..Len(rest) : rest[x] = rest[y] => x = y
  <2> TAKE x, y \in 1..Len(rest)
  <2> HAVE rest[x] = rest[y]
  <2>1. PICK a, b : a = (IF x < i THEN x ELSE x + 1) /\ b = IF y < i THEN y ELSE y + 1
    OBVIOUS
  <2>2. a \in 1..Len(base) /\ b \in 1..Len(base) /\ base[a] = base[b]
    BY <1>0, <1>1, <1>2, <2>1
  <2>3. a = b
    BY <1>0, <2>2
  <2> QED BY <1>1, <1>2, <2>1, <2>3
<1>4. rest \in Devices
  BY <1>0, <1>1, <1>2, <1>3, DevicesAre
<1>5. \A k \in 1..Len(base) : k # i => base[k] \in ToSet(rest)
  <2> TAKE k \in 1..Len(base)
  <2> HAVE k # i
  <2>1. PICK j : j = IF k < i THEN k ELSE k - 1
    OBVIOUS
  <2>2. j \in 1..Len(rest) /\ (IF j < i THEN j ELSE j + 1) = k
    BY <1>0, <1>1, <1>2, <2>1
  <2>3. rest[j] = base[k]
    BY <1>1, <1>2, <2>2
  <2> QED BY <1>4, <2>2, <2>3, Listed
<1>6. \A j \in 1..Len(rest) : \E k \in 1..Len(base) : k # i /\ rest[j] = base[k]
  <2> TAKE j \in 1..Len(rest)
  <2>1. PICK k : k = IF j < i THEN j ELSE j + 1
    OBVIOUS
  <2>2. k \in 1..Len(base) /\ k # i /\ rest[j] = base[k]
    BY <1>0, <1>1, <1>2, <2>1
  <2> QED BY <2>2
<1>7. ToSet(rest) = ToSet(base) \ {base[i]}
  <2>1. ToSet(rest) = {rest[j] : j \in 1..Len(rest)}
    BY <1>4, Listed
  <2>2. \A k \in 1..Len(base) : base[k] = base[i] <=> k = i
    BY <1>0, <1>1
  <2>3. ASSUME NEW k \in ToSet(base), k # base[i] PROVE k \in ToSet(rest)
    BY <1>0, <1>5, <2>3
  <2>4. ASSUME NEW k \in ToSet(rest) PROVE k \in ToSet(base) /\ k # base[i]
    <3>1. PICK j \in 1..Len(rest) : k = rest[j]
      BY <2>1, <2>4
    <3> QED BY <1>0, <1>6, <2>2, <3>1
  <2> QED BY <2>3, <2>4
<1>8. base[i] \in Key
  BY <1>0, <1>1, ElementOfSeq
<1> QED BY <1>4, <1>7, <1>8 DEF rest

\* A change is what it says: the new list has what was added and not what was
\* removed, and the rest of the list it was made to.
LEMMA ChangesAre ==
  ASSUME NEW base \in Devices, NEW change \in Addition[base] \cup Removal[base]
  PROVE  /\ change \in Change
         /\ ToSet(change.devices) = (ToSet(base) \cup change.added) \ change.removed
         /\ change.added = {} \/ change.removed = {}
         /\ change \in Addition[base] => change.added = {"plain"}
<1>0. Addition[base] = IF "plain" \in ToSet(base) \/ Len(base) < MaxDevices
        THEN {[devices |-> Added(base, "plain"), added |-> {"plain"}, removed |-> {}]}
        ELSE {}
  BY DEF Addition
<1>1. Removal[base] =
        {[devices |-> RemoveAt(base, i), added |-> {}, removed |-> {base[i]}] : i \in DOMAIN base}
  BY DEF Removal
<1>2. CASE change \in Addition[base]
  <2>1. change = [devices |-> Added(base, "plain"), added |-> {"plain"}, removed |-> {}]
    BY <1>0, <1>2
  <2>2. "plain" \in Key
    BY Keys
  <2> QED BY <2>1, <2>2, AddedDevices DEF Change
<1>3. CASE change \in Removal[base] /\ change \notin Addition[base]
  <2>1. PICK i \in DOMAIN base :
          change = [devices |-> RemoveAt(base, i), added |-> {}, removed |-> {base[i]}]
    BY <1>1, <1>3
  <2> QED BY <1>3, <2>1, RemovedDevice DEF Change
<1> QED BY <1>2, <1>3

-----------------------------------------------------------------------------
(* Types *)

LEMMA Bounds == Creator \in Client /\ MaxFaults \in Nat /\ MaxCalls \in Nat
BY DeviceAssumption

\* What find_contact comes back with is a list, and if no fault happens one that
\* a replica holds, unless none holds any.
LEMMA FetchedLists ==
  ASSUME TypeOK, NEW otherwise \in Devices, NEW base \in Fetched(otherwise)
  PROVE  /\ base \in Devices
         /\ \/ base = otherwise /\ \A r \in Replica : store[r] = NoRecord
            \/ \E r \in Replica : /\ store[r] # NoRecord
                                  /\ base = IF Verifies(store[r]) THEN store[r].devices ELSE otherwise
<1>1. PICK held : held = {store[r] : r \in {r \in Replica : store[r] # NoRecord}}
  OBVIOUS
<1>2. base \in IF held = {} THEN {otherwise}
               ELSE {IF Verifies(h) THEN h.devices ELSE otherwise : h \in held}
  BY <1>1 DEF Fetched
<1>3. CASE held = {}
  BY <1>1, <1>2, <1>3
<1>4. CASE held # {}
  <2>1. PICK h \in held : base = IF Verifies(h) THEN h.devices ELSE otherwise
    BY <1>2, <1>4
  <2>2. PICK r \in Replica : store[r] # NoRecord /\ h = store[r]
    BY <1>1, <2>1
  <2>3. h \in Record
    BY <2>2 DEF TypeOK
  <2> QED BY <2>1, <2>2, <2>3 DEF Record
<1> QED BY <1>3, <1>4

\* The first half of a call.
LEMMA Begun ==
  ASSUME TypeOK, NEW c \in Client, NEW otherwise \in Devices,
         NEW changes, changes = Addition \/ changes = Removal,
         Begin(c, otherwise, changes)
  PROVE  /\ step[c] = "idle" /\ step' = [step EXCEPT ![c] = "publish"]
         /\ calls' \in 0..MaxCalls /\ faults' \in 0..MaxFaults
         /\ faults' = 0 => faults = 0
         /\ clean' = (clean /\ ~Disturbed(c))
         /\ UNCHANGED <<status, list, file, dht, crashes, expected, revoked>>
         /\ \E base \in Devices : \E change \in Change :
              /\ change \in changes[base] /\ draft' = [draft EXCEPT ![c] = change]
              /\ faults' = 0 => base \in Fetched(otherwise)
<1>1. PICK failed \in BOOLEAN :
        /\ failed => faults + crashes < MaxFaults
        /\ faults' = IF failed THEN faults + 1 ELSE faults
        /\ \E base \in IF failed THEN {otherwise} ELSE Fetched(otherwise) :
             \E change \in changes[base] : draft' = [draft EXCEPT ![c] = change]
  BY DEF Begin
<1>2. faults \in Nat /\ crashes \in Nat /\ calls \in Nat /\ calls <= MaxCalls /\ faults <= MaxFaults
  BY Bounds DEF TypeOK
<1>3. PICK base, change :
        /\ base \in IF failed THEN {otherwise} ELSE Fetched(otherwise)
        /\ change \in changes[base] /\ draft' = [draft EXCEPT ![c] = change]
  BY <1>1
<1>4. base \in Devices
  BY <1>3, FetchedLists
<1>5. change \in Change
  BY <1>3, <1>4, ChangesAre
<1>6. faults' \in 0..MaxFaults /\ (faults' = 0 => ~failed /\ faults = 0)
  BY <1>1, <1>2, Bounds
<1>7. calls' \in 0..MaxCalls
  <2>1. calls < MaxCalls /\ calls' = calls + 1
    BY DEF Begin
  <2> QED BY <1>2, <2>1, Bounds
<1>8. faults' = 0 => base \in Fetched(otherwise)
  BY <1>3, <1>6
<1> QED BY <1>3, <1>4, <1>5, <1>6, <1>7, <1>8 DEF Begin

\* A client is absent as long as it has no file, and has a key otherwise, or
\* while from_mnemonic is under way; one that has stopped does nothing.
Filed == \A c \in Client :
  /\ status[c] = "stopped" => step[c] = "idle"
  /\ status[c] = "absent" <=> file[c] = NoFile
  /\ status[c] # "absent" \/ step[c] # "idle" => key[c] \in Key

LEMMA StoresTypes ==
  ASSUME NEW devices \in Devices, NEW signer \in Key
  PROVE  Stores(devices, signer) \subseteq Replica \X Record
BY DEF Stores, Record

LEMMA FiledHolds == Spec => [](TypeOK /\ Filed)
<1>1. Init => TypeOK /\ Filed
  <2> SUFFICES ASSUME Init PROVE TypeOK /\ Filed
    OBVIOUS
  <2>1. NoChange \in Change
    BY NoDevices DEF NoChange, Change
  <2> QED BY <2>1, NoDevices, Bounds DEF Init, TypeOK, Filed
<1>2. TypeOK /\ Filed /\ [Next]_vars => TypeOK' /\ Filed'
  <2> SUFFICES ASSUME TypeOK, Filed, [Next]_vars PROVE TypeOK' /\ Filed'
    OBVIOUS
  <2>0. /\ status \in [Client -> {"absent", "running", "stopped"}]
        /\ key \in [Client -> Key \cup {NoKey}] /\ list \in [Client -> Devices]
        /\ file \in [Client -> Devices \cup {NoFile}]
        /\ step \in [Client -> {"idle", "publish", "save"}]
        /\ draft \in [Client -> Change] /\ joined \subseteq Client
        /\ flight \subseteq Replica \X Record /\ store \in [Replica -> Record \cup {NoRecord}]
        /\ expected \subseteq Key /\ revoked \subseteq Key /\ clean \in BOOLEAN
        /\ NoChange \in Change /\ <<>> \in Devices /\ NoFile \notin Devices
    BY NoDevices DEF TypeOK, NoChange, Change
  <2>1. /\ faults \in Nat /\ crashes \in Nat /\ calls \in Nat
        /\ calls <= MaxCalls /\ faults <= MaxFaults /\ crashes <= MaxFaults
    BY Bounds DEF TypeOK
  <2>2. ASSUME Create PROVE TypeOK' /\ Filed'
    <3>1. PICK first : first = Added(<<>>, KeyFor(Protected))
      OBVIOUS
    <3>2. first \in Devices /\ KeyFor(Protected) \in Key
      BY <3>1, NoDevices, Keys, AddedDevices
    <3>3. /\ status' = [status EXCEPT ![Creator] = "running"]
          /\ key' = [key EXCEPT ![Creator] = KeyFor(Protected)]
          /\ list' = [list EXCEPT ![Creator] = first] /\ file' = [file EXCEPT ![Creator] = first]
          /\ UNCHANGED <<step, draft, joined, dht, counters, history>>
      BY <2>2, <3>1 DEF Create
    <3> QED BY <2>0, <3>2, <3>3, Bounds DEF TypeOK, Filed, dht, counters, history
  <2>3. ASSUME NEW c \in Client, NEW otherwise \in Devices,
               NEW changes, changes = Addition \/ changes = Removal,
               Begin(c, otherwise, changes), joined' \subseteq Client,
               \/ status[c] = "running" /\ key' = key
               \/ status[c] = "absent" /\ key' = [key EXCEPT ![c] = "plain"]
        PROVE  TypeOK' /\ Filed'
    <3>1. /\ step' = [step EXCEPT ![c] = "publish"]
          /\ calls' \in 0..MaxCalls /\ faults' \in 0..MaxFaults
          /\ clean' = (clean /\ ~Disturbed(c))
          /\ UNCHANGED <<status, list, file, dht, crashes, expected, revoked>>
          /\ \E change \in Change : draft' = [draft EXCEPT ![c] = change]
      BY <2>3, Begun
    <3>2. draft' \in [Client -> Change]
      BY <2>0, <3>1
    <3>3. /\ key' \in [Client -> Key \cup {NoKey}] /\ key'[c] \in Key
          /\ \A d \in Client \ {c} : key'[d] = key[d]
          /\ status[c] # "stopped"
      BY <2>0, <2>3, Keys DEF Filed
    <3>4. Filed'
      <4>1. step'[c] = "publish" /\ \A d \in Client \ {c} : step'[d] = step[d]
        BY <2>0, <3>1
      <4>2. \A d \in Client : status'[d] = status[d] /\ file'[d] = file[d]
        BY <3>1
      <4> QED BY <3>3, <4>1, <4>2 DEF Filed
    <3>5. clean' \in BOOLEAN
      BY <2>0, <3>1
    <3> QED BY <2>0, <2>1, <2>3, <3>1, <3>2, <3>3, <3>4, <3>5, Bounds DEF TypeOK, Filed, dht
  <2>4. ASSUME NEW c \in Client, FromMnemonic(c) PROVE TypeOK' /\ Filed'
    BY <2>0, <2>3, <2>4 DEF FromMnemonic
  <2>5. ASSUME NEW c \in Client, AddDevice(c) PROVE TypeOK' /\ Filed'
    BY <2>0, <2>3, <2>5 DEF AddDevice
  <2>6. ASSUME NEW c \in Client, RevokeDevice(c) PROVE TypeOK' /\ Filed'
    BY <2>0, <2>3, <2>6 DEF RevokeDevice
  <2>7. ASSUME NEW c \in Client, Publish(c) PROVE TypeOK' /\ Filed'
    <3>1. PICK change \in Change : change = draft[c]
      BY <2>0
    <3>2. /\ step[c] = "publish" /\ step' = [step EXCEPT ![c] = "save"]
          /\ flight' = flight \cup Stores(change.devices, key[c])
          /\ list' = [list EXCEPT ![c] = change.devices]
          /\ draft' = [draft EXCEPT ![c] = NoChange]
          /\ expected' = (expected \cup change.added) \ change.removed
          /\ revoked' = (revoked \cup change.removed) \ change.added
          /\ clean' = (clean /\ key[c] \notin revoked')
          /\ UNCHANGED <<status, key, file, joined, store, counters>>
      BY <2>7, <3>1 DEF Publish
    <3>3. change.devices \in Devices /\ change.added \subseteq Key /\ change.removed \subseteq Key
      BY DEF Change
    <3>4. Stores(change.devices, key[c]) \subseteq Replica \X Record
      <4>1. key[c] \in Key
        BY <3>2 DEF Filed
      <4> QED BY <3>3, <4>1, StoresTypes
    <3>5. clean' \in BOOLEAN
      BY <2>0, <3>2
    <3> QED BY <2>0, <2>1, <3>2, <3>3, <3>4, <3>5, Bounds DEF TypeOK, Filed, counters
  <2>8. ASSUME NEW c \in Client, PublishFails(c) PROVE TypeOK' /\ Filed'
    BY <2>0, <2>1, <2>8, Bounds DEF PublishFails, TypeOK, Filed, dht, history
  <2>9. ASSUME NEW c \in Client, Save(c) PROVE TypeOK' /\ Filed'
    <3>1. key[c] \in Key /\ list[c] \in Devices /\ list[c] # NoFile
      BY <2>0, <2>9 DEF Save, Filed
    <3> QED BY <2>0, <2>9, <3>1 DEF Save, TypeOK, Filed, dht, counters, history
  <2>10. ASSUME NEW c \in Client, SaveAgain(c) PROVE TypeOK' /\ Filed'
    BY <2>0, <2>10 DEF SaveAgain, TypeOK, Filed, dht, counters, history
  <2>11. ASSUME NEW c \in Client, Connect(c) PROVE TypeOK' /\ Filed'
    <3>1. key[c] \in Key /\ list[c] \in Devices /\ ToSet(list[c]) \subseteq Key
      BY <2>0, <2>11, Listed DEF Connect, Filed
    <3>2. Stores(list[c], key[c]) \subseteq Replica \X Record
      BY <3>1, StoresTypes
    <3>3. clean' \in BOOLEAN
      BY <2>11 DEF Connect
    <3>4. calls' \in 0..MaxCalls
      BY <2>1, <2>11, Bounds DEF Connect
    <3>5. /\ joined' = joined \cup {c} /\ flight' = flight \cup Stores(list[c], key[c])
          /\ expected' = IF expected = {} THEN ToSet(list[c]) ELSE expected
          /\ UNCHANGED <<status, key, list, file, step, draft, store, faults, crashes, revoked>>
      BY <2>11 DEF Connect
    <3> QED BY <2>0, <2>1, <3>1, <3>2, <3>3, <3>4, <3>5, Bounds DEF TypeOK, Filed
  <2>12. ASSUME NEW c \in Client, Open(c) PROVE TypeOK' /\ Filed'
    <3>1. file[c] \in Devices
      BY <2>0, <2>12 DEF Open, Filed
    <3> QED BY <2>0, <2>12, <3>1 DEF Open, TypeOK, Filed, dht, counters, history
  <2>13. ASSUME NEW c \in Client, Crash(c) PROVE TypeOK' /\ Filed'
    <3>1. PICK left : /\ left = file[c] \/ left = NoFile
                      /\ file' = [file EXCEPT ![c] = left]
                      /\ status' = [status EXCEPT ![c] =
                           IF left = NoFile THEN "absent" ELSE "stopped"]
      BY <2>13 DEF Crash
    <3>2. key[c] \in Key
      BY <2>0, <2>13 DEF Crash, Filed
    <3>3. crashes' \in 0..MaxFaults
      BY <2>1, <2>13, Bounds DEF Crash
    <3>4. /\ step' = [step EXCEPT ![c] = "idle"] /\ draft' = [draft EXCEPT ![c] = NoChange]
          /\ list' = [list EXCEPT ![c] = <<>>] /\ joined' = joined \ {c}
          /\ UNCHANGED <<key, dht, faults, calls, history>>
      BY <2>13 DEF Crash
    <3> QED BY <2>0, <2>1, <3>1, <3>2, <3>3, <3>4, Bounds DEF TypeOK, Filed, dht, history
  <2>14. ASSUME NEW s \in flight, StoreArrives(s[1], s[2]) PROVE TypeOK' /\ Filed'
    BY <2>0, <2>14 DEF StoreArrives, TypeOK, Filed, client, counters, history
  <2>15. ASSUME NEW s \in flight, StoreLost(s[1], s[2]) PROVE TypeOK' /\ Filed'
    BY <2>0, <2>1, <2>15, Bounds DEF StoreLost, TypeOK, Filed, client, history
  <2>16. ASSUME NEW r \in Replica, Forget(r) PROVE TypeOK' /\ Filed'
    BY <2>0, <2>1, <2>16, Bounds DEF Forget, TypeOK, Filed, client, history
  <2>17. CASE UNCHANGED vars
    BY <2>17 DEF TypeOK, Filed, vars, client, dht, counters, history
  <2> QED BY <2>2, <2>4, <2>5, <2>6, <2>7, <2>8, <2>9, <2>10, <2>11, <2>12, <2>13, <2>14,
             <2>15, <2>16, <2>17 DEF Next
<1> QED BY <1>1, <1>2, PTL DEF Spec

\* Every reachable state has its types.
THEOREM TypeCorrect == Spec => []TypeOK
BY FiledHolds, PTL

-----------------------------------------------------------------------------
(* What clients do one after the other *)

\* Nothing has gone wrong so far: no fault of the DHT, no calls that overlapped,
\* none that was made with an outdated list or by a client that was revoked.
Untroubled == clean /\ faults = 0

\* A record is on its way to r.
Arriving(r) == \E record \in Record : <<r, record>> \in flight

\* The records on their way list what all changes so far amount to, and so do
\* those that are held, or one that does is about to replace them.
RecordsAgree ==
  /\ \A s \in flight : Verifies(s[2]) /\ ToSet(s[2].devices) = expected
  /\ \A r \in Replica : store[r] # NoRecord =>
       /\ Verifies(store[r])
       /\ ToSet(store[r].devices) = expected \/ Arriving(r)
  /\ expected # {} => \A r \in Replica : store[r] # NoRecord \/ Arriving(r)

\* A change that is still to be published was made to the list that all changes
\* before it amount to, and no other call has come in between.
ChangeDue(c) ==
  /\ flight = {} /\ \A d \in Client \ {c} : step[d] # "publish"
  /\ draft[c].added = {} \/ draft[c].removed = {}
  /\ key[c] \in draft[c].added \cup expected \cup revoked
  /\ Replica # {} =>
       ToSet(draft[c].devices) = (expected \cup draft[c].added) \ draft[c].removed

\* A client that takes part has its own key published or revoked, and others
\* list it themselves: the creator, before it first connects.
ClientsKnown == \A c \in Client :
  /\ step[c] = "publish" => ChangeDue(c)
  /\ c \in joined /\ step[c] # "publish" => expected # {} /\ key[c] \in expected \cup revoked
  /\ status[c] = "running" \/ step[c] = "save" =>
       key[c] \in expected \cup revoked \cup ToSet(list[c])
  /\ file[c] # NoFile => key[c] \in expected \cup revoked \cup ToSet(file[c])

InOrder == Untroubled => RecordsAgree /\ ClientsKnown

LEMMA BeginKeepsOrder ==
  ASSUME TypeOK, Filed, RecordsAgree, ClientsKnown, Untroubled', NEW c \in Client,
         NEW otherwise \in Devices, NEW changes, changes = Addition \/ changes = Removal,
         Begin(c, otherwise, changes),
         expected # {} \/ otherwise = <<>>,
         joined' \subseteq joined \cup {c},
         \A d \in Client \ {c} : key'[d] = key[d],
         status[c] # "absent" => key'[c] = key[c],
         key'[c] \in expected \cup revoked \/ (changes = Addition /\ key'[c] = "plain")
  PROVE  RecordsAgree' /\ ClientsKnown'
<1>1. /\ step[c] = "idle" /\ step' = [step EXCEPT ![c] = "publish"]
      /\ clean' = (clean /\ ~Disturbed(c))
      /\ UNCHANGED <<status, list, file, dht, crashes, expected, revoked>>
      /\ \E base \in Devices : \E change \in Change :
           /\ change \in changes[base] /\ draft' = [draft EXCEPT ![c] = change]
           /\ faults' = 0 => base \in Fetched(otherwise)
  BY Begun
<1>2. PICK base \in Devices, change \in Change :
        /\ change \in changes[base] /\ draft' = [draft EXCEPT ![c] = change]
        /\ base \in Fetched(otherwise)
  BY <1>1 DEF Untroubled
<1>3. flight = {} /\ \A d \in Client \ {c} : step[d] # "publish"
  BY <1>1 DEF Untroubled, Disturbed
<1>4. Replica # {} => ToSet(base) = expected
  <2> SUFFICES ASSUME Replica # {} PROVE ToSet(base) = expected
    OBVIOUS
  <2>1. \A r : ~Arriving(r)
    BY <1>3 DEF Arriving
  <2>2. CASE base = otherwise /\ \A r \in Replica : store[r] = NoRecord
    <3>1. expected = {}
      BY <2>1, <2>2 DEF RecordsAgree
    <3> QED BY <2>2, <3>1, NoDevices
  <2>3. ASSUME NEW r \in Replica, store[r] # NoRecord,
               base = IF Verifies(store[r]) THEN store[r].devices ELSE otherwise
        PROVE  ToSet(base) = expected
    BY <2>1, <2>3 DEF RecordsAgree
  <2> QED BY <1>2, <2>2, <2>3, FetchedLists
<1>5. /\ ToSet(change.devices) = (ToSet(base) \cup change.added) \ change.removed
      /\ change.added = {} \/ change.removed = {}
      /\ changes = Addition => change.added = {"plain"}
  BY <1>2, ChangesAre
<1>6. draft'[c] = change /\ step'[c] = "publish" /\ \A d \in Client \ {c} : step'[d] = step[d]
  BY <1>1, <1>2 DEF TypeOK
<1>7. ChangeDue(c)'
  BY <1>1, <1>3, <1>4, <1>5, <1>6 DEF ChangeDue, dht
<1>8. RecordsAgree'
  BY <1>1 DEF RecordsAgree, Arriving, dht
<1>9. ClientsKnown'
  <2>1. ASSUME NEW d \in Client, d # c
        PROVE  /\ step'[d] # "publish"
               /\ d \in joined' => expected # {} /\ key'[d] \in expected \cup revoked
               /\ status[d] = "running" \/ step'[d] = "save" =>
                    key'[d] \in expected \cup revoked \cup ToSet(list[d])
               /\ file[d] # NoFile => key'[d] \in expected \cup revoked \cup ToSet(file[d])
    BY <1>3, <1>6, <2>1 DEF ClientsKnown
  <2>2. status[c] # "absent" =>
          /\ status[c] = "running" => key'[c] \in expected \cup revoked \cup ToSet(list[c])
          /\ file[c] # NoFile => key'[c] \in expected \cup revoked \cup ToSet(file[c])
    BY DEF ClientsKnown
  <2>3. status[c] = "absent" => file[c] = NoFile
    BY DEF Filed
  <2> QED BY <1>1, <1>6, <1>7, <2>1, <2>2, <2>3 DEF ClientsKnown
<1> QED BY <1>8, <1>9

\* A list is published by one of the clients on it, when no other call is under
\* way, and lists what all changes amount to.
LEMMA PublishingKeepsOrder ==
  ASSUME TypeOK, Filed, RecordsAgree, ClientsKnown, NEW c \in Client, NEW devices \in Devices,
         key[c] \in Key, flight = {}, \A d \in Client \ {c} : step[d] # "publish",
         flight' = flight \cup Stores(devices, key[c]),
         UNCHANGED <<status, key, file, store>>,
         step'[c] # "publish", \A d \in Client \ {c} : step'[d] = step[d] /\ list'[d] = list[d],
         joined' \subseteq joined \cup {c},
         Replica # {} => ToSet(devices) = expected',
         key[c] \in expected', expected \cup revoked \subseteq expected' \cup revoked'
  PROVE  RecordsAgree' /\ ClientsKnown'
<1>1. PICK record : record = [devices |-> devices, signer |-> key[c]]
  OBVIOUS
<1>2. record \in Record /\ flight' = {<<r, record>> : r \in Replica}
  BY <1>1 DEF Record, Stores
<1>3. Replica # {} => Verifies(record) /\ ToSet(record.devices) = expected'
  BY <1>1 DEF Verifies
<1>4. \A r \in Replica : Arriving(r)'
  BY <1>2 DEF Arriving
<1>5. RecordsAgree'
  BY <1>2, <1>3, <1>4 DEF RecordsAgree
<1>6. ClientsKnown'
  <2>1. ASSUME NEW d \in Client, d # c
        PROVE  /\ step'[d] # "publish"
               /\ d \in joined' => key[d] \in expected' \cup revoked'
               /\ status[d] = "running" \/ step'[d] = "save" =>
                    key[d] \in expected' \cup revoked' \cup ToSet(list'[d])
               /\ file[d] # NoFile => key[d] \in expected' \cup revoked' \cup ToSet(file[d])
    BY <2>1 DEF ClientsKnown
  <2> QED BY <2>1 DEF ClientsKnown
<1> QED BY <1>5, <1>6

\* A step that does not touch the DHT, nor what was changed so far, nor any key,
\* and that leaves no client but c as it is.
LEMMA LocalKeepsOrder ==
  ASSUME RecordsAgree, ClientsKnown, NEW c \in Client,
         UNCHANGED <<key, dht, expected, revoked>>,
         \A d \in Client \ {c} : /\ status'[d] = status[d] /\ list'[d] = list[d]
                                 /\ file'[d] = file[d] /\ step'[d] = step[d]
                                 /\ draft'[d] = draft[d] /\ (d \in joined' => d \in joined),
         step'[c] # "publish",
         c \in joined' => c \in joined /\ step[c] # "publish",
         status'[c] = "running" \/ step'[c] = "save" =>
           key[c] \in expected \cup revoked \cup ToSet(list'[c]),
         file'[c] # NoFile => key[c] \in expected \cup revoked \cup ToSet(file'[c])
  PROVE  RecordsAgree' /\ ClientsKnown'
<1>1. RecordsAgree'
  BY DEF RecordsAgree, Arriving, dht
<1>2. ASSUME NEW d \in Client, d # c, step'[d] = "publish" PROVE ChangeDue(d)'
  <2>1. ChangeDue(d)
    BY <1>2 DEF ClientsKnown
  <2>2. \A e \in Client \ {d} : step'[e] # "publish"
    BY <2>1 DEF ChangeDue
  <2> QED BY <1>2, <2>1, <2>2 DEF ChangeDue, dht
<1>3. ClientsKnown'
  <2>1. ASSUME NEW d \in Client, d # c
        PROVE  /\ d \in joined' /\ step'[d] # "publish" =>
                    expected # {} /\ key[d] \in expected \cup revoked
               /\ status'[d] = "running" \/ step'[d] = "save" =>
                    key[d] \in expected \cup revoked \cup ToSet(list'[d])
               /\ file'[d] # NoFile => key[d] \in expected \cup revoked \cup ToSet(file'[d])
    BY <2>1 DEF ClientsKnown
  <2>2. c \in joined' => expected # {} /\ key[c] \in expected \cup revoked
    BY DEF ClientsKnown
  <2> QED BY <1>2, <2>1, <2>2 DEF ClientsKnown
<1> QED BY <1>1, <1>3

LEMMA InOrderHolds == Spec => []InOrder
<1>1. Init => InOrder
  <2> SUFFICES ASSUME Init PROVE RecordsAgree /\ ClientsKnown
    BY DEF InOrder
  <2> QED BY DEF Init, RecordsAgree, ClientsKnown
<1>2. TypeOK /\ Filed /\ InOrder /\ [Next]_vars => InOrder'
  <2> SUFFICES ASSUME TypeOK, Filed, InOrder, [Next]_vars, Untroubled'
               PROVE  RecordsAgree' /\ ClientsKnown'
    BY DEF InOrder
  <2>0. /\ faults \in Nat /\ key \in [Client -> Key \cup {NoKey}] /\ NoKey \notin Key
        /\ list \in [Client -> Devices] /\ expected \subseteq Key /\ revoked \subseteq Key
        /\ flight \subseteq Replica \X Record /\ draft \in [Client -> Change]
        /\ DOMAIN status = Client /\ DOMAIN file = Client /\ DOMAIN step = Client
        /\ DOMAIN store = Replica
    BY Keys DEF TypeOK
  \* Trouble does not go away.
  <2>1. RecordsAgree /\ ClientsKnown
    <3>1. clean' => clean
      BY DEF Next, Create, FromMnemonic, AddDevice, RevokeDevice, Begin, Publish, PublishFails,
             Save, SaveAgain, Connect, Open, Crash, StoreArrives, StoreLost, Forget,
             vars, history
    <3>2. faults' = 0 => faults = 0
      <4>1. ASSUME NEW c \in Client, NEW otherwise, NEW changes, Begin(c, otherwise, changes),
                   faults' = 0
            PROVE  faults = 0
        BY <2>0, <4>1 DEF Begin
      <4>2. faults' = faults + 1 /\ faults' = 0 => faults = 0
        BY <2>0
      <4> QED
        BY <4>1, <4>2 DEF Next, Create, FromMnemonic, AddDevice, RevokeDevice, Publish,
             PublishFails, Save, SaveAgain, Connect, Open, Crash, StoreArrives, StoreLost, Forget,
             vars, counters
    <3> QED BY <3>1, <3>2 DEF InOrder, Untroubled
  <2>2. ASSUME Create PROVE RecordsAgree' /\ ClientsKnown'
    <3>1. PICK first : first = Added(<<>>, KeyFor(Protected))
      OBVIOUS
    <3>2. ToSet(first) = {KeyFor(Protected)}
      BY <3>1, NoDevices, Keys, AddedDevices
    <3>3. /\ \A c \in Client : key[c] = NoKey
          /\ status' = [status EXCEPT ![Creator] = "running"]
          /\ key' = [key EXCEPT ![Creator] = KeyFor(Protected)]
          /\ list' = [list EXCEPT ![Creator] = first] /\ file' = [file EXCEPT ![Creator] = first]
          /\ UNCHANGED <<step, draft, joined, dht, counters, history>>
      BY <2>2, <3>1 DEF Create
    <3>4. \A c \in Client : step[c] = "idle" /\ status[c] = "absent" /\ file[c] = NoFile
      BY <2>0, <3>3 DEF Filed
    <3>5. \A c \in Client : c \notin joined
      BY <2>0, <2>1, <3>3, <3>4 DEF ClientsKnown
    <3>6. RecordsAgree'
      BY <2>1, <3>3 DEF RecordsAgree, Arriving, dht, history
    <3>7. ClientsKnown'
      BY <2>0, <3>2, <3>3, <3>4, <3>5, Bounds DEF ClientsKnown
    <3> QED BY <3>6, <3>7
  <2>3. ASSUME NEW c \in Client, FromMnemonic(c) PROVE RecordsAgree' /\ ClientsKnown'
    <3>1. /\ key' = [key EXCEPT ![c] = "plain"] /\ joined' = joined \cup {c}
          /\ status[c] = "absent" /\ Begin(c, <<>>, Addition)
      BY <2>3 DEF FromMnemonic
    <3>2. key'[c] = "plain" /\ \A d \in Client \ {c} : key'[d] = key[d]
      BY <2>0, <3>1
    <3> QED BY <2>1, <3>1, <3>2, NoDevices, BeginKeepsOrder
  <2>4. ASSUME NEW c \in Client, NEW changes, changes = Addition \/ changes = Removal,
               status[c] = "running", c \in joined, Begin(c, list[c], changes),
               UNCHANGED <<key, joined>>
        PROVE  RecordsAgree' /\ ClientsKnown'
    <3>1. step[c] = "idle"
      BY <2>4 DEF Begin
    <3>2. expected # {} /\ key[c] \in expected \cup revoked /\ list[c] \in Devices
      BY <2>0, <2>1, <2>4, <3>1 DEF ClientsKnown
    <3> QED BY <2>1, <2>4, <3>2, BeginKeepsOrder
  <2>5. ASSUME NEW c \in Client, Publish(c) PROVE RecordsAgree' /\ ClientsKnown'
    <3>1. PICK change \in Change : change = draft[c]
      BY <2>0
    <3>2. /\ step[c] = "publish" /\ step' = [step EXCEPT ![c] = "save"]
          /\ flight' = flight \cup Stores(change.devices, key[c])
          /\ list' = [list EXCEPT ![c] = change.devices]
          /\ expected' = (expected \cup change.added) \ change.removed
          /\ revoked' = (revoked \cup change.removed) \ change.added
          /\ clean' = (clean /\ key[c] \notin revoked')
          /\ UNCHANGED <<status, key, file, joined, store, counters>>
      BY <2>5, <3>1 DEF Publish
    <3>3. change.devices \in Devices /\ key[c] \in Key
      BY <3>2 DEF Change, Filed
    <3>4. /\ flight = {} /\ \A d \in Client \ {c} : step[d] # "publish"
          /\ change.added = {} \/ change.removed = {}
          /\ key[c] \in change.added \cup expected \cup revoked
          /\ Replica # {} =>
               ToSet(change.devices) = (expected \cup change.added) \ change.removed
      BY <2>1, <3>1, <3>2 DEF ClientsKnown, ChangeDue
    <3>5. expected \cup revoked \cup change.added \subseteq expected' \cup revoked'
      BY <3>2, <3>4
    <3>6. key[c] \in expected'
      <4>1. key[c] \notin revoked'
        BY <3>2 DEF Untroubled
      <4> QED BY <3>4, <3>5, <4>1
    <3>7. step'[c] # "publish" /\ \A d \in Client \ {c} : step'[d] = step[d] /\ list'[d] = list[d]
      BY <2>0, <3>2
    <3> QED BY <2>1, <3>2, <3>3, <3>4, <3>5, <3>6, <3>7, PublishingKeepsOrder
  <2>6. ASSUME NEW c \in Client, Connect(c) PROVE RecordsAgree' /\ ClientsKnown'
    <3>1. /\ status[c] = "running" /\ step[c] = "idle" /\ joined' = joined \cup {c}
          /\ flight' = flight \cup Stores(list[c], key[c])
          /\ expected' = IF expected = {} THEN ToSet(list[c]) ELSE expected
          /\ ~Disturbed(c) /\ ToSet(list[c]) = expected' /\ key[c] \notin revoked
          /\ UNCHANGED <<status, key, list, file, step, draft, store, faults, crashes, revoked>>
      BY <2>6 DEF Connect, Untroubled
    <3>2. flight = {} /\ \A d \in Client \ {c} : step[d] # "publish"
      BY <3>1 DEF Disturbed
    <3>3. list[c] \in Devices /\ key[c] \in Key
      BY <2>0, <3>1 DEF Filed
    <3>4. key[c] \in expected' /\ expected \subseteq expected'
      BY <2>1, <3>1 DEF ClientsKnown
    <3> QED BY <2>1, <3>1, <3>2, <3>3, <3>4, PublishingKeepsOrder
  <2>7. ASSUME NEW c \in Client, Save(c) PROVE RecordsAgree' /\ ClientsKnown'
    <3>1. /\ step[c] = "save" /\ step' = [step EXCEPT ![c] = "idle"]
          /\ file' = [file EXCEPT ![c] = list[c]] /\ status' = [status EXCEPT ![c] = "running"]
          /\ UNCHANGED <<key, list, draft, joined, dht, counters, history>>
      BY <2>7 DEF Save
    <3>2. key[c] \in expected \cup revoked \cup ToSet(list[c])
      BY <2>1, <3>1 DEF ClientsKnown
    <3> QED BY <2>0, <2>1, <3>1, <3>2, LocalKeepsOrder DEF history
  <2>8. ASSUME NEW c \in Client, SaveAgain(c) PROVE RecordsAgree' /\ ClientsKnown'
    <3>1. /\ status[c] = "running" /\ step[c] = "idle" /\ step' = [step EXCEPT ![c] = "save"]
          /\ UNCHANGED <<status, key, list, file, draft, joined, dht, counters, history>>
      BY <2>8 DEF SaveAgain
    <3>2. /\ key[c] \in expected \cup revoked \cup ToSet(list[c])
          /\ file[c] # NoFile => key[c] \in expected \cup revoked \cup ToSet(file[c])
      BY <2>1, <3>1 DEF ClientsKnown
    <3> QED BY <2>0, <2>1, <3>1, <3>2, LocalKeepsOrder DEF history
  <2>9. ASSUME NEW c \in Client, Open(c) PROVE RecordsAgree' /\ ClientsKnown'
    <3>1. /\ status[c] = "stopped" /\ status' = [status EXCEPT ![c] = "running"]
          /\ list' = [list EXCEPT ![c] = file[c]]
          /\ UNCHANGED <<key, file, step, draft, joined, dht, counters, history>>
      BY <2>9 DEF Open
    <3>2. /\ file[c] # NoFile /\ key[c] \in expected \cup revoked \cup ToSet(file[c])
          /\ list'[c] = file[c]
      BY <2>0, <2>1, <3>1 DEF ClientsKnown, Filed
    <3>3. step[c] # "publish"
      BY <3>1 DEF Filed
    <3> QED BY <2>0, <2>1, <3>1, <3>2, <3>3, LocalKeepsOrder DEF history
  <2>10. ASSUME NEW c \in Client, Crash(c) PROVE RecordsAgree' /\ ClientsKnown'
    <3>1. PICK left : /\ left = file[c] \/ left = NoFile
                      /\ file' = [file EXCEPT ![c] = left]
                      /\ status' = [status EXCEPT ![c] =
                           IF left = NoFile THEN "absent" ELSE "stopped"]
      BY <2>10 DEF Crash
    <3>2. /\ step' = [step EXCEPT ![c] = "idle"] /\ draft' = [draft EXCEPT ![c] = NoChange]
          /\ list' = [list EXCEPT ![c] = <<>>] /\ joined' = joined \ {c}
          /\ UNCHANGED <<key, dht, faults, calls, history>>
      BY <2>10 DEF Crash
    <3>3. /\ status'[c] # "running" /\ step'[c] = "idle" /\ file'[c] = left
          /\ file'[c] # NoFile => key[c] \in expected \cup revoked \cup ToSet(file'[c])
      BY <2>0, <2>1, <3>1, <3>2 DEF ClientsKnown
    <3> QED BY <2>0, <2>1, <3>1, <3>2, <3>3, LocalKeepsOrder DEF history
  <2>11. ASSUME NEW s \in flight, StoreArrives(s[1], s[2]) PROVE RecordsAgree' /\ ClientsKnown'
    <3>1. PICK r \in Replica, record \in Record : s = <<r, record>>
      BY <2>0
    <3>2. /\ flight' = flight \ {<<r, record>>} /\ store' = [store EXCEPT ![r] = record]
          /\ UNCHANGED <<client, counters, history>>
      BY <2>11, <3>1 DEF StoreArrives
    <3>3. Verifies(record) /\ ToSet(record.devices) = expected /\ record # NoRecord
      BY <2>1, <2>11, <3>1, NoDevices DEF RecordsAgree
    <3>4. store'[r] = record /\ \A q \in Replica \ {r} : store'[q] = store[q]
      BY <2>0, <3>2
    <3>5. \A q \in Replica \ {r} : Arriving(q) => Arriving(q)'
      BY <3>2 DEF Arriving
    <3>6. RecordsAgree'
      <4>1. \A t \in flight' : Verifies(t[2]) /\ ToSet(t[2].devices) = expected
        BY <2>1, <3>2 DEF RecordsAgree
      <4>2. ASSUME NEW q \in Replica
            PROVE  /\ store'[q] # NoRecord =>
                        /\ Verifies(store'[q])
                        /\ ToSet(store'[q].devices) = expected \/ Arriving(q)'
                   /\ expected # {} => store'[q] # NoRecord \/ Arriving(q)'
        <5>1. CASE q = r
          BY <3>3, <3>4, <5>1
        <5>2. CASE q # r
          BY <2>1, <3>4, <3>5, <5>2 DEF RecordsAgree
        <5> QED BY <5>1, <5>2
      <4> QED BY <3>2, <4>1, <4>2 DEF RecordsAgree, history
    <3>7. ClientsKnown'
      <4>1. \A c \in Client : step[c] # "publish"
        BY <2>1, <2>11 DEF ClientsKnown, ChangeDue
      <4> QED BY <2>1, <3>2, <4>1 DEF ClientsKnown, client, history
    <3> QED BY <3>6, <3>7
  <2>12. ASSUME NEW c \in Client, PublishFails(c) PROVE FALSE
    BY <2>0, <2>12 DEF PublishFails, Untroubled
  <2>13. ASSUME NEW s \in flight, StoreLost(s[1], s[2]) PROVE FALSE
    BY <2>0, <2>13 DEF StoreLost, Untroubled
  <2>14. ASSUME NEW r \in Replica, Forget(r) PROVE FALSE
    BY <2>0, <2>14 DEF Forget, Untroubled
  <2>15. CASE UNCHANGED vars
    BY <2>1, <2>15 DEF RecordsAgree, Arriving, ClientsKnown, ChangeDue,
                       vars, client, dht, counters, history
  <2>16. ASSUME NEW c \in Client, AddDevice(c) \/ RevokeDevice(c)
         PROVE  RecordsAgree' /\ ClientsKnown'
    BY <2>4, <2>16 DEF AddDevice, RevokeDevice
  <2> QED BY <2>2, <2>3, <2>5, <2>6, <2>7, <2>8, <2>9, <2>10, <2>11, <2>12, <2>13, <2>14,
             <2>15, <2>16 DEF Next
<1> QED BY <1>1, <1>2, FiledHolds, PTL DEF Spec

\* Changes that clients make one after the other add up, wherever they crash and
\* reopen: with no store on its way, every record held lists what the changes so
\* far amount to.
THEOREM ChangesSumUp == Spec => []ChangesAddUp
<1>1. InOrder => ChangesAddUp
  BY DEF InOrder, Untroubled, RecordsAgree, Arriving, ChangesAddUp
<1> QED BY <1>1, InOrderHolds, PTL

\* A record that is held or on its way was signed by a device it lists, though no
\* client makes sure of that: those that publish know themselves to be listed.
THEOREM PublishedVerifies == Spec => []RecordsVerify
<1>1. InOrder => RecordsVerify
  BY DEF InOrder, Untroubled, RecordsAgree, RecordsVerify
<1> QED BY <1>1, InOrderHolds, PTL
==============================================================================

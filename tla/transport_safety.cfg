SPECIFICATION Spec
CONSTANTS
  a = a b = b p1 = p1 p2 = p2 p3 = p3
  ka = ka kb = kb ma = ma mb = mb
  Node = {a, b}
  Key = {ka, kb, ma, mb}
  NoKey = NoKey
  Src <- MCSrc
  Dst <- MCDst
  CertKey <- DeviceKeys
  SignKey <- DeviceKeys
  Packet = {p1, p2}
  Chunks <- AllWhole
  MaxRetries = 1
  RetryDelay = 0
  DedupTTL = 1
  MaxSeen = 1
  EntryTimeout = 1
  Lifetime = 0
  MaxFaults = 1
  MaxStops = 0
  Busy = TRUE
SYMMETRY SameRoute
INVARIANTS TypeOK GenuineAckAccepted SeenWithinCap
PROPERTY RefinesDelivery
CHECK_DEADLOCK FALSE

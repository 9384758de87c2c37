SPECIFICATION Spec
CONSTANTS
  a = a b = b p1 = p1 p2 = p2 p3 = p3
  ka = ka kb = kb ma = ma mb = mb
  Node = {a, b}
  Key = {ka, kb, ma, mb}
  NoKey = NoKey
  Src <- MCSrc
  Dst <- MCDst
  CertKey <- DeviceKeys
  SignKey <- MasterKeys
  Packet = {p1}
  Chunks <- AllWhole
  MaxRetries = 1
  RetryDelay = 1
  DedupTTL = 4
  MaxSeen = 1
  EntryTimeout = 1
  Lifetime = 0
  MaxFaults = 0
  MaxStops = 0
  Busy = FALSE
INVARIANT GenuineAckAccepted
CHECK_DEADLOCK FALSE

SPECIFICATION FairSpec
CONSTANTS
  a = a b = b p1 = p1 p2 = p2 p3 = p3
  ka = ka kb = kb ma = ma mb = mb
  Node = {a, b}
  Key = {ka, kb, ma, mb}
  NoKey = NoKey
  Src <- MCSrc
  Dst <- MCDst
  CertKey <- DeviceKeys
  SignKey <- DeviceKeys
  Packet = {p1}
  Chunks <- FirstSplit
  MaxRetries = 2
  RetryDelay = 1
  DedupTTL = 7
  MaxSeen = 1
  EntryTimeout = 6
  Lifetime = 0
  MaxFaults = 0
  MaxStops = 0
  Busy = FALSE
PROPERTY HandledIsAcknowledged
CHECK_DEADLOCK FALSE

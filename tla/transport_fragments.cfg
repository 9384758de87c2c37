SPECIFICATION FairSpec
CONSTANTS
  a = a b = b p1 = p1 p2 = p2 p3 = p3
  ka = ka kb = kb ma = ma mb = mb
  Node = {a, b}
  Key = {ka, kb, ma, mb}
  NoKey = NoKey
  Src <- MCSrc
  Dst <- MCDst
  CertKey <- DeviceKeys
  SignKey <- DeviceKeys
  Packet = {p1}
  Chunks <- FirstSplit
  MaxRetries = 2
  RetryDelay = 1
  DedupTTL = 6
  MaxSeen = 2
  EntryTimeout = 6
  Lifetime = 1
  MaxFaults = 2
  MaxStops = 1
  Busy = FALSE
INVARIANT NothingForgotten
PROPERTIES RefinesDelivery EntriesResolved DeliveredDespiteLoss
CHECK_DEADLOCK FALSE

SPECIFICATION Spec
CONSTANTS
  c1 = c1 c2 = c2
  Client = {c1, c2}
  Creator = c1
  Protected = TRUE
  Replica = {r1, r2}
  r1 = r1 r2 = r2
  MaxDevices = 5
  MaxFaults = 1
  MaxCalls = 4
SYMMETRY ReplicaSymmetry
INVARIANTS TypeOK ChangesAddUp RecordsVerify
CHECK_DEADLOCK FALSE

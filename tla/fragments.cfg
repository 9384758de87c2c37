SPECIFICATION Spec
CONSTANTS
  one = one
  two = two
  three = three
  five = five
  six = six
  Packet <- Several
  Chunks <- Counts
  U8 = 4
  MaxDatagram = 2
  OverflowChecks = {TRUE, FALSE}
INVARIANTS TypeOK AssembledIsSent OnlyLargePanic
PROPERTY RefinesReassembly
CHECK_DEADLOCK FALSE

SPECIFICATION FairSpec
CONSTANTS
  Identifier <- Identifiers
  Bits = 4
  BitOf <- Binary
  None = None
  Me = 8
  Node <- Nodes
  Alive = {1, 3, 9, 14}
  Knows <- Ring
  Seeds <- OneSeed
  Plan <- StoreAndFind
  K = 2
  MaxExpired = 1
INVARIANTS TypeOK ClosestQueried StoredIsFound FoundForKey OwnBucketAnswered
PROPERTY EveryLookupEnds
CHECK_DEADLOCK FALSE

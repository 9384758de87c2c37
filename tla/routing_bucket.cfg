SPECIFICATION Spec
CONSTANTS
  Node = {n1, n2, n3, n4, n5}
  K = 2
  Cooldown = 0
  Stale = 2
SYMMETRY Contacts
INVARIANTS TypeOK ListsAgree
PROPERTIES CurrentKept FreshestPromoted

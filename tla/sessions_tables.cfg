SPECIFICATION Spec
CONSTANTS
  a = a b = b b2 = b2 A = A B = B h1 = h1 h2 = h2 h3 = h3 h4 = h4 m1 = m1 m2 = m2
  Node = {a, b}
  User = {A, B}
  UserOf <- MCUserOf
  KeyOf <- MCKeyOf
  Attempt = {h1, h2}
  From <- MCFrom
  To <- MCTo
  ForKey <- MCForKey
  BadCert = {}
  Msg = {m1, m2}
  Author <- MCAuthor
  Recipient <- MCRecipient
  MaxAccepts = 2
  MaxFaults = 1
  MaxRestarts = 1
INVARIANTS TypeOK TablesConsistent PeersAgree DeliveredAtMostOnce AckedNotLost OneSessionPerAttempt
CHECK_DEADLOCK FALSE

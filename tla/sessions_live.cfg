SPECIFICATION FairSpec
CONSTANTS
  a = a b = b b2 = b2 A = A B = B h1 = h1 h2 = h2 h3 = h3 h4 = h4 m1 = m1 m2 = m2
  Node = {a, b, b2}
  User = {A, B}
  UserOf <- MCUserOf
  KeyOf <- MCKeyOf
  Attempt = {h1, h2, h3, h4}
  From <- MCFromOther
  To <- MCTo
  ForKey <- MCForKey
  BadCert = {h3}
  Msg = {m1}
  Author <- MCAuthor
  Recipient <- MCRecipient
  MaxAccepts = 1
  MaxFaults = 0
  MaxRestarts = 0
INVARIANT BetweenItsUsers
PROPERTIES ContactEstablishes SentInSessionIsDelivered
CHECK_DEADLOCK FALSE

SPECIFICATION Spec
CONSTANTS
  m1 = m1
  m2 = m2
  s1 = s1
  s2 = s2
  NULL = NULL
  RAW = RAW
  Materials = {m1, m2}
  Suppliers = {s1, s2}
  Workers = {w1, w2}
  Answers <- MCAnswers
  MaxOrders = 3
  MaxItems = 2
  MaxRequests = 5
CHECK_DEADLOCK FALSE
INVARIANTS OrdersHaveItems SerialDraftsUnambiguous LoneRequestSucceeds
PROPERTY LoneCreateCoversPlan

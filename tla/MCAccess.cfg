SPECIFICATION Spec
CONSTANTS
  boss = boss
  ann = ann
  x = x
  y = y
  NULL = NULL
  GONE = GONE
  Emails = {boss, ann}
  BOSS = boss
  Subjects = {x, y}
  Claims <- MCClaims
  Sessions = {i1, i2}
  Workers = {w1, w2}
  Idle = 1
  Absolute = 2
  Ops <- MCOps
  Horizon = 3
  MaxRequests = 5
SYMMETRY MCSymmetry
CHECK_DEADLOCK FALSE
INVARIANTS SessionsBounded LastAdminStays
PROPERTY LogoutIsFinal

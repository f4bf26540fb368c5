SPECIFICATION Spec
CONSTANTS
  c1 = c1  c2 = c2  c3 = c3  m1 = m1  m2 = m2  s1 = s1  s2 = s2  o1 = o1  k1 = k1
  t1 = t1  i1 = i1  a1 = a1  p1 = p1  e1 = e1  u1 = u1
  Row <- MCRow
  TableOf <- MCTableOf
  Seed <- MCSeed
  PrefixOf <- MCPrefixOf
  Worker = {w1, w2}
  PolicyKey = {fee, threshold}
  NULL = NULL
  GONE = GONE
  MaxRequests = 5
SYMMETRY MCWorkers
INVARIANTS ContactOfficeIsOwn ClashOnlyOnReusedPrefix
PROPERTIES DeletionSparesHistory PartialPolicyKeepsTheRest
CHECK_DEADLOCK FALSE

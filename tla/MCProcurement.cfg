SPECIFICATION Spec
CONSTANTS
  m1 = m1
  m2 = m2
  s1 = s1
  s2 = s2
  NULL = NULL
  Materials = {m1, m2}
  Suppliers = {s1, s2}
  Workers = {w1}
  Offer <- MCOffer
  FlatFee <- MCFlatFee
  FreeFrom <- MCFreeFrom
  MinOrder <- MCMinOrder
  Coloured <- MCColoured
  Quantities = {1}
  MaxRuns = 2
  MaxDrafts = 2
  MaxCopies = 1
  MaxRequests = 6
CHECK_DEADLOCK FALSE
INVARIANTS TypeOK SummariesMatchLines DemandPreserved AttributionIsLive
PROPERTIES UnaskedCreateIsHarmless PlanFullyOrdered

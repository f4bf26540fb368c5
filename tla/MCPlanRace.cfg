SPECIFICATION FairSpec
CONSTANTS
  m1 = m1
  m2 = m2
  s1 = s1
  s2 = s2
  s3 = s3
  NULL = NULL
  Materials = {m1, m2}
  Suppliers = {s1, s2, s3}
  Workers = {w1, w2}
  Price <- MCPrice
  Moq <- MCMoq
  Need <- MCNeed
  MaxOpened = 3
CHECK_DEADLOCK FALSE
INVARIANTS SerialPlanIsExact OriginalSurvivesRaces
PROPERTIES LoneOverrideRepairs EveryOverrideEnds

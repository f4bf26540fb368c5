SPECIFICATION SolverSpec
CONSTANTS
  NULL = NULL
  s1 = s1
  s2 = s2
  s3 = s3
  strict = strict
  Materials = {1, 2, 3}
  Suppliers = {s1, s2, s3}
  Category <- MCCategory
  FlatFee <- MCFlatFee
  FreeFrom <- MCFreeFrom
  MinOrder <- MCMinOrder
  Tables <- MCTables
  RoundedUp <- MCRoundedUp
  Quantities = {1, 3}
  MaxRows = 3
CHECK_DEADLOCK FALSE
INVARIANT EveryCopyIsPlanned

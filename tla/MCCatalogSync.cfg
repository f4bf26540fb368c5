SPECIFICATION Spec
CONSTANTS
  known = known
  fresh = fresh
  BAD = BAD
  CAT = CAT
  NULL = NULL
  Columns = {known, fresh}
  Texts = {"beam", "beam ", "bolt", "nail", "pipe", "- - -", "unknown", "handmade", CAT}
  NameOf <- MCNameOf
  Sheets <- MCSheets
  Bases <- MCBases
  Quotes = {1, 3}
  MaxOutside = 2
CHECK_DEADLOCK FALSE
INVARIANTS AppliedAsPredicted FileHasLastWord
PROPERTY NewerPriceSurvives

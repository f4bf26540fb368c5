SPECIFICATION Spec
CONSTANTS
  m1 = m1
  m2 = m2
  Known = {m1, m2}
  Fresh = {x1}
  Ghost = ghost
  Spellings <- MCSpellings
  Reviewers = {r1, r2}
  Deleters = {d1}
  NULL = NULL
  PagesPerChunk = 2
  MaxAttempts = 3
  Files <- MCFiles
  Learned <- MCLearned
  Imports = {1}
  MaxApplies = 3
  MaxDeletions = 1
SYMMETRY Symmetry
INVARIANTS PrintedMatchedOnce ApprovedMeansDecided DecidedMeansApproved AppliedIsPriced
PROPERTIES MatchesReachReview SameMaterialIsFlagged
CHECK_DEADLOCK FALSE

SPECIFICATION SuiteSpec
CONSTANTS
  s1 = s1
  s2 = s2
  Procs = {s1}
  Customers = {2, 4}
  Spare = {3}
  Publics = {11, 12}
  CohortSize = 2
  Repeats = 1
  Plans = {"r1", "r2"}
  Cases = {1, 2}
  Pinned = 0
  Disposable = FALSE
  Public = TRUE
  MaxContent = 2
  MaxRuns = 2
  MaxChanges = 2
  MayCrash = FALSE
  MayKeep = FALSE
INVARIANTS AnchorGone
CHECK_DEADLOCK FALSE

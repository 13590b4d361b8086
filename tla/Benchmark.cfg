SPECIFICATION SuiteSpec
CONSTANTS
  s1 = s1
  s2 = s2
  Procs = {s1}
  Customers = {2}
  Spare = {3}
  Publics = {11, 12}
  CohortSize = 2
  Repeats = 2
  Plans = {"r1", "r2"}
  Cases = {1, 2, 3, 4}
  Pinned = 0
  Disposable = FALSE
  Public = TRUE
  MaxContent = 2
  MaxRuns = 4
  MaxChanges = 1
  MayCrash = FALSE
  MayKeep = FALSE
INVARIANT UntrueStops
CHECK_DEADLOCK FALSE

SPECIFICATION SuiteSpec
CONSTANTS
  None = None
  Written = Written
  Far = Far
  Nodes = {"a", "b", "c"}
  First = {"a"}
  Writers = {"w1", "w2"}
  AppendsEdges = TRUE
  Checks = TRUE
  MaxRevision = 2
  MayDie = TRUE
  Scores = {0, 1, 2, 3}
  Baseline = 1
  MaxAttempts = 3
  MaxUsage = 1
  Tasks = {1, 2, 3, 4}
  Paths = {"p"}
  MaxWorkers = 2
  MinIndependent = 2
  Concurrency = 2
  RejectsOverlap = TRUE
  Lifecycle <- Normal
  Exceptions <- Escapes
  Required <- Approvals
  HumanOnly = {"scope", "certification", "release"}
  ContextFrom <- ReadyOn
  EvidenceFrom <- TestingOn
  BlockContradictionsFrom <- CertificationOn
  DeliveryFrom <- TestingOn
  Permission <- Permissions
  Triggered = TRUE
  ByAgent = {"implementation", "certification"}
  EvidenceFloor = 1
  Fits = 1
  MaxPairs = 1
  Objective = "OBJ"
  Type <- TypeOf
  Accepted <- Verified
  Links <- Lineage
  NewLinks <- Leaves
  Refs <- Named
  Floor <- FloorLow
  MaxTraceHops = 4
  Shas = {s1, s2}
  Bundles = {"b1"}
  Editors = TRUE
  MaxFiles = 2
INVARIANTS SuiteTypeOK StoredIsApproved HistoryStands Sanctioned RatchetSound WavesRunnable
PROPERTIES ContradictionsBlock AppendOnly
CHECK_DEADLOCK FALSE

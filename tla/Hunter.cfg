SPECIFICATION SuiteSpec
CONSTANTS
  s1 = s1
  s2 = s2
  Servers = {s1, s2}
  Requests = {1, 2}
  Users = {1, 2}
  Lists <- Offers
  Actions <- Deeds
  MaxRuns = 2
  MaxCrashes = 1
  MayFail = TRUE
  Plans <- PlansOf
  Answers <- AnswersOf
  Proposals <- ProposalsOf
  Similar <- SimilarOf
  Near <- NearOf
  MaxEvidence = 3
  MaxCandidates = 3
  PerSource = 1
  PerTopic = 2
  EEITopics = 1
INVARIANTS StoreSound HunterSound
PROPERTY RunsEnd
CHECK_DEADLOCK FALSE

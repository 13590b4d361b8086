SPECIFICATION FairSpec
CONSTANTS
  None = None
  Commands = {c1}
  Workers = {w1, w2}
  Callers = {o1}
INVARIANTS TypeOK DoubtStops PublishedIsReal FailuresFiled QueuedHasTries
PROPERTIES SettledStands KeepsPromise LeaseEnds DueServed

SPECIFICATION SuiteSpec
CONSTANTS
  w1 = w1
  w2 = w2
  i0 = i0
  p1 = p1
  p2 = p2
  r1 = r1
  r2 = r2
  r3 = r3
  u1 = u1
  u2 = u2
  u3 = u3
  None = None
  Requests = {q1, q2}
  Destinations = {d1}
  Slots = {1}
  MaxVersions = 2
  Kinds = {"select", "generate", "review", "approve"}
  Slides = {0, 1}
  Texts = {"t", "long"}
  Styles = {"s"}
  Images = {"i"}
  Unfit = {"long"}
  Ids = {p1}
  Authors = {a1}
  Renders = {k1, k2}
  MaxRevision = 3
INVARIANTS ContentWhole DeliverySound ApprovedShowsProject
PROPERTIES SettledStaysRequestsEnd
CHECK_DEADLOCK FALSE

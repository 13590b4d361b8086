SPECIFICATION SuiteSpec
CONSTANTS
  i1 = i1
  i2 = i2
  t1 = t1
  t2 = t2
  r1 = r1
  r2 = r2
  g1 = g1
  g2 = g2
  g3 = g3
  f1 = f1
  f2 = f2
  None = None
  Intents = {i1}
  Targets = {t1, t2}
  Requests = {r1, r2}
  MetaRequests = {}
  MayFail = {"import", "store", "vault", "disconnect"}
INVARIANTS AccountsBacked ConnectionsHonest
PROPERTIES SecretsPurgedWalksEnd
CHECK_DEADLOCK FALSE

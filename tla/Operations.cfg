SPECIFICATION SuiteSpec
CONSTANTS
  i1 = i1
  i2 = i2
  i3 = i3
  s1 = s1
  s2 = s2
  Nobody = Nobody
  Invocations = {i1, i2, i3}
  Servers = {s1, s2}
  Home <- TwoServers
  Pool = 2
  Limit = 4
  MaxCost = 2
  Costs <- Charges
  Faults = 2
INVARIANTS TypeOK BudgetSound SpentIsWhatWasRecorded
PROPERTY InvocationsSettle
CHECK_DEADLOCK FALSE

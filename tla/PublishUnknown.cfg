SPECIFICATION InsistentSpec
CONSTANTS
  None = None
  Commands = {c1}
  Workers = {w1}
  Callers = {o1}
PROPERTY UnknownReconciled

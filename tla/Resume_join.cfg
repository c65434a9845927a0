CONSTANTS
  a = a
  b = b
  c = c
  Node = {a, b, c}
  Definitions <- MCDefinitions
  MaxExecutions = 2
  MaxAttempts = 2
  ScanLimit = 2
  Scanner = {s1}
  Key = {k1}
  NoKey = NoKey
SPECIFICATION OpSpec
INVARIANT PlansAcceptTheWork
CHECK_DEADLOCK FALSE

CONSTANTS
  a = a
  b = b
  c = c
  Node = {a, b, c}
  Definitions <- MCDefinitions
  MaxExecutions = 3
  MaxAttempts = 2
  ScanLimit = 2
  Scanner = {s1, s2}
  Key = {k1}
  NoKey = NoKey
SPECIFICATION OpFairSpec
INVARIANTS
  OneResumePerFailure
  ResumesCarryTheWork
  FrontiersFollowThePlan
PROPERTY FailedWorkIsResumed
CHECK_DEADLOCK FALSE

SPECIFICATION Spec
CONSTANTS
  s1 = s1
  s2 = s2
  w1 = w1
  w2 = w2
  n1 = n1
  n2 = n2
  NoOwner = NoOwner
  NoSlot = NoSlot
  Nodes = {n1, n2}
  Slots <- MCSlots
  Owners <- MCOwners
  OwnerOf <- TwoWorkers
  Steps = 2
  NodesOf <- ScheduledGraph
  Batches = {}
  LeaseTime = 2
  MaxRun = 2
  MaxAttempts = 2
  BaseDelay = 1
  MaxDelay = 2
  ClaimBound = 2
  Faults <- LossyProbe
INVARIANTS
  ProgressIsSequential
  ClosedExecutionHasNoActiveFrontier
  LeaseLayersAgree

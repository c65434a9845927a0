SPECIFICATION Spec
CONSTANTS
  s1 = s1
  s2 = s2
  w1 = w1
  w2 = w2
  n1 = n1
  n2 = n2
  NoOwner = NoOwner
  NoSlot = NoSlot
  Nodes = {n1, n2}
  Slots <- MCSlots
  Owners <- MCOwners
  OwnerOf <- OneWorker
  Steps = 1
  NodesOf <- ScheduledLinear
  Batches <- OneBatch
  LeaseTime = 1
  MaxRun = 1
  MaxAttempts = 3
  BaseDelay = 1
  MaxDelay = 1
  ClaimBound = 3
  Faults <- OperatorAndLoss
INVARIANTS
  GenerationsAreUnique
  NodeFactsMatchFrontiers
PROPERTIES
  OnlyLatestClaimDecides

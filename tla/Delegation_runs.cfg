\* One delegation and two workers with six faults; three requests for a trigger; three
\* profiles of two providers and two managers.
CONSTANTS
  d1 = d1
  d2 = d2
  w1 = w1
  w2 = w2
  NoWorker = NoWorker
  Delegations = {d1}
  Workers <- TwoWorkers
  MaxActive = 1
  Timeout = 3
  WorkflowTimeout = 2
  LeaseTime = 2
  AttemptBound = 4
  Faults = {"crash", "crash_late", "stall", "cancel_execution", "republish", "probe"}
  Calls = {i1, i2, i3}
  CallKeys = {y1}
  MaxCallLosses = 1
  Profiles = {1, 2, 3}
  Providers = {"p", "q"}
  ProviderOf <- MCProviderOf
  Managers = {e1, e2}
  MaxEdits = 2
  MaxRounds = 2
SPECIFICATION MCSpec
INVARIANTS
  RunsAreExclusive
  OutcomesMatchTheWork
  EventsRunOnce
  AnswersStand
  AnswersAreBilled
PROPERTIES
  ClaimedDelegationsEnd
  InvocationsEnd
  SecondDefaultsAreRaces
CHECK_DEADLOCK FALSE

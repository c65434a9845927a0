\* Two schedulers whose leases lapse, with one fault and one edit.
CONSTANTS
  o1 = o1
  o2 = o2
  None = None
  Owners <- TwoSchedulers
  Intervals <- ShortAndLong
  CatchUpLimit = 1
  LeaseSeconds = 1
  Epoch = 1000
  MaxTime = 3
  MaxEdits = 1
  LastVersion = 2
  MaxFaults = 1
SPECIFICATION FairSpec
INVARIANTS
  SlotsRunOnce
  CatchUpLeavesNoGap
PROPERTIES
  DueSchedulesAdvance
CHECK_DEADLOCK FALSE

SPECIFICATION FairSpec
CONSTANTS
  Delivery = {d1, d2}
  Worker = {w1}
  Slot = {s1, s2}
  QueueSize = 1
  ListLimit = 1
  BootLimit = 2
  MaxEventAttempts = 2
  SlowWork = FALSE
  MaxRows = 2
  MaxFaults = 2
  MaxCrashes = 1
INVARIANTS TypeOK AnsweredIsKept OneWorkerPerEvent NotGivenUpEarly
PROPERTIES KeepsPromise EveryEventRetires

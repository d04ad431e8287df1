SPECIFICATION FairSpec
CONSTANTS
  Task = {t1, t2}
  Event = {e1, e2}
  Artifact = {a1}
  NoTask = NoTask
  NoEvent = NoEvent
  Ops = {"push", "close"}
  MaxApplyAttempts = 1
  MaxEventAttempts = 2
  TTLEnabled = FALSE
  SlowWork = FALSE
  MaxFaults = 1
  MaxCrashes = 1
PROPERTY EventsRetire
PROPERTY BranchSettles

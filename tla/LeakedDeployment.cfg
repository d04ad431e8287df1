SPECIFICATION Spec
CONSTANTS
  Task = {t1, t2}
  Event = {e1, e2}
  Artifact = {a1}
  NoTask = NoTask
  NoEvent = NoEvent
  Ops = {"push", "close"}
  MaxApplyAttempts = 1
  MaxEventAttempts = 2
  TTLEnabled = FALSE
  SlowWork = FALSE
  MaxFaults = 0
  MaxCrashes = 0
SYMMETRY Symmetry
INVARIANT DestroyedLeavesNothing

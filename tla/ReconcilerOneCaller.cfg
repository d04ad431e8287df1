SPECIFICATION Spec
CONSTANTS
  Task = {t1}
  Event = {e1, e2, e3}
  Artifact = {a1, a2}
  NoTask = NoTask
  NoEvent = NoEvent
  Ops = {"apply", "rollback", "destroy", "sleep", "wake", "sweep", "push", "barepush", "close"}
  MaxApplyAttempts = 1
  MaxEventAttempts = 2
  TTLEnabled = TRUE
  SlowWork = FALSE
  MaxFaults = 1
  MaxCrashes = 1
SYMMETRY Symmetry
INVARIANT QuietIsTruthful

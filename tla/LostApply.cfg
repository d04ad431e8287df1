SPECIFICATION Spec
CONSTANTS
  Task = {t1, t2}
  Event = {e1}
  Artifact = {a1}
  NoTask = NoTask
  NoEvent = NoEvent
  Ops = {"apply"}
  MaxApplyAttempts = 1
  MaxEventAttempts = 2
  TTLEnabled = FALSE
  SlowWork = FALSE
  MaxFaults = 0
  MaxCrashes = 1
SYMMETRY Symmetry
INVARIANT InFlightIsRemembered

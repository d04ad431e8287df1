SPECIFICATION Spec
CONSTANTS
  Task = {t1, t2}
  Event = {e1, e2, e3}
  Artifact = {a1}
  NoTask = NoTask
  NoEvent = NoEvent
  Ops = {"push", "barepush", "close", "sleep", "wake"}
  MaxApplyAttempts = 2
  MaxEventAttempts = 2
  TTLEnabled = FALSE
  SlowWork = FALSE
  MaxFaults = 1
  MaxCrashes = 1
SYMMETRY Symmetry
INVARIANT TypeOK
INVARIANT ServingRowIsComplete
INVARIANT RecordBelongsToLiveRow
INVARIANT InFlightIsRemembered
 

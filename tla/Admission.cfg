SPECIFICATION Spec
SYMMETRY Symmetry
CONSTANTS
  Branch = {b1, b2, b3, b4}
  Allowed = {b1, b2, b3}
  Worker = {w1, w2, w3}
  NoWorker = NoWorker
  NoBranch = NoBranch
  MaxConcurrent = 2
  Ops = {"push", "create", "destroy"}
INVARIANTS TypeOK CreationIsCapped OnlyNewIsCounted

SPECIFICATION FairSpec
CONSTANTS
  Goroutine = {g1, g2, g3}
  Key = {k1, k2}
  Entry = {e1, e2, e3}
  NoKey = NoKey
  NoEntry = NoEntry
  NoGoroutine = NoGoroutine
INVARIANTS TypeOK MutualExclusion NoIdleEntries
PROPERTIES ImplementsBranchLock EveryWaiterEnters

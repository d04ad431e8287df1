SPECIFICATION Spec
SYMMETRY Symmetry
CONSTANTS
  Caller = {c1, c2}
  Host = {h1, h2}
  NoHost = NoHost
  NoCaller = NoCaller
  MaxSerial = 3
  MaxFaults = 1
  MaxCrashes = 1
INVARIANTS TypeOK CacheIsTruthful NoStrayCertificate

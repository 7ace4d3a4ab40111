CONSTANTS
  Repos = {r1, r2}
  NoRepo = NoRepo
  r1 = r1
  Entries = {n1}
  RepoOf <- OnlyR1
  Ids = {i1, i2}
  Streams = {s1, s2}
  Relays = {"off"}
  OTelSettings = {TRUE}
  Signals = {}
  Retention = 1
  MaxStores = 3
SYMMETRY Symmetry
SPECIFICATION Spec
INVARIANTS TypeOK NothingLost StreamInOrder OnlyWatchedHandedOut
PROPERTIES NoUnrelayedRemoval ImplementsDelivery

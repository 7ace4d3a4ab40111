CONSTANTS
  Repos = {r1}
  NoRepo = NoRepo
  r1 = r1
  Entries = {n1}
  RepoOf <- OnlyR1
  Ids = {i1}
  Streams = {s1}
  Relays = {"http"}
  OTelSettings = {TRUE}
  Signals = {}
  Retention = 1
  MaxStores = 1
SPECIFICATION Spec
INVARIANTS RelayedMeansDelivered

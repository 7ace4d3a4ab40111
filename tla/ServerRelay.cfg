CONSTANTS
  Repos = {r1}
  NoRepo = NoRepo
  r1 = r1
  Entries = {n1, n2}
  RepoOf <- OnlyR1
  Ids = {i1, i2}
  Streams = {s1}
  Relays = {"http"}
  OTelSettings = {TRUE, FALSE}
  Signals = {}
  Retention = 0
  MaxStores = 2
SYMMETRY Symmetry
VIEW AllButPosted
SPECIFICATION Spec
INVARIANTS NothingLost StreamInOrder PostedOnceEach
PROPERTIES NoUnrelayedRemoval ImplementsDelivery

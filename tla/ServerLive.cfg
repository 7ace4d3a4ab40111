CONSTANTS
  Repos = {r1}
  NoRepo = NoRepo
  r1 = r1
  Entries = {n1}
  RepoOf <- OnlyR1
  Ids = {i1}
  Streams = {s1}
  Relays = {"off", "grpc"}
  OTelSettings = {TRUE}
  Signals = {"INT", "TERM"}
  Retention = 0
  MaxStores = 2
SPECIFICATION FairSpecWithClients
INVARIANTS PushedMeansDelivered
PROPERTIES EventuallyRelayed EventuallyForgotten InterruptStops

CONSTANTS
  Repos = {r1, r2}
  Ids = {i1, i2}
  Procs = {p1, p2}
  NoProc = NoProc
  NoCall = NoCall
  MaxStores = 3
SPECIFICATION FairSpec
INVARIANTS TypeOK UniqueDeliveries SnapshotReads
PROPERTIES ImplementsEventStore EveryCallReturns

CONSTANTS
  Repos = {r1, r2}
  Ids = {i1}
  Procs = {p1, p2}
  NoProc = NoProc
  NoCall = NoCall
  MaxStores = 1
SPECIFICATION Spec
INVARIANTS NeverFatal

CONSTANTS
  c1 = c1
  c2 = c2
  s1 = s1
  s2 = s2
  Chunk = {c1, c2}
  Slot = {s1, s2}
  Owner <- TwoFields
  Var = {v1}
  Proxy = {p1, p2}
  NULL = NULL
  MaxHeld = 2
  MaxShared = 0
  MaxLeaked = 1
  Reinits = FALSE
  OldestGen = 1
SPECIFICATION FairSpec
INVARIANTS CountsExact NoStaleEntries
PROPERTIES ImplementsHeap AbandonedReclaimed OperationsEnd

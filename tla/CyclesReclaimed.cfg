CONSTANTS
  c1 = c1
  c2 = c2
  s1 = s1
  s2 = s2
  Chunk = {c1}
  Slot = {s1}
  Owner <- SelfField
  Var = {}
  Proxy = {p1, p2}
  NULL = NULL
  MaxHeld = 3
  MaxShared = 0
  MaxLeaked = 0
  Reinits = FALSE
  OldestGen = 1
SPECIFICATION CollectingSpec
PROPERTIES CyclesReclaimed

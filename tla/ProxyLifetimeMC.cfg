CONSTANTS
  c1 = c1
  c2 = c2
  s1 = s1
  s2 = s2
  Chunk = {c1, c2}
  Slot = {s1, s2}
  Owner <- OneFieldEach
  Var = {v1}
  Proxy = {p1, p2, p3}
  NULL = NULL
  MaxHeld = 2
  MaxShared = 1
  MaxLeaked = 0
  Reinits = TRUE
  OldestGen = 1
SPECIFICATION Spec
SYMMETRY Symmetry
INVARIANTS TypeOK CountsExact EntriesSound PolicyHasProxy HeldMemoryAlive NoDangling ClearedIsFreed

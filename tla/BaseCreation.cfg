CONSTANTS
  Chunk = {c1, c2}
  Proxy = {p1, p2, p3, p4}
  Type = {t}
  TypeOf <- OneType
  MaxDepth = 3
  NULL = NULL
SPECIFICATION Spec
SYMMETRY Symmetry
INVARIANTS RegisteredOnce BaseKept HeldAliveUninterrupted

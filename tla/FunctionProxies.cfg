CONSTANTS
  Closure = {c1, c2, c3}
  Managed = {c1}
  Slot = {s1, s2}
  MaxPyRef = 2
  NULL = NULL
  JUNK = JUNK
  Type = {int, node, enum, packed}
  Fun = {unary, binary, thunk, late, variadic, pair, multi}
  Ret <- MCRet
  Args <- MCArgs
  NoType = {enum}
  NoAbi = {packed}
  NoCall = {variadic}
  NoRet = {multi}
  MaxArray = 4
  NestedFun = {unary, variadic, pair}
  NestedArray = 5
  NestedDepth = 3
  CType = {integer, pointer, struct, handle}
  Size <- MCSize
  DataPtr = {pointer, struct, handle}
  Storable = {integer, struct}
  Pointer = {pointer, handle}
  Hollow = {handle}
  Checked = {integer}
  NullSafe = {integer}
  Functions <- MCFunctions
  ClosuresFail = TRUE
  CallDepth = 4
  int = int
  node = node
  enum = enum
  packed = packed
  unary = unary
  binary = binary
  thunk = thunk
  late = late
  variadic = variadic
  pair = pair
  multi = multi
  integer = integer
  pointer = pointer
  struct = struct
  handle = handle
SPECIFICATION ComponentsSpec
INVARIANTS
  ComponentsTypeOK CallableKept
  SetupContract AllOrNothing NoStaleArray ArgsComplete 

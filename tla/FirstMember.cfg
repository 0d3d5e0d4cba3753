CONSTANTS
  a = a
  b = b
  pa = pa
  pb = pb
  barr = barr
  int = int
  enum = enum
  penum = penum
  Type <- MCType
  Kind <- MCKind
  Libraries <- MCLibraries
  Unions = {{}}
  NULL = NULL
SPECIFICATION Spec
INVARIANTS FirstMember

CONSTANTS
  a = a
  b = b
  pa = pa
  pb = pb
  barr = barr
  int = int
  enum = enum
  penum = penum
  Type <- MCType
  Kind <- MCKind
  Libraries <- MCLibraries
  Unions = {{}, {a}}
  NULL = NULL
  LibraryTypes <- MCLibraryTypes
  LibraryKind <- MCLibraryKind
  LibraryParts <- MCLibraryParts
  TypeNames <- MCTypeNames
  Symbols <- MCSymbols
  SymbolTypes <- MCSymbolTypes
  SymbolNames <- MCSymbolNames
  UnreadableSymbols = {"new_node", "count"}
SPECIFICATION ComponentsSpec
INVARIANTS
  TypeOK  PointerInherits FirstMemberUnlessCyclic
  ImportComplete NothingPending
PROPERTY RequestsReturn

SPECIFICATION ComponentsSpec
CONSTANTS
  a = a
  b = b
  v1 = v1
  v2 = v2
  Chunk = {a, b}
  View = {v1, v2}
  Start <- MCStart
  Size <- MCSize
  Slack = 0
  Owner <- PythonAndC
  Structs = {b}
  Item = {0, 1}
  Bad = Bad
  Index <- Ahead
  SliceIndex <- Ends
  Argument <- MCArgument
  Decoded <- Pointers
  MaxAddress = 9
  Unbounded = Unbounded
  DecodedLength <- MCDecodedLength
  StructFields <- MCFields
  FieldPlace <- StructPlace
  StructCells = {1, 2, 3}
  HandledFields = {"x", "y"}
  FieldValues = {0, 1, 2}
  StructCalls <- MCCalls
  ByteRange = 4
  BitsOfByte = 2
  MemSize = 3
  BaseType <- BaseTypeSet
  Object <- PythonObjects
  LongRange = 64
  NULL = NULL
  JUNK = JUNK
SYMMETRY Symmetry
INVARIANTS
  DataTypeOK ViewsExist NoJunk
  WithinAllocation LengthOfArray FieldsAsGiven ReadsBack
PROPERTIES SlicedLikeList WritesInView StoresInPlace

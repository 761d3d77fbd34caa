\* Bytes of two bits and two flags, a window of eight symbols, four items.
CONSTANTS
  FlagBits = 2
  ByteSize = 4
  HighSize = 2
  BreakEven = 1
  Literals = {1, 2}
  Pairs <- SomePairs
  MaxItems = 4
SPECIFICATION Spec
INVARIANTS
  TypeOK
  BufferFits
  OutputFits
  PrefixExpanded
  WholeExpanded
\* One Compress and one Expand, and then nothing is left to do.
CHECK_DEADLOCK FALSE

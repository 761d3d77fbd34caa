\* A window of seven symbols, look-ahead three, pairs of length two or three, and
\* up to thirty symbols after the damage.
CONSTANTS
  WindowSize = 7
  RawLookAheadSize = 2
  BreakEven = 1
  Symbols <- Bytes
  MaxSinceDamage = 30
SPECIFICATION Spec
INVARIANTS
  TypeOK
  RoundTrip
  TreeIsSearchTree
  LongestMatch
\* Compress ends with its input.  In a damaged tree it may also be caught in
\* findNextNode, and the model ends at its bound.
CHECK_DEADLOCK FALSE

SPECIFICATION WalkSpec
CONSTANTS
  Size = 11
  Header = 4
  Buffers <- AnyLengths
  Wanted <- AnyItem
INVARIANTS
  WithinTheBuffer
  Chained
  SeenToTheEnd
PROPERTIES
  Progresses
CHECK_DEADLOCK FALSE

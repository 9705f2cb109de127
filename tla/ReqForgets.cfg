\* A request that arrives in two pieces.
SPECIFICATION Spec
CONSTANTS
  MaxLen = 1
  BufSize = 8
  Streams <- CleanStreams
INVARIANT KeepsReceiving
CHECK_DEADLOCK FALSE

\* A header line with a CR that ends nothing, then an LF alone.
SPECIFICATION Spec
CONSTANTS
  MaxLen = 0
  BufSize = 12
  Streams <- LoneCrStreams
INVARIANT LinesEndInCrLf
CHECK_DEADLOCK FALSE

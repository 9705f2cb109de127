\* Every stream of at most five bytes in which each CR is half of a CR LF, and two
\* requests with a header, the second longer than the buffer.
SPECIFICATION FairSpec
CONSTANTS
  MaxLen = 5
  BufSize = 8
  Streams <- CleanStreams
INVARIANTS TypeOK ScanFrontier PiecesDontMatter AnsweredIsOver
PROPERTY CompleteRequestAnswered
CHECK_DEADLOCK FALSE

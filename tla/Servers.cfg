\* The serial server: two clients that wait, send in pieces and leave, one after the
\* other.  The child: two descriptors, given out again and again.  Clients leave by
\* FIN, by a reset, or by one after the other.
SPECIFICATION ServersFairSpec
CONSTANTS
  Streams <- SerialStreams
  BufSize = 5
  Backlog = 1
  MaxClients = 2
  Fds = {5, 6}
  MaxAccept = 2
  Endings = {"fin", "rst", "gone"}
INVARIANTS ServersTypeOK OwnBytesDecide FreeNumberFreeObject
PROPERTIES WholeRequestAnswered EveryoneServed AnswersItsOwn WholeAnswered
CHECK_DEADLOCK FALSE

\* Safety of the whole life of the pool, the first version against the second: a
\* signal may arrive at any moment, from before the handlers are installed until
\* after the parent has killed everyone, and one child may crash besides.  The
\* pool does stop, so deadlock is no error.
SPECIFICATION FirstSpec
CONSTANTS
  NumProc = 2
  Backlog = 2
  PipeCap = 1
  MsgBatch = 1
  MaxAccept = 1
  SigBuf = 10
  MaxKill = 1
  MaxCrash = 1
  MayFail = {}
INVARIANTS NoWedge ChildrenDoomed
PROPERTIES ServesListener ImplementsPool
CHECK_DEADLOCK FALSE

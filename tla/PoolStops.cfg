\* Liveness of stopping: one SIGTERM to any process or one Ctrl-C to all, at any
\* moment.  The pool does stop, so deadlock is no error.
SPECIFICATION FairSpec
CONSTANTS
  NumProc = 2
  Backlog = 1
  PipeCap = 1
  MsgBatch = 1
  MaxAccept = 1
  SigBuf = 10
  MaxKill = 1
  MaxCrash = 0
  MayFail = {}
PROPERTIES Shutdown TermHandled
CHECK_DEADLOCK FALSE

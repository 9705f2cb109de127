\* As many children as sig_pipefd bytes in one recv(), as k_max_num_process = 10
\* and sigs[10] allow: all of them crash while the parent is busy, then SIGTERM.
SPECIFICATION FairSpec
CONSTANTS
  NumProc = 2
  Backlog = 1
  PipeCap = 1
  MsgBatch = 1
  MaxAccept = 1
  SigBuf = 2
  MaxKill = 1
  MaxCrash = 2
  MayFail = {}
PROPERTY TermHandled
CHECK_DEADLOCK FALSE

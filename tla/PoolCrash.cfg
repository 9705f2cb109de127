\* One child crashes, nobody stops the pool.
SPECIFICATION Spec
CONSTANTS
  NumProc = 2
  Backlog = 1
  PipeCap = 1
  MsgBatch = 1
  MaxAccept = 1
  SigBuf = 10
  MaxKill = 0
  MaxCrash = 1
  MayFail = {}
INVARIANT ParentOutlivesChild

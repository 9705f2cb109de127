\* The pool at work, with nobody killing anything: three children, each of which
\* may be out of descriptors at any time and for any length of time, all at once
\* too, and clients that reset connections that wait.  Two notifications fit in a
\* socketpair, of which one recv() takes one; two connections wait at most.
SPECIFICATION FairSpec
CONSTANTS
  NumProc = 3
  Backlog = 2
  PipeCap = 2
  MsgBatch = 1
  MaxAccept = 1
  SigBuf = 2
  MaxKill = 0
  MaxCrash = 0
  MayFail = {1, 2, 3}
INVARIANTS TypeOK NoWedge RoundRobin
PROPERTY ListenerServed

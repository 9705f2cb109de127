\* Two clients: the first leaves, the second takes its slot and leaves too.
SPECIFICATION Spec
CONSTANTS
  MaxnClient = 2
  Fds = {5, 6}
  Backlog = 1
  SendCap = 1
  Habits = {"leave"}
  Timers = {t1, t2}
  NoTimer = NoTimer
  AlrmSlotSec = 1
  ClientAliveSec = 2
  UserSignals = {}
INVARIANT AssertHolds
CHECK_DEADLOCK FALSE

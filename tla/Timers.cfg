\* The list: four timers that expire at three times, which gives every shape of
\* list, insertion at the head, in the middle, at the end and among equals, and
\* addresses that are used again.
\* The server: the two slots of the source, an alarm every second, by which
\* a client has expired that said nothing since the second before.
SPECIFICATION TimersFairSpec
CONSTANTS
  ListTimers = {p1, p2, p3, p4}
  ListTimes = {0, 1, 2}
  Null = Null
  MaxnClient = 2
  Fds = {5, 6}
  Backlog = 1
  SendCap = 1
  Habits = {"say", "reset"}
  Timers = {t1, t2}
  NoTimer = NoTimer
  AlrmSlotSec = 1
  ClientAliveSec = 0
  UserSignals = {"URG"}
INVARIANTS TimersTypeOK WellLinked TimersMatchClients BoundUntilMoved AlarmChain
PROPERTIES IsSortedList ClosesTheIdle ExpiredGo
CHECK_DEADLOCK FALSE

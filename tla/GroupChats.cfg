\* Two slots, as in the source, and a third descriptor for the client too many.
SPECIFICATION FairSpec
CONSTANTS
  MaxnClient = 2
  Fds = {5, 6, 7}
  Backlog = 1
  SendCap = 1
  Habits = {"say", "leave", "stall"}
INVARIANTS TypeOK TableExact RoundComplete RecvHasData
PROPERTIES LeaverClosed QueueServed TermAtNextEvent TermStops
CHECK_DEADLOCK FALSE

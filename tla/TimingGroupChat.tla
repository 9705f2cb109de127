--------------------------- MODULE TimingGroupChat ---------------------------
(***************************************************************************)
(* timing_group_chat_service.cc: the chat server of GroupChatSio that also   *)
(* closes clients which have said nothing for a while.  Each client has a    *)
(* timer in a sorted list (SortedTimers, which TimerSortedList implements)    *)
(* and remembers its slot; SIGALRM makes the loop go through the timers.     *)
(*                                                                         *)
(* Time is counted from now on: a timer has so many seconds left, and has    *)
(* expired when that is negative.  Nothing compares two times that have      *)
(* passed, so that -1 stands for all of them.                               *)
(***************************************************************************)
EXTENDS ChatTable, Sequences

CONSTANTS
  Timers,       \* addresses a ClientTimer may have
  NoTimer,      \* nullptr
  AlrmSlotSec,  \* kAlrmSlotSec
  ClientAliveSec, \* kClientAliveSec
  UserSignals   \* signals others send: SIGTERM, SIGURG

ASSUME TimingAssumption ==
  /\ IsFiniteSet(Timers) /\ Cardinality(Timers) >= MaxnClient /\ NoTimer \notin Timers
  /\ AlrmSlotSec \in Nat \ {0} /\ ClientAliveSec \in Nat
  /\ UserSignals \subseteq {"URG", "TERM"}

VARIABLES
  kStop, kSigPipeFD, signalled,   \* as in GroupChatSio
  kTimeout,          \* set when SIGALRM is read from the socketpair
  alarm,             \* seconds until SIGALRM, 0: none will come
  kClientTimerList,  \* the timers that run, in the order of the list
  client_data,       \* the client each timer was made for
  kClient,           \* per descriptor: pollfds_idx and timer
  expiring,          \* timers that TickOnce() has still to take off
  moved              \* observer: a client was removed that was not in the last slot

sigVars   == <<kStop, kSigPipeFD, signalled, kTimeout, alarm>>
timerVars == <<kClientTimerList, client_data, kClient, expiring>>
timing    == <<kTimeout, alarm, timerVars>>
vars      == <<chatVars, sigVars, timerVars, moved>>

\* The server it grew from: the loop, and signals as bytes in a socketpair.
Sio == INSTANCE GroupChatSio

TimesLeft == -1 .. ClientAliveSec

SortedList == INSTANCE SortedTimers WITH
  Times <- TimesLeft, list <- kClientTimerList, fired <- <<>>

Listed == SortedList!Listed(kClientTimerList)

TypeOK ==
  /\ TableTypeOK
  /\ kStop \in BOOLEAN /\ signalled \in BOOLEAN /\ kTimeout \in BOOLEAN
  /\ kSigPipeFD \subseteq UserSignals \cup {"ALRM"}
  /\ alarm \in 0 .. AlrmSlotSec
  /\ kClientTimerList \in Seq(SortedList!Entry)
  /\ client_data \in [Timers -> Fds \cup {NoFd}]
  /\ kClient \in [Fds -> [pollfds_idx : 0 .. MaxnClient, timer : Timers \cup {NoTimer}]]
  /\ expiring \in Nat /\ moved \in BOOLEAN

Init ==
  /\ TableInit
  /\ kStop = FALSE /\ kSigPipeFD = {} /\ signalled = FALSE /\ kTimeout = FALSE
  /\ alarm = AlrmSlotSec
  /\ kClientTimerList = <<>>
  /\ client_data = [t \in Timers |-> NoFd]
  /\ kClient = [fd \in Fds |-> [pollfds_idx |-> 0, timer |-> NoTimer]]
  /\ expiring = 0 /\ moved = FALSE

-----------------------------------------------------------------------------
(* Removing a client, from the loop and from the list of timers.            *)

\* The part of the state RemoveClientFromPoll() works on.
Table == [conn |-> conn, fds |-> kFDS, n |-> kCntClient, client |-> kClient,
          moved |-> moved]

BecomesTable(t) ==
  /\ conn' = t.conn /\ kFDS' = t.fds /\ kCntClient' = t.n /\ kClient' = t.client
  /\ moved' = t.moved

BugSlotOf(t, fd) == t.n

\* The slot is looked up in the client's data.
SlotOf(t, fd) == t.client[fd].pollfds_idx

\* ReplaceAndClosePollfd(): the last slot replaces the client's, but the data of
\* the client of the last slot goes to the closed descriptor.
RemoveClientFromPoll(t, fd) ==
  LET dst  == SlotOf(t, fd)
      gone == t.fds[dst].fd
      last == t.fds[t.n].fd
  IN  [conn   |-> [t.conn EXCEPT ![gone] = NoConn],
       fds    |-> Replace(t.fds, dst, t.n),
       n      |-> t.n - 1,
       client |-> [t.client EXCEPT ![gone] = t.client[last]],
       moved  |-> t.moved \/ dst # t.n]

\* ChgTimer(): a timer that does not run is left alone.
ResetTimer(l, t) ==
  IF t \in SortedList!Listed(l)
  THEN SortedList!Insert(SortedList!Without(l, t), [timer |-> t, expire |-> ClientAliveSec])
  ELSE l

-----------------------------------------------------------------------------
(* The loop.                                                                *)

Test == Sio!Test /\ UNCHANGED <<timing, moved>>
Poll == Sio!Poll /\ UNCHANGED <<timing, moved>>

SignalPhase ==
  /\ Sio!SignalPhase
  /\ kTimeout' = (kTimeout \/ (signalled /\ "ALRM" \in kSigPipeFD))
  /\ UNCHANGED <<alarm, timerVars, moved>>

\* A new client gets the slot after the last, a timer, and the binding of the two.
\* Which free address new returns is up to malloc.
BindTimer(fd, t) ==
  /\ t \notin Listed
  /\ kClient' = [kClient EXCEPT ![fd] = [pollfds_idx |-> kCntClient + 1, timer |-> t]]
  /\ client_data' = [client_data EXCEPT ![t] = fd]
  /\ kClientTimerList' = SortedList!Insert(kClientTimerList,
                           [timer |-> t, expire |-> ClientAliveSec])
  /\ UNCHANGED expiring

Accept ==
  /\ AcceptPhase
  /\ IF listening /\ ~ Refused
     THEN \E t \in Timers : BindTimer(LowestFree, t)
     ELSE UNCHANGED timerVars
  /\ UNCHANGED <<sigVars, moved>>

BugDelTimer(l, t) == l

\* DelTimer(): nothing is found if the timer has expired.
DelTimer(l, t) == SortedList!Without(l, t)

\* POLLERR and POLLRDHUP: the timer goes first, then the assertion that the slot is
\* the one the client remembers, then the client.
Drop ==
  /\ AtSlot({"err", "rdhup"})
  /\ LET fd == kFDS[fds_i].fd
     IN  /\ kClientTimerList' = DelTimer(kClientTimerList, kClient[fd].timer)
         /\ IF kClient[fd].pollfds_idx # fds_i
            THEN End("aborted") /\ UNCHANGED <<kClient, moved>>
            ELSE /\ BecomesTable(RemoveClientFromPoll(Table, fd))
                 /\ fds_i' = AfterDrop(fds_i)
                 /\ due' = due \ {fd}
                 /\ UNCHANGED <<waiting, listening, pc, send_j>>
  /\ UNCHANGED <<client_data, expiring, sigVars>>

\* The loop goes on to the alarm.
Client ==
  /\ Receive \/ SkipClient \/ EndOfRound("alarm")
  /\ UNCHANGED <<sigVars, timerVars, moved>>

Send ==
  /\ SendMessage \/ SendFails \/ SendRaisesSigPipe \/ SkipSender
  /\ UNCHANGED <<sigVars, timerVars, moved>>

\* After the broadcast the timer of the sender is reset.
ResetSender ==
  /\ SendDone
  /\ kClientTimerList' = ResetTimer(kClientTimerList, kClient[kFDS[fds_i].fd].timer)
  /\ UNCHANGED <<client_data, kClient, expiring, sigVars, moved>>

BugRearm(a) == a

\* alarm(kAlrmSlotSec), the last call of AlarmHandler().
Rearm(a) == AlrmSlotSec

\* AlarmHandler(): the time is read once, for all the timers.
StartTick ==
  /\ pc = "alarm" /\ kTimeout
  /\ kTimeout' = FALSE
  /\ expiring' = Len(SortedList!Expired(kClientTimerList, 0))
  /\ pc' = "tick"
  /\ UNCHANGED <<netVars, tableVars, listening, fds_i, send_j, due, kStop, kSigPipeFD,
                 signalled, alarm, kClientTimerList, client_data, kClient, moved>>

\* One turn of TickOnce(): the first timer leaves the list, and its handler runs.
ExpireFirst ==
  /\ pc = "tick" /\ expiring > 0
  /\ BecomesTable(RemoveClientFromPoll(Table, client_data[Head(kClientTimerList).timer]))
  /\ kClientTimerList' = Tail(kClientTimerList)
  /\ expiring' = expiring - 1
  /\ UNCHANGED <<waiting, loopVars, sigVars, client_data>>

EndTick ==
  /\ pc = "tick" /\ expiring = 0
  /\ alarm' = Rearm(alarm)
  /\ pc' = "test"
  /\ UNCHANGED <<netVars, tableVars, listening, fds_i, send_j, due, kStop, kSigPipeFD,
                 signalled, kTimeout, timerVars, moved>>

NoAlarm ==
  /\ pc = "alarm" /\ ~ kTimeout
  /\ pc' = "test"
  /\ UNCHANGED <<netVars, tableVars, listening, fds_i, send_j, due, sigVars, timerVars,
                 moved>>

Server ==
  \/ Test \/ Poll \/ SignalPhase \/ Accept \/ Drop \/ Client \/ Send \/ ResetSender
  \/ StartTick \/ ExpireFirst \/ EndTick \/ NoAlarm

-----------------------------------------------------------------------------
(* Signals and time.                                                        *)

UserSignal(sig) == Sio!GenSigIO(sig) /\ UNCHANGED <<timing, moved>>

Left(expire) == IF expire < 0 THEN expire ELSE expire - 1

Second ==
  /\ pc \notin Ended
  /\ kClientTimerList' = [k \in DOMAIN kClientTimerList |->
                            [kClientTimerList[k] EXCEPT !.expire = Left(@)]]
  /\ alarm' = IF alarm = 0 THEN 0 ELSE alarm - 1
  /\ IF alarm = 1 THEN Sio!GenSigIO("ALRM")
     ELSE UNCHANGED <<chatVars, kStop, kSigPipeFD, signalled>>
  /\ UNCHANGED <<kTimeout, client_data, kClient, expiring, moved>>

Environment ==
  \/ Clients /\ UNCHANGED <<sigVars, timerVars, moved>>
  \/ \E sig \in UserSignals : UserSignal(sig)
  \/ Second

Next == Server \/ Environment

Spec == Init /\ [][Next]_vars

\* The process runs when it can, and clocks go on.  Clients read what they are sent:
\* to check this specification, leave "stall" out of Habits.
FairSpec == Spec /\ WF_vars(Server) /\ WF_vars(Second)

-----------------------------------------------------------------------------
(* Properties.                                                              *)

\* As many timers run as there are clients: no call to the list and to the table
\* is made without the other, so that the count of clients stays within the table
\* and the slot that is moved exists.
\* (timing_group_chat_service.cc:118-130, 303-305, 339-365; client_timer_list.h:170-187.)
TimersMatchClients ==
  pc \notin Ended =>
    /\ Len(kClientTimerList) = kCntClient
    /\ Cardinality(Listed) = kCntClient

\* As long as no client was moved to another slot: every client in the table has a
\* timer of its own that will remove this client and no other, and remembers the
\* slot it is in; the table is exact, and the assertions at 346 and 360 hold.
\* (timing_group_chat_service.cc:280-305, 343-347, 357-361, 385-386.)
BoundUntilMoved ==
  ~ moved =>
    /\ pc # "aborted"
    /\ pc \notin Ended =>
         /\ TableExact
         /\ \A s \in InUse :
              LET fd == kFDS[s].fd
              IN  /\ kClient[fd].pollfds_idx = s
                  /\ kClient[fd].timer \in Listed
                  /\ client_data[kClient[fd].timer] = fd

\* SIGALRM is armed, or on its way to AlarmHandler(), which arms it again: the chain
\* of alarms never breaks.  (timing_group_chat_service.cc:132-145, 219-221, 246-251,
\* 398-400.)
AlarmChain ==
  pc \notin Ended => alarm > 0 \/ "ALRM" \in kSigPipeFD \/ kTimeout \/ pc = "tick"

\* A timer that has expired does not stay in the list: TickOnce() comes to take off
\* all that there are, unless a client that speaks just in time is the last of them.
\* It needs clients that read, for a broadcast does not end before.
\* (timing_group_chat_service.cc:132-145, 386, 398-400.)
SomeExpired == \E k \in DOMAIN kClientTimerList : kClientTimerList[k].expire < 0

ExpiredGo == SomeExpired ~> expiring > 0 \/ ~ SomeExpired \/ pc \in Ended

\* As long as no client was moved to another slot, the alarm takes off only timers
\* that have expired, and closes the socket each was made for and no other: the
\* clients of the timers that go on running stay.
\* (timing_group_chat_service.cc:118-145; client_timer_list.h:170-187.)
ClosesTheIdle ==
  [][ExpireFirst /\ ~ moved' =>
       /\ Head(kClientTimerList).expire < 0
       /\ \A t \in Listed : t \in Listed' <=> conn'[client_data[t]].state # "closed"]_vars

\* "assert(client_pollfd == &kFDS[kClient[client_pollfd->fd].pollfds_idx])"
\* (timing_group_chat_service.cc:346, 360): the client's data names the slot that
\* the loop found it in.
AssertHolds == pc # "aborted"

=============================================================================

------------------------------ MODULE ChatTable ------------------------------
(***************************************************************************)
(* What the three chat servers have in common: the array kFDS that poll()    *)
(* looks at, the loop over it, and the clients behind its descriptors.       *)
(* The servers -- group_chat_service.cc, group_chat_service_sio.cc and        *)
(* timing_group_chat_service.cc -- are modules that add to this one how they *)
(* are stopped, and what else they do in a round.                            *)
(*                                                                         *)
(* Slots are numbered from 1: slot s is kFDS[s] of the first server, and      *)
(* kFDS[s + 1] of the others, whose entry 1 is the signal socketpair.         *)
(* All sockets are blocking.                                                 *)
(***************************************************************************)
EXTENDS Integers, FiniteSets

CONSTANTS
  MaxnClient,  \* kMaxnClient: slots of the table
  Fds,         \* numbers accept() may return
  Backlog,     \* bound: connections that wait to be accepted
  SendCap,     \* bound: messages a client's receive window has room for
  Habits       \* what clients do: say something, leave, reset the connection,
               \* stall (not read what they are sent)

ASSUME ChatAssumption ==
  /\ MaxnClient \in Nat \ {0}
  /\ Fds \subseteq Nat /\ IsFiniteSet(Fds) /\ Cardinality(Fds) >= MaxnClient
  /\ Backlog \in Nat \ {0} /\ SendCap \in Nat \ {0}
  /\ Habits \subseteq {"say", "leave", "reset", "stall"}

VARIABLES
  waiting,     \* connections in the queue of the listening socket
  conn,        \* the connection behind each descriptor number
  kFDS,        \* the slots: a descriptor and its revents
  kCntClient,  \* slots in use
  listening,   \* revents of the listening socket has POLLIN
  pc,          \* where the loop is
  fds_i,       \* the slot it looks at
  send_j,      \* the slot it broadcasts to
  due          \* observer: descriptors whose events poll() reported this round
               \* and the loop has not come to

netVars   == <<waiting, conn>>
tableVars == <<kFDS, kCntClient>>
loopVars  == <<listening, pc, fds_i, send_j, due>>
chatVars  == <<netVars, tableVars, loopVars>>

Slots  == 1 .. MaxnClient
NoFd   == -1
InUse  == 1 .. kCntClient
Polled == {kFDS[s].fd : s \in InUse}

\* A connection as the kernel sees it: the peer may have closed it (fin) or reset
\* it (rst); unread: the client said something recv() has not returned; unsent: the
\* client has not read what was sent to it.
NoConn  == [state |-> "closed", unread |-> FALSE, sent |-> 0]
NewConn == [NoConn EXCEPT !.state = "open"]

Open(fd) == conn[fd].state # "closed"
OpenFds  == {fd \in Fds : Open(fd)}
Hung     == {"fin", "rst"}

\* What the tests of revents make of the bits poll() sets, in the order of the
\* loop: POLLERR, POLLRDHUP, POLLIN.  POLLNVAL (nval) is tested nowhere.
Revents == {"none", "err", "rdhup", "in", "nval"}

BugEvent(fd) ==
  CASE conn[fd].state = "closed" -> "nval"
    [] conn[fd].state = "rst"    -> "err"
    [] OTHER -> IF conn[fd].unread THEN "in" ELSE "none"

Event(fd) ==
  CASE conn[fd].state = "closed" -> "nval"
    [] conn[fd].state = "rst"    -> "err"
    [] conn[fd].state = "fin"    -> "rdhup"
    [] OTHER -> IF conn[fd].unread THEN "in" ELSE "none"

Ended == {"exit", "killed", "aborted"}

TableTypeOK ==
  /\ waiting \in 0 .. Backlog
  /\ conn \in [Fds -> [state : {"closed", "open", "fin", "rst"},
                       unread : BOOLEAN, sent : 0 .. SendCap]]
  /\ kFDS \in [Slots -> [fd : Fds \cup {NoFd}, revents : Revents]]
  /\ kCntClient \in 0 .. MaxnClient
  /\ listening \in BOOLEAN
  /\ pc \in {"test", "poll", "signals", "accept", "clients", "send", "alarm",
              "tick"} \cup Ended
  /\ fds_i \in 1 .. MaxnClient + 1 /\ send_j \in 1 .. MaxnClient + 1
  /\ due \subseteq Fds

TableInit ==
  /\ waiting = 0
  /\ conn = [fd \in Fds |-> NoConn]
  /\ kFDS = [s \in Slots |-> [fd |-> NoFd, revents |-> "none"]]
  /\ kCntClient = 0
  /\ listening = FALSE
  /\ pc = "test"
  /\ fds_i = 1 /\ send_j = 1
  /\ due = {}

-----------------------------------------------------------------------------
(* The clients, and the kernel between them and the server.                 *)

Connect ==
  /\ pc \notin Ended /\ waiting < Backlog
  /\ waiting' = waiting + 1
  /\ UNCHANGED conn

Say(fd) ==
  /\ "say" \in Habits /\ conn[fd].state = "open"
  /\ conn' = [conn EXCEPT ![fd].unread = TRUE]
  /\ UNCHANGED waiting

Leave(fd) ==
  /\ "leave" \in Habits /\ conn[fd].state = "open"
  /\ conn' = [conn EXCEPT ![fd].state = "fin"]
  /\ UNCHANGED waiting

\* A reset, as the answer to what was sent to a closed socket or on its own.
Reset(fd) ==
  /\ "reset" \in Habits /\ conn[fd].state \in {"open", "fin"}
  /\ conn' = [conn EXCEPT ![fd].state = "rst"]
  /\ UNCHANGED waiting

\* The client, or the kernel of one that has left, takes what was sent.
Drain(fd) ==
  /\ conn[fd].sent > 0
  /\ conn' = [conn EXCEPT ![fd].sent = @ - 1]
  /\ UNCHANGED waiting

Clients ==
  /\ \/ Connect
     \/ \E fd \in Fds : Say(fd) \/ Leave(fd) \/ Reset(fd) \/ Drain(fd)
  /\ UNCHANGED <<tableVars, loopVars>>

\* The process ends: the kernel closes every socket it had.
End(how) ==
  /\ pc' = how
  /\ conn' = [fd \in Fds |-> NoConn]
  /\ waiting' = 0
  /\ UNCHANGED <<tableVars, listening, fds_i, send_j, due>>

-----------------------------------------------------------------------------
(* The loop.                                                                *)

SomethingReady == waiting > 0 \/ \E s \in InUse : Event(kFDS[s].fd) # "none"

\* poll() looks at the slots in use only, and writes their revents.
Refresh(tbl) ==
  [s \in Slots |-> IF s \in InUse THEN [tbl[s] EXCEPT !.revents = Event(tbl[s].fd)]
                   ELSE tbl[s]]

PollReturns(next) ==
  /\ kFDS' = Refresh(kFDS)
  /\ listening' = (waiting > 0)
  /\ due' = {fd \in Polled : Event(fd) \notin {"none", "nval"}}
  /\ pc' = next
  /\ UNCHANGED <<netVars, kCntClient, fds_i, send_j>>

LowestFree == CHOOSE fd \in Fds \ OpenFds : \A g \in Fds \ OpenFds : fd <= g

BugSlotOfNew(fd, old) == [old EXCEPT !.fd = fd]

\* The entry of a new client: nothing of the slot's last owner is left in it.
SlotOfNew(fd, old) == [fd |-> fd, revents |-> "none"]

BugRefused == OpenFds = Fds \/ kCntClient > MaxnClient

\* One accept() a round.  It fails when no descriptor is left; a client too many is
\* closed at once.
Refused == OpenFds = Fds \/ kCntClient >= MaxnClient

AcceptClient(fd) ==
  /\ waiting' = IF OpenFds = Fds THEN waiting ELSE waiting - 1
  /\ IF Refused
     THEN UNCHANGED <<conn, tableVars>>
     ELSE /\ conn' = [conn EXCEPT ![fd] = NewConn]
          /\ kCntClient' = kCntClient + 1
          /\ kFDS' = [kFDS EXCEPT ![kCntClient + 1] = SlotOfNew(fd, @)]

BugAcceptPhase ==
  /\ pc = "accept"
  /\ IF listening /\ ~ Refused THEN AcceptClient(LowestFree)
     ELSE UNCHANGED <<netVars, tableVars>>
  /\ pc' = "clients" /\ fds_i' = 1
  /\ UNCHANGED <<listening, send_j, due>>

AcceptPhase ==
  /\ pc = "accept"
  /\ IF listening THEN AcceptClient(LowestFree) ELSE UNCHANGED <<netVars, tableVars>>
  /\ pc' = "clients" /\ fds_i' = 1
  /\ UNCHANGED <<listening, send_j, due>>

\* The slots of a table of n after ReplaceAndClosePollfd(dst, last).
BugReplace(tbl, dst, n) == [tbl EXCEPT ![n] = tbl[dst]]
Replace(tbl, dst, n)    == [tbl EXCEPT ![dst] = tbl[n]]

BugAfterDrop(s) == s + 1

\* fds_i-- before the fds_i++ of the for loop: the slot has a new owner.
AfterDrop(s) == s

AtSlot(events) == pc = "clients" /\ fds_i \in InUse /\ kFDS[fds_i].revents \in events

\* POLLERR or POLLRDHUP: the last slot takes the place of this one.
DropClient ==
  /\ AtSlot({"err", "rdhup"})
  /\ LET fd == kFDS[fds_i].fd
     IN  /\ conn' = [conn EXCEPT ![fd] = NoConn]
         /\ due' = due \ {fd}
  /\ kFDS' = Replace(kFDS, fds_i, kCntClient)
  /\ kCntClient' = kCntClient - 1
  /\ fds_i' = AfterDrop(fds_i)
  /\ UNCHANGED <<waiting, listening, pc, send_j>>

\* POLLIN: recv(), then a send() to every other slot.
Receive ==
  /\ AtSlot({"in"})
  /\ conn[kFDS[fds_i].fd].unread       \* or recv() blocks
  /\ conn' = [conn EXCEPT ![kFDS[fds_i].fd].unread = FALSE]
  /\ due' = due \ {kFDS[fds_i].fd}
  /\ pc' = "send" /\ send_j' = 1
  /\ UNCHANGED <<waiting, tableVars, listening, fds_i>>

SkipClient ==
  /\ AtSlot({"none", "nval"})
  /\ fds_i' = fds_i + 1
  /\ UNCHANGED <<netVars, tableVars, listening, pc, send_j, due>>

EndOfRound(next) ==
  /\ pc = "clients" /\ fds_i \notin InUse
  /\ pc' = next
  /\ fds_i' = 1
  /\ UNCHANGED <<netVars, tableVars, listening, send_j, due>>

Addressee == kFDS[send_j].fd
Sending   == pc = "send" /\ send_j \in InUse /\ Addressee # kFDS[fds_i].fd
Blocked   == Sending /\ conn[Addressee].state \in {"open", "fin"}
                     /\ conn[Addressee].sent = SendCap

NextAddressee ==
  /\ send_j' = send_j + 1
  /\ UNCHANGED <<waiting, tableVars, listening, pc, fds_i, due>>

SendMessage ==
  /\ Sending /\ ~ Blocked /\ conn[Addressee].state # "rst"
  /\ conn' = IF Open(Addressee) /\ "stall" \in Habits
             THEN [conn EXCEPT ![Addressee].sent = @ + 1] ELSE conn
  /\ NextAddressee

\* After a reset, send() reports the error once, and from then on raises SIGPIPE;
\* after the reset of a connection the peer had closed, at once.  Nobody ignores it.
SendFails         == Sending /\ conn[Addressee].state = "rst" /\ UNCHANGED conn /\ NextAddressee
SendRaisesSigPipe == Sending /\ conn[Addressee].state = "rst" /\ End("killed")

\* A handled signal without SA_RESTART: send() returns EINTR.
SendInterrupted == Blocked /\ UNCHANGED conn /\ NextAddressee

SkipSender ==
  /\ pc = "send" /\ send_j \in InUse /\ Addressee = kFDS[fds_i].fd
  /\ UNCHANGED conn /\ NextAddressee

SendDone ==
  /\ pc = "send" /\ send_j \notin InUse
  /\ pc' = "clients" /\ fds_i' = fds_i + 1 /\ send_j' = 1
  /\ UNCHANGED <<netVars, tableVars, listening, due>>

Broadcast == SendMessage \/ SendFails \/ SendRaisesSigPipe \/ SkipSender \/ SendDone

-----------------------------------------------------------------------------
(* Properties of the table and of the rounds.                               *)

\* Every accepted connection is in exactly one slot in use, and every slot in
\* use has a connection: removing a client from the middle of the table neither
\* loses another, nor keeps one twice, nor leaves a descriptor open.
\* (group_chat_service.cc:83-87, 193-196, 225-239, and the same in the others.)
TableExact ==
  pc \notin Ended =>
    /\ Polled = OpenFds
    /\ \A s, t \in InUse : kFDS[s].fd = kFDS[t].fd => s = t

\* What poll() reported is dealt with in the round it was reported in: the client
\* that is moved into the place of a removed one is not passed over.
\* (group_chat_service.cc:213-267.)
RoundComplete == pc \in {"test", "poll"} => due = {}

\* recv() on a blocking socket is only called when something is there to be
\* received: no client can make the server wait for it by saying nothing.
\* (group_chat_service.cc:193-196, 241-249.)
RecvHasData == AtSlot({"in"}) => conn[kFDS[fds_i].fd].unread

\* A client that closed its connection, or lost it, is removed from the table and
\* its descriptor closed.  (group_chat_service.cc:224-239.)
LeaverClosed ==
  [](\A fd \in Fds : conn[fd].state \in Hung => <>(conn[fd].state = "closed"))

\* The queue of the listening socket never stays full, whatever the number of
\* clients: the server accepts the ones too many to close them.
\* (group_chat_service.cc:169-205.)
QueueServed == waiting = Backlog ~> waiting < Backlog

=============================================================================

----------------------------- MODULE ChildServer -----------------------------
(***************************************************************************)
(* A child of the pool and all its clients: RunChild() of ProcessPool.h with  *)
(* clients[], an object per descriptor number, and the descriptors that the  *)
(* kernel gives out, takes back and gives out again.                         *)
(*                                                                         *)
(* ReqStatMach looks into one process() and at every byte; here process() is *)
(* one step, and a request is its two halves.  How notifications and signals *)
(* get here is in ProcessPool; here they are there or not.                   *)
(***************************************************************************)
EXTENDS Integers, Sequences, FiniteSets

CONSTANTS
  Fds,        \* numbers accept() may return: the process may open no more
  Backlog,    \* bound: connections that wait
  MaxAccept,  \* k_max_accept_n
  Endings     \* how clients leave: fin, rst, gone (a reset after the end)

VARIABLES
  T,           \* the class of clients[]: "ReqStatMach", or "client" of the test
  queue,       \* connections in the backlog
  conn,        \* the connection behind each descriptor number
  ready,       \* descriptors on the ready list of epoll
  notified,    \* a notification is in the socketpair, with its wake-up
  pending,     \* a stop signal is in sig_pipefd, with its wake-up
  clients,     \* the objects
  pc, events, accept_left, stop   \* as in ProcessPool

netVars   == <<queue, conn, ready, notified, pending>>
childVars == <<clients, pc, events, accept_left, stop>>
vars      == <<T, netVars, childVars>>

NoFd == -1
Ipc  == -2   \* ipc_pipefd
Sig  == -3   \* sig_pipefd[kSigRfdIdx]

\* What clients send: a request in two pieces or one, or nonsense.
Request == <<"head", "tail">>
Pieces  == {"head", "tail", "junk"}
MaySend(sent) == CASE sent = <<>>       -> {<<"head">>, Request, <<"junk">>}
                   [] sent = <<"head">> -> {Request}
                   [] OTHER             -> {}

NoConn  == [state |-> "closed", sent |-> <<>>, read |-> 0]
NewConn == [NoConn EXCEPT !.state = "open"]

Open(fd)     == conn[fd].state # "closed"
OpenFds      == {fd \in Fds : Open(fd)}
Unread(fd)   == SubSeq(conn[fd].sent, conn[fd].read + 1, Len(conn[fd].sent))
Readable(fd) == Open(fd) /\ (Unread(fd) # <<>> \/ conn[fd].state # "open")

Ended == {"exited", "killed"}

Results == {"NO_REQUEST", "GOT_REQUEST", "DONE_RECV", "BAD_REQUEST", "INTERNAL_ERROR"}

ChildTypeOK ==
  /\ T \in {"ReqStatMach", "client"}
  /\ queue \in 0 .. Backlog
  /\ conn \in [Fds -> [state : {"closed", "open", "fin", "rst", "gone"},
                       sent : {<<>>, <<"head">>, Request, <<"junk">>}, read : 0 .. 2]]
  /\ ready \subseteq OpenFds
  /\ notified \in BOOLEAN /\ pending \in BOOLEAN /\ stop \in BOOLEAN
  /\ \A fd \in Fds :
       /\ clients[fd].sockfd \in {fd, NoFd}
       /\ clients[fd].recvbuf \in Seq(Pieces) /\ Len(clients[fd].recvbuf) <= 2
       /\ clients[fd].result \in Results
  /\ pc \in {"loop", "accept"} \cup Ended
  /\ events \subseteq OpenFds \cup {Ipc, Sig}
  /\ accept_left \in 0 .. MaxAccept

\* new T[k_max_clientfd]: the constructor only says that there is no descriptor.
Init ==
  /\ T \in {"ReqStatMach", "client"}
  /\ queue = 0
  /\ conn = [fd \in Fds |-> NoConn]
  /\ ready = {} /\ notified = FALSE /\ pending = FALSE
  /\ clients = [fd \in Fds |-> [sockfd |-> NoFd, recvbuf |-> <<>>, result |-> "NO_REQUEST"]]
  /\ pc = "loop" /\ events = {} /\ accept_left = 0 /\ stop = FALSE

-----------------------------------------------------------------------------
(* Clients, the parent, and whoever sends signals.                          *)

Connect == queue < Backlog /\ queue' = queue + 1 /\ UNCHANGED <<conn, ready, notified, pending>>

\* The other children take connections, too.
Taken == queue > 0 /\ queue' = queue - 1 /\ UNCHANGED <<conn, ready, notified, pending>>

Notify == queue > 0 /\ notified' = TRUE /\ UNCHANGED <<queue, conn, ready, pending>>

Signal == pending' = TRUE /\ UNCHANGED <<queue, conn, ready, notified>>

Arrives(fd, c) ==
  /\ conn' = [conn EXCEPT ![fd] = c]
  /\ ready' = ready \cup {fd}
  /\ UNCHANGED <<queue, notified, pending>>

Send(fd) ==
  /\ conn[fd].state = "open"
  /\ \E s \in MaySend(conn[fd].sent) : Arrives(fd, [conn[fd] EXCEPT !.sent = s])

\* FIN, RST, or one after the other.
Leave(fd) ==
  \E how \in Endings :
    /\ conn[fd].state = IF how = "gone" THEN "fin" ELSE "open"
    /\ Arrives(fd, [conn[fd] EXCEPT !.state = how])

Environment ==
  /\ pc \notin Ended
  /\ \/ Connect \/ Taken \/ Notify \/ Signal
     \/ \E fd \in Fds : Send(fd) \/ Leave(fd)
  /\ UNCHANGED <<T, childVars>>

-----------------------------------------------------------------------------
(* The event loop.                                                          *)

\* The kernel closes what the process had.
Dies(how) ==
  /\ pc' = how
  /\ conn' = [fd \in Fds |-> NoConn]
  /\ ready' = {} /\ events' = {} /\ queue' = 0
  /\ UNCHANGED <<notified, pending, accept_left, stop>>

\* epoll_wait(): what is on the ready list is looked at again before it is reported.
Wait ==
  /\ pc = "loop" /\ events = {} /\ ~ stop
  /\ events' = {fd \in ready : Readable(fd)}
                 \cup (IF notified THEN {Ipc} ELSE {})
                 \cup (IF pending THEN {Sig} ELSE {})
  /\ events' # {}
  /\ ready' = {}
  /\ UNCHANGED <<T, queue, conn, notified, pending, clients, pc, accept_left, stop>>

Handles(e) == pc = "loop" /\ e \in events

ReadSignal ==
  /\ Handles(Sig)
  /\ events' = events \ {Sig}
  /\ pending' = FALSE
  /\ stop' = TRUE
  /\ UNCHANGED <<T, queue, conn, ready, notified, clients, pc, accept_left>>

ReadNotification ==
  /\ Handles(Ipc)
  /\ events' = events \ {Ipc}
  /\ notified' = FALSE
  /\ pc' = "accept" /\ accept_left' = MaxAccept
  /\ UNCHANGED <<T, queue, conn, ready, pending, clients, stop>>

LowestFree == CHOOSE fd \in Fds \ OpenFds : \A g \in Fds \ OpenFds : fd <= g

\* accept() has nothing to return, or no number to return it under (EMFILE).
AcceptFails == queue = 0 \/ OpenFds = Fds

BugObjectFor(c, fd) == [c EXCEPT !.sockfd = fd, !.recvbuf = <<>>]

\* init()
ObjectFor(c, fd) ==
  IF T = "client" THEN [c EXCEPT !.sockfd = fd]
  ELSE [sockfd |-> fd, recvbuf |-> <<>>, result |-> "NO_REQUEST"]

\* One turn of the accept loop.
Accept ==
  /\ pc = "accept" /\ accept_left > 0 /\ ~ AcceptFails
  /\ LET fd == LowestFree IN
       /\ queue' = queue - 1
       /\ IF clients[fd].sockfd = NoFd
          THEN /\ conn' = [conn EXCEPT ![fd] = NewConn]
               /\ clients' = [clients EXCEPT ![fd] = ObjectFor(@, fd)]
               /\ accept_left' = accept_left - 1
               /\ UNCHANGED pc
          ELSE \* "accept to quick !"
               /\ pc' = "loop" /\ accept_left' = 0
               /\ UNCHANGED <<conn, clients>>
  /\ UNCHANGED <<T, ready, notified, pending, events, stop>>

\* No turn is left, accept() fails, or it takes a connection off the queue to report
\* that the client has reset it (ECONNABORTED).
AcceptDone ==
  /\ pc = "accept"
  /\ \/ (accept_left = 0 \/ AcceptFails) /\ UNCHANGED queue
     \/ accept_left > 0 /\ ~ AcceptFails /\ queue' = queue - 1
  /\ pc' = "loop" /\ accept_left' = 0
  /\ UNCHANGED <<T, conn, ready, notified, pending, clients, events, stop>>

\* The closing loop over clients[], and the end of the process.
Exit ==
  /\ pc = "loop" /\ events = {} /\ stop
  /\ Dies("exited")
  /\ UNCHANGED <<T, clients>>

-----------------------------------------------------------------------------
(* process() of an object that has an event.                                *)

Verdict(bytes) ==
  CASE bytes = Request   -> "GOT_REQUEST"
    [] bytes = <<"junk">> -> "BAD_REQUEST"
    [] OTHER             -> "NO_REQUEST"

BugResultOf(fd, bytes) ==
  CASE conn[fd].state = "open" -> Verdict(bytes)
    [] conn[fd].state = "rst"  -> "INTERNAL_ERROR"
    [] OTHER                   -> "DONE_RECV"

\* The result of the loop over recv(): the parser's, or that of the last recv().
ResultOf(fd, bytes) ==
  IF Verdict(bytes) # "NO_REQUEST" THEN Verdict(bytes)
  ELSE CASE conn[fd].state = "open" -> "NO_REQUEST"
         [] conn[fd].state = "rst"  -> "INTERNAL_ERROR"
         [] OTHER                   -> "DONE_RECV"

\* The object after the loop.  One that has a result does not receive; one that
\* has forgotten its descriptor gets EBADF.
Received(fd) ==
  LET c     == clients[fd]
      bytes == c.recvbuf \o Unread(fd)
  IN  CASE c.result # "NO_REQUEST" -> c
        [] c.result = "NO_REQUEST" /\ c.sockfd = NoFd -> [c EXCEPT !.result = "INTERNAL_ERROR"]
        [] OTHER -> [c EXCEPT !.recvbuf = bytes, !.result = ResultOf(fd, bytes)]

BugForget(c) == IF c.result = "NO_REQUEST" THEN [c EXCEPT !.sockfd = NoFd] ELSE c

\* m_sockfd = -1, whatever the result.
Forget(c) == [c EXCEPT !.sockfd = NoFd]

SigPipe(fd, c) == c.result = "GOT_REQUEST" /\ conn[fd].state = "gone"

Process(fd) ==
  /\ T = "ReqStatMach" /\ Handles(fd)
  /\ LET c == Received(fd) IN
       IF SigPipe(fd, c)
       THEN Dies("killed") /\ UNCHANGED clients
       ELSE /\ clients' = [clients EXCEPT ![fd] = Forget(c)]
            /\ IF c.result # "NO_REQUEST" /\ c.sockfd = fd
               THEN conn' = [conn EXCEPT ![fd] = NoConn] /\ ready' = ready \ {fd}
               ELSE /\ conn' = [conn EXCEPT ![fd].read = IF c.sockfd = fd THEN Len(conn[fd].sent)
                                                         ELSE @]
                    /\ UNCHANGED ready
            /\ events' = events \ {fd}
            /\ UNCHANGED <<queue, notified, pending, pc, accept_left, stop>>
  /\ UNCHANGED T

\* process() of the test's class reads and prints, and closes nothing.
TestProcess(fd) ==
  /\ T = "client" /\ Handles(fd)
  /\ conn' = [conn EXCEPT ![fd].read = Len(conn[fd].sent)]
  /\ events' = events \ {fd}
  /\ UNCHANGED <<T, queue, ready, notified, pending, clients, pc, accept_left, stop>>

Child ==
  \/ Wait \/ ReadSignal \/ ReadNotification \/ Accept \/ AcceptDone \/ Exit
  \/ \E fd \in Fds : Process(fd) \/ TestProcess(fd)

Next == Child \/ Environment

Spec == Init /\ [][Next]_vars

\* The child runs when it can.
FairSpec == Spec /\ WF_vars(Child)

-----------------------------------------------------------------------------
(* Properties.                                                              *)

\* A number that accept() may return belongs to an object that is free: the branch
\* "accept to quick" is never taken, and no client is turned away by it.
\* (ProcessPool.h:307-311; ReqStatMach.h:131-133, 173-199.)
FreeNumberFreeObject == \A fd \in Fds : ~ Open(fd) /\ pc \notin Ended => clients[fd].sockfd = NoFd

\* A connection is answered for its own request: nothing is left in the object of
\* what an earlier connection with the same number sent or was told.
\* (ReqStatMach.h:108-199; ProcessPool.h:307-324.)
Answered(fd) == Process(fd) /\ clients'[fd].result = "GOT_REQUEST"

AnswersItsOwn == [][\A fd \in Fds : Answered(fd) => conn[fd].sent = Request]_vars

\* A request that has arrived before the object's first event is answered, whatever
\* became of the connection that had the number before, and of the other clients.
\* (ProcessPool.h:279-336, 365-367.)
WholeAnswered ==
  [](\A fd \in Fds :
       clients[fd].sockfd = fd /\ Unread(fd) = Request /\ T = "ReqStatMach"
         => <>(clients[fd].result = "GOT_REQUEST" \/ pc \in Ended))

=============================================================================

----------------------------- MODULE ServersProofs -----------------------------
(***************************************************************************)
(* What holds of the serial server and of a child of the pool for every set   *)
(* of streams, every size of the receive buffer, every set of descriptor       *)
(* numbers and any number of clients that come, send and leave as they like.   *)
(***************************************************************************)
EXTENDS MCServers, ReqStatMachProofs

-----------------------------------------------------------------------------
(* The child: numbers and objects.                                          *)

\* What a client may have sent.
Sent        == {<<>>, <<"head">>, InChild!Request, <<"junk">>}
Connections == [state : {"closed", "open", "fin", "rst", "gone"}, sent : Sent, read : 0 .. 2]
Objects     == [sockfd : Fds \cup {InChild!NoFd}, recvbuf : Sent, result : InChild!Results]

ChildShape ==
  /\ T \in {"ReqStatMach", "client"}
  /\ queue \in 0 .. Backlog
  /\ conn \in [Fds -> Connections]
  /\ ready \subseteq InChild!OpenFds
  /\ notified \in BOOLEAN /\ pending \in BOOLEAN /\ stop \in BOOLEAN
  /\ clients \in [Fds -> Objects]
  /\ \A fd \in Fds : clients[fd].sockfd \in {fd, InChild!NoFd}
  /\ child_pc \in {"loop", "accept", "exited", "killed"}
  /\ events \subseteq InChild!OpenFds \cup {InChild!Ipc, InChild!Sig}
  /\ accept_left \in 0 .. MaxAccept

\* The object of an open connection has received nothing as long as it knows its
\* descriptor; once it has forgotten it, it has nothing to answer.
NothingKept ==
  T = "ReqStatMach" =>
    \A fd \in Fds :
      InChild!Open(fd) =>
        /\ clients[fd].sockfd = fd =>
             clients[fd].recvbuf = <<>> /\ clients[fd].result = "NO_REQUEST" /\ conn[fd].read = 0
        /\ clients[fd].sockfd = InChild!NoFd =>
             clients[fd].result \in {"NO_REQUEST", "INTERNAL_ERROR"}

ChildInv == ChildShape /\ NothingKept /\ InChild!FreeNumberFreeObject

LEMMA ConnectionTypes ==
  /\ InChild!NoConn \in Connections /\ InChild!NoConn.state = "closed"
  /\ InChild!NewConn \in Connections /\ InChild!NewConn.state = "open" /\ InChild!NewConn.read = 0
  BY DEF InChild!NoConn, InChild!NewConn, Connections, Sent

\* What has not been read, of everything and of nothing.
LEMMA UnreadWhole ==
  ASSUME NEW s \in Sent
  PROVE  /\ <<>> \o SubSeq(s, 1, Len(s)) = s
         /\ Len(s) \in 0 .. 2
  <1>1. /\ s \in Seq({"head", "tail", "junk"})
        /\ Len(s) \in 0 .. 2
    <2>1. CASE s = <<>>
      BY <2>1
    <2>2. CASE s = <<"head">>
      BY <2>2
    <2>3. CASE s = <<"junk">>
      BY <2>3
    <2>4. CASE s = <<"head", "tail">>
      BY <2>4
    <2> QED
      BY <2>1, <2>2, <2>3, <2>4 DEF Sent, InChild!Request
  <1>2. SubSeq(s, 1, Len(s)) = s /\ <<>> \o s = s
    BY <1>1, SubSeqFull, ConcatEmptySeq
  <1> QED
    BY <1>1, <1>2

LEMMA ChildInit == ASSUME ServersInit PROVE ChildInv
  <1> USE DEF InChild!OpenFds, InChild!Open
  <1>1. InChild!Init
    BY DEF ServersInit
  <1>2. ChildShape
    <2>1. 0 \in 0 .. Backlog /\ 0 \in 0 .. MaxAccept
      BY ChildAssumption, SerialAssumption
    <2>2. [sockfd |-> InChild!NoFd, recvbuf |-> <<>>, result |-> "NO_REQUEST"] \in Objects
      BY DEF Objects, Sent, InChild!Results
    <2> QED
      BY <1>1, <2>1, <2>2, ConnectionTypes DEF InChild!Init, ChildShape
  <1>3. NothingKept /\ InChild!FreeNumberFreeObject
    BY <1>1, ConnectionTypes DEF InChild!Init, NothingKept, InChild!FreeNumberFreeObject
  <1> QED
    BY <1>2, <1>3 DEF ChildInv

\* The death of the process closes everything.
LEMMA ChildDies ==
  ASSUME ChildInv, NEW how \in {"exited", "killed"}, InChild!Dies(how), UNCHANGED <<T, clients>>
  PROVE  ChildInv'
  BY ConnectionTypes, SerialAssumption
     DEF ChildInv, ChildShape, NothingKept, InChild!FreeNumberFreeObject, InChild!Dies,
         InChild!OpenFds, InChild!Open, InChild!Ended

\* The event loop, apart from process().
LEMMA ChildLoop ==
  ASSUME ChildInv,
         \/ InChild!Wait \/ InChild!ReadSignal \/ InChild!ReadNotification
         \/ InChild!AcceptDone \/ InChild!Exit
  PROVE  ChildInv'
  <1> USE DEF ChildInv, ChildShape, NothingKept, InChild!FreeNumberFreeObject,
              InChild!OpenFds, InChild!Open, InChild!Ended
  <1>1. CASE InChild!Wait
    BY <1>1 DEF InChild!Wait, InChild!Readable
  <1>2. CASE InChild!ReadSignal
    BY <1>2 DEF InChild!ReadSignal, InChild!Handles
  <1>5. CASE InChild!ReadNotification
    <2>1. accept_left' \in 0 .. MaxAccept
      BY <1>5, ChildAssumption DEF InChild!ReadNotification
    <2>2. /\ child_pc' = "accept" /\ events' = events \ {InChild!Ipc} /\ notified' = FALSE
          /\ UNCHANGED <<T, queue, conn, ready, pending, clients, stop>>
          /\ child_pc = "loop"
      BY <1>5 DEF InChild!ReadNotification, InChild!Handles
    <2> QED
      BY <2>1, <2>2
  <1>3. CASE InChild!AcceptDone
    <2>1. queue' \in 0 .. Backlog
      <3>1. queue' = queue \/ (queue # 0 /\ queue' = queue - 1)
        BY <1>3 DEF InChild!AcceptDone, InChild!AcceptFails
      <3>2. queue \in 0 .. Backlog /\ Backlog \in Nat
        BY SerialAssumption
      <3> QED
        BY ONLY <3>1, <3>2
    <2>2. accept_left' \in 0 .. MaxAccept
      BY <1>3, ChildAssumption DEF InChild!AcceptDone
    <2>3. /\ child_pc' = "loop" /\ child_pc = "accept"
          /\ UNCHANGED <<T, conn, ready, notified, pending, clients, events, stop>>
      BY <1>3 DEF InChild!AcceptDone
    <2> QED
      BY <2>1, <2>2, <2>3
  <1>4. CASE InChild!Exit
    BY <1>4, ChildDies DEF InChild!Exit
  <1> QED
    BY <1>1, <1>2, <1>3, <1>4, <1>5

\* accept() gives out a number that no connection has.
LEMMA LowestFreeIsFree ==
  ASSUME InChild!OpenFds # Fds
  PROVE  InChild!LowestFree \in Fds /\ ~ InChild!Open(InChild!LowestFree)
  <1> DEFINE free == Fds \ InChild!OpenFds
  <1>1. free \in SUBSET Nat /\ free # {}
    BY ChildAssumption DEF InChild!OpenFds
  <1>2. PICK x \in free : \A y \in free : x <= y
    BY <1>1, LeastElement
  <1>3. InChild!LowestFree \in free
    BY <1>2 DEF InChild!LowestFree
  <1> QED
    BY <1>3 DEF InChild!OpenFds

LEMMA ChildAccept == ASSUME ChildInv, InChild!Accept PROVE ChildInv'
  <1> USE DEF InChild!OpenFds, InChild!Open, InChild!Ended
  <1> DEFINE fd == InChild!LowestFree
  <1>1. fd \in Fds /\ conn[fd].state = "closed"
    BY LowestFreeIsFree DEF InChild!Accept, InChild!AcceptFails
  <1>2. /\ queue' = queue - 1 /\ queue # 0 /\ child_pc = "accept" /\ accept_left > 0
        /\ UNCHANGED <<T, ready, notified, pending, events, stop>>
    BY DEF InChild!Accept, InChild!AcceptFails, ChildInv, ChildShape
  <1>3. clients[fd].sockfd = InChild!NoFd
    BY <1>1, <1>2 DEF ChildInv, InChild!FreeNumberFreeObject
  <1>4. /\ conn' = [conn EXCEPT ![fd] = InChild!NewConn]
        /\ clients' = [clients EXCEPT ![fd] = InChild!ObjectFor(clients[fd], fd)]
        /\ accept_left' = accept_left - 1
        /\ child_pc' = child_pc
    BY <1>3 DEF InChild!Accept
  <1> DEFINE c == InChild!ObjectFor(clients[fd], fd)
  <1>5. /\ c \in Objects /\ c.sockfd = fd
        /\ T = "ReqStatMach" => c.recvbuf = <<>> /\ c.result = "NO_REQUEST"
    BY <1>1 DEF ChildInv, ChildShape, Objects, Sent, InChild!ObjectFor, InChild!Results
  <1> HIDE DEF c, fd
  <1>6. clients' = [clients EXCEPT ![fd] = c]
    BY <1>4 DEF c, fd
  <1>7. fd # InChild!NoFd
    BY <1>1, ChildAssumption DEF InChild!NoFd
  <1>8. ChildShape'
    BY <1>1, <1>2, <1>4, <1>5, <1>6, ConnectionTypes, SerialAssumption, ChildAssumption
       DEF ChildInv, ChildShape
  <1>9. NothingKept'
    BY <1>1, <1>2, <1>4, <1>5, <1>6, <1>7, ConnectionTypes DEF ChildInv, ChildShape, NothingKept
  <1>10. InChild!FreeNumberFreeObject'
    BY <1>1, <1>2, <1>4, <1>5, <1>6, ConnectionTypes
       DEF ChildInv, ChildShape, InChild!FreeNumberFreeObject
  <1> QED
    BY <1>8, <1>9, <1>10 DEF ChildInv

\* process() receives nothing but what this connection sent, and a whole request
\* is all that is answered.
LEMMA ReceivedIsSent ==
  ASSUME ChildInv, T = "ReqStatMach", NEW fd \in Fds, InChild!Open(fd)
  PROVE  LET c == InChild!Received(fd) IN
         /\ c \in Objects /\ c.sockfd = clients[fd].sockfd
         /\ c.sockfd = InChild!NoFd => c.result \in {"NO_REQUEST", "INTERNAL_ERROR"}
         /\ c.result = "GOT_REQUEST" => conn[fd].sent = InChild!Request
  <1> DEFINE o == clients[fd]
             s == conn[fd].sent
             c == InChild!Received(fd)
  <1>1. o \in Objects /\ s \in Sent /\ o.sockfd \in {fd, InChild!NoFd} /\ fd # InChild!NoFd
    BY ChildAssumption DEF ChildInv, ChildShape, Connections, InChild!NoFd
  <1>2. CASE o.sockfd = InChild!NoFd
    <2>1. o.result \in {"NO_REQUEST", "INTERNAL_ERROR"}
      BY <1>2 DEF ChildInv, NothingKept
    <2>2. c = IF o.result # "NO_REQUEST" THEN o ELSE [o EXCEPT !.result = "INTERNAL_ERROR"]
      BY <1>2 DEF InChild!Received
    <2> QED
      BY <1>1, <1>2, <2>1, <2>2 DEF Objects, InChild!Results
  <1>3. CASE o.sockfd = fd
    <2>1. o.recvbuf = <<>> /\ o.result = "NO_REQUEST" /\ conn[fd].read = 0
      BY <1>3 DEF ChildInv, NothingKept
    <2>2. o.recvbuf \o InChild!Unread(fd) = s
      BY <1>1, <2>1, UnreadWhole DEF InChild!Unread
    <2>3. c = [o EXCEPT !.recvbuf = s, !.result = InChild!ResultOf(fd, s)]
      BY <1>1, <1>3, <2>1, <2>2 DEF InChild!Received
    <2>4. /\ InChild!ResultOf(fd, s) \in InChild!Results
          /\ InChild!ResultOf(fd, s) = "GOT_REQUEST" => s = InChild!Request
      BY DEF InChild!ResultOf, InChild!Verdict, InChild!Results
    <2> HIDE DEF s, c
    <2> QED
      BY <1>1, <1>3, <2>3, <2>4 DEF Objects, s, c
  <1> QED
    BY <1>1, <1>2, <1>3

LEMMA ChildProcess ==
  ASSUME ChildInv, NEW fd \in Fds, InChild!Process(fd)
  PROVE  /\ ChildInv'
         /\ clients'[fd].result = "GOT_REQUEST" => conn[fd].sent = InChild!Request
  <1> USE DEF InChild!OpenFds, InChild!Open, InChild!Ended
  <1> DEFINE c == InChild!Received(fd)
  <1>1. T = "ReqStatMach" /\ child_pc = "loop" /\ fd \in events /\ T' = T
    BY DEF InChild!Process, InChild!Handles
  <1>2. fd # InChild!NoFd /\ fd # InChild!Ipc /\ fd # InChild!Sig
    BY ChildAssumption DEF InChild!NoFd, InChild!Ipc, InChild!Sig
  <1>3. conn[fd].state # "closed"
    BY <1>1, <1>2 DEF ChildInv, ChildShape
  <1>4. /\ c \in Objects /\ c.sockfd = clients[fd].sockfd
        /\ c.sockfd = InChild!NoFd => c.result \in {"NO_REQUEST", "INTERNAL_ERROR"}
        /\ c.result = "GOT_REQUEST" => conn[fd].sent = InChild!Request
    BY <1>1, <1>3, ReceivedIsSent
  <1>5. CASE InChild!SigPipe(fd, c)
    <2>1. c.result = "GOT_REQUEST"
      BY <1>5 DEF InChild!SigPipe
    <2>2. InChild!Dies("killed") /\ UNCHANGED <<T, clients>>
      BY <1>1, <1>5 DEF InChild!Process
    <2> QED
      BY <1>4, <2>1, <2>2, ChildDies
  <1>6. CASE ~ InChild!SigPipe(fd, c)
    <2> DEFINE o == InChild!Forget(c)
    <2>1. /\ clients' = [clients EXCEPT ![fd] = o]
          /\ events' = events \ {fd}
          /\ UNCHANGED <<T, queue, notified, pending, child_pc, accept_left, stop>>
          /\ \/ c.result # "NO_REQUEST" /\ c.sockfd = fd
                /\ conn' = [conn EXCEPT ![fd] = InChild!NoConn] /\ ready' = ready \ {fd}
             \/ ~(c.result # "NO_REQUEST" /\ c.sockfd = fd) /\ ready' = ready
                /\ conn' = [conn EXCEPT ![fd].read = IF c.sockfd = fd THEN Len(conn[fd].sent)
                                                     ELSE @]
      BY <1>1, <1>6 DEF InChild!Process
    <2> HIDE DEF c
    <2>2. o \in Objects /\ o.sockfd = InChild!NoFd /\ o.result = c.result
      BY <1>4 DEF InChild!Forget, Objects
    <2> HIDE DEF o
    <2>3. conn[fd] \in Connections /\ clients[fd].sockfd \in {fd, InChild!NoFd}
      BY DEF ChildInv, ChildShape
    <2>4. PICK n \in 0 .. 2 : 
            conn' = [conn EXCEPT ![fd].read = n] \/ conn' = [conn EXCEPT ![fd] = InChild!NoConn]
      BY <2>1, <2>3, UnreadWhole DEF Connections
    <2>5. /\ conn' \in [Fds -> Connections]
          /\ \A g \in Fds \ {fd} : conn'[g] = conn[g]
          /\ conn'[fd].state # "closed" => ready' = ready /\ conn'[fd].state = conn[fd].state
      BY <2>1, <2>3, <2>4, ConnectionTypes DEF ChildInv, ChildShape, Connections
    <2>6. ready' \subseteq InChild!OpenFds' /\ events' \subseteq InChild!OpenFds' \cup {InChild!Ipc, InChild!Sig}
      BY <1>3, <2>1, <2>3, <2>4, <2>5, ConnectionTypes DEF ChildInv, ChildShape, Connections
    <2>7. ChildShape'
      BY <2>1, <2>2, <2>5, <2>6 DEF ChildInv, ChildShape
    <2>8. NothingKept'
      <3> SUFFICES ASSUME NEW g \in Fds, conn'[g].state # "closed"
                   PROVE  /\ clients'[g].sockfd = g =>
                               /\ clients'[g].recvbuf = <<>> /\ clients'[g].result = "NO_REQUEST"
                               /\ conn'[g].read = 0
                          /\ clients'[g].sockfd = InChild!NoFd =>
                               clients'[g].result \in {"NO_REQUEST", "INTERNAL_ERROR"}
        BY DEF NothingKept
      <3>1. CASE g # fd
        BY <1>1, <2>1, <2>5, <3>1 DEF ChildInv, ChildShape, NothingKept
      <3>2. CASE g = fd
        <4>1. ~(c.result # "NO_REQUEST" /\ c.sockfd = fd)
          BY <2>1, <2>5, <3>2, ConnectionTypes DEF ChildInv, ChildShape
        <4>2. clients'[fd] = o
          BY <2>1 DEF ChildInv, ChildShape
        <4>3. c.result \in {"NO_REQUEST", "INTERNAL_ERROR"}
          BY <1>4, <2>3, <4>1
        <4> QED
          BY <1>2, <2>2, <3>2, <4>2, <4>3
      <3> QED
        BY <3>1, <3>2
    <2>9. InChild!FreeNumberFreeObject'
      BY <1>1, <1>3, <2>1, <2>2, <2>5 DEF ChildInv, ChildShape, InChild!FreeNumberFreeObject
    <2>10. clients'[fd].result = c.result
      BY <2>1, <2>2 DEF ChildInv, ChildShape
    <2> QED
      BY <1>4, <2>7, <2>8, <2>9, <2>10 DEF ChildInv
  <1> QED
    BY <1>5, <1>6

LEMMA ChildTestProcess == ASSUME ChildInv, NEW fd \in Fds, InChild!TestProcess(fd) PROVE ChildInv'
  <1> USE DEF InChild!OpenFds, InChild!Open, InChild!Ended
  <1>1. /\ T = "client" /\ conn' = [conn EXCEPT ![fd].read = Len(conn[fd].sent)]
        /\ events' = events \ {fd}
        /\ UNCHANGED <<T, queue, ready, notified, pending, clients, child_pc, accept_left, stop>>
    BY DEF InChild!TestProcess
  <1>2. Len(conn[fd].sent) \in 0 .. 2
    BY UnreadWhole DEF ChildInv, ChildShape, Connections
  <1>3. /\ conn' \in [Fds -> Connections]
        /\ \A g \in Fds : conn'[g].state = conn[g].state
    BY <1>1, <1>2 DEF ChildInv, ChildShape, Connections
  <1> QED
    BY <1>1, <1>3 DEF ChildInv, ChildShape, NothingKept, InChild!FreeNumberFreeObject

\* Clients, the parent, and whoever sends signals.
LEMMA ChildEnvironment == ASSUME ChildInv, InChild!Environment PROVE ChildInv'
  <1> USE DEF InChild!OpenFds, InChild!Open, InChild!Ended
  <1>1. UNCHANGED <<T, clients, child_pc, events, accept_left, stop>>
    BY DEF InChild!Environment, InChild!childVars
  <1>2. CASE InChild!Connect \/ InChild!Taken \/ InChild!Notify \/ InChild!Signal
    <2>1. UNCHANGED <<conn, ready>>
      BY <1>2 DEF InChild!Connect, InChild!Taken, InChild!Notify, InChild!Signal
    <2>2. queue' \in 0 .. Backlog
      BY <1>2, SerialAssumption
         DEF InChild!Connect, InChild!Taken, InChild!Notify, InChild!Signal, ChildInv, ChildShape
    <2>3. notified' \in BOOLEAN /\ pending' \in BOOLEAN
      BY <1>2 DEF InChild!Connect, InChild!Taken, InChild!Notify, InChild!Signal, ChildInv, ChildShape
    <2> QED
      BY <1>1, <2>1, <2>2, <2>3
         DEF ChildInv, ChildShape, NothingKept, InChild!FreeNumberFreeObject
  <1>3. ASSUME NEW fd \in Fds, conn[fd].state # "closed", NEW c \in Connections,
               c.state # "closed", c.read = conn[fd].read, InChild!Arrives(fd, c)
        PROVE  ChildInv'
    <2>1. conn' = [conn EXCEPT ![fd] = c] /\ ready' = ready \cup {fd}
          /\ UNCHANGED <<queue, notified, pending>>
      BY <1>3 DEF InChild!Arrives
    <2>2. /\ conn' \in [Fds -> Connections]
          /\ \A g \in Fds : /\ conn'[g].state = "closed" <=> conn[g].state = "closed"
                            /\ conn'[g].read = conn[g].read
      BY <1>3, <2>1 DEF ChildInv, ChildShape
    <2>3. ready' \subseteq InChild!OpenFds' /\ events' \subseteq InChild!OpenFds' \cup {InChild!Ipc, InChild!Sig}
      BY <1>1, <1>3, <2>1, <2>2 DEF ChildInv, ChildShape
    <2> QED
      BY <1>1, <2>1, <2>2, <2>3 DEF ChildInv, ChildShape, NothingKept, InChild!FreeNumberFreeObject
  <1>4. ASSUME NEW fd \in Fds, InChild!Send(fd) PROVE ChildInv'
    <2>1. conn[fd] \in Connections /\ conn[fd].state = "open"
      BY <1>4 DEF InChild!Send, ChildInv, ChildShape
    <2>2. PICK s \in InChild!MaySend(conn[fd].sent) :
            InChild!Arrives(fd, [conn[fd] EXCEPT !.sent = s])
      BY <1>4 DEF InChild!Send
    <2>3. s \in Sent
      BY <2>2 DEF InChild!MaySend, Sent
    <2> DEFINE c == [conn[fd] EXCEPT !.sent = s]
    <2>4. c \in Connections /\ c.state = "open" /\ c.read = conn[fd].read
      BY <2>1, <2>3 DEF Connections
    <2>5. InChild!Arrives(fd, c)
      BY <2>2
    <2> HIDE DEF c
    <2> QED
      BY <1>3, <2>1, <2>4, <2>5
  <1>5. ASSUME NEW fd \in Fds, InChild!Leave(fd) PROVE ChildInv'
    <2>1. PICK how \in Endings :
            /\ conn[fd].state = IF how = "gone" THEN "fin" ELSE "open"
            /\ InChild!Arrives(fd, [conn[fd] EXCEPT !.state = how])
      BY <1>5 DEF InChild!Leave
    <2>2. how \in {"fin", "rst", "gone"} /\ conn[fd] \in Connections
      BY ChildAssumption DEF ChildInv, ChildShape
    <2> DEFINE c == [conn[fd] EXCEPT !.state = how]
    <2>3. c \in Connections /\ c.state # "closed" /\ c.read = conn[fd].read
      BY <2>2 DEF Connections
    <2>4. conn[fd].state # "closed" /\ InChild!Arrives(fd, c)
      BY <2>1
    <2> HIDE DEF c
    <2> QED
      BY <1>3, <2>3, <2>4
  <1> QED
    BY <1>2, <1>4, <1>5 DEF InChild!Environment

LEMMA ChildStep ==
  ASSUME ChildInv, InChild!Next
  PROVE  /\ ChildInv'
         /\ \A fd \in Fds : InChild!Answered(fd) => conn[fd].sent = InChild!Request
  <1>1. \A fd \in Fds : InChild!Answered(fd) => conn[fd].sent = InChild!Request
    BY ChildProcess DEF InChild!Answered
  <1>2. ChildInv'
    BY ChildLoop, ChildAccept, ChildProcess, ChildTestProcess, ChildEnvironment
       DEF InChild!Next, InChild!Child
  <1> QED
    BY <1>1, <1>2

-----------------------------------------------------------------------------
(* The serial server.                                                       *)

\* The connection being served is one of ReqStatMach until SIGTERM, which closes it.
SerialInv ==
  /\ pc # "exited" => TypeInv
  /\ pc = "exited" => ~fd_open
  /\ ~edge /\ sockfd = "fd"
  /\ waiting \in Seq(Clients)
  /\ Len(waiting) <= Backlog
  /\ arrived \in 0 .. MaxClients

LEMMA SerialStart == ASSUME SerialInit PROVE SerialInv
  <1>1. <<>> \in Seq(Bytes) /\ <<>> \in Seq(Bytes \cup {"NUL"}) /\ <<>> \in Seq(Clients) /\ Len(<<>>) = 0
    BY EmptySeq
  <1>2. TypeOK
    <2>1. /\ recvbuf \in Seq(Bytes \cup {"NUL"}) /\ Len(recvbuf) = 0
          /\ stream \in Seq(Bytes) /\ inbox \in Seq(Bytes) /\ received \in Seq(Bytes)
      BY <1>1 DEF SerialInit
    <2>2. Len(recvbuf) <= BufSize /\ checked_idx \in 0 .. Len(recvbuf) /\ linest_idx \in 0 .. checked_idx
      BY <2>1, ReqAssumption DEF SerialInit
    <2> QED
      BY <2>1, <2>2 DEF SerialInit, TypeOK, LineStats, CheckStats, ResultCodes
  <1>3. Once /\ AnsweredIsOver
    BY DEF SerialInit, Once, AnsweredIsOver
  <1> QED
    BY <1>1, <1>2, <1>3, SerialAssumption DEF SerialInit, SerialInv, TypeInv

\* Clients stay clients when they send and when they leave.
LEMMA ClientsSend ==
  ASSUME NEW c \in Clients, NEW d \in AfterSending(c) \cup AfterLeaving(c)
  PROVE  d \in Clients
  <1>1. CASE d \in AfterSending(c)
    <2>1. PICK n \in 1 .. Len(c.stream) :
            d = [c EXCEPT !.inbox = @ \o SubSeq(c.stream, 1, n),
                          !.stream = SubSeq(c.stream, n + 1, Len(c.stream))]
      BY <1>1 DEF AfterSending
    <2>2. c.stream \in Seq(Bytes) /\ c.inbox \in Seq(Bytes) /\ Len(c.stream) \in Nat
      BY LenProperties DEF Clients
    <2>3. n \in 0 .. Len(c.stream)
      BY <2>2
    <2>4. SubSeq(c.stream, 1, n) \in Seq(Bytes) /\ SubSeq(c.stream, n + 1, Len(c.stream)) \in Seq(Bytes)
      BY <2>2, <2>3, Cut
    <2>5. c.inbox \o SubSeq(c.stream, 1, n) \in Seq(Bytes)
      BY <2>2, <2>4, ConcatProperties
    <2> DEFINE i == c.inbox \o SubSeq(c.stream, 1, n)
               s == SubSeq(c.stream, n + 1, Len(c.stream))
    <2>6. d = [c EXCEPT !.inbox = i, !.stream = s]
      BY <2>1
    <2>7. i \in Seq(Bytes) /\ s \in Seq(Bytes)
      BY <2>4, <2>5
    <2> HIDE DEF i, s
    <2> QED
      BY <2>6, <2>7 DEF Clients
  <1>2. CASE d \in AfterLeaving(c)
    <2>1. PICK p \in {"fin", "rst", "gone"} : d = [c EXCEPT !.peer = p]
      BY <1>2 DEF AfterLeaving
    <2> QED
      BY <2>1 DEF Clients
  <1> QED
    BY <1>1, <1>2

LEMMA CurrentIsClient == ASSUME TypeOK PROVE Current \in Clients
  BY DEF TypeOK, Current, Clients

\* The clients that wait.
LEMMA QueueStep == ASSUME SerialInv, Connect \/ WaitingClient PROVE SerialInv'
  <1>1. /\ UNCHANGED <<connVars, parseVars, pc, obsVars>>
        /\ waiting \in Seq(Clients) /\ Len(waiting) \in Nat /\ Len(waiting) <= Backlog
    BY LenProperties DEF Connect, WaitingClient, SerialInv
  <1>2. waiting' \in Seq(Clients) /\ Len(waiting') <= Backlog /\ arrived' \in 0 .. MaxClients
    <2>1. CASE Connect
      <3>1. PICK s \in Streams :
              waiting' = Append(waiting, [stream |-> s, inbox |-> <<>>, peer |-> "open"])
        BY <2>1 DEF Connect
      <3> DEFINE c == [stream |-> s, inbox |-> <<>>, peer |-> "open"]
      <3>2. c \in Clients
        BY ReqAssumption, EmptySeq DEF Clients
      <3>3. waiting' = Append(waiting, c)
        BY <3>1
      <3> HIDE DEF c
      <3>4. waiting' \in Seq(Clients) /\ Len(waiting') = Len(waiting) + 1
        BY <1>1, <3>2, <3>3, AppendProperties
      <3>5. Len(waiting) < Backlog /\ arrived < MaxClients /\ arrived' = arrived + 1
        BY <2>1 DEF Connect
      <3> QED
        BY <1>1, <3>4, <3>5, SerialAssumption DEF SerialInv
    <2>2. CASE WaitingClient
      <3>1. PICK k \in 1 .. Len(waiting) :
              \E c \in AfterSending(waiting[k]) \cup AfterLeaving(waiting[k]) :
                waiting' = [waiting EXCEPT ![k] = c]
        BY <2>2 DEF WaitingClient
      <3> PICK c \in AfterSending(waiting[k]) \cup AfterLeaving(waiting[k]) :
              waiting' = [waiting EXCEPT ![k] = c]
        BY <3>1
      <3>2. waiting[k] \in Clients
        BY <1>1, ElementOfSeq
      <3>3. c \in Clients
        BY <3>2, ClientsSend
      <3>4. waiting' \in Seq(Clients) /\ Len(waiting') = Len(waiting)
        BY <1>1, <3>3, ExceptSeq
      <3>5. arrived' = arrived
        BY <2>2 DEF WaitingClient
      <3> QED
        BY <1>1, <3>4, <3>5 DEF SerialInv
    <2> QED
      BY <2>1, <2>2
  <1>3. (pc # "exited" => TypeInv) => (pc' # "exited" => TypeInv')
    BY <1>1 DEF TypeInv, TypeOK, Once, AnsweredIsOver, connVars, clientVars, kernVars, parseVars, obsVars
  <1> QED
    BY <1>1, <1>2, <1>3 DEF SerialInv, connVars, kernVars

\* The client being served.
LEMMA CurrentStep == ASSUME SerialInv, CurrentSends \/ CurrentLeaves PROVE SerialInv'
  <1>1. /\ fd_open
        /\ UNCHANGED <<fd_open, edge, sockfd, parseVars, pc, obsVars, queueVars>>
    BY DEF CurrentSends, CurrentLeaves
  <1>2. TypeInv /\ pc # "exited"
    BY <1>1 DEF SerialInv
  <1>3. PICK c \in AfterSending(Current) \cup AfterLeaving(Current) : CurrentBecomes(c)
    BY DEF CurrentSends, CurrentLeaves
  <1>4. c \in Clients
    BY <1>2, CurrentIsClient, ClientsSend DEF TypeInv
  <1>5. stream' \in Seq(Bytes) /\ inbox' \in Seq(Bytes) /\ peer' \in {"open", "fin", "rst", "gone"}
    BY <1>3, <1>4 DEF CurrentBecomes, Clients
  <1>6. TypeInv'
    BY <1>1, <1>2, <1>5 DEF TypeInv, TypeOK, Once, AnsweredIsOver, parseVars, obsVars
  <1> QED
    BY <1>1, <1>2, <1>6 DEF SerialInv, queueVars

\* The server takes the next client, with a parser of its own.
LEMMA SerialAccepts == ASSUME SerialInv, Accept PROVE SerialInv'
  <1>1. /\ pc = "wait" /\ waiting # <<>> /\ CurrentBecomes(Head(waiting))
        /\ fd_open' = TRUE /\ NewParser /\ pc' = "recv" /\ received' = <<>> /\ answered' = 0
        /\ waiting' = Tail(waiting) /\ UNCHANGED <<edge, sockfd, arrived>>
    BY DEF Accept
  <1>2. waiting \in Seq(Clients) /\ Len(waiting) \in Nat /\ Len(waiting) <= Backlog
    BY LenProperties DEF SerialInv
  <1>3. Head(waiting) \in Clients /\ Tail(waiting) \in Seq(Clients) /\ Len(Tail(waiting)) = Len(waiting) - 1
    BY <1>1, <1>2, HeadTailProperties
  <1>4. stream' \in Seq(Bytes) /\ inbox' \in Seq(Bytes) /\ peer' \in {"open", "fin", "rst", "gone"}
    BY <1>1, <1>3 DEF CurrentBecomes, Clients
  <1>5. <<>> \in Seq(Bytes) /\ <<>> \in Seq(Bytes \cup {"NUL"}) /\ Len(<<>>) = 0
    BY EmptySeq
  <1>6. TypeOK'
    <2>1. recvbuf' \in Seq(Bytes \cup {"NUL"}) /\ Len(recvbuf') = 0 /\ received' \in Seq(Bytes)
      BY <1>1, <1>5 DEF NewParser
    <2>2. /\ Len(recvbuf') <= BufSize
          /\ checked_idx' \in 0 .. Len(recvbuf') /\ linest_idx' \in 0 .. checked_idx'
      BY <1>1, <2>1, ReqAssumption DEF NewParser
    <2>3. edge' \in BOOLEAN /\ sockfd' \in {"fd", "none"}
      BY <1>1 DEF SerialInv, TypeInv, TypeOK
    <2> QED
      BY <1>1, <1>4, <2>1, <2>2, <2>3
         DEF NewParser, TypeOK, LineStats, CheckStats, ResultCodes
  <1>7. (Once /\ AnsweredIsOver)'
    BY <1>1 DEF NewParser, Once, AnsweredIsOver
  <1>8. waiting' \in Seq(Clients) /\ Len(waiting') <= Backlog
    BY <1>1, <1>2, <1>3, SerialAssumption
  <1> QED
    BY <1>1, <1>6, <1>7, <1>8 DEF SerialInv, TypeInv

\* What recv() returns and what the parser makes of it are as in a child of the pool.
LEMMA SerialServes == ASSUME SerialInv, Receive \/ Scan \/ RespondSigPipe PROVE SerialInv'
  <1>1. pc \in {"recv", "scan", "reply"}
    BY DEF Receive, Scan, RespondSigPipe, RecvData, RecvZero, RecvError, RecvEnds,
           ScanLine, ScanMore, ScanBad, ReplySigPipe
  <1>2. TypeInv
    BY <1>1 DEF SerialInv
  <1>3. TypeInv'
    BY <1>2, ReceiveType, ScanType, ReplyType DEF Receive, Scan, RespondSigPipe
  <1>4. UNCHANGED queueVars /\ sockfd' = sockfd /\ (edge' = edge \/ ~edge')
    BY DEF Receive, Scan, RespondSigPipe, RecvData, RecvZero, RecvError, RecvEnds,
           ScanLine, ScanMore, ScanBad, ReplySigPipe, Crashes, kernVars
  <1>5. pc' # "exited"
    BY <1>3 DEF TypeInv, TypeOK
  <1> QED
    BY <1>3, <1>4, <1>5 DEF SerialInv, queueVars

LEMMA SerialEnds == ASSUME SerialInv, Respond \/ Term PROVE SerialInv'
  <1>1. CASE Respond
    <2>1. TypeInv /\ pc = "reply"
      BY <1>1 DEF Respond, SerialInv
    <2>2. /\ stream' = <<>> /\ inbox' = <<>> /\ peer' = "open" /\ fd_open' = FALSE /\ pc' = "wait"
          /\ answered' = IF result = "GOT_REQUEST" THEN answered + 1 ELSE answered
          /\ UNCHANGED <<edge, sockfd, parseVars, received, queueVars>>
      BY <1>1 DEF Respond, CurrentBecomes
    <2>3. answered = 0 /\ answered' \in {0, 1}
      BY <2>1, <2>2 DEF TypeInv, TypeOK, AnsweredIsOver
    <2>4. <<>> \in Seq(Bytes)
      BY EmptySeq
    <2>5. TypeOK'
      <3>1. answered' \in Nat
        BY <2>3
      <3>2. UNCHANGED <<recvbuf, checked_idx, linest_idx, lastline_stat, check_stat, result>>
        BY <2>2 DEF parseVars
      <3> QED
        BY <2>1, <2>2, <2>4, <3>1, <3>2 DEF TypeInv, TypeOK
    <2>6. (Once /\ AnsweredIsOver)'
      BY <2>2, <2>3 DEF Once, AnsweredIsOver
    <2> QED
      BY <2>2, <2>5, <2>6 DEF SerialInv, TypeInv, queueVars
  <1>2. CASE Term
    BY <1>2 DEF Term, SerialInv, queueVars
  <1> QED
    BY <1>1, <1>2

\* accept() that fails does what SIGTERM does: exit().
LEMMA FailsAsTerm == AcceptFails => Term
  BY DEF AcceptFails, Term, Ended

LEMMA SerialStep == ASSUME SerialInv, SerialNext PROVE SerialInv'
  BY QueueStep, CurrentStep, SerialAccepts, SerialServes, SerialEnds, FailsAsTerm
     DEF SerialNext, Server

-----------------------------------------------------------------------------
(* The serial server judges each client by its own bytes.                   *)

\* Every client that waits has sent, and will send, bytes in which no CR stands alone.
Sends(c) == c.inbox \o c.stream

SerialJudged ==
  /\ pc # "exited" => Judged
  /\ \A k \in 1 .. Len(waiting) : OnlyCrLf(Sends(waiting[k]))

\* Sending and leaving change nothing about what a client sends in all.
LEMMA SendsTheSame ==
  ASSUME NEW c \in Clients, NEW d \in AfterSending(c) \cup AfterLeaving(c)
  PROVE  /\ Sends(d) = Sends(c)
         /\ \A r \in Seq(Bytes) : (r \o d.inbox) \o d.stream = (r \o c.inbox) \o c.stream
  <1>1. c.stream \in Seq(Bytes) /\ c.inbox \in Seq(Bytes) /\ Len(c.stream) \in Nat
    BY LenProperties DEF Clients
  <1>2. d \in Clients
    BY ClientsSend
  <1>3. \A x, y, z \in Seq(Bytes) : (x \o y) \o z = x \o (y \o z)
    BY BytesAssociate
  <1>4. Sends(d) = Sends(c)
    <2>1. CASE d \in AfterSending(c)
      <3>1. PICK n \in 1 .. Len(c.stream) :
              d = [c EXCEPT !.inbox = @ \o SubSeq(c.stream, 1, n),
                            !.stream = SubSeq(c.stream, n + 1, Len(c.stream))]
        BY <2>1 DEF AfterSending
      <3>2. n \in 0 .. Len(c.stream)
        BY <1>1
      <3> DEFINE a == SubSeq(c.stream, 1, n)
                 b == SubSeq(c.stream, n + 1, Len(c.stream))
      <3>3. a \in Seq(Bytes) /\ b \in Seq(Bytes) /\ a \o b = c.stream
        BY <1>1, <3>2, Cut, CutJoins
      <3>4. d = [c EXCEPT !.inbox = c.inbox \o a, !.stream = b]
        BY <3>1
      <3> HIDE DEF a, b
      <3>5. d.inbox = c.inbox \o a /\ d.stream = b
        BY <3>4 DEF Clients
      <3>6. (c.inbox \o a) \o b = c.inbox \o (a \o b)
        BY <1>1, <1>3, <3>3
      <3>7. Sends(d) = (c.inbox \o a) \o b
        BY <3>5 DEF Sends
      <3>8. Sends(c) = c.inbox \o (a \o b)
        BY <3>3 DEF Sends
      <3> QED
        BY <3>6, <3>7, <3>8
    <2>2. CASE d \in AfterLeaving(c)
      <3>1. PICK p \in {"fin", "rst", "gone"} : d = [c EXCEPT !.peer = p]
        BY <2>2 DEF AfterLeaving
      <3> QED
        BY <3>1 DEF Clients, Sends
    <2> QED
      BY <2>1, <2>2
  <1>5. ASSUME NEW r \in Seq(Bytes)
        PROVE  (r \o d.inbox) \o d.stream = (r \o c.inbox) \o c.stream
    <2>1. d.inbox \in Seq(Bytes) /\ d.stream \in Seq(Bytes)
      BY <1>2 DEF Clients
    <2>2. (r \o d.inbox) \o d.stream = r \o Sends(d) /\ (r \o c.inbox) \o c.stream = r \o Sends(c)
      BY <1>1, <1>3, <2>1 DEF Sends
    <2> QED
      BY <1>4, <2>2
  <1> QED
    BY <1>4, <1>5

LEMMA QueueJudged ==
  ASSUME \A s \in Streams : OnlyCrLf(s), SerialInv, SerialJudged, Connect \/ WaitingClient
  PROVE  SerialJudged'
  <1>1. /\ UNCHANGED <<connVars, parseVars, pc, obsVars>>
        /\ waiting \in Seq(Clients) /\ Len(waiting) \in Nat
    BY LenProperties DEF Connect, WaitingClient, SerialInv
  <1>2. (pc # "exited" => Judged) => (pc' # "exited" => Judged')
    BY <1>1 DEF Judged, Undecided, connVars, clientVars, kernVars, parseVars, obsVars
  <1>3. \A k \in 1 .. Len(waiting) : waiting[k] \in Clients /\ OnlyCrLf(Sends(waiting[k]))
    BY <1>1, ElementOfSeq DEF SerialJudged
  <1>4. \A k \in 1 .. Len(waiting') : OnlyCrLf(Sends(waiting'[k]))
    <2>1. CASE Connect
      <3>1. PICK s \in Streams :
              waiting' = Append(waiting, [stream |-> s, inbox |-> <<>>, peer |-> "open"])
        BY <2>1 DEF Connect
      <3> DEFINE c == [stream |-> s, inbox |-> <<>>, peer |-> "open"]
      <3>2. c \in Clients
        BY ReqAssumption, EmptySeq DEF Clients
      <3>3. OnlyCrLf(Sends(c))
        <4>1. <<>> \o s = s
          BY ReqAssumption, ConcatEmptySeq
        <4> QED
          BY <4>1 DEF Sends
      <3>4. waiting' = Append(waiting, c)
        BY <3>1
      <3> HIDE DEF c
      <3>5. /\ Len(waiting') = Len(waiting) + 1 /\ waiting'[Len(waiting) + 1] = c
            /\ \A k \in 1 .. Len(waiting) : waiting'[k] = waiting[k]
        BY <1>1, <3>2, <3>4, AppendProperties
      <3>6. \A k \in 1 .. Len(waiting') : k \in 1 .. Len(waiting) \/ k = Len(waiting) + 1
        BY <1>1, <3>5
      <3> QED
        BY <1>3, <3>3, <3>5, <3>6
    <2>2. CASE WaitingClient
      <3>1. PICK j \in 1 .. Len(waiting) :
              \E c \in AfterSending(waiting[j]) \cup AfterLeaving(waiting[j]) :
                waiting' = [waiting EXCEPT ![j] = c]
        BY <2>2 DEF WaitingClient
      <3> PICK c \in AfterSending(waiting[j]) \cup AfterLeaving(waiting[j]) :
              waiting' = [waiting EXCEPT ![j] = c]
        BY <3>1
      <3>2. waiting[j] \in Clients /\ OnlyCrLf(Sends(waiting[j]))
        BY <1>3
      <3>3. c \in Clients /\ Sends(c) = Sends(waiting[j])
        BY <3>2, ClientsSend, SendsTheSame
      <3>4. /\ Len(waiting') = Len(waiting)
            /\ \A k \in 1 .. Len(waiting) : waiting'[k] = IF k = j THEN c ELSE waiting[k]
        BY <1>1, <3>3, ExceptSeq
      <3> QED
        BY <1>3, <3>2, <3>3, <3>4
    <2> QED
      BY <2>1, <2>2
  <1> QED
    BY <1>2, <1>4 DEF SerialJudged

\* The current client sends and leaves, and its parser is not there when it does.
LEMMA CurrentJudged ==
  ASSUME SerialInv, SerialJudged, CurrentSends \/ CurrentLeaves
  PROVE  SerialJudged'
  <1>1. fd_open /\ UNCHANGED <<parseVars, pc, obsVars, queueVars>>
    BY DEF CurrentSends, CurrentLeaves
  <1>2. JudgeInv /\ pc # "exited"
    BY <1>1 DEF SerialInv, SerialJudged, JudgeInv
  <1>3. PICK c \in AfterSending(Current) \cup AfterLeaving(Current) : CurrentBecomes(c)
    BY DEF CurrentSends, CurrentLeaves
  <1>4. received \in Seq(Bytes) /\ Current \in Clients
    BY <1>2, CurrentIsClient DEF JudgeInv, TypeInv, TypeOK
  <1>5. (received \o c.inbox) \o c.stream = (received \o Current.inbox) \o Current.stream
    BY <1>4, SendsTheSame
  <1>6. (received' \o inbox') \o stream' = (received \o inbox) \o stream
    BY <1>1, <1>3, <1>5 DEF CurrentBecomes, Current, obsVars
  <1>7. Judged'
    BY <1>1, <1>2, <1>6, QuietJudged DEF obsVars
  <1> QED
    BY <1>1, <1>7 DEF SerialJudged, queueVars

\* The parser set up for the next client has nothing of the one before.
LEMMA AcceptJudged ==
  ASSUME SerialInv, SerialJudged, Accept
  PROVE  SerialJudged'
  <1>1. /\ waiting # <<>> /\ CurrentBecomes(Head(waiting))
        /\ NewParser /\ pc' = "recv" /\ received' = <<>> /\ waiting' = Tail(waiting)
    BY DEF Accept
  <1>2. waiting \in Seq(Clients) /\ Len(waiting) \in Nat
    BY LenProperties DEF SerialInv
  <1>3. /\ Tail(waiting) \in Seq(Clients) /\ Len(Tail(waiting)) = Len(waiting) - 1
        /\ \A k \in 1 .. Len(Tail(waiting)) : Tail(waiting)[k] = waiting[k + 1]
    BY <1>1, <1>2, HeadTailProperties
  <1>4. Head(waiting) = waiting[1] /\ 1 \in 1 .. Len(waiting)
    <2>1. Len(waiting) \in Nat \ {0}
      BY <1>1, <1>2, EmptySeq
    <2> QED
      BY <1>2, <2>1
  <1>5. waiting[1] \in Clients /\ OnlyCrLf(Sends(waiting[1]))
    BY <1>2, <1>4, ElementOfSeq DEF SerialJudged
  <1>6. inbox' \in Seq(Bytes) /\ stream' \in Seq(Bytes) /\ OnlyCrLf(inbox' \o stream')
    BY <1>1, <1>4, <1>5 DEF CurrentBecomes, Clients, Sends
  <1>7. (received' \o inbox') \o stream' = inbox' \o stream'
    <2>1. <<>> \o inbox' = inbox'
      BY <1>6, ConcatEmptySeq
    <2> QED
      BY <1>1, <2>1
  <1>8. Len(received') = 0 /\ Len(recvbuf') = 0
    BY <1>1, EmptySeq DEF NewParser
  <1>9. Undecided'
    BY <1>1, <1>8, NothingReceived DEF NewParser, Undecided
  <1>10. Judged'
    BY <1>1, <1>6, <1>7, <1>8, <1>9 DEF NewParser, Judged
  <1>11. \A k \in 1 .. Len(waiting') : OnlyCrLf(Sends(waiting'[k]))
    <2>1. \A k \in 1 .. Len(Tail(waiting)) : k + 1 \in 1 .. Len(waiting)
      BY <1>2, <1>3
    <2> QED
      BY <1>1, <1>3, <2>1 DEF SerialJudged
  <1> QED
    BY <1>10, <1>11 DEF SerialJudged

LEMMA ServesJudged ==
  ASSUME SerialInv, SerialJudged, Receive \/ Scan \/ Respond \/ RespondSigPipe \/ Term
  PROVE  SerialJudged'
  <1>1. UNCHANGED queueVars
    BY DEF Receive, Scan, Respond, RespondSigPipe, Term
  <1>2. CASE Term
    BY <1>1, <1>2 DEF Term, SerialJudged, queueVars
  <1>3. CASE Receive \/ Scan \/ Respond \/ RespondSigPipe
    <2>1. JudgeInv
      BY <1>3 DEF SerialInv, SerialJudged, JudgeInv, Receive, Scan, Respond, RespondSigPipe,
                  RecvData, RecvZero, RecvError, RecvEnds, ScanLine, ScanMore, ScanBad, ReplySigPipe
    <2>2. CASE Receive \/ Scan \/ RespondSigPipe
      BY <2>1, <2>2, ParserJudged, OthersJudged, <1>1
         DEF Receive, Scan, RespondSigPipe, SerialJudged, queueVars
    <2>3. CASE Respond
      <3>1. /\ pc = "reply" /\ pc' = "wait" /\ stream' = <<>> /\ inbox' = <<>>
            /\ received' = received /\ UNCHANGED parseVars
        BY <2>3 DEF Respond, CurrentBecomes
      <3>2. received \in Seq(Bytes)
        BY <2>1 DEF JudgeInv, TypeInv, TypeOK
      <3>3. (received' \o inbox') \o stream' = received
        BY <3>1, <3>2, ConcatEmptySeq
      <3>4. OnlyCrLf((received' \o inbox') \o stream')
        BY <2>1, <3>3, ReceivedOnlyCrLf
      <3>5. UNCHANGED <<recvbuf, checked_idx, linest_idx, lastline_stat, check_stat, result, received>>
        BY <3>1 DEF parseVars
      <3>6. Undecided => Undecided'
        BY <3>1, <3>5 DEF Undecided
      <3>7. Judged'
        BY <2>1, <3>1, <3>4, <3>5, <3>6 DEF JudgeInv, Judged
      <3> QED
        BY <1>1, <3>7 DEF SerialJudged, queueVars
    <2> QED
      BY <1>3, <2>2, <2>3
  <1> QED
    BY <1>2, <1>3

-----------------------------------------------------------------------------
(* The theorems.                                                            *)

ServersInv == SerialInv /\ ChildInv

\* One of the two runs, and the other stays as it is.
LEMMA ServersInductive ==
  ASSUME ServersInv, [ServersNext]_allVars
  PROVE  /\ ServersInv'
         /\ [\A fd \in Fds : InChild!Answered(fd) => conn[fd].sent = InChild!Request]_InChild!vars
  <1>1. ASSUME UNCHANGED serialVars PROVE SerialInv'
    BY <1>1 DEF ServersInv, SerialInv, TypeInv, TypeOK, Once, AnsweredIsOver, serialVars, vars,
                clientVars, kernVars, parseVars, obsVars, queueVars
  <1>2. ASSUME UNCHANGED childVars PROVE ChildInv' /\ UNCHANGED InChild!vars
    <2>1. UNCHANGED <<T, queue, conn, ready, notified, pending, clients, events, accept_left,
                      stop, child_pc>>
      BY <1>2 DEF childVars
    <2>2. ChildInv'
      BY <2>1 DEF ServersInv, ChildInv, ChildShape, NothingKept, InChild!FreeNumberFreeObject,
                  InChild!OpenFds, InChild!Open, InChild!Ended
    <2> QED
      BY <2>1, <2>2 DEF InChild!vars, InChild!netVars, InChild!childVars
  <1>3. CASE SerialRuns(SerialNext)
    BY <1>2, <1>3, SerialStep DEF SerialRuns, ServersInv
  <1>4. CASE ChildRuns(InChild!Next)
    BY <1>1, <1>4, ChildStep DEF ChildRuns, ServersInv
  <1>5. CASE UNCHANGED allVars
    BY <1>1, <1>2, <1>5 DEF allVars, ServersInv
  <1> QED
    BY <1>3, <1>4, <1>5 DEF ServersNext

LEMMA ServersInvariant == ServersSpec => []ServersInv
  <1>1. ServersInit => ServersInv
    BY SerialStart, ChildInit DEF ServersInit, ServersInv
  <1>2. ServersInv /\ [ServersNext]_allVars => ServersInv'
    BY ServersInductive
  <1> QED
    BY <1>1, <1>2, PTL DEF ServersSpec

\* The serial server and the child keep to their types: the receive buffer of the
\* serial server never overflows, its queue keeps its length, and the child has no
\* event of a connection that is closed.
THEOREM ServersTypeCorrect == ServersSpec => []ServersTypeOK
  <1>1. SerialInv => SerialTypeOK
    BY DEF SerialInv, SerialTypeOK, TypeInv
  <1>2. ASSUME NEW s \in Sent PROVE s \in Seq(InChild!Pieces) /\ Len(s) <= 2
    <2>1. CASE s = <<>>
      BY <2>1
    <2>2. CASE s = <<"head">>
      BY <2>2 DEF InChild!Pieces
    <2>3. CASE s = <<"junk">>
      BY <2>3 DEF InChild!Pieces
    <2>4. CASE s = <<"head", "tail">>
      BY <2>4 DEF InChild!Pieces
    <2> QED
      BY <1>2, <2>1, <2>2, <2>3, <2>4 DEF Sent, InChild!Request
  <1>3. ChildInv => InChild!ChildTypeOK
    BY <1>2 DEF ChildInv, ChildShape, Connections, Objects, Sent, InChild!ChildTypeOK, InChild!Ended
  <1>4. ServersInv => ServersTypeOK
    BY <1>1, <1>3 DEF ServersInv, ServersTypeOK
  <1> QED
    BY <1>4, ServersInvariant, PTL

\* A number that accept() may return belongs to an object that is free, for any
\* number of clients that come, send, leave and reset as they like: RunChild()'s
\* guard against a busy object never turns a client away.  (ProcessPool.h:307-311.)
THEOREM FreeNumbersHaveFreeObjects == ServersSpec => []FreeNumberFreeObject
  <1>1. ServersInv => FreeNumberFreeObject
    BY DEF ServersInv, ChildInv, FreeNumberFreeObject
  <1> QED
    BY <1>1, ServersInvariant, PTL

\* Whoever is answered has sent a whole request of his own: what an earlier
\* connection with the same number sent or was told is never mixed into it.
\* (ReqStatMach.h:108-199; ProcessPool.h:307-324.)
THEOREM NobodyAnsweredForAnother == ServersSpec => AnswersItsOwn
  <1>1. /\ ServersInv /\ [ServersNext]_allVars
        => [\A fd \in Fds : InChild!Answered(fd) => conn[fd].sent = InChild!Request]_InChild!vars
    BY ServersInductive
  <1> QED
    BY <1>1, ServersInvariant, PTL DEF ServersSpec, AnswersItsOwn, InChild!AnswersItsOwn

LEMMA JudgedInvariant ==
  ASSUME \A s \in Streams : OnlyCrLf(s)
  PROVE  ServersSpec => []SerialJudged
  <1>1. ASSUME ServersInit PROVE SerialJudged
    <2>1. SerialInit /\ Len(waiting) = 0
      BY <1>1, EmptySeq DEF ServersInit, SerialInit
    <2>2. (received \o inbox) \o stream = <<>> /\ Len(received) = 0 /\ Len(recvbuf) = 0
      BY <2>1, EmptySeq, NothingReceived DEF SerialInit
    <2>3. Undecided
      BY <2>1, <2>2, NothingReceived DEF SerialInit, Undecided
    <2>4. Judged
      BY <2>1, <2>2, <2>3 DEF SerialInit, Judged, OnlyCrLf
    <2> QED
      BY <2>1, <2>4 DEF SerialJudged
  <1>2. ASSUME ServersInv, SerialJudged, [ServersNext]_allVars PROVE SerialJudged'
    <2>1. ASSUME UNCHANGED serialVars PROVE SerialJudged'
      BY <1>2, <2>1 DEF SerialJudged, Judged, Undecided, serialVars, vars,
                        clientVars, kernVars, parseVars, obsVars, queueVars
    <2>2. ASSUME SerialNext PROVE SerialJudged'
      BY <1>2, <2>2, QueueJudged, CurrentJudged, AcceptJudged, ServesJudged, FailsAsTerm
         DEF SerialNext, Server, ServersInv
    <2> QED
      BY <1>2, <2>1, <2>2 DEF ServersNext, SerialRuns, ChildRuns, allVars
  <1> QED
    BY <1>1, <1>2, ServersInvariant, PTL DEF ServersSpec

\* What becomes of a client depends on its own bytes: not on the pieces they come in
\* and not on the clients served before, for streams of every length without a lone
\* CR, for buffers of every size and any number of clients.
\* (handle_http_request.cc:164-172, 211-249, 300-399.)
THEOREM SerialJudgesOwnBytes ==
  ASSUME \A s \in Streams : OnlyCrLf(s)
  PROVE  ServersSpec => []OwnBytesDecide
  <1>1. ServersInv /\ SerialJudged => OwnBytesDecide
    <2>1. CASE pc = "exited"
      BY <2>1 DEF OwnBytesDecide, PiecesDontMatter, Parsed
    <2>2. CASE pc # "exited"
      BY <2>2, JudgedVerdict DEF ServersInv, SerialInv, SerialJudged, JudgeInv, OwnBytesDecide
    <2> QED
      BY <2>1, <2>2
  <1> QED
    BY <1>1, JudgedInvariant, ServersInvariant, PTL

-----------------------------------------------------------------------------
(* The child has a wake-up for every connection it has not looked at.       *)

WakeUpKept ==
  T = "ReqStatMach" =>
    \A fd \in Fds :
      clients[fd].sockfd = fd /\ InChild!Readable(fd) => fd \in ready \cup events

\* A whole request waits for the first event of its object.
Waits(fd) ==
  /\ T = "ReqStatMach" /\ child_pc \notin InChild!Ended
  /\ clients[fd].sockfd = fd /\ InChild!Unread(fd) = InChild!Request

\* It belongs to an open connection of which nothing has been read, and is all that
\* its client sends.
LEMMA WaitsWhole ==
  ASSUME ChildInv, NEW fd \in Fds, Waits(fd)
  PROVE  /\ InChild!Open(fd) /\ InChild!Readable(fd)
         /\ clients[fd].recvbuf = <<>> /\ clients[fd].result = "NO_REQUEST"
         /\ conn[fd].read = 0 /\ conn[fd].sent = InChild!Request
  <1>1. /\ conn[fd] \in Connections /\ fd # InChild!NoFd
        /\ InChild!Request # <<>> /\ InChild!Unread(fd) # <<>>
    BY ChildAssumption DEF ChildInv, ChildShape, InChild!NoFd, InChild!Request, Waits
  <1>2. InChild!Open(fd)
    BY <1>1 DEF ChildInv, InChild!FreeNumberFreeObject, Waits
  <1>3. /\ clients[fd].recvbuf = <<>> /\ clients[fd].result = "NO_REQUEST"
        /\ conn[fd].read = 0
    BY <1>2 DEF ChildInv, NothingKept, Waits
  <1>4. conn[fd].sent = InChild!Request
    <2>1. conn[fd].sent \in Sent
      BY <1>1 DEF Connections
    <2>2. ASSUME NEW s \in Sent PROVE SubSeq(s, 1, Len(s)) = s
      <3>1. /\ <<>> \in Seq(InChild!Pieces) /\ <<"head">> \in Seq(InChild!Pieces)
            /\ <<"junk">> \in Seq(InChild!Pieces) /\ <<"head", "tail">> \in Seq(InChild!Pieces)
        BY DEF InChild!Pieces
      <3>2. s \in Seq(InChild!Pieces)
        BY <3>1 DEF Sent, InChild!Request
      <3> QED
        BY <3>2, SubSeqFull
    <2>3. SubSeq(conn[fd].sent, 1, Len(conn[fd].sent)) = conn[fd].sent
      BY <2>1, <2>2
    <2> QED
      BY <1>3, <2>3 DEF InChild!Unread, Waits
  <1> QED
    BY <1>1, <1>2, <1>3, <1>4 DEF InChild!Readable

\* What a step does to a connection that it does not serve.
LEMMA OthersWait ==
  ASSUME ChildInv, WakeUpKept, InChild!Next, NEW fd \in Fds,
         ~ InChild!Process(fd), T' = "ReqStatMach", clients'[fd].sockfd = fd
  PROVE  /\ InChild!Readable(fd)' => fd \in ready' \cup events'
         /\ Waits(fd) => Waits(fd)' \/ child_pc' \in InChild!Ended
  <1>0. T = "ReqStatMach"
    BY DEF InChild!Next, InChild!Child, InChild!Environment, InChild!Wait, InChild!ReadSignal,
           InChild!ReadNotification, InChild!Accept, InChild!AcceptDone, InChild!Exit,
           InChild!Process, InChild!TestProcess
  <1>1. ASSUME UNCHANGED <<conn, clients, ready>>, events' \cap Fds = events \cap Fds
        PROVE  /\ InChild!Readable(fd)' => fd \in ready' \cup events'
               /\ Waits(fd) => Waits(fd)' \/ child_pc' \in InChild!Ended
    BY <1>0, <1>1 DEF WakeUpKept, Waits, InChild!Readable, InChild!Unread, InChild!Open
  <1>2. \A g \in Fds : g # InChild!Ipc /\ g # InChild!Sig
    BY ChildAssumption DEF InChild!Ipc, InChild!Sig
  <1>3. CASE InChild!Wait
    <2>1. /\ UNCHANGED <<conn, clients>> /\ events = {}
          /\ InChild!Readable(fd) /\ fd \in ready => fd \in events'
      BY <1>3 DEF InChild!Wait
    <2> QED
      BY <1>0, <2>1 DEF WakeUpKept, Waits, InChild!Readable, InChild!Unread, InChild!Open
  <1>4. CASE InChild!ReadSignal \/ InChild!ReadNotification \/ InChild!AcceptDone
    BY <1>1, <1>2, <1>4 DEF InChild!ReadSignal, InChild!ReadNotification, InChild!AcceptDone,
                            InChild!netVars
  <1>5. CASE InChild!Exit
    <2>1. child_pc' \in InChild!Ended /\ conn'[fd].state = "closed"
      BY <1>5, ConnectionTypes DEF InChild!Exit, InChild!Dies, InChild!Ended
    <2> QED
      BY <2>1 DEF InChild!Readable, InChild!Open
  <1>6. CASE InChild!Accept
    <2> DEFINE n == InChild!LowestFree
    <2>1. n \in Fds /\ ~ InChild!Open(n) /\ clients[n].sockfd = InChild!NoFd
      BY <1>6, LowestFreeIsFree
         DEF InChild!Accept, InChild!AcceptFails, InChild!Ended, ChildInv, InChild!FreeNumberFreeObject
    <2>2. /\ conn' = [conn EXCEPT ![n] = InChild!NewConn]
          /\ clients' = [clients EXCEPT ![n] = InChild!ObjectFor(clients[n], n)]
          /\ UNCHANGED <<T, ready, events, child_pc>>
      BY <1>6, <2>1 DEF InChild!Accept
    <2>3. conn \in [Fds -> Connections] /\ clients \in [Fds -> Objects] /\ fd # InChild!NoFd
      BY ChildAssumption DEF ChildInv, ChildShape, InChild!NoFd
    <2> HIDE DEF n
    <2>4. CASE fd = n
      <3>1. conn'[fd] = InChild!NewConn
        BY <2>2, <2>3, <2>4
      <3>2. InChild!NewConn.sent = <<>>
        BY DEF InChild!NewConn, InChild!NoConn
      <3>3. ~ InChild!Readable(fd)'
        BY <3>1, <3>2, ConnectionTypes DEF InChild!Readable, InChild!Unread
      <3>4. ~ Waits(fd)
        BY <2>1, <2>3, <2>4 DEF Waits
      <3> QED
        BY <3>3, <3>4
    <2>5. CASE fd # n
      <3>1. conn'[fd] = conn[fd] /\ clients'[fd] = clients[fd]
        BY <2>2, <2>3, <2>5
      <3> QED
        BY <1>0, <2>2, <3>1 DEF WakeUpKept, Waits, InChild!Readable, InChild!Unread, InChild!Open
    <2> QED
      BY <2>4, <2>5
  <1>7. ASSUME NEW g \in Fds, InChild!Process(g)
        PROVE  /\ InChild!Readable(fd)' => fd \in ready' \cup events'
               /\ Waits(fd) => Waits(fd)' \/ child_pc' \in InChild!Ended
    <2>1. g # fd
      BY <1>7
    <2>2. CASE InChild!Dies("killed")
      <3>1. child_pc' \in InChild!Ended /\ conn'[fd].state = "closed"
        BY <2>2, ConnectionTypes DEF InChild!Dies, InChild!Ended
      <3> QED
        BY <3>1 DEF InChild!Readable, InChild!Open
    <2>3. CASE ~ InChild!Dies("killed")
      <3>1. /\ clients'[fd] = clients[fd] /\ conn'[fd] = conn[fd]
            /\ events' = events \ {g} /\ ready \ {g} \subseteq ready' /\ child_pc' = child_pc
        BY <1>7, <2>1, <2>3 DEF InChild!Process, ChildInv, ChildShape
      <3> QED
        BY <1>0, <2>1, <3>1 DEF WakeUpKept, Waits, InChild!Readable, InChild!Unread, InChild!Open
    <2> QED
      BY <2>2, <2>3
  <1>8. ~ \E g \in Fds : InChild!TestProcess(g)
    BY <1>0 DEF InChild!TestProcess
  <1>9. CASE InChild!Environment
    <2>1. UNCHANGED <<T, clients, events, child_pc>>
      BY <1>9 DEF InChild!Environment, InChild!childVars
    <2>2. CASE InChild!Connect \/ InChild!Taken \/ InChild!Notify \/ InChild!Signal
      BY <1>1, <2>1, <2>2 DEF InChild!Connect, InChild!Taken, InChild!Notify, InChild!Signal
    <2>3. ASSUME NEW g \in Fds, NEW c, InChild!Arrives(g, c),
                 g = fd => (c.sent = conn[fd].sent /\ c.read = conn[fd].read) \/ ~ Waits(fd)
          PROVE  /\ InChild!Readable(fd)' => fd \in ready' \cup events'
                 /\ Waits(fd) => Waits(fd)' \/ child_pc' \in InChild!Ended
      <3>1. /\ ready' = ready \cup {g}
            /\ conn'[fd] = IF g = fd THEN c ELSE conn[fd]
        BY <2>3 DEF InChild!Arrives, ChildInv, ChildShape
      <3>2. CASE g # fd
        BY <1>0, <2>1, <3>1, <3>2 DEF WakeUpKept, Waits, InChild!Readable, InChild!Unread, InChild!Open
      <3>3. CASE g = fd
        <4>1. Waits(fd) => conn'[fd].sent = conn[fd].sent /\ conn'[fd].read = conn[fd].read
          BY <2>3, <3>1, <3>3
        <4>2. Waits(fd) => Waits(fd)'
          BY <1>0, <2>1, <4>1 DEF Waits, InChild!Unread
        <4> QED
          BY <3>1, <3>3, <4>2
      <3> QED
        BY <3>2, <3>3
    <2>4. ASSUME NEW g \in Fds, InChild!Send(g)
          PROVE  /\ InChild!Readable(fd)' => fd \in ready' \cup events'
                 /\ Waits(fd) => Waits(fd)' \/ child_pc' \in InChild!Ended
      <3>1. PICK s \in InChild!MaySend(conn[g].sent) :
              InChild!Arrives(g, [conn[g] EXCEPT !.sent = s])
        BY <2>4 DEF InChild!Send
      <3>2. g = fd => ~ Waits(fd)
        <4>1. InChild!MaySend(InChild!Request) = {}
          BY DEF InChild!MaySend, InChild!Request
        <4> QED
          BY <3>1, <4>1, WaitsWhole
      <3> QED
        BY <2>3, <3>1, <3>2
    <2>5. ASSUME NEW g \in Fds, InChild!Leave(g)
          PROVE  /\ InChild!Readable(fd)' => fd \in ready' \cup events'
                 /\ Waits(fd) => Waits(fd)' \/ child_pc' \in InChild!Ended
      <3>1. PICK how \in Endings : InChild!Arrives(g, [conn[g] EXCEPT !.state = how])
        BY <2>5 DEF InChild!Leave
      <3> DEFINE c == [conn[g] EXCEPT !.state = how]
      <3>2. c.sent = conn[g].sent /\ c.read = conn[g].read
        BY DEF ChildInv, ChildShape, Connections
      <3>3. InChild!Arrives(g, c)
        BY <3>1
      <3> HIDE DEF c
      <3> QED
        BY <2>3, <3>2, <3>3
    <2> QED
      BY <1>9, <2>2, <2>4, <2>5 DEF InChild!Environment
  <1> QED
    BY <1>3, <1>4, <1>5, <1>6, <1>7, <1>8, <1>9 DEF InChild!Next, InChild!Child

\* The object's event reads the request whole, and answers it.
LEMMA WaitsServed ==
  ASSUME ChildInv, NEW fd \in Fds, InChild!Process(fd)
  PROVE  /\ Waits(fd) => clients'[fd].result = "GOT_REQUEST" \/ child_pc' \in InChild!Ended
         /\ clients'[fd].sockfd = InChild!NoFd \/ conn'[fd].state = "closed"
  <1> DEFINE c == InChild!Received(fd)
  <1>1. CASE InChild!SigPipe(fd, c)
    BY <1>1, ConnectionTypes DEF InChild!Process, InChild!Dies, InChild!Ended
  <1>2. CASE ~ InChild!SigPipe(fd, c)
    <2>1. clients' = [clients EXCEPT ![fd] = InChild!Forget(c)]
      BY <1>2 DEF InChild!Process
    <2>2. T = "ReqStatMach" /\ InChild!Open(fd)
      BY ChildAssumption DEF InChild!Process, InChild!Handles, ChildInv, ChildShape,
                             InChild!OpenFds, InChild!Ipc, InChild!Sig
    <2>3. c \in Objects
      BY <2>2, ReceivedIsSent
    <2>4. clients'[fd].sockfd = InChild!NoFd /\ clients'[fd].result = c.result
      <3> HIDE DEF c
      <3> QED
        BY <2>1, <2>3 DEF InChild!Forget, ChildInv, ChildShape, Objects
    <2>5. ASSUME Waits(fd) PROVE c.result = "GOT_REQUEST"
      <3>1. /\ clients[fd].recvbuf = <<>> /\ clients[fd].result = "NO_REQUEST"
            /\ clients[fd].sockfd = fd /\ fd # InChild!NoFd /\ clients[fd] \in Objects
        BY <2>5, WaitsWhole, ChildAssumption DEF ChildInv, ChildShape, InChild!NoFd, Waits
      <3>2. <<>> \o InChild!Request = InChild!Request
        BY ConcatEmptySeq DEF InChild!Request
      <3>3. clients[fd].recvbuf \o InChild!Unread(fd) = InChild!Request
        BY <2>5, <3>1, <3>2 DEF Waits
      <3>4. c = [clients[fd] EXCEPT !.recvbuf = InChild!Request,
                                    !.result = InChild!ResultOf(fd, InChild!Request)]
        BY <3>1, <3>3 DEF InChild!Received
      <3>5. InChild!ResultOf(fd, InChild!Request) = "GOT_REQUEST"
        <4>1. InChild!Verdict(InChild!Request) = "GOT_REQUEST"
          BY DEF InChild!Verdict, InChild!Request
        <4> QED
          BY <4>1, Zenon DEF InChild!ResultOf
      <3> HIDE DEF c
      <3> QED
        BY <3>1, <3>4, <3>5 DEF Objects
    <2> HIDE DEF c
    <2> QED
      BY <2>4, <2>5
  <1> QED
    BY <1>1, <1>2

\* Both together, for every connection.
LEMMA WakesStep ==
  ASSUME ChildInv, WakeUpKept, InChild!Next
  PROVE  /\ WakeUpKept'
         /\ \A fd \in Fds :
              Waits(fd) => \/ Waits(fd)'
                           \/ clients'[fd].result = "GOT_REQUEST"
                           \/ child_pc' \in InChild!Ended
  <1>1. \A fd \in Fds : fd # InChild!NoFd
    BY ChildAssumption DEF InChild!NoFd
  <1>2. ASSUME T' = "ReqStatMach", NEW fd \in Fds, clients'[fd].sockfd = fd, InChild!Readable(fd)'
        PROVE  fd \in ready' \cup events'
    <2>1. CASE InChild!Process(fd)
      <3>1. conn'[fd].state = "closed"
        BY <1>1, <1>2, <2>1, WaitsServed
      <3> QED
        BY <1>2, <3>1 DEF InChild!Readable, InChild!Open
    <2>2. CASE ~ InChild!Process(fd)
      BY <1>2, <2>2, OthersWait
    <2> QED
      BY <2>1, <2>2
  <1>3. ASSUME NEW fd \in Fds, Waits(fd)
        PROVE  \/ Waits(fd)' \/ clients'[fd].result = "GOT_REQUEST" \/ child_pc' \in InChild!Ended
    <2>1. CASE InChild!Process(fd)
      BY <1>3, <2>1, WaitsServed
    <2>2. CASE ~ InChild!Process(fd)
      <3>1. T' = T /\ T = "ReqStatMach"
        BY <1>3 DEF Waits, InChild!Next, InChild!Child, InChild!Environment, InChild!childVars,
                    InChild!Wait, InChild!ReadSignal, InChild!ReadNotification, InChild!Accept,
                    InChild!AcceptDone, InChild!Exit, InChild!Process, InChild!TestProcess
      <3>2. clients'[fd].sockfd = fd
        <4>1. \/ clients'[fd] = clients[fd]
              \/ clients[fd].sockfd = InChild!NoFd
          <5>1. CASE InChild!Accept
            BY <5>1 DEF InChild!Accept, ChildInv, ChildShape
          <5>2. ASSUME NEW g \in Fds, InChild!Process(g) PROVE clients'[fd] = clients[fd]
            BY <2>2, <5>2 DEF InChild!Process, ChildInv, ChildShape
          <5>3. CASE ~ InChild!Accept /\ ~ \E g \in Fds : InChild!Process(g)
            BY <5>3 DEF InChild!Next, InChild!Child, InChild!Environment, InChild!childVars,
                        InChild!Wait, InChild!ReadSignal, InChild!ReadNotification,
                        InChild!AcceptDone, InChild!Exit, InChild!TestProcess
          <5> QED
            BY <5>1, <5>2, <5>3
        <4> QED
          BY <1>1, <1>3, <4>1 DEF Waits
      <3> QED
        BY <1>3, <2>2, <3>1, <3>2, OthersWait
    <2> QED
      BY <2>1, <2>2
  <1> QED
    BY <1>2, <1>3 DEF WakeUpKept

LEMMA WakesInvariant == ServersSpec => []WakeUpKept
  <1>1. ServersInit => WakeUpKept
    BY ConnectionTypes DEF ServersInit, InChild!Init, WakeUpKept, InChild!Readable, InChild!Open
  <1>2. ServersInv /\ WakeUpKept /\ [ServersNext]_allVars => WakeUpKept'
    <2> SUFFICES ASSUME ServersInv, WakeUpKept, [ServersNext]_allVars PROVE WakeUpKept'
      OBVIOUS
    <2>1. CASE ChildRuns(InChild!Next)
      BY <2>1, WakesStep DEF ChildRuns, ServersInv
    <2>2. CASE ~ ChildRuns(InChild!Next)
      <3>1. UNCHANGED childVars
        BY <2>2 DEF ServersNext, SerialRuns, allVars
      <3> QED
        BY <3>1 DEF childVars, WakeUpKept, InChild!Readable, InChild!Unread, InChild!Open
    <2> QED
      BY <2>1, <2>2
  <1> QED
    BY <1>1, <1>2, ServersInvariant, PTL DEF ServersSpec

\* The safety half of WholeAnswered, for any number of clients and descriptors: the child
\* always has an event, or an entry of the ready list, for the connection of a whole
\* request that its object has not looked at, and nothing becomes of the request but
\* the answer, or the death of the child.
\* (ProcessPool.h:279-336, 365-367; ReqStatMach.h:108-199.)  The rest is fairness.
RequestKept ==
  /\ [](\A fd \in Fds : Waits(fd) => fd \in ready \cup events)
  /\ [][\A fd \in Fds :
          Waits(fd) => \/ Waits(fd)'
                       \/ clients'[fd].result = "GOT_REQUEST"
                       \/ child_pc' \in InChild!Ended]_allVars

THEOREM NoRequestForgotten == ServersSpec => RequestKept
  <1> DEFINE Step == \A fd \in Fds :
                       Waits(fd) => \/ Waits(fd)'
                                    \/ clients'[fd].result = "GOT_REQUEST"
                                    \/ child_pc' \in InChild!Ended
             Woken == \A fd \in Fds : Waits(fd) => fd \in ready \cup events
  <1>1. ServersInv /\ WakeUpKept => Woken
    <2> SUFFICES ASSUME ServersInv, WakeUpKept, NEW fd \in Fds, Waits(fd)
                 PROVE  fd \in ready \cup events
      OBVIOUS
    <2>1. InChild!Readable(fd) /\ T = "ReqStatMach" /\ clients[fd].sockfd = fd
      BY WaitsWhole DEF ServersInv, Waits
    <2> QED
      BY <2>1 DEF WakeUpKept
  <1>2. ServersInv /\ WakeUpKept /\ [ServersNext]_allVars => [Step]_allVars
    <2> SUFFICES ASSUME ServersInv, WakeUpKept, ServersNext PROVE Step \/ UNCHANGED allVars
      OBVIOUS
    <2>1. CASE ChildRuns(InChild!Next)
      BY <2>1, WakesStep DEF ChildRuns, ServersInv
    <2>2. CASE ~ ChildRuns(InChild!Next)
      <3>1. UNCHANGED childVars
        BY <2>2 DEF ServersNext, SerialRuns
      <3> QED
        BY <3>1 DEF childVars, Waits, InChild!Unread
    <2> QED
      BY <2>1, <2>2
  <1> QED
    BY <1>1, <1>2, ServersInvariant, WakesInvariant, PTL DEF ServersSpec, RequestKept

-----------------------------------------------------------------------------
(* The serial server loses no request.                                      *)

\* Request s is on its way to the server, which is reading it.
Sending(s) ==
  /\ fd_open /\ peer = "open" /\ pc \in {"recv", "scan"} /\ result = "NO_REQUEST"
  /\ Len(s) <= BufSize /\ Verdict(s) = "GOT_REQUEST"
  /\ BeginsWith((received \o inbox) \o stream, s)

\* It stays so until the request is about to be answered, unless the client leaves.
LEMMA SendingStep ==
  ASSUME SerialInv, SerialJudged, SerialInv', SerialJudged', SerialNext,
         NEW s \in Seq(Bytes), Sending(s)
  PROVE  Sending(s)' \/ Replying' \/ peer' # "open" \/ pc' = "exited"
  <1> DEFINE w == (received \o inbox) \o stream
  <1>1. /\ JudgeInv /\ sockfd = "fd"
        /\ received \in Seq(Bytes) /\ inbox \in Seq(Bytes) /\ stream \in Seq(Bytes)
    BY DEF SerialInv, SerialJudged, JudgeInv, TypeInv, TypeOK, Sending
  <1>2. pc' # "exited" => JudgeInv'
    BY DEF SerialInv, SerialJudged, JudgeInv
  <1>3. w \in Seq(Bytes) /\ BeginsWith(w, received)
    <2>1. received \o inbox \in Seq(Bytes) /\ BeginsWith(received \o inbox, received)
      BY <1>1, BeginsType
    <2> QED
      BY <1>1, <2>1, BeginsType, BeginsLonger
  <1>4. BeginsWith(w, s) /\ Verdict(s) = "GOT_REQUEST" /\ Len(s) <= BufSize
    BY DEF Sending
  <1>5. ASSUME w' = w, UNCHANGED <<fd_open, peer>>, pc' \in {"recv", "scan"}, result' = "NO_REQUEST"
        PROVE  Sending(s)'
    <2>1. BeginsWith((received' \o inbox') \o stream', s)
      BY <1>4, <1>5
    <2> QED
      BY <1>5, <2>1 DEF Sending
  <1> HIDE DEF w
  <1>6. CASE Connect \/ WaitingClient
    <2>1. UNCHANGED <<stream, peer, inbox, fd_open, pc, result, received>>
      BY <1>6 DEF Connect, WaitingClient, connVars, clientVars, kernVars, parseVars, obsVars
    <2> QED
      BY <1>5, <2>1 DEF Sending, w
  <1>7. CASE CurrentSends
    <2>1. /\ UNCHANGED <<fd_open, pc, result, received>>
          /\ \E c \in AfterSending(Current) : CurrentBecomes(c)
      BY <1>7 DEF CurrentSends, parseVars, obsVars
    <2>2. PICK c \in AfterSending(Current) : CurrentBecomes(c)
      BY <2>1
    <2>3. Current \in Clients
      BY <1>1, CurrentIsClient DEF JudgeInv, TypeInv
    <2>4. (received \o c.inbox) \o c.stream = (received \o Current.inbox) \o Current.stream
      BY <1>1, <2>3, SendsTheSame
    <2>5. c.peer = Current.peer
      BY <2>3 DEF AfterSending, Clients
    <2>6. w' = w /\ peer' = peer
      BY <2>1, <2>2, <2>4, <2>5 DEF CurrentBecomes, Current, w
    <2> QED
      BY <1>5, <2>1, <2>6 DEF Sending
  <1>8. CASE CurrentLeaves
    <2>1. PICK c \in AfterLeaving(Current) : CurrentBecomes(c)
      BY <1>8 DEF CurrentLeaves
    <2>2. PICK p \in {"fin", "rst", "gone"} : c = [Current EXCEPT !.peer = p]
      BY <2>1 DEF AfterLeaving
    <2>3. c.peer # "open"
      BY <2>2 DEF Current
    <2> QED
      BY <2>1, <2>3 DEF CurrentBecomes
  <1>9. CASE Receive
    <2>1. CASE RecvData
      <3>1. received' \o inbox' = received \o inbox
        BY <1>1, <2>1, RecvDataBegins
      <3>2. w' = w
        BY <2>1, <3>1 DEF RecvData, clientVars, w
      <3> QED
        BY <1>5, <2>1, <3>2 DEF RecvData, clientVars, Sending
    <2>2. CASE RecvZero
      <3>1. pc = "recv" /\ Room = 0
        BY <2>2 DEF RecvZero, RecvEnds, Sending
      <3>2. BeginsWith(received, s)
        BY <1>1, <1>3, <1>4, <3>1, FullHolds
      <3> QED
        BY <1>1, <1>4, <3>1, <3>2, AsksForMore
    <2>3. CASE RecvError
      BY <1>1, <2>3 DEF RecvError, Sending
    <2> QED
      BY <1>9, <2>1, <2>2, <2>3 DEF Receive
  <1>10. CASE Scan
    <2>1. ScanLine \/ ScanMore \/ ScanBad
      BY <1>10 DEF Scan
    <2>2. /\ UNCHANGED <<stream, peer, inbox, received>> /\ pc' # "exited"
          /\ pc' \in {"recv", "scan"} => fd_open' = fd_open
      BY <2>1 DEF ScanLine, ScanMore, ScanBad, Crashes, clientVars, kernVars, obsVars
    <2>3. (pc' \in {"recv", "scan"} /\ result' = "NO_REQUEST") \/ Replying'
      BY <1>1, <1>2, <1>3, <1>4, <2>1, <2>2, ScanRequest
    <2>4. w' = w
      BY <2>2 DEF w
    <2> QED
      BY <1>5, <2>2, <2>3, <2>4
  <1>11. CASE Accept \/ Respond \/ RespondSigPipe
    BY <1>11 DEF Accept, Respond, RespondSigPipe, ReplySigPipe, Sending
  <1>12. CASE Term \/ AcceptFails
    BY <1>12, FailsAsTerm DEF Term
  <1> QED
    BY <1>6, <1>7, <1>8, <1>9, <1>10, <1>11, <1>12 DEF SerialNext, Server

\* The safety half of WholeRequestAnswered, for streams without a lone CR, buffers of
\* every size and any number of clients: the server reads on until it has the request
\* that its client sends, whatever follows it, unless the client leaves; and then it
\* answers.  (handle_http_request.cc:144-199, 211-249, 300-399.)  That the client sends
\* on, and the server runs, is fairness.
RequestReadOut ==
  [][/\ \A s \in Seq(Bytes) :
          Sending(s) => Sending(s)' \/ Replying' \/ peer' # "open" \/ pc' = "exited"
     /\ Replying => Replying' \/ answered' = 1 \/ pc' \in Ended]_allVars

THEOREM SerialReadsOut ==
  ASSUME \A s \in Streams : OnlyCrLf(s)
  PROVE  ServersSpec => RequestReadOut
  <1> DEFINE Step == /\ \A s \in Seq(Bytes) :
                          Sending(s) => Sending(s)' \/ Replying' \/ peer' # "open" \/ pc' = "exited"
                     /\ Replying => Replying' \/ answered' = 1 \/ pc' \in Ended
  <1>1. ASSUME ServersInv, ServersInv', SerialJudged, SerialJudged', ServersNext
        PROVE  Step
    <2>1. CASE SerialRuns(SerialNext)
      <3>1. SerialNext
        BY <2>1 DEF SerialRuns
      <3>2. \A s \in Seq(Bytes) :
              Sending(s) => Sending(s)' \/ Replying' \/ peer' # "open" \/ pc' = "exited"
        BY <1>1, <3>1, SendingStep DEF ServersInv
      <3>3. ASSUME Replying PROVE Replying' \/ answered' = 1 \/ pc' \in Ended
        <4>1. answered = 0
          BY <1>1, <3>3 DEF ServersInv, SerialInv, TypeInv, TypeOK, AnsweredIsOver, Replying
        <4>2. CASE Respond
          BY <3>3, <4>1, <4>2 DEF Respond, Replying
        <4>3. CASE Term \/ AcceptFails \/ RespondSigPipe
          BY <4>3, FailsAsTerm DEF Term, RespondSigPipe, ReplySigPipe, Crashes, Ended
        <4>4. CASE Connect \/ WaitingClient \/ CurrentSends \/ CurrentLeaves
          BY <3>3, <4>4 DEF Connect, WaitingClient, CurrentSends, CurrentLeaves, parseVars, Replying
        <4>5. CASE Accept \/ Receive \/ Scan
          BY <3>3, <4>5 DEF Accept, Receive, Scan, RecvData, RecvZero, RecvError, RecvEnds,
                            ScanLine, ScanMore, ScanBad, Replying
        <4> QED
          BY <3>1, <4>2, <4>3, <4>4, <4>5 DEF SerialNext, Server
      <3> QED
        BY <3>2, <3>3
    <2>2. CASE ~ SerialRuns(SerialNext)
      <3>1. UNCHANGED <<stream, peer, inbox, fd_open, pc, result, received>>
        BY <1>1, <2>2 DEF ServersNext, ChildRuns, serialVars, vars, clientVars, kernVars, parseVars, obsVars
      <3> QED
        BY <3>1 DEF Sending, Replying
    <2> QED
      BY <2>1, <2>2
  <1>2. /\ ServersInv /\ ServersInv' /\ SerialJudged /\ SerialJudged' /\ [ServersNext]_allVars
        => [Step]_allVars
    BY <1>1
  <1> QED
    BY <1>2, ServersInvariant, JudgedInvariant, PTL DEF ServersSpec, RequestReadOut

=============================================================================

---------------------------- MODULE BlockingServer ----------------------------
(***************************************************************************)
(* The serial server of src/examples/framework-intro/handle_http_request.cc *)
(* (and, the same file, src/examples/multitasking/test_block_http_handler.cc): *)
(* one process accepts a connection, receives with a blocking recv() until   *)
(* the request is parsed, answers, closes, and accepts the next.            *)
(*                                                                         *)
(* The parser is, function by function, the one of ReqStatMach, whose        *)
(* actions are used here with the descriptor always known and no epoll.      *)
(* What is this module's own is the loop around it: the object that is       *)
(* built anew for every connection, the blocking receive, and the clients    *)
(* that send, leave and wait while another one is served.                   *)
(***************************************************************************)
EXTENDS ReqStatMach

CONSTANTS
  Backlog,     \* how many connections listen() lets wait
  MaxClients   \* bound: how many clients ever connect

\* Of the connection being served and its object, everything is as in
\* ReqStatMach; pc = "wait" is the blocking accept(), and "exited" the end by exit().
VARIABLES
  waiting,     \* connections not yet accepted, in the order accept() returns them
  arrived      \* how many clients have connected

\* There is no epoll, and the object never forgets its descriptor.
connVars   == <<clientVars, kernVars, sockfd>>
queueVars  == <<waiting, arrived>>
serialVars == <<vars, queueVars>>

ASSUME SerialAssumption ==
  /\ Backlog \in Nat \ {0}
  /\ MaxClients \in Nat

Clients == [stream : Seq(Bytes), inbox : Seq(Bytes),
            peer : {"open", "fin", "rst", "gone"}]

Ended == {"crashed", "exited"}

SerialTypeOK ==
  /\ TypeOK \/ pc = "exited"
  /\ ~edge /\ sockfd = "fd"
  /\ waiting \in Seq(Clients)
  /\ Len(waiting) <= Backlog
  /\ arrived \in 0 .. MaxClients

\* The server's main() up to its first accept().
SerialInit ==
  /\ stream = <<>> /\ peer = "open" /\ inbox = <<>> /\ fd_open = FALSE
  /\ edge = FALSE /\ sockfd = "fd"
  /\ recvbuf = <<>> /\ checked_idx = 0 /\ linest_idx = 0
  /\ lastline_stat = "OK" /\ check_stat = "REQLINE" /\ result = "NO_REQUEST"
  /\ pc = "wait"
  /\ received = <<>> /\ answered = 0
  /\ waiting = <<>> /\ arrived = 0

-----------------------------------------------------------------------------
(* Clients: they connect, send in any pieces, and leave, served or waiting. *)

Current == [stream |-> stream, inbox |-> inbox, peer |-> peer]

CurrentBecomes(c) == stream' = c.stream /\ inbox' = c.inbox /\ peer' = c.peer

AfterSending(c) ==
  {[c EXCEPT !.inbox = @ \o SubSeq(c.stream, 1, n),
             !.stream = SubSeq(c.stream, n + 1, Len(c.stream))] :
     n \in IF c.peer = "open" THEN 1 .. Len(c.stream) ELSE {}}

AfterLeaving(c) ==
  {[c EXCEPT !.peer = p] : p \in CASE c.peer = "open" -> {"fin", "rst"}
                                   [] c.peer = "fin"  -> {"gone"}
                                   [] OTHER           -> {}}

Connect ==
  /\ pc \notin Ended
  /\ arrived < MaxClients
  /\ Len(waiting) < Backlog
  /\ arrived' = arrived + 1
  /\ \E s \in Streams :
       waiting' = Append(waiting, [stream |-> s, inbox |-> <<>>, peer |-> "open"])
  /\ UNCHANGED <<connVars, parseVars, pc, obsVars>>

WaitingClient ==
  /\ pc \notin Ended
  /\ \E k \in 1 .. Len(waiting) :
       \E c \in AfterSending(waiting[k]) \cup AfterLeaving(waiting[k]) :
         waiting' = [waiting EXCEPT ![k] = c]
  /\ UNCHANGED <<connVars, parseVars, pc, obsVars, arrived>>

CurrentSends ==
  /\ fd_open
  /\ \E c \in AfterSending(Current) : CurrentBecomes(c)
  /\ UNCHANGED <<fd_open, edge, sockfd, parseVars, pc, obsVars, queueVars>>

CurrentLeaves ==
  /\ fd_open
  /\ \E c \in AfterLeaving(Current) : CurrentBecomes(c)
  /\ UNCHANGED <<fd_open, edge, sockfd, parseVars, pc, obsVars, queueVars>>

-----------------------------------------------------------------------------
(* The server.                                                              *)

BugParserKeepsIdx ==
  /\ recvbuf' = <<>> /\ linest_idx' = 0
  /\ lastline_stat' = "OK" /\ check_stat' = "REQLINE" /\ result' = "NO_REQUEST"
  /\ UNCHANGED checked_idx

BugParserKeepsStat ==
  /\ recvbuf' = <<>> /\ checked_idx' = 0 /\ linest_idx' = 0
  /\ lastline_stat' = "OK" /\ result' = "NO_REQUEST"
  /\ UNCHANGED check_stat

\* A req_parser for the new connection.
NewParser ==
  /\ recvbuf' = <<>> /\ checked_idx' = 0 /\ linest_idx' = 0
  /\ lastline_stat' = "OK" /\ check_stat' = "REQLINE" /\ result' = "NO_REQUEST"

Accept ==
  /\ pc = "wait"
  /\ waiting # <<>>
  /\ CurrentBecomes(Head(waiting))
  /\ fd_open' = TRUE
  /\ NewParser
  /\ pc' = "recv"
  /\ received' = <<>> /\ answered' = 0
  /\ waiting' = Tail(waiting)
  /\ UNCHANGED <<edge, sockfd, arrived>>

\* accept() may report that the client has reset the connection meanwhile, and
\* PrintErrnoAndExist() ends the server.
AcceptFails ==
  /\ pc = "wait"
  /\ waiting # <<>>
  /\ Head(waiting).peer = "rst"
  /\ pc' = "exited"
  /\ fd_open' = FALSE
  /\ UNCHANGED <<stream, peer, inbox, edge, sockfd, parseVars, obsVars, queueVars>>

BugReceive ==
  /\ RecvData \/ RecvError
  /\ UNCHANGED queueVars

\* The blocking recv(): without data it returns only when the client has left.
Receive ==
  /\ RecvData \/ RecvZero \/ RecvError
  /\ UNCHANGED queueVars

BugScan ==
  /\ ScanLine \/ BugScanMore \/ ScanBad
  /\ UNCHANGED queueVars

\* ParseBatch(), and while there is no result, back to RecvAndParse().
Scan ==
  /\ ScanLine \/ ScanMore \/ ScanBad
  /\ UNCHANGED queueVars

\* The switch over the result, and close(): the connection is over.
Respond ==
  /\ pc = "reply"
  /\ ~(result = "GOT_REQUEST" /\ peer = "gone")
  /\ answered' = IF result = "GOT_REQUEST" THEN answered + 1 ELSE answered
  /\ CurrentBecomes([stream |-> <<>>, inbox |-> <<>>, peer |-> "open"])
  /\ fd_open' = FALSE
  /\ pc' = "wait"
  /\ UNCHANGED <<edge, sockfd, parseVars, received, queueVars>>

\* writev() to a client that has closed and reset: SIGPIPE ends the server.
RespondSigPipe ==
  /\ ReplySigPipe
  /\ UNCHANGED queueVars

\* HandleTERM() calls exit(), wherever the server is.
Term ==
  /\ pc \notin Ended
  /\ pc' = "exited"
  /\ fd_open' = FALSE
  /\ UNCHANGED <<stream, peer, inbox, edge, sockfd, parseVars, obsVars, queueVars>>

-----------------------------------------------------------------------------
Server == Accept \/ AcceptFails \/ Receive \/ Scan \/ Respond \/ RespondSigPipe

SerialNext == Connect \/ WaitingClient \/ CurrentSends \/ CurrentLeaves \/ Server \/ Term

SerialSpec == SerialInit /\ [][SerialNext]_serialVars

\* The server runs; the client it serves sends what it has to send, and leaves
\* some day if it is not answered.  Without that last assumption the server
\* waits in recv() for ever: one silent client is enough.
SerialFairSpec ==
  /\ SerialSpec
  /\ WF_serialVars(Server)
  /\ WF_serialVars(CurrentSends)
  /\ WF_serialVars(CurrentLeaves)

-----------------------------------------------------------------------------
(* Properties.                                                              *)

\* What becomes of a connection depends on its own bytes and nothing else: not
\* on the pieces they come in, and not on the clients served before it.
\* (handle_http_request.cc:164-172, the object set up by hand for each
\* connection; 211-249, 300-399.)
OwnBytesDecide == PiecesDontMatter

\* A request that fits the buffer is answered whole, in however many pieces it
\* arrives, unless its client leaves first.  (handle_http_request.cc:175-186:
\* unlike in ReqStatMach.h the connection is kept until there is a result.)
WholeRequestAnswered ==
  /\ fd_open /\ pc \in {"recv", "scan"}
  /\ Verdict(received \o inbox \o stream) = "GOT_REQUEST"
  /\ Len(received) + Len(inbox) + Len(stream) <= BufSize
  ~> answered = 1 \/ peer # "open" \/ pc \in Ended

\* Every client that connects has its turn, as long as each client before it leaves
\* in the end, at whatever point of its request, and the server is there.
\* (handle_http_request.cc:144-199, 372-388: the server gets out of recv().)
EveryoneServed ==
  [](\A n \in 1 .. MaxClients :
       arrived >= n => <>(arrived - Len(waiting) >= n \/ pc \in Ended))

=============================================================================

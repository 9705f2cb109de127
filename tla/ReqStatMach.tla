----------------------------- MODULE ReqStatMach -----------------------------
(***************************************************************************)
(* One client connection in a child of the pool: class ReqStatMach of       *)
(* src/src/ReqStatMach.h, from init() to the EpollDelFd() that closes the    *)
(* connection, driven by the edge-triggered events of RunChild().           *)
(*                                                                         *)
(* A byte is one of                                                        *)
(*   "CR", "LF"   the two the line scanner looks for,                      *)
(*   "NUL"        what the scanner writes over them,                       *)
(*   "req"        text of a request line that parse_requesturi() accepts    *)
(*                whatever follows it (it only compares prefixes),          *)
(*   "get"        the three letters that, alone on a line, make             *)
(*                parse_requesturi() follow a null pointer,                 *)
(*   "txt"        any other text.                                          *)
(* Indices count bytes, as in the code: checked_idx bytes are scanned, the   *)
(* current line starts after linest_idx bytes, and m_read_idx is the length  *)
(* of recvbuf.                                                             *)
(***************************************************************************)
EXTENDS Integers, Sequences, FiniteSets

CONSTANTS
  Streams,     \* what a client may send: a set of sequences of bytes
  BufSize      \* k_recvbuf_size

Bytes == {"CR", "LF", "req", "get", "txt"}

ASSUME ReqAssumption ==
  /\ BufSize \in Nat \ {0}
  /\ Streams \subseteq Seq(Bytes)

VARIABLES
  \* of the client and the kernel
  stream,         \* what the client has still to send
  peer,           \* the client's end: open, closed (fin), reset (rst), or gone:
                  \* reset after it was closed
  inbox,          \* bytes received by the kernel and not by recv()
  edge,           \* the descriptor is on the ready list of epoll
  fd_open,        \* the descriptor is open and registered
  \* of the object
  sockfd,         \* m_sockfd: "fd" or -1 ("none")
  recvbuf, checked_idx, linest_idx, lastline_stat, check_stat, result,
  pc,             \* where the child is with this connection
  \* of the observer
  received,       \* the bytes recv() returned, before the scanner wrote on them
  answered        \* calls of respond_http() that wrote

clientVars == <<stream, peer>>
kernVars   == <<inbox, edge, fd_open>>
parseVars  == <<recvbuf, checked_idx, linest_idx, lastline_stat, check_stat, result>>
obsVars    == <<received, answered>>
vars       == <<clientVars, kernVars, sockfd, parseVars, pc, obsVars>>

LineStats   == {"OK", "OPEN", "WAITING_N", "BAD"}
CheckStats  == {"REQLINE", "HEADER"}
ResultCodes == {"NO_REQUEST", "GOT_REQUEST", "DONE_RECV", "BAD_REQUEST", "INTERNAL_ERROR"}

TypeOK ==
  /\ stream \in Seq(Bytes)
  /\ peer \in {"open", "fin", "rst", "gone"}
  /\ inbox \in Seq(Bytes)
  /\ edge \in BOOLEAN
  /\ fd_open \in BOOLEAN
  /\ sockfd \in {"fd", "none"}
  /\ recvbuf \in Seq(Bytes \cup {"NUL"})
  /\ Len(recvbuf) <= BufSize
  /\ checked_idx \in 0 .. Len(recvbuf)
  /\ linest_idx \in 0 .. checked_idx
  /\ lastline_stat \in LineStats
  /\ check_stat \in CheckStats
  /\ result \in ResultCodes
  /\ pc \in {"wait", "recv", "scan", "reply", "crashed"}
  /\ received \in Seq(Bytes)
  /\ answered \in Nat

\* init() and EpollAddFd() of a connection just accepted.
Init ==
  /\ stream \in Streams
  /\ peer = "open"
  /\ inbox = <<>>
  /\ edge = FALSE
  /\ fd_open = TRUE
  /\ sockfd = "fd"
  /\ recvbuf = <<>>
  /\ checked_idx = 0
  /\ linest_idx = 0
  /\ lastline_stat = "OK"
  /\ check_stat = "REQLINE"
  /\ result = "NO_REQUEST"
  /\ pc = "wait"
  /\ received = <<>>
  /\ answered = 0

-----------------------------------------------------------------------------
(* The client, and what the network makes of it: bytes arrive in any pieces, *)
(* as long as the server has not closed its end.                            *)

Arrive ==
  /\ fd_open
  /\ peer = "open"
  /\ \E n \in 1 .. Len(stream) :
       /\ inbox' = inbox \o SubSeq(stream, 1, n)
       /\ stream' = SubSeq(stream, n + 1, Len(stream))
  /\ edge' = TRUE
  /\ UNCHANGED <<peer, fd_open, sockfd, parseVars, pc, obsVars>>

Leave ==
  /\ fd_open
  /\ \/ peer = "open" /\ peer' \in {"fin", "rst"}
     \/ peer = "fin" /\ peer' = "gone"
  /\ edge' = TRUE
  /\ UNCHANGED <<stream, inbox, fd_open, sockfd, parseVars, pc, obsVars>>

-----------------------------------------------------------------------------
(* The child: an event, then process().                                     *)

\* epoll_wait() and the loop test of process(): an object that already has a
\* result does not receive.
Event ==
  /\ pc = "wait"
  /\ fd_open /\ edge
  /\ inbox # <<>> \/ peer # "open"
  /\ edge' = FALSE
  /\ pc' = IF result = "NO_REQUEST" THEN "recv" ELSE "reply"
  /\ UNCHANGED <<clientVars, inbox, fd_open, sockfd, parseVars, obsVars>>

BugRoom == BufSize - checked_idx
Room == BufSize - Len(recvbuf)

\* recv() returned data: the batch is appended and parsed.
RecvData ==
  /\ pc = "recv"
  /\ sockfd = "fd" /\ inbox # <<>> /\ Room > 0
  /\ LET n == IF Len(inbox) < Room THEN Len(inbox) ELSE Room IN
       /\ recvbuf' = recvbuf \o SubSeq(inbox, 1, n)
       /\ received' = received \o SubSeq(inbox, 1, n)
       /\ inbox' = SubSeq(inbox, n + 1, Len(inbox))
  /\ pc' = "scan"
  /\ UNCHANGED <<clientVars, edge, fd_open, sockfd,
                 checked_idx, linest_idx, lastline_stat, check_stat, result, answered>>

\* recv() returned 0 or -1, and the loop is left.
RecvEnds(res) ==
  /\ pc = "recv"
  /\ result' = res
  /\ pc' = "reply"
  /\ UNCHANGED <<clientVars, kernVars, sockfd,
                 recvbuf, checked_idx, linest_idx, lastline_stat, check_stat, obsVars>>

\* EAGAIN.
RecvEmpty == sockfd = "fd" /\ inbox = <<>> /\ peer = "open" /\ RecvEnds(result)

\* 0: the end of the stream, reset or not -- or a receive buffer without room, to which recv()
\* of no bytes answers 0 as well.
RecvZero ==
  /\ sockfd = "fd"
  /\ IF inbox = <<>> THEN peer \in {"fin", "gone"} ELSE Room = 0
  /\ RecvEnds("DONE_RECV")

\* ECONNRESET, or EBADF from an object that has forgotten its descriptor.
RecvError ==
  /\ sockfd = "none" \/ (inbox = <<>> /\ peer = "rst")
  /\ RecvEnds("INTERNAL_ERROR")

-----------------------------------------------------------------------------
(* check_one_line(): where the scan stops, and what it makes of it.         *)

Byte(k) == recvbuf[k + 1]    \* buf[k]

ReadIdx == Len(recvbuf)

CrAtEnd(k) == Byte(k) = "CR" /\ k + 1 = ReadIdx
CrLf(k)    == Byte(k) = "CR" /\ k + 1 < ReadIdx /\ Byte(k + 1) = "LF"

\* A CR followed by anything else is skipped, as text is.
BugStops == {k \in checked_idx .. ReadIdx - 1 : CrLf(k) \/ Byte(k) = "LF"}
Stops == {k \in checked_idx .. ReadIdx - 1 : CrAtEnd(k) \/ CrLf(k) \/ Byte(k) = "LF"}

FirstStop == CHOOSE k \in Stops : \A l \in Stops : k <= l

LineStat ==
  IF Stops = {} THEN "OPEN"
  ELSE IF CrAtEnd(FirstStop) THEN "WAITING_N"
  ELSE IF CrLf(FirstStop) \/ lastline_stat = "WAITING_N" THEN "OK"
  ELSE "BAD"

\* The text of a finished line ends where the scanner puts its first NUL: on the
\* CR, or on whatever precedes an LF taken for the rest of a CR LF.
LineEnd == IF CrLf(FirstStop) THEN FirstStop ELSE FirstStop - 1
Line == SubSeq(recvbuf, linest_idx + 1, LineEnd)

-----------------------------------------------------------------------------
(* What the request parser makes of a line.                                 *)

\* strpbrk() finds no blank, the comparison that follows has no bound.
FollowsNull(line) == line = <<"get">>

AcceptsRequestLine(line) == line # <<>> /\ line[1] = "req"

ParseLine ==
  CASE check_stat = "REQLINE" -> IF AcceptsRequestLine(Line) THEN "NO_REQUEST" ELSE "BAD_REQUEST"
    [] check_stat = "HEADER"  -> IF Line = <<>> THEN "GOT_REQUEST" ELSE "NO_REQUEST"

-----------------------------------------------------------------------------
(* parse_batch(): one line, or the end of the batch.                        *)

BugTakeLine ==
  /\ recvbuf' = [recvbuf EXCEPT ![LineEnd + 1] = "NUL", ![LineEnd + 2] = "NUL"]
  /\ checked_idx' = LineEnd + 2
  /\ linest_idx' = checked_idx

\* The line's end is overwritten, and the next line starts after it.
TakeLine ==
  /\ recvbuf' = [recvbuf EXCEPT ![LineEnd + 1] = "NUL", ![LineEnd + 2] = "NUL"]
  /\ checked_idx' = LineEnd + 2
  /\ linest_idx' = LineEnd + 2

\* The death of the child closes the descriptor.
Crashes == pc' = "crashed" /\ fd_open' = FALSE /\ edge' = FALSE

\* The scanner found a line, and the parser reads it.
ScanLine ==
  /\ pc = "scan"
  /\ LineStat = "OK"
  /\ lastline_stat' = "OK"
  /\ TakeLine
  /\ IF check_stat = "REQLINE" /\ FollowsNull(Line)
     THEN Crashes /\ UNCHANGED <<check_stat, result>>
     ELSE /\ result' = ParseLine
          /\ check_stat' = IF ParseLine = "NO_REQUEST" THEN "HEADER" ELSE check_stat
          /\ pc' = IF ParseLine = "NO_REQUEST" THEN "scan" ELSE "reply"
          /\ UNCHANGED <<fd_open, edge>>
  /\ UNCHANGED <<clientVars, inbox, sockfd, obsVars>>

BugScanMore ==
  /\ pc = "scan"
  /\ LineStat \in {"OPEN", "WAITING_N"}
  /\ lastline_stat' = LineStat
  /\ checked_idx' = IF LineStat = "OPEN" THEN ReadIdx ELSE FirstStop
  /\ pc' = "reply"
  /\ UNCHANGED <<clientVars, kernVars, sockfd, recvbuf, linest_idx, check_stat, result, obsVars>>

\* The batch ends within a line: back to recv().
ScanMore ==
  /\ pc = "scan"
  /\ LineStat \in {"OPEN", "WAITING_N"}
  /\ lastline_stat' = LineStat
  /\ checked_idx' = IF LineStat = "OPEN" THEN ReadIdx ELSE FirstStop
  /\ pc' = "recv"
  /\ UNCHANGED <<clientVars, kernVars, sockfd, recvbuf, linest_idx, check_stat, result, obsVars>>

ScanBad ==
  /\ pc = "scan"
  /\ LineStat = "BAD"
  /\ lastline_stat' = "BAD"
  /\ checked_idx' = FirstStop
  /\ result' = "BAD_REQUEST"
  /\ pc' = "reply"
  /\ UNCHANGED <<clientVars, kernVars, sockfd, recvbuf, linest_idx, check_stat, obsVars>>

-----------------------------------------------------------------------------
(* The end of process().                                                    *)

BugDelFd == UNCHANGED <<fd_open, edge>>

\* EpollDelFd(m_epollfd, m_sockfd): close() of descriptor -1 closes nothing.
DelFd ==
  /\ fd_open' = (fd_open /\ sockfd # "fd")
  /\ edge' = (edge /\ fd_open')

\* Every outcome but NO_REQUEST closes the connection, GOT_REQUEST after a
\* response; and the object forgets its descriptor, whatever the outcome.
Reply ==
  /\ pc = "reply"
  /\ ~(result = "GOT_REQUEST" /\ peer = "gone")
  /\ answered' = IF result = "GOT_REQUEST" THEN answered + 1 ELSE answered
  /\ IF result = "NO_REQUEST" THEN UNCHANGED <<fd_open, edge>> ELSE DelFd
  /\ sockfd' = "none"
  /\ pc' = "wait"
  /\ UNCHANGED <<clientVars, inbox, parseVars, received>>

\* writev() to a client that closed its end and then reset the connection raises
\* SIGPIPE, which the child leaves at its default.
ReplySigPipe ==
  /\ pc = "reply"
  /\ result = "GOT_REQUEST" /\ peer = "gone"
  /\ Crashes
  /\ UNCHANGED <<clientVars, inbox, sockfd, parseVars, obsVars>>

-----------------------------------------------------------------------------
Client == Arrive \/ Leave

Child ==
  \/ Event
  \/ RecvData \/ RecvEmpty \/ RecvZero \/ RecvError
  \/ ScanLine \/ ScanMore \/ ScanBad
  \/ Reply \/ ReplySigPipe

Next == Client \/ Child

Spec == Init /\ [][Next]_vars

\* The child's event loop runs; no client ever has to send anything.
FairSpec == Spec /\ WF_vars(Child)

-----------------------------------------------------------------------------
(* What a request is, whatever pieces it arrives in.                        *)

LineEnds(s) == {k \in 2 .. Len(s) : s[k] = "LF" /\ s[k - 1] = "CR"}
LoneLFs(s)  == {k \in 1 .. Len(s) : s[k] = "LF" /\ k \notin LineEnds(s)}

\* The first line ends at k, and is no request line.
BadFirst(s) == {k \in LineEnds(s) : /\ \A l \in LineEnds(s) : k <= l
                                    /\ k = 2 \/ s[1] # "req"}

\* A line other than the first ends at k, and is empty.
Blank(s) == {k \in LineEnds(s) : k - 2 \in LineEnds(s)}

\* The verdict on a sequence of bytes: whatever comes first decides.
Verdict(s) ==
  LET bad == LoneLFs(s) \cup BadFirst(s) IN
  IF \E k \in bad : \A l \in Blank(s) : k < l THEN "BAD_REQUEST"
  ELSE IF Blank(s) # {} THEN "GOT_REQUEST"
  ELSE "NO_REQUEST"

\* Every CR of the stream is half of a CR LF.
Clean(s) == \A k \in 1 .. Len(s) : s[k] = "CR" => k < Len(s) /\ s[k + 1] = "LF"

-----------------------------------------------------------------------------
(* Properties.                                                              *)

\* The scanner only writes on bytes it has passed, and only to end lines: what
\* lies ahead of checked_idx is as received, the current line starts after a
\* NUL, and holds none.  (ReqStatMach.h:203-241, 299-300: indices and pointers
\* into recvbuf that several calls of check_one_line() share.)
ScanFrontier ==
  /\ Len(recvbuf) = Len(received)
  /\ \A k \in checked_idx + 1 .. Len(recvbuf) : recvbuf[k] = received[k]
  /\ linest_idx > 0 => recvbuf[linest_idx] = "NUL"
  /\ \A k \in linest_idx + 1 .. Len(recvbuf) : recvbuf[k] # "NUL"

\* The outcome of a connection depends on the bytes received and not on the
\* pieces recv() cut them into, as long as no CR stands alone.  (ReqStatMach.h:
\* 139-166, 203-241, 293-362: scanning resumes in the middle of a line, or
\* between a CR and its LF.)
Parsed ==
  CASE pc = "recv" -> {"NO_REQUEST"}
    [] pc = "reply" -> {result} \cap {"GOT_REQUEST", "BAD_REQUEST", "NO_REQUEST"}
    [] OTHER -> {}

PiecesDontMatter == Parsed \subseteq {Verdict(received)}

\* A request that is complete, in recvbuf and in the kernel, before the child has
\* turned away from the connection is answered, unless the client is gone.  (ReqStatMach.h:139-182, 364-417;
\* ProcessPool.h:365-367.)
CompleteRequestAnswered ==
  /\ sockfd = "fd" /\ pc \in {"wait", "recv", "scan"}
  /\ Len(received) + Len(inbox) <= BufSize
  /\ edge \/ pc # "wait"
  /\ Verdict(received \o inbox) = "GOT_REQUEST"
  ~> answered = 1 \/ peer = "gone"

\* A connection is answered at most once, and then it is closed and nothing is read
\* from it again, although the object keeps its result.
\* (ReqStatMach.h:175-182, Process.cc:82-86.)
AnsweredIsOver == answered > 0 => answered = 1 /\ ~fd_open /\ pc = "wait"

=============================================================================

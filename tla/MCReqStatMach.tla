---------------------------- MODULE MCReqStatMach ----------------------------
(***************************************************************************)
(* The request state machine on every short stream of bytes, and what the   *)
(* comments of the code say of it that it does not do.                      *)
(***************************************************************************)
EXTENDS ReqStatMach

CONSTANT MaxLen  \* bound: the length of a stream

Short(n) == UNION {[1 .. k -> Bytes] : k \in 0 .. n}

\* Streams in which every CR is half of a CR LF, and a request with headers.
CleanStreams == {s \in Short(MaxLen) : Clean(s)} \cup
  {<<"req", "CR", "LF", "txt", "CR", "LF", "CR", "LF">>,
   <<"req", "CR", "LF", "txt", "txt", "txt", "CR", "LF", "CR", "LF">>}

\* A request whose header line contains a CR that ends nothing.
LoneCrStreams == {<<"req", "CR", "LF", "txt", "CR", "txt", "LF", "CR", "LF">>}

\* The comment at ReqStatMach.h:223: the only valid LF is one whose previous byte
\* is a CR.  What check_one_line() tests is lastline_stat, which says that the
\* batch before ended in a CR.
LinesEndInCrLf == linest_idx > 0 => linest_idx \in LineEnds(received)

\* The message at ReqStatMach.h:173, "should continue receiving": a connection
\* whose request is incomplete stays the object's connection.
KeepsReceiving == pc = "wait" /\ fd_open => sockfd = "fd"

=============================================================================

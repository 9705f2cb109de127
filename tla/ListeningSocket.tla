--------------------------- MODULE ListeningSocket ---------------------------
(***************************************************************************)
(* What a server promises about its listening socket, whatever number of   *)
(* processes work behind it: waiting connections are taken off the queue one *)
(* at a time, and none is dropped while anyone still has the socket open.   *)
(***************************************************************************)
EXTENDS Naturals

CONSTANT Backlog  \* how many completed connections may wait

VARIABLES
  waiting,        \* connections no accept() has returned yet
  open            \* some process has the socket

TypeOK == waiting \in 0 .. Backlog /\ open \in BOOLEAN

Init == waiting = 0 /\ open = TRUE

Arrive == open /\ waiting < Backlog /\ waiting' = waiting + 1 /\ UNCHANGED open

\* One accept(): it returns the connection, or finds that the client has reset it.
Accept == waiting > 0 /\ waiting' = waiting - 1

\* The last process closes the socket, and with it go the connections.
Close == open /\ open' = FALSE /\ waiting' = 0

Next == Arrive \/ (Accept /\ UNCHANGED open) \/ Close

Spec == Init /\ [][Next]_<<waiting, open>>

\* Somebody keeps accepting.
Served == WF_waiting(Accept)

=============================================================================

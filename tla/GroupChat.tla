------------------------------ MODULE GroupChat ------------------------------
(***************************************************************************)
(* group_chat_service.cc: the chat server that is stopped by a SIGTERM       *)
(* handler setting a flag, which the loop tests before each poll().          *)
(***************************************************************************)
EXTENDS ChatTable

VARIABLE kStop  \* the flag HandleTERM() sets

vars == <<chatVars, kStop>>

TypeOK == TableTypeOK /\ kStop \in BOOLEAN

Init == TableInit /\ kStop = FALSE

BugTest ==
  /\ pc = "test" /\ pc' = "poll"
  /\ UNCHANGED <<netVars, tableVars, listening, fds_i, send_j, due, kStop>>

\* while (!kStop)
Test ==
  /\ pc = "test"
  /\ IF kStop THEN End("exit")
     ELSE pc' = "poll" /\ UNCHANGED <<netVars, tableVars, listening, fds_i, send_j, due>>
  /\ UNCHANGED kStop

Poll == pc = "poll" /\ SomethingReady /\ PollReturns("accept") /\ UNCHANGED kStop

Accept == AcceptPhase /\ UNCHANGED kStop

Client ==
  /\ DropClient \/ Receive \/ SkipClient \/ EndOfRound("test")
  /\ UNCHANGED kStop

Send == Broadcast /\ UNCHANGED kStop

\* HandleTERM().  A poll() that sleeps is interrupted, and the loop left; between
\* the test of the flag and the sleep, or in a poll() that has something to return,
\* the signal only sets the flag.  signal() makes an interrupted send() restart.
Term ==
  /\ pc \notin Ended
  /\ kStop' = TRUE
  /\ \/ UNCHANGED chatVars
     \/ pc = "poll" /\ End("exit")

Server == Test \/ Poll \/ Accept \/ Client \/ Send

Next == Server \/ (Clients /\ UNCHANGED kStop) \/ Term

Spec == Init /\ [][Next]_vars

\* The process runs when it can, and clients read what they are sent.
Readers  == \A fd \in Fds : WF_vars(Drain(fd) /\ Clients /\ UNCHANGED kStop)
FairSpec == Spec /\ WF_vars(Server) /\ Readers

-----------------------------------------------------------------------------

\* SIGTERM between the test of the flag and poll() is not noticed, but neither is
\* it forgotten: whatever happens next on a socket ends the server.
\* (group_chat_service.cc:37-42, 154-161.)
TermAtNextEvent == kStop /\ SomethingReady ~> pc \in Ended

=============================================================================

----------------------------- MODULE GroupChatSio -----------------------------
(***************************************************************************)
(* group_chat_service_sio.cc: the chat server whose signals are bytes in a   *)
(* socketpair that poll() watches together with the sockets.                 *)
(***************************************************************************)
EXTENDS ChatTable

VARIABLES
  kStop,       \* set when SIGTERM is read from the socketpair
  kSigPipeFD,  \* the signals whose bytes are in the socketpair
  signalled    \* revents of the socketpair has POLLIN

sigVars == <<kStop, kSigPipeFD, signalled>>
vars    == <<chatVars, sigVars>>

Signals == {"URG", "TERM"}

TypeOK ==
  /\ TableTypeOK
  /\ kStop \in BOOLEAN /\ signalled \in BOOLEAN /\ kSigPipeFD \subseteq Signals

Init == TableInit /\ kStop = FALSE /\ kSigPipeFD = {} /\ signalled = FALSE

Test ==
  /\ pc = "test"
  /\ IF kStop THEN End("exit")
     ELSE pc' = "poll" /\ UNCHANGED <<netVars, tableVars, listening, fds_i, send_j, due>>
  /\ UNCHANGED sigVars

\* EINTR is not an error: the round that follows it finds no revents set, and ends
\* where it began.
Poll ==
  /\ pc = "poll"
  /\ kSigPipeFD # {} \/ SomethingReady
  /\ PollReturns("signals")
  /\ signalled' = (kSigPipeFD # {})
  /\ UNCHANGED <<kStop, kSigPipeFD>>

BugReadSignals(pending) == "TERM" \in pending /\ "URG" \notin pending

\* Every byte read is looked at.
ReadSignals(pending) == "TERM" \in pending

\* recv() has room for more bytes than there can be.
SignalPhase ==
  /\ pc = "signals"
  /\ IF signalled
     THEN kSigPipeFD' = {} /\ kStop' = (kStop \/ ReadSignals(kSigPipeFD))
     ELSE UNCHANGED <<kSigPipeFD, kStop>>
  /\ pc' = "accept"
  /\ UNCHANGED <<netVars, tableVars, listening, fds_i, send_j, due, signalled>>

Accept == AcceptPhase /\ UNCHANGED sigVars

Client ==
  /\ DropClient \/ Receive \/ SkipClient \/ EndOfRound("test")
  /\ UNCHANGED sigVars

Send == Broadcast /\ UNCHANGED sigVars

\* GenSigIO(): sa_flags is 0, so that a send() that sleeps is interrupted.
GenSigIO(sig) ==
  /\ pc \notin Ended
  /\ kSigPipeFD' = kSigPipeFD \cup {sig}
  /\ IF Blocked THEN SendInterrupted ELSE UNCHANGED chatVars
  /\ UNCHANGED <<kStop, signalled>>

Server == Test \/ Poll \/ SignalPhase \/ Accept \/ Client \/ Send

Next ==
  \/ Server
  \/ Clients /\ UNCHANGED sigVars
  \/ \E sig \in Signals : GenSigIO(sig)

Spec == Init /\ [][Next]_vars

\* The process runs when it can.
FairServer == Spec /\ WF_vars(Server)

\* And clients read what they are sent.
Readers  == \A fd \in Fds : WF_vars(Drain(fd) /\ Clients /\ UNCHANGED sigVars)
FairSpec == FairServer /\ Readers

-----------------------------------------------------------------------------

\* SIGTERM ends the server, whenever it comes: its byte is in the socketpair before
\* poll() is called again.  (group_chat_service_sio.cc:55-60, 196-231.)
TermStops == "TERM" \in kSigPipeFD ~> pc \in Ended

=============================================================================

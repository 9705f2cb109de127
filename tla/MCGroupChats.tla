----------------------------- MODULE MCGroupChats -----------------------------
(***************************************************************************)
(* The two chat servers without timers, checked together: which of the two   *)
(* runs is chosen in the initial state and never changes.                   *)
(***************************************************************************)
EXTENDS ChatTable

VARIABLES
  program,     \* the server that runs
  kStop, kSigPipeFD, signalled

Flag == INSTANCE GroupChat
Sio  == INSTANCE GroupChatSio

pipeVars == <<kSigPipeFD, signalled>>
vars     == <<chatVars, program, kStop, pipeVars>>

TypeOK ==
  /\ program = "flag" => Flag!TypeOK /\ kSigPipeFD = {} /\ ~ signalled
  /\ program = "sio"  => Sio!TypeOK

Init == program \in {"flag", "sio"} /\ Sio!Init

FlagRuns(Step) == program = "flag" /\ Step /\ UNCHANGED <<program, pipeVars>>
SioRuns(Step)  == program = "sio" /\ Step /\ UNCHANGED program

Next == FlagRuns(Flag!Next) \/ SioRuns(Sio!Next)

Spec == Init /\ [][Next]_vars

\* Bound: what clients say, and SIGURG, come while the loop is at poll(), or asleep in
\* a send() that a signal interrupts.  Whatever comes earlier lies unseen until then:
\* nothing else looks for it.  SIGTERM comes at any moment.
SeenAtOnce ==
  /\ \A fd \in Fds : conn'[fd].unread => conn[fd].unread \/ pc = "poll"
  /\ "URG" \in kSigPipeFD' => "URG" \in kSigPipeFD \/ pc = "poll" \/ Blocked

\* The fairness of GroupChat and of GroupChatSio.
Drains(fd) == Drain(fd) /\ Clients /\ UNCHANGED <<program, kStop, pipeVars>>

FairSpec ==
  /\ Init /\ [][Next /\ SeenAtOnce]_vars
  /\ WF_vars(FlagRuns(Flag!Server)) /\ WF_vars(SioRuns(Sio!Server))
  /\ \A fd \in Fds : WF_vars(Drains(fd))

\* Of the server with the socketpair: SIGTERM ends it.
TermStops == Sio!TermStops

\* Of the server with the flag: SIGTERM ends it with the next event.
TermAtNextEvent == Flag!TermAtNextEvent

=============================================================================

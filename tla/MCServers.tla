------------------------------ MODULE MCServers ------------------------------
(***************************************************************************)
(* The two ways in which the repository serves many clients with the same   *)
(* parser, checked together: the serial server, one after the other, or a    *)
(* child of the pool, all at once.                                          *)
(***************************************************************************)
EXTENDS BlockingServer

CONSTANTS Fds, MaxAccept, Endings   \* as in ChildServer

ASSUME ChildAssumption ==
  /\ Fds \subseteq Nat /\ IsFiniteSet(Fds) /\ MaxAccept \in Nat \ {0}
  /\ Endings \subseteq {"fin", "rst", "gone"}

VARIABLES
  program,      \* what runs, chosen in the initial state
  T, queue, conn, ready, notified, pending, clients, events, accept_left, stop,
  child_pc   \* as in ChildServer

InChild == INSTANCE ChildServer WITH pc <- child_pc

childVars == <<T, queue, conn, ready, notified, pending, clients, events, accept_left,
               stop, child_pc>>
allVars   == <<serialVars, childVars, program>>

\* Whole requests, one too long for the buffer, beginnings, nothing at all.
SerialStreams ==
  {<<"req", "CR", "LF", "CR", "LF">>, <<"req", "CR", "LF", "txt", "txt", "txt">>,
   <<"req", "CR", "LF">>, <<"CR", "LF">>, <<"LF">>, <<>>}

ServersTypeOK == SerialTypeOK /\ InChild!ChildTypeOK

ServersInit ==
  /\ program \in {"serial", "child"} /\ SerialInit /\ InChild!Init
  /\ program = "serial" => T = "client"

SerialRuns(Step) == program = "serial" /\ Step /\ UNCHANGED <<childVars, program>>
ChildRuns(Step)  == program = "child" /\ Step /\ UNCHANGED <<serialVars, program>>

ServersNext == SerialRuns(SerialNext) \/ ChildRuns(InChild!Next)

ServersSpec == ServersInit /\ [][ServersNext]_allVars

\* Bound: a client that waits sends everything at once; nobody looks at it before it
\* is accepted, and then it can send in any pieces before the first recv().
SentAtOnce ==
  WaitingClient =>
    \A k \in DOMAIN waiting : waiting'[k].stream \in {waiting[k].stream, <<>>}

\* Bound: notifications and signals come while the child is at epoll_wait(), the only
\* place where it can tell whether they are there.
SeenAtOnce ==
  \/ child_pc = "loop" /\ events = {}
  \/ (notified' => notified) /\ (pending' => pending)

\* The fairness of BlockingServer and of ChildServer.
ServersFairSpec ==
  /\ ServersInit /\ [][ServersNext /\ SentAtOnce /\ SeenAtOnce]_allVars
  /\ WF_allVars(SerialRuns(Server))
  /\ WF_allVars(SerialRuns(CurrentSends))
  /\ WF_allVars(SerialRuns(CurrentLeaves))
  /\ WF_allVars(ChildRuns(InChild!Child))

\* Of the child: a free number has a free object.  (ProcessPool.h:307-311.)
FreeNumberFreeObject == InChild!FreeNumberFreeObject

\* Of the child: nobody is answered for what another sent.  (ReqStatMach.h:108-199.)
AnswersItsOwn == InChild!AnswersItsOwn

\* Of the child: a whole request is answered.  (ProcessPool.h:279-336, 365-367.)
WholeAnswered == InChild!WholeAnswered

=============================================================================

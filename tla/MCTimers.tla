------------------------------- MODULE MCTimers -------------------------------
(***************************************************************************)
(* The list of timers and the chat server that uses it, checked together:    *)
(* either the list runs alone, under every order of calls, or the server.    *)
(***************************************************************************)
EXTENDS TimingGroupChat

CONSTANTS
  ListTimers, ListTimes, Null   \* as in TimerSortedList

ASSUME ListAssumption ==
  /\ IsFiniteSet(ListTimers) /\ Null \notin ListTimers
  /\ ListTimes \subseteq Nat /\ ListTimes # {}

VARIABLES
  program,                \* what runs, chosen in the initial state
  list, allocated, fired  \* as in TimerSortedList

listVars == <<list, allocated, fired>>
allVars  == <<vars, listVars, program>>

List == INSTANCE TimerSortedList WITH Timers <- ListTimers, Times <- ListTimes

TimersTypeOK ==
  /\ program = "list" => List!TypeOK
  /\ program = "chat" => TypeOK

TimersInit == program \in {"list", "chat"} /\ Init /\ List!Init

ListRuns       == program = "list" /\ List!Next /\ UNCHANGED <<vars, program>>
ChatRuns(Step) == program = "chat" /\ Step /\ UNCHANGED <<listVars, program>>

TimersNext == ListRuns \/ ChatRuns(Next)

TimersSpec == TimersInit /\ [][TimersNext]_allVars

\* Bound: what clients say, and signals other than SIGALRM, come while the loop is at
\* poll(), or asleep in a send() that a signal interrupts.  Whatever comes earlier
\* lies unseen until then: nothing else looks for it.
SeenAtOnce ==
  /\ \A fd \in Fds : conn'[fd].unread => conn[fd].unread \/ pc = "poll"
  /\ kSigPipeFD' \cap UserSignals \subseteq kSigPipeFD \/ pc = "poll" \/ Blocked

\* The fairness of TimingGroupChat.
TimersFairSpec ==
  /\ TimersInit /\ [][TimersNext /\ SeenAtOnce]_allVars
  /\ WF_allVars(ChatRuns(Server)) /\ WF_allVars(ChatRuns(Second))

\* Of the list: after any sequence of calls the pointers are well linked.
\* (client_timer_list.h:57-187.)
WellLinked == program = "list" => List!WellLinked

\* Of the list: the pointers implement a sorted list.  (client_timer_list.h:40-187.)
IsSortedList == List!IsSortedList

=============================================================================

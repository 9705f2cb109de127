----------------------------- MODULE ProcessPool -----------------------------
(***************************************************************************)
(* The process pool of src/src/ProcessPool.h with the signal and epoll     *)
(* helpers of src/src/Process.cc: one parent that watches the listening    *)
(* socket and hands out connections, NumProc children that accept them.    *)
(*                                                                         *)
(* Process 0 is the parent (proc_[0]), 1 .. NumProc are the children.  The *)
(* processes share the listening socket's queue of completed connections;  *)
(* the parent owns the write end of one socketpair per child, over which   *)
(* it sends a two-byte notification; every process turns its signals into  *)
(* bytes of a socketpair of its own (sig_pipefd) that its epoll watches.   *)
(*                                                                         *)
(* Notifications and connections are counted, not named: nothing the pool  *)
(* does depends on which connection is accepted.  What a child does with a *)
(* connection (clients[fd].init and .process, the template parameter T) is *)
(* the subject of another module; here T shows up only as ChildCrash.      *)
(***************************************************************************)
EXTENDS Integers, Sequences

CONSTANTS
  NumProc,     \* num_process: how many children the pool forks
  Backlog,     \* how many completed connections the listening socket queues
  PipeCap,     \* how many notifications fit in one IPC socketpair
  MsgBatch,    \* how many notifications one recv() of a child takes (10 bytes / 2)
  MaxAccept,   \* k_max_accept_n
  SigBuf,      \* sizeof(sigs): how many signal bytes one recv() takes
  MaxKill,     \* bound: signals sent from outside the pool
  MaxCrash,    \* bound: abnormal deaths of children
  MayFail      \* bound: the children that may run out of descriptors

\* The constructor's assertion also admits num_process = 0; nobody asks for it
\* and the parent then writes to a socketpair it never made.
ASSUME PoolAssumption ==
  /\ NumProc   \in Nat \ {0}
  /\ Backlog   \in Nat \ {0}
  /\ PipeCap   \in Nat \ {0}
  /\ MsgBatch  \in Nat \ {0}
  /\ MaxAccept \in Nat \ {0}
  /\ SigBuf    \in Nat \ {0}
  /\ MaxKill   \in Nat
  /\ MaxCrash  \in Nat
  /\ MayFail \subseteq 1 .. NumProc

Parent   == 0
Children == 1 .. NumProc
Procs    == 0 .. NumProc

Signals     == {"TERM", "INT", "CHLD"}
StopSignals == {"TERM", "INT"}

VARIABLES
  \* of the processes
  pc,               \* where each process is
  stop,             \* stop_
  sub_process_idx,  \* where the parent's round robin resumes
  accept_left,      \* max_accept_n of each child
  events,           \* what is left of the batch epoll_wait() returned
  \* of the kernel
  queue,            \* connections nobody has accepted yet
  pipe,             \* notifications unread in each child's socketpair
  ipcEdge,          \* the socketpair is on the ready list of the child's epoll
  pending,          \* signals sent and not delivered
  sigPipe,          \* bytes unread in each process's sig_pipefd
  sigEdge,          \* sig_pipefd is on the ready list of the process's epoll
  \* of the environment and of the observer
  kills, crashes,   \* how much of MaxKill and MaxCrash is used up
  failing,          \* children whose accept() finds no descriptor or no memory
  recent            \* the last NumProc children the parent selected

procVars == <<pc, stop, sub_process_idx, accept_left, events>>
kernVars == <<queue, pipe, ipcEdge, pending, sigPipe, sigEdge>>
envVars  == <<kills, crashes, failing>>
vars     == <<procVars, kernVars, envVars, recent>>

PcParent == {"fork", "setup", "loop", "exited", "killed"}
PcChild  == {"unborn", "setup", "loop", "accept", "exited", "killed"}

TypeOK ==
  /\ pc \in [Procs -> PcParent \cup PcChild]
  /\ pc[Parent] \in PcParent
  /\ \A i \in Children : pc[i] \in PcChild
  /\ stop \in [Procs -> BOOLEAN]
  /\ sub_process_idx \in Procs
  /\ accept_left \in [Children -> 0 .. MaxAccept]
  /\ events \in [Procs -> SUBSET {"listen", "ipc", "sig"}]
  /\ queue \in 0 .. Backlog
  /\ pipe \in [Children -> 0 .. PipeCap]
  /\ ipcEdge \in [Children -> BOOLEAN]
  /\ pending \in [Procs -> SUBSET Signals]
  /\ sigPipe \in [Procs -> Seq(Signals)]
  /\ sigEdge \in [Procs -> BOOLEAN]
  /\ kills \in 0 .. MaxKill
  /\ crashes \in 0 .. MaxCrash
  /\ failing \subseteq MayFail
  /\ recent \in Seq(Procs)

Init ==
  /\ pc = [p \in Procs |-> IF p = Parent THEN "fork" ELSE "unborn"]
  /\ stop = [p \in Procs |-> FALSE]
  /\ sub_process_idx = Parent
  /\ accept_left = [i \in Children |-> 0]
  /\ events = [p \in Procs |-> {}]
  /\ queue = 0
  /\ pipe = [i \in Children |-> 0]
  /\ ipcEdge = [i \in Children |-> FALSE]
  /\ pending = [p \in Procs |-> {}]
  /\ sigPipe = [p \in Procs |-> <<>>]
  /\ sigEdge = [p \in Procs |-> FALSE]
  /\ kills = 0
  /\ crashes = 0
  /\ failing = {}
  /\ recent = <<>>

-----------------------------------------------------------------------------
(* Processes and their deaths.                                             *)

Alive(p) == pc[p] \notin {"unborn", "exited", "killed"}

\* Who has the write end of child i's socketpair: the parent, and the children
\* forked after i, which inherit it and never close it.
Writers(i) == {Parent} \cup {j \in Children : j > i}

HangUp(i) == \A w \in Writers(i) : ~Alive(w)

\* The listening socket closes with the last process that has it, and the kernel
\* resets the connections still queued there.
BugQueueShutDown(p) == IF p = Parent \/ \A q \in Procs \ {p} : ~Alive(q) THEN 0 ELSE queue
QueueWithout(p) == IF \A q \in Procs \ {p} : ~Alive(q) THEN 0 ELSE queue

\* Process p is gone.  The kernel drops what it owned, tells the parent about a
\* child, and hangs up the socketpairs whose last writer this was.
Dies(p, how) ==
  /\ pc' = [pc EXCEPT ![p] = how]
  /\ events' = [events EXCEPT ![p] = {}]
  /\ sigPipe' = [sigPipe EXCEPT ![p] = <<>>]
  /\ sigEdge' = [sigEdge EXCEPT ![p] = FALSE]
  /\ pending' = [q \in Procs |->
       IF q = p THEN {}
       ELSE IF q = Parent /\ Alive(Parent) THEN pending[q] \cup {"CHLD"}
       ELSE pending[q]]
  /\ pipe' = [i \in Children |-> IF i = p THEN 0 ELSE pipe[i]]
  /\ ipcEdge' = [i \in Children |->
       /\ i # p /\ Alive(i)
       /\ \/ ipcEdge[i]
          \/ p \in Writers(i) /\ \A w \in Writers(i) \ {p} : ~Alive(w)]
  /\ queue' = QueueWithout(p)

-----------------------------------------------------------------------------
(* Signals: SioHandler() once SetupSigPipe() has installed it, the default  *)
(* action before that.                                                     *)

HandlerInstalled(p) == pc[p] \in {"loop", "accept"}

SignalHandled(p, s) ==
  /\ s \in pending[p]
  /\ HandlerInstalled(p)
  /\ pending' = [pending EXCEPT ![p] = @ \ {s}]
  /\ sigPipe' = [sigPipe EXCEPT ![p] = Append(@, s)]
  /\ sigEdge' = [sigEdge EXCEPT ![p] = TRUE]
  /\ UNCHANGED <<procVars, queue, pipe, ipcEdge, envVars, recent>>

SignalDefault(p, s) ==
  /\ s \in pending[p]
  /\ Alive(p)
  /\ ~HandlerInstalled(p)
  /\ IF s \in StopSignals
     THEN Dies(p, "killed")
     ELSE /\ pending' = [pending EXCEPT ![p] = @ \ {s}]
          /\ UNCHANGED <<pc, events, queue, pipe, ipcEdge, sigPipe, sigEdge>>
  /\ UNCHANGED <<stop, sub_process_idx, accept_left, envVars, recent>>

DeliverSignal(p) == \E s \in Signals : SignalHandled(p, s) \/ SignalDefault(p, s)

-----------------------------------------------------------------------------
(* The constructor and the set-up halves of RunParent() and RunChild().     *)

Fork(i) ==
  /\ pc[Parent] = "fork"
  /\ pc[i] = "unborn"
  /\ \A j \in Children : j < i => pc[j] # "unborn"
  /\ pc' = [pc EXCEPT ![i] = "setup",
                      ![Parent] = IF i = NumProc THEN "setup" ELSE "fork"]
  /\ UNCHANGED <<stop, sub_process_idx, accept_left, events, kernVars, envVars, recent>>

\* Epoll, the listening socket level-triggered, then the signal handlers.
ParentSetup ==
  /\ pc[Parent] = "setup"
  /\ pc' = [pc EXCEPT ![Parent] = "loop"]
  /\ sub_process_idx' = Parent
  /\ UNCHANGED <<stop, accept_left, events, kernVars, envVars, recent>>

\* Adding the socketpair to epoll reports what it already holds.
ChildSetup(i) ==
  /\ pc[i] = "setup"
  /\ pc' = [pc EXCEPT ![i] = "loop"]
  /\ ipcEdge' = [ipcEdge EXCEPT ![i] = pipe[i] > 0 \/ HangUp(i)]
  /\ UNCHANGED <<stop, sub_process_idx, accept_left, events,
                 queue, pipe, pending, sigPipe, sigEdge, envVars, recent>>

-----------------------------------------------------------------------------
(* RunParent().                                                             *)

AtLoopHead(p) == pc[p] = "loop" /\ events[p] = {}
InBatch(p, e) == pc[p] = "loop" /\ e \in events[p]
Handled(p, e) == events' = [events EXCEPT ![p] = @ \ {e}]

SigReady(p) == IF sigEdge[p] /\ sigPipe[p] # <<>> THEN {"sig"} ELSE {}

\* epoll_wait(): the listening socket is level-triggered, the signals are not.
ParentWait ==
  LET ready == SigReady(Parent) \cup (IF queue > 0 THEN {"listen"} ELSE {}) IN
  /\ AtLoopHead(Parent)
  /\ ~stop[Parent]
  /\ ready # {}
  /\ events' = [events EXCEPT ![Parent] = ready]
  /\ sigEdge' = [sigEdge EXCEPT ![Parent] = FALSE]
  /\ UNCHANGED <<pc, stop, sub_process_idx, accept_left,
                 queue, pipe, ipcEdge, pending, sigPipe, envVars, recent>>

BugSuccNoWrap(k) == k + 1
BugSuccFromStart(k) == Parent
BugSuccChildrenOnly(k) == IF k = NumProc - 1 THEN 0 ELSE k + 1
Succ(k) == IF k = NumProc THEN 0 ELSE k + 1

\* pid_ # -1: set by fork(), never reset, not even when the child is gone.
Selectable == {j \in Procs : pc[j] # "unborn" /\ j # Parent}

\* How far the do-while loop walks from sub_process_idx to reach j.
Steps(j) == IF j >= sub_process_idx THEN j - sub_process_idx
            ELSE (j + NumProc + 1) - sub_process_idx

Sel == IF Selectable = {} THEN sub_process_idx
       ELSE CHOOSE j \in Selectable : \A k \in Selectable : Steps(j) <= Steps(k)

\* The window of the last NumProc selections.
Window(r) == IF Len(r) > NumProc THEN Tail(r) ELSE r

BugNotifyEmptyOnly(i) ==
  /\ IF pipe[i] < PipeCap
     THEN /\ pipe' = [pipe EXCEPT ![i] = @ + 1]
          /\ ipcEdge' = [ipcEdge EXCEPT ![i] = @ \/ pipe[i] = 0]
     ELSE UNCHANGED <<pipe, ipcEdge>>
  /\ Handled(Parent, "listen")
  /\ UNCHANGED <<pc, queue, pending, sigPipe, sigEdge>>

\* The send() to a live child: nonblocking, so a full socketpair loses it.
Notify(i) ==
  /\ IF pipe[i] < PipeCap
     THEN /\ pipe' = [pipe EXCEPT ![i] = @ + 1]
          /\ ipcEdge' = [ipcEdge EXCEPT ![i] = TRUE]
     ELSE UNCHANGED <<pipe, ipcEdge>>
  /\ Handled(Parent, "listen")
  /\ UNCHANGED <<pc, queue, pending, sigPipe, sigEdge>>

\* The send() to a dead child raises SIGPIPE, which nobody handles.
ParentNotify ==
  /\ InBatch(Parent, "listen")
  /\ sub_process_idx' = Succ(Sel)
  /\ recent' = Window(Append(recent, Sel))
  /\ IF Alive(Sel) THEN Notify(Sel) ELSE Dies(Parent, "killed")
  /\ UNCHANGED <<stop, accept_left, envVars>>

\* What one recv() of sig_pipefd returns.
Taken(p) == SubSeq(sigPipe[p], 1, IF Len(sigPipe[p]) < SigBuf THEN Len(sigPipe[p]) ELSE SigBuf)
SigsRead(p) == sigPipe' = [sigPipe EXCEPT ![p] = SubSeq(@, Len(Taken(p)) + 1, Len(@))]
BugStopTakenFirst(p) == Len(Taken(p)) > 0 /\ Taken(p)[1] \in StopSignals
StopTaken(p) == \E k \in 1 .. Len(Taken(p)) : Taken(p)[k] \in StopSignals

\* pid_ of every child is tried; a signal to a process that is gone is lost.
KillTargets == Selectable

ParentSignals ==
  /\ InBatch(Parent, "sig")
  /\ SigsRead(Parent)
  /\ IF StopTaken(Parent)
     THEN /\ stop' = [stop EXCEPT ![Parent] = TRUE]
          /\ pending' = [p \in Procs |-> IF p \in KillTargets /\ Alive(p)
                                         THEN pending[p] \cup {"TERM"} ELSE pending[p]]
     ELSE UNCHANGED <<stop, pending>>
  /\ Handled(Parent, "sig")
  /\ UNCHANGED <<pc, sub_process_idx, accept_left, queue, pipe, ipcEdge, sigEdge, envVars, recent>>

\* Out of the loop; main() closes the listening socket and returns.
ParentExit ==
  /\ AtLoopHead(Parent)
  /\ stop[Parent]
  /\ Dies(Parent, "exited")
  /\ UNCHANGED <<stop, sub_process_idx, accept_left, envVars, recent>>

-----------------------------------------------------------------------------
(* RunChild().                                                              *)

\* epoll_wait(): both descriptors are edge-triggered, and an entry of the ready
\* list that turns out to have nothing to read is not returned.
ChildWait(i) ==
  LET readable == pipe[i] > 0 \/ HangUp(i)
      ready    == SigReady(i) \cup (IF ipcEdge[i] /\ readable THEN {"ipc"} ELSE {}) IN
  /\ AtLoopHead(i)
  /\ ~stop[i]
  /\ ready # {}
  /\ events' = [events EXCEPT ![i] = ready]
  /\ sigEdge' = [sigEdge EXCEPT ![i] = FALSE]
  /\ ipcEdge' = [ipcEdge EXCEPT ![i] = FALSE]
  /\ UNCHANGED <<pc, stop, sub_process_idx, accept_left,
                 queue, pipe, pending, sigPipe, envVars, recent>>

BugChildIpcUnread(i) ==
  /\ InBatch(i, "ipc")
  /\ pipe[i] > 0
  /\ pc' = [pc EXCEPT ![i] = "accept"]
  /\ accept_left' = [accept_left EXCEPT ![i] = MaxAccept]
  /\ Handled(i, "ipc")
  /\ UNCHANGED <<stop, sub_process_idx, kernVars, envVars, recent>>

\* One recv() of the socketpair, up to MsgBatch notifications, then the accept loop.
ChildIpc(i) ==
  /\ InBatch(i, "ipc")
  /\ pipe[i] > 0
  /\ pipe' = [pipe EXCEPT ![i] = IF @ > MsgBatch THEN @ - MsgBatch ELSE 0]
  /\ pc' = [pc EXCEPT ![i] = "accept"]
  /\ accept_left' = [accept_left EXCEPT ![i] = MaxAccept]
  /\ Handled(i, "ipc")
  /\ UNCHANGED <<stop, sub_process_idx, queue, ipcEdge, pending, sigPipe, sigEdge, envVars, recent>>

\* End of file (!ret): the child goes on without a parent.
ChildIpcEof(i) ==
  /\ InBatch(i, "ipc")
  /\ pipe[i] = 0
  /\ Handled(i, "ipc")
  /\ UNCHANGED <<pc, stop, sub_process_idx, accept_left, kernVars, envVars, recent>>

ChildAccept(i) ==
  /\ pc[i] = "accept"
  /\ accept_left[i] > 0
  /\ queue > 0
  /\ i \notin failing
  /\ queue' = queue - 1
  /\ accept_left' = [accept_left EXCEPT ![i] = @ - 1]
  /\ UNCHANGED <<pc, stop, sub_process_idx, events,
                 pipe, ipcEdge, pending, sigPipe, sigEdge, envVars, recent>>

\* A connection leaves the queue and the loop ends with it, whatever turns are
\* left: the client has reset it (ECONNABORTED), or the object of its descriptor
\* is in use and it is closed at once.
ChildAcceptDrops(i) ==
  /\ pc[i] = "accept"
  /\ accept_left[i] > 0
  /\ queue > 0
  /\ i \notin failing
  /\ queue' = queue - 1
  /\ pc' = [pc EXCEPT ![i] = "loop"]
  /\ accept_left' = [accept_left EXCEPT ![i] = 0]
  /\ UNCHANGED <<stop, sub_process_idx, events,
                 pipe, ipcEdge, pending, sigPipe, sigEdge, envVars, recent>>

\* The loop has taken its fill, or accept() fails and leaves the queue as it is:
\* nothing waits (EAGAIN), or the child has no descriptor for it (EMFILE).
ChildAcceptDone(i) ==
  /\ pc[i] = "accept"
  /\ accept_left[i] = 0 \/ queue = 0 \/ i \in failing
  /\ pc' = [pc EXCEPT ![i] = "loop"]
  /\ accept_left' = [accept_left EXCEPT ![i] = 0]
  /\ UNCHANGED <<stop, sub_process_idx, events, kernVars, envVars, recent>>

BugChildSignalsIntOnly(i) ==
  /\ InBatch(i, "sig")
  /\ SigsRead(i)
  /\ stop' = [stop EXCEPT ![i] = @ \/ \E k \in 1 .. Len(Taken(i)) : Taken(i)[k] = "INT"]
  /\ Handled(i, "sig")
  /\ UNCHANGED <<pc, sub_process_idx, accept_left,
                 queue, pipe, ipcEdge, pending, sigEdge, envVars, recent>>

ChildSignals(i) ==
  /\ InBatch(i, "sig")
  /\ SigsRead(i)
  /\ stop' = [stop EXCEPT ![i] = @ \/ StopTaken(i)]
  /\ Handled(i, "sig")
  /\ UNCHANGED <<pc, sub_process_idx, accept_left,
                 queue, pipe, ipcEdge, pending, sigEdge, envVars, recent>>

ChildExit(i) ==
  /\ AtLoopHead(i)
  /\ stop[i]
  /\ Dies(i, "exited")
  /\ UNCHANGED <<stop, sub_process_idx, accept_left, envVars, recent>>

-----------------------------------------------------------------------------
(* Clients, the operator, and the misfortunes of children.                  *)

\* The kernel completes a handshake: the listening socket is open as long as
\* some process has it, and drops what does not fit its backlog.
Connect ==
  /\ queue < Backlog
  /\ \E p \in Procs : Alive(p)
  /\ queue' = queue + 1
  /\ UNCHANGED <<procVars, pipe, ipcEdge, pending, sigPipe, sigEdge, envVars, recent>>

Kill(p) ==
  /\ Alive(p)
  /\ kills < MaxKill
  /\ kills' = kills + 1
  /\ pending' = [pending EXCEPT ![p] = @ \cup {"TERM"}]
  /\ UNCHANGED <<procVars, queue, pipe, ipcEdge, sigPipe, sigEdge, crashes, failing, recent>>

\* Ctrl-C: SIGINT for the whole foreground process group.
CtrlC ==
  /\ \E p \in Procs : Alive(p)
  /\ kills < MaxKill
  /\ kills' = kills + 1
  /\ pending' = [p \in Procs |-> IF Alive(p) THEN pending[p] \cup {"INT"} ELSE pending[p]]
  /\ UNCHANGED <<procVars, queue, pipe, ipcEdge, sigPipe, sigEdge, crashes, failing, recent>>

\* SIGKILL, or what a client makes T do: a writev() that raises SIGPIPE, a request
\* line the parser does not survive.
ChildCrash(i) ==
  /\ Alive(i)
  /\ crashes < MaxCrash
  /\ crashes' = crashes + 1
  /\ Dies(i, "killed")
  /\ UNCHANGED <<stop, sub_process_idx, accept_left, kills, failing, recent>>

\* The descriptors of child i are used up, as they are sooner or later by clients
\* T never closes, or those of the machine, or its memory: accept() fails though
\* connections wait (EMFILE, ENFILE, ENOMEM).
StartsFailing(i) ==
  /\ Alive(i)
  /\ i \in MayFail \ failing
  /\ failing' = failing \cup {i}
  /\ UNCHANGED <<procVars, kernVars, kills, crashes, recent>>

\* Somebody has closed a descriptor; nothing says that anybody ever does.
StopsFailing(i) ==
  /\ i \in failing
  /\ failing' = failing \ {i}
  /\ UNCHANGED <<procVars, kernVars, kills, crashes, recent>>

-----------------------------------------------------------------------------
ParentStep ==
  \/ \E i \in Children : Fork(i)
  \/ ParentSetup \/ ParentWait \/ ParentNotify \/ ParentSignals \/ ParentExit

ChildStep(i) ==
  \/ ChildSetup(i) \/ ChildWait(i) \/ ChildIpc(i) \/ ChildIpcEof(i)
  \/ ChildAccept(i) \/ ChildAcceptDrops(i) \/ ChildAcceptDone(i)
  \/ ChildSignals(i) \/ ChildExit(i)

Environment ==
  \/ Connect \/ CtrlC
  \/ \E p \in Procs : Kill(p)
  \/ \E i \in Children : ChildCrash(i) \/ StartsFailing(i) \/ StopsFailing(i)

Next ==
  \/ ParentStep
  \/ \E i \in Children : ChildStep(i)
  \/ \E p \in Procs : DeliverSignal(p)
  \/ Environment

Spec == Init /\ [][Next]_vars

\* The scheduler runs every process and the kernel delivers every signal; that
\* clients connect, operators kill, children crash, run out of descriptors or get
\* one back is never assumed.
FairSpec ==
  /\ Spec
  /\ WF_vars(ParentStep)
  /\ \A i \in Children : WF_vars(ChildStep(i))
  /\ \A p \in Procs : WF_vars(DeliverSignal(p))

-----------------------------------------------------------------------------
(* Properties.                                                              *)

Running(p) == pc[p] \in {"loop", "accept"}

\* The deadlock the nonblocking socketpair was introduced to avoid: a child
\* whose socketpair is full, so that nothing the parent sends can wake it any
\* more, always has a wake-up on its way.  (ProcessPool.h:89-97, 191, 279-291;
\* docs: the analysis of the blocking socketpair.)
NoWedge ==
  \A i \in Children :
    Running(i) /\ pipe[i] = PipeCap => ipcEdge[i] \/ "ipc" \in events[i]

\* The parent spreads connections evenly: of any NumProc consecutive selections
\* no two are the same child, and none is the parent itself -- the assertion
\* that is commented out at ProcessPool.h:186.
RoundRobin ==
  /\ \A k \in 1 .. Len(recent) : recent[k] \in Children
  /\ \A k, l \in 1 .. Len(recent) : recent[k] = recent[l] => k = l

\* Once the parent has decided to stop, no live child can miss it: the child has
\* stopped too, or a stop signal is on its way to it, or lies in its signal pipe
\* with a wake-up.  (ProcessPool.h:212-220, 340-363; Process.cc:42-47.)
StopOnItsWay(i) ==
  \/ stop[i]
  \/ pending[i] \cap StopSignals # {}
  \/ /\ \E k \in 1 .. Len(sigPipe[i]) : sigPipe[i][k] \in StopSignals
     /\ sigEdge[i] \/ "sig" \in events[i]

ChildrenDoomed ==
  stop[Parent] => \A i \in Children : Alive(i) => StopOnItsWay(i)

\* A parent that stops takes the whole pool down.  (ProcessPool.h:208-222, 240,
\* 353-357, 379-385.)
Shutdown == stop[Parent] ~> \A p \in Procs : ~Alive(p)

\* SIGTERM and SIGINT, routed through the event loop, end every process that has
\* set up its handlers, in the middle of a batch as well as at epoll_wait().
\* (Process.cc:34-47; ProcessPool.h:194-229, 340-363.)
TermHandled ==
  [](\A p \in Procs :
       HandlerInstalled(p) /\ pending[p] \cap StopSignals # {} => <>(~Alive(p)))

-----------------------------------------------------------------------------
(* What the pool as a whole is for: it serves the listening socket.         *)

SocketOpen == \E p \in Procs : Alive(p)

Listener == INSTANCE ListeningSocket WITH waiting <- queue, open <- SocketOpen

\* Connections leave the queue one by one, each taken by one accept(), and are
\* dropped only when the last process of the pool is gone: a process that dies
\* takes no waiting connection with it.  (ProcessPool.h:297-311; MainMultiProc.cc:42.)
ServesListener == Listener!Spec

\* And they do leave it, if there is a child left that can accept in the end: as
\* long as connections are waiting, some child takes one.  A child that has no
\* descriptor loses its turns of the round robin, not the connections: the parent
\* watches level-triggered, and comes to the next child.  (ProcessPool.h:143-145,
\* 173-193, 279-336.)  That every child keeps failing is not excluded: see
\* KeepsReceiving of ReqStatMach for how T loses descriptors.
CanAccept(i) == Alive(i) /\ i \notin failing

ListenerServed == (\E i \in Children : <>[]CanAccept(i)) => Listener!Served

=============================================================================

------------------------------ MODULE FirstPool ------------------------------
(***************************************************************************)
(* The pool's first version, src/examples/multitasking/processpool.h: the   *)
(* same division of work as in ProcessPool, without the class Process.      *)
(*                                                                         *)
(* Here the parent has no entry of its own in m_sub_process[], so that the  *)
(* child that ProcessPool calls i is entry i - 1, and the round robin runs  *)
(* over 0 .. NumProc - 1.  The steps that are the same code under other      *)
(* names are those of ProcessPool; what is written out below is what the    *)
(* rewriting changed.                                                      *)
(***************************************************************************)
EXTENDS ProcessPool

Entries == 0 .. NumProc - 1

Child(k) == k + 1    \* the process whose entry is m_sub_process[k]

FirstInit == Init

-----------------------------------------------------------------------------
(* The constructor and setup_epoll(), setup_sig_pipe().                     *)

FirstFork(i)       == Fork(i)
FirstParentSetup   == ParentSetup
FirstChildSetup(i) == ChildSetup(i)

FirstDeliverSignal(p) == DeliverSignal(p)

-----------------------------------------------------------------------------
(* run_parent().                                                            *)

FirstParentWait == ParentWait

\* m_pid # -1.
Entered == {k \in Entries : pc[Child(k)] # "unborn"}

\* How far the do-while loop walks from sub_process_idx to entry k.
Walk(k) == (k + NumProc - sub_process_idx) % NumProc

FirstSel == IF Entered = {} THEN sub_process_idx
            ELSE CHOOSE k \in Entered : \A l \in Entered : Walk(k) <= Walk(l)

BugAfter(k) == IF k = NumProc - 1 THEN 1 % NumProc ELSE k + 1
After(k) == (k + 1) % NumProc

FirstParentNotify ==
  /\ InBatch(Parent, "listen")
  /\ sub_process_idx' = After(FirstSel)
  /\ recent' = Window(Append(recent, Child(FirstSel)))
  /\ IF Alive(Child(FirstSel)) THEN Notify(Child(FirstSel)) ELSE Dies(Parent, "killed")
  /\ UNCHANGED <<stop, accept_left, envVars>>

BugFirstKillTargets == {Child(k) : k \in Entered \ {NumProc - 1}}

\* The loop over m_sub_process[] that sends SIGTERM.
FirstKillTargets == {Child(k) : k \in Entered}

FirstParentSignals ==
  /\ InBatch(Parent, "sig")
  /\ SigsRead(Parent)
  /\ IF StopTaken(Parent)
     THEN /\ stop' = [stop EXCEPT ![Parent] = TRUE]
          /\ pending' = [p \in Procs |-> IF p \in FirstKillTargets /\ Alive(p)
                                         THEN pending[p] \cup {"TERM"} ELSE pending[p]]
     ELSE UNCHANGED <<stop, pending>>
  /\ Handled(Parent, "sig")
  /\ UNCHANGED <<pc, sub_process_idx, accept_left, queue, pipe, ipcEdge, sigEdge, envVars, recent>>

FirstParentExit == ParentExit

-----------------------------------------------------------------------------
(* run_child().                                                             *)

FirstChildWait(i)    == ChildWait(i)
FirstChildIpc(i)     == ChildIpc(i) \/ ChildIpcEof(i)
FirstChildAccept(i)  == ChildAccept(i) \/ ChildAcceptDrops(i) \/ ChildAcceptDone(i)
FirstChildSignals(i) == ChildSignals(i)
FirstChildExit(i)    == ChildExit(i)

-----------------------------------------------------------------------------
FirstParentStep ==
  \/ \E i \in Children : FirstFork(i)
  \/ FirstParentSetup \/ FirstParentWait
  \/ FirstParentNotify \/ FirstParentSignals \/ FirstParentExit

FirstChildStep(i) ==
  \/ FirstChildSetup(i) \/ FirstChildWait(i) \/ FirstChildIpc(i)
  \/ FirstChildAccept(i) \/ FirstChildSignals(i) \/ FirstChildExit(i)

FirstNext ==
  \/ FirstParentStep
  \/ \E i \in Children : FirstChildStep(i)
  \/ \E p \in Procs : FirstDeliverSignal(p)
  \/ Environment

FirstSpec == FirstInit /\ [][FirstNext]_vars

-----------------------------------------------------------------------------
(* The entry with which ProcessPool's round robin would resume: its entry 0 *)
(* is the parent's, and the loop goes on from there to the first child.     *)

PoolIdx == IF sub_process_idx = 0 THEN 0 ELSE Child(sub_process_idx)

Pool == INSTANCE ProcessPool WITH sub_process_idx <- PoolIdx

\* The first version does what the rewritten pool does: the same children are
\* notified in the same order, the same processes are killed, whatever signals
\* and crashes come in between.  (processpool.h:259-302 against ProcessPool.h:
\* 171-220, where the parent got an entry of its own that the loop skips.)
ImplementsPool == Pool!Spec

=============================================================================

--------------------------- MODULE FirstPoolProofs ---------------------------
(***************************************************************************)
(* The first version of the pool implements the second, and so has what is  *)
(* proved of the second.                                                   *)
(***************************************************************************)
EXTENDS FirstPool, TLAPS

P == INSTANCE ProcessPoolProofs WITH sub_process_idx <- PoolIdx

LEMMA EntryFacts ==
  /\ NumProc \in Nat /\ NumProc > 0
  /\ Parent = 0 /\ Procs = 0 .. NumProc /\ Children = 1 .. NumProc
  /\ \A k \in Entries : Child(k) \in Children /\ After(k) \in Entries
  /\ \A k \in Entries : After(k) = IF k = NumProc - 1 THEN 0 ELSE k + 1
  BY PoolAssumption, SMT DEF Parent, Procs, Children, Entries, Child, After

LEMMA Assumed == P!PoolAssumption
  BY PoolAssumption DEF P!PoolAssumption

\* The definitions that ProcessPoolProofs has through EXTENDS, and those of the
\* instance the refinement is stated with.
LEMMA SamePool ==
  /\ P!Init <=> Pool!Init
  /\ P!Next <=> Pool!Next
  /\ UNCHANGED P!vars <=> UNCHANGED Pool!vars
  <1>1. P!Init <=> Pool!Init
    BY DEF P!Init, P!Parent, P!Children, P!Procs, Pool!Init, Pool!Parent,
        Pool!Children, Pool!Procs
  <1>2. P!ParentStep <=> Pool!ParentStep
    BY DEF P!Parent, P!Children, P!Procs, P!Signals, P!StopSignals, P!procVars,
        P!kernVars, P!envVars, P!vars, P!Alive, P!Writers, P!HangUp,
        P!QueueWithout, P!Dies, P!AtLoopHead, P!InBatch, P!Handled, P!SigReady,
        P!Taken, P!SigsRead, P!StopTaken, P!Fork, P!ParentSetup, P!ParentWait,
        P!Succ, P!Selectable, P!Steps, P!Sel, P!Window, P!Notify,
        P!ParentNotify, P!KillTargets, P!ParentSignals, P!ParentExit,
        P!ParentStep, Pool!Parent, Pool!Children, Pool!Procs, Pool!Signals,
        Pool!StopSignals, Pool!procVars, Pool!kernVars, Pool!envVars,
        Pool!vars, Pool!Alive, Pool!Writers, Pool!HangUp, Pool!QueueWithout,
        Pool!Dies, Pool!AtLoopHead, Pool!InBatch, Pool!Handled, Pool!SigReady,
        Pool!Taken, Pool!SigsRead, Pool!StopTaken, Pool!Fork, Pool!ParentSetup,
        Pool!ParentWait, Pool!Succ, Pool!Selectable, Pool!Steps, Pool!Sel,
        Pool!Window, Pool!Notify, Pool!ParentNotify, Pool!KillTargets,
        Pool!ParentSignals, Pool!ParentExit, Pool!ParentStep
  <1>3. ASSUME NEW i \in P!Children PROVE P!ChildStep(i) <=> Pool!ChildStep(i)
    BY DEF P!Parent, P!Children, P!Procs, P!Signals, P!StopSignals, P!procVars,
        P!kernVars, P!envVars, P!vars, P!Alive, P!Writers, P!HangUp,
        P!QueueWithout, P!Dies, P!AtLoopHead, P!InBatch, P!Handled, P!SigReady,
        P!Taken, P!SigsRead, P!StopTaken, P!ChildSetup, P!ChildWait,
        P!ChildIpc, P!ChildIpcEof, P!ChildAccept, P!ChildAcceptDrops,
        P!ChildAcceptDone, P!ChildSignals, P!ChildExit, P!ChildStep,
        Pool!Parent, Pool!Children, Pool!Procs, Pool!Signals, Pool!StopSignals,
        Pool!procVars, Pool!kernVars, Pool!envVars, Pool!vars, Pool!Alive,
        Pool!Writers, Pool!HangUp, Pool!QueueWithout, Pool!Dies,
        Pool!AtLoopHead, Pool!InBatch, Pool!Handled, Pool!SigReady, Pool!Taken,
        Pool!SigsRead, Pool!StopTaken, Pool!ChildSetup, Pool!ChildWait,
        Pool!ChildIpc, Pool!ChildIpcEof, Pool!ChildAccept,
        Pool!ChildAcceptDrops, Pool!ChildAcceptDone, Pool!ChildSignals,
        Pool!ChildExit, Pool!ChildStep
  <1>4. ASSUME NEW p \in P!Procs PROVE P!DeliverSignal(p) <=> Pool!DeliverSignal(p)
    BY DEF P!Parent, P!Children, P!Procs, P!Signals, P!StopSignals, P!procVars,
        P!kernVars, P!envVars, P!vars, P!Alive, P!Writers, P!HangUp,
        P!QueueWithout, P!Dies, P!HandlerInstalled, P!SignalHandled,
        P!SignalDefault, P!DeliverSignal, Pool!Parent, Pool!Children,
        Pool!Procs, Pool!Signals, Pool!StopSignals, Pool!procVars,
        Pool!kernVars, Pool!envVars, Pool!vars, Pool!Alive, Pool!Writers,
        Pool!HangUp, Pool!QueueWithout, Pool!Dies, Pool!HandlerInstalled,
        Pool!SignalHandled, Pool!SignalDefault, Pool!DeliverSignal
  <1>5. P!Environment <=> Pool!Environment
    BY DEF P!Parent, P!Children, P!Procs, P!Signals, P!StopSignals, P!procVars,
        P!kernVars, P!envVars, P!vars, P!Alive, P!Writers, P!HangUp,
        P!QueueWithout, P!Dies, P!Connect, P!Kill, P!CtrlC, P!ChildCrash,
        P!StartsFailing, P!StopsFailing, P!Environment, Pool!Parent,
        Pool!Children, Pool!Procs, Pool!Signals, Pool!StopSignals,
        Pool!procVars, Pool!kernVars, Pool!envVars, Pool!vars, Pool!Alive,
        Pool!Writers, Pool!HangUp, Pool!QueueWithout, Pool!Dies, Pool!Connect,
        Pool!Kill, Pool!CtrlC, Pool!ChildCrash, Pool!StartsFailing,
        Pool!StopsFailing, Pool!Environment
  <1>6. P!Children = Pool!Children /\ P!Procs = Pool!Procs
    BY DEF P!Children, Pool!Children, P!Procs, Pool!Procs
  <1>7. UNCHANGED P!vars <=> UNCHANGED Pool!vars
    BY DEF P!procVars, P!kernVars, P!envVars, P!vars, Pool!procVars, Pool!kernVars,
           Pool!envVars, Pool!vars
  <1> QED
    BY <1>1, <1>2, <1>3, <1>4, <1>5, <1>6, <1>7 DEF P!Next, Pool!Next

IdxInv == P!TypeInv /\ sub_process_idx \in Entries

SameIdx == sub_process_idx' = sub_process_idx

-----------------------------------------------------------------------------
(* The round robin: both loops stop at the same child and resume at the one *)
(* after it.                                                               *)

\* Every entry is filled by the time the parent selects, so that the walk ends
\* where it starts.
LEMMA FirstSelIsIdx ==
  ASSUME sub_process_idx \in Entries, \A i \in Children : pc[i] # "unborn"
  PROVE  FirstSel = sub_process_idx
  <1>1. Entered = Entries
    BY EntryFacts DEF Entered
  <1>2. Walk(sub_process_idx) = 0
    BY EntryFacts, SMT DEF Walk, Entries
  <1>3. ASSUME NEW k \in Entries, k # sub_process_idx PROVE Walk(k) \in Nat /\ Walk(k) > 0
    <2> DEFINE n == k + NumProc - sub_process_idx
    <2>1. n \in Int /\ n > 0 /\ n < 2 * NumProc /\ n # NumProc
      BY EntryFacts, <1>3, SMT DEF Entries
    <2>2. n % NumProc = IF n < NumProc THEN n ELSE n - NumProc
      <3> HIDE DEF n
      <3> QED
        BY <2>1, EntryFacts, SMT
    <2> QED
      BY <2>1, <2>2, EntryFacts, SMT DEF Walk
  <1>4. sub_process_idx \in Entered /\ \A l \in Entered : Walk(sub_process_idx) <= Walk(l)
    BY <1>1, <1>2, <1>3
  <1>5. ASSUME NEW k \in Entered, \A l \in Entered : Walk(k) <= Walk(l)
        PROVE  k = sub_process_idx
    <2>1. Walk(k) <= 0
      BY <1>4, <1>5, <1>2
    <2> QED
      BY <2>1, <1>1, <1>3
  <1>6. FirstSel = CHOOSE k \in Entered : \A l \in Entered : Walk(k) <= Walk(l)
    BY <1>4 DEF FirstSel
  <1> HIDE DEF Entered, Walk
  <1> QED
    BY <1>4, <1>5, <1>6

LEMMA SelMaps ==
  ASSUME IdxInv, \A i \in Children : pc[i] # "unborn"
  PROVE  /\ P!Sel = Child(FirstSel)
         /\ Child(FirstSel) \in Children
         /\ After(FirstSel) \in Entries
         /\ (sub_process_idx' = After(FirstSel) => PoolIdx' = P!Succ(P!Sel))
  <1>1. FirstSel = sub_process_idx /\ sub_process_idx \in Entries
    BY FirstSelIsIdx DEF IdxInv
  <1>2. P!TypeOK /\ \A i \in P!Children : pc[i] # "unborn"
    BY DEF IdxInv, P!TypeInv, Children, P!Children
  <1>3. P!Sel = P!First(PoolIdx)
    BY <1>2, P!SelIsFirst, Assumed
  <1>4. P!Sel = Child(sub_process_idx)
    BY <1>1, <1>3, EntryFacts, SMT DEF P!First, P!Parent, PoolIdx, Child, Entries
  <1>5. Child(FirstSel) \in Children /\ After(FirstSel) \in Entries
    BY <1>1, EntryFacts
  <1>6. ASSUME sub_process_idx' = After(FirstSel) PROVE PoolIdx' = P!Succ(P!Sel)
    BY <1>1, <1>4, <1>6, EntryFacts, SMT DEF PoolIdx, P!Succ, Child, Entries
  <1> QED
    BY <1>1, <1>4, <1>5, <1>6

LEMMA NotifyMaps ==
  ASSUME IdxInv, FirstParentNotify
  PROVE  P!ParentNotify /\ sub_process_idx' \in Entries
  <1>1. \A i \in Children : pc[i] # "unborn"
    BY DEF FirstParentNotify, InBatch, IdxInv, P!TypeInv, P!AllBorn, P!Children, Children,
           P!Parent, Parent
  <1>2. /\ P!Sel = Child(FirstSel)
        /\ PoolIdx' = P!Succ(P!Sel)
        /\ After(FirstSel) \in Entries
    BY <1>1, SelMaps DEF FirstParentNotify
  <1> DEFINE s == Child(FirstSel)
  <1>3. /\ InBatch(Parent, "listen")
        /\ recent' = Window(Append(recent, s))
        /\ IF Alive(s) THEN Notify(s) ELSE Dies(Parent, "killed")
        /\ UNCHANGED <<stop, accept_left, envVars>>
    BY DEF FirstParentNotify
  <1>4. /\ P!InBatch(P!Parent, "listen")
        /\ recent' = P!Window(Append(recent, s))
        /\ IF P!Alive(s) THEN P!Notify(s) ELSE P!Dies(P!Parent, "killed")
        /\ UNCHANGED <<stop, accept_left, P!envVars>>
    <2> HIDE DEF s
    <2> QED
      BY <1>3 DEF Parent, Procs, Children, procVars, kernVars, envVars, vars, Dies, Alive,
                   Writers, QueueWithout, InBatch, Window, Notify, Handled,
                   P!Parent, P!Procs, P!Children, P!procVars, P!kernVars,
                   P!envVars, P!vars, P!Dies, P!Alive, P!Writers,
                   P!QueueWithout, P!InBatch, P!Window, P!Notify, P!Handled
  <1>5. P!ParentNotify
    BY <1>2, <1>4 DEF P!ParentNotify
  <1> QED
    BY <1>2, <1>5 DEF FirstParentNotify

-----------------------------------------------------------------------------
(* The steps that are the same code under other names.                      *)

LEMMA ParentMaps ==
  ASSUME IdxInv, FirstParentStep
  PROVE  P!ParentStep /\ sub_process_idx' \in Entries
  <1> USE DEF IdxInv
  <1>1. ASSUME NEW i \in Children, FirstFork(i) PROVE P!Fork(i) /\ SameIdx
    BY <1>1 DEF SameIdx, PoolIdx, FirstFork, Parent, Procs, Children, procVars, kernVars, envVars, vars, Fork, P!Parent,
           P!Procs, P!Children, P!procVars, P!kernVars, P!envVars, P!vars,
           P!Fork
  <1>2. ASSUME FirstParentSetup
        PROVE  P!ParentSetup /\ sub_process_idx' = 0
    BY <1>2 DEF PoolIdx, FirstParentSetup, Parent, Procs, Children, procVars, kernVars, envVars, vars, ParentSetup,
           P!Parent, P!Procs, P!Children, P!procVars, P!kernVars, P!envVars,
           P!vars, P!ParentSetup
  <1>3. ASSUME FirstParentWait PROVE P!ParentWait /\ SameIdx
    BY <1>3 DEF SameIdx, PoolIdx, FirstParentWait, Parent, Procs, Children, procVars, kernVars, envVars, vars, ParentWait,
           SigReady, AtLoopHead, InBatch, Handled, P!Parent, P!Procs,
           P!Children, P!procVars, P!kernVars, P!envVars, P!vars,
           P!ParentWait, P!SigReady, P!AtLoopHead, P!InBatch, P!Handled
  <1>4. CASE FirstParentNotify
    BY <1>4, NotifyMaps DEF P!ParentStep
  <1>5. ASSUME FirstParentSignals PROVE P!ParentSignals /\ SameIdx
    <2>1. FirstKillTargets = KillTargets
      <3>1. \A k \in Entries : Child(k) \in Procs /\ Child(k) # Parent
        BY EntryFacts, SMT DEF Child, Entries
      <3>2. \A j \in Procs : j # Parent => j - 1 \in Entries /\ j = Child(j - 1)
        BY EntryFacts, SMT DEF Child, Entries
      <3> HIDE DEF Entries, Child
      <3>3. ASSUME NEW j \in KillTargets PROVE j \in FirstKillTargets
        BY <3>2, <3>3 DEF KillTargets, Selectable, FirstKillTargets, Entered
      <3>4. ASSUME NEW j \in FirstKillTargets PROVE j \in KillTargets
        BY <3>1, <3>4 DEF KillTargets, Selectable, FirstKillTargets, Entered
      <3> QED
        BY <3>3, <3>4
    <2>2. ParentSignals /\ SameIdx
      <3> HIDE DEF FirstKillTargets, KillTargets
      <3> QED
        BY <1>5, <2>1 DEF FirstParentSignals, ParentSignals, SameIdx
    <2> QED
      BY <2>2 DEF SameIdx, PoolIdx, Parent, Procs, Children, procVars, kernVars, envVars, vars, ParentSignals,
           SigsRead, Taken, StopTaken, KillTargets, Selectable, StopSignals,
           Alive, SigReady, AtLoopHead, InBatch, Handled, P!Parent, P!Procs,
           P!Children, P!procVars, P!kernVars, P!envVars, P!vars,
           P!ParentSignals, P!SigsRead, P!Taken, P!StopTaken, P!KillTargets,
           P!Selectable, P!StopSignals, P!Alive, P!SigReady, P!AtLoopHead,
           P!InBatch, P!Handled
  <1>6. ASSUME FirstParentExit PROVE P!ParentExit /\ SameIdx
    BY <1>6 DEF SameIdx, PoolIdx, FirstParentExit, Parent, Procs, Children, procVars, kernVars, envVars, vars, Dies, Alive,
           Writers, QueueWithout, ParentExit, SigReady, AtLoopHead, InBatch,
           Handled, P!Parent, P!Procs, P!Children, P!procVars, P!kernVars,
           P!envVars, P!vars, P!Dies, P!Alive, P!Writers, P!QueueWithout,
           P!ParentExit, P!SigReady, P!AtLoopHead, P!InBatch, P!Handled
  <1>7. 0 \in Entries
    BY EntryFacts DEF Entries
  <1>8. Children = P!Children
    BY DEF Children, P!Children
  <1> QED
    BY <1>1, <1>2, <1>3, <1>4, <1>5, <1>6, <1>7, <1>8
    DEF FirstParentStep, P!ParentStep, SameIdx

LEMMA ChildMaps ==
  ASSUME NEW i \in Children, FirstChildStep(i)
  PROVE  P!ChildStep(i) /\ SameIdx
  <1>1. ChildStep(i) /\ SameIdx
    BY DEF FirstChildStep, FirstChildSetup, FirstChildWait, FirstChildIpc, FirstChildAccept,
           FirstChildSignals, FirstChildExit, ChildStep, SameIdx, Parent, Procs, Children, procVars, kernVars, envVars, vars, SigReady, HangUp,
           AtLoopHead, InBatch, Handled, ChildSetup, ChildWait, ChildIpc,
           ChildIpcEof, ChildAccept, ChildAcceptDrops, ChildAcceptDone, ChildSignals, ChildExit,
           SigsRead, Taken, StopTaken, StopSignals, Signals
  <1> QED
    BY <1>1 DEF SameIdx, PoolIdx, Parent, Procs, Children, procVars, kernVars, envVars, vars, Dies, Alive,
           Writers, QueueWithout, SigReady, HangUp, AtLoopHead, InBatch,
           Handled, ChildStep, ChildSetup, ChildWait, ChildIpc, ChildIpcEof,
           ChildAccept, ChildAcceptDrops, ChildAcceptDone, ChildSignals, ChildExit, SigsRead,
           Taken, StopTaken, StopSignals, Signals, P!Parent, P!Procs,
           P!Children, P!procVars, P!kernVars, P!envVars, P!vars, P!Dies,
           P!Alive, P!Writers, P!QueueWithout, P!SigReady, P!HangUp,
           P!AtLoopHead, P!InBatch, P!Handled, P!ChildStep, P!ChildSetup,
           P!ChildWait, P!ChildIpc, P!ChildIpcEof, P!ChildAccept,
           P!ChildAcceptDrops, P!ChildAcceptDone, P!ChildSignals, P!ChildExit, P!SigsRead,
           P!Taken, P!StopTaken, P!StopSignals, P!Signals

LEMMA SignalMaps ==
  ASSUME NEW p \in Procs, FirstDeliverSignal(p)
  PROVE  P!DeliverSignal(p) /\ SameIdx
  BY DEF FirstDeliverSignal, SameIdx, PoolIdx, Parent, Procs, Children, procVars, kernVars, envVars, vars, Dies, Alive,
           Writers, QueueWithout, SignalHandled, SignalDefault,
           HandlerInstalled, DeliverSignal, Signals, StopSignals, P!Parent,
           P!Procs, P!Children, P!procVars, P!kernVars, P!envVars, P!vars,
           P!Dies, P!Alive, P!Writers, P!QueueWithout, P!SignalHandled,
           P!SignalDefault, P!HandlerInstalled, P!DeliverSignal, P!Signals,
           P!StopSignals

LEMMA EnvironmentMaps ==
  ASSUME Environment
  PROVE  P!Environment /\ SameIdx
  <1>1. CASE Connect
    BY <1>1 DEF SameIdx, PoolIdx, Parent, Procs, Children, procVars, kernVars,
           envVars, vars, Alive, Connect, Environment, P!Parent, P!Procs,
           P!Children, P!procVars, P!kernVars, P!envVars, P!vars, P!Alive,
           P!Connect, P!Environment
  <1>2. CASE CtrlC \/ \E p \in Procs : Kill(p)
    BY <1>2 DEF SameIdx, PoolIdx, Parent, Procs, Children, procVars, kernVars,
           envVars, vars, Alive, CtrlC, Kill, Environment, P!Parent, P!Procs,
           P!Children, P!procVars, P!kernVars, P!envVars, P!vars, P!Alive,
           P!CtrlC, P!Kill, P!Environment
  <1>3. CASE \E i \in Children : ChildCrash(i)
    BY <1>3 DEF SameIdx, PoolIdx, Parent, Procs, Children, procVars, kernVars,
           envVars, vars, Alive, Writers, QueueWithout, Dies, ChildCrash,
           Environment, P!Parent, P!Procs, P!Children, P!procVars, P!kernVars,
           P!envVars, P!vars, P!Alive, P!Writers, P!QueueWithout, P!Dies,
           P!ChildCrash, P!Environment
  <1>4. CASE \E i \in Children : StartsFailing(i) \/ StopsFailing(i)
    BY <1>4 DEF SameIdx, PoolIdx, Parent, Procs, Children, procVars, kernVars,
           envVars, vars, Alive, StartsFailing, StopsFailing, Environment,
           P!Parent, P!Procs, P!Children, P!procVars, P!kernVars, P!envVars,
           P!vars, P!Alive, P!StartsFailing, P!StopsFailing, P!Environment
  <1> QED
    BY <1>1, <1>2, <1>3, <1>4 DEF Environment

LEMMA StepMaps ==
  ASSUME IdxInv, [FirstNext]_vars
  PROVE  [P!Next]_P!vars /\ IdxInv'
  <1>1. Children = P!Children /\ Procs = P!Procs
    BY DEF Children, P!Children, Procs, P!Procs
  <1>2. ASSUME FirstNext PROVE P!Next /\ sub_process_idx' \in Entries
    BY <1>1, <1>2, ParentMaps, ChildMaps, SignalMaps, EnvironmentMaps
    DEF FirstNext, P!Next, IdxInv, SameIdx
  <1>3. ASSUME UNCHANGED vars PROVE UNCHANGED P!vars /\ sub_process_idx' \in Entries
    BY <1>3 DEF IdxInv, PoolIdx, Parent, Procs, Children, procVars, kernVars, envVars, vars, P!Parent, P!Procs,
           P!Children, P!procVars, P!kernVars, P!envVars, P!vars
  <1>4. P!Next => P!TypeInv'
    BY <1>1, Assumed, P!ParentType, P!ChildType, P!SignalType, P!EnvironmentType DEF P!Next, IdxInv
  <1>5. UNCHANGED P!vars => P!TypeInv'
    BY Assumed, P!StutterType DEF IdxInv
  <1> QED
    BY <1>2, <1>3, <1>4, <1>5 DEF IdxInv

LEMMA InitMaps == FirstInit => P!Init /\ IdxInv
  <1>1. FirstInit => P!Init /\ sub_process_idx = 0
    BY DEF FirstInit, PoolIdx, Init, P!Init, Parent, P!Parent, Procs, P!Procs, Children, P!Children
  <1>2. P!Init => P!TypeInv
    BY P!InitType, Assumed
  <1> QED
    BY <1>1, <1>2, EntryFacts DEF IdxInv, Entries

LEMMA Refines == FirstSpec => P!Spec
  <1>1. FirstSpec => [](IdxInv)
    BY InitMaps, StepMaps, PTL DEF FirstSpec
  <1> QED
    BY <1>1, InitMaps, StepMaps, PTL DEF FirstSpec, P!Spec

-----------------------------------------------------------------------------
\* The first version of the pool does what the second does, for every number of
\* children, capacity and backlog.  (processpool.h:221-461, ProcessPool.h:131-386.)
THEOREM FirstImplementsPool == FirstSpec => ImplementsPool
  <1>1. P!Init => Pool!Init
    BY SamePool
  <1>2. [P!Next]_P!vars => [Pool!Next]_Pool!vars
    BY SamePool
  <1> QED
    BY <1>1, <1>2, Refines, PTL DEF ImplementsPool, P!Spec, Pool!Spec

\* So in the first version too a child with a full socketpair has a wake-up on
\* its way.  (processpool.h:121-131, 275, 358-413.)
THEOREM FirstNeverWedged == FirstSpec => []NoWedge
  <1>1. NoWedge <=> P!NoWedge
    BY DEF NoWedge, P!NoWedge, Running, P!Running, Children, P!Children
  <1> QED
    BY <1>1, Refines, Assumed, P!NeverWedged, PTL

\* And no child misses the parent's decision to stop.  (processpool.h:296-302,
\* 415-438.)
THEOREM FirstStopReachesAll == FirstSpec => []ChildrenDoomed
  <1>1. ChildrenDoomed <=> P!ChildrenDoomed
    BY DEF ChildrenDoomed, P!ChildrenDoomed, StopOnItsWay, P!StopOnItsWay, StopSignals,
           P!StopSignals, Alive, P!Alive, Children, P!Children, Parent, P!Parent
  <1> QED
    BY <1>1, Refines, Assumed, P!NoChildMissesTheStop, PTL

\* And the notifications go round.  (processpool.h:259-270.)
THEOREM FirstFairRound == FirstSpec => []RoundRobin
  <1>1. RoundRobin <=> P!RoundRobin
    BY DEF RoundRobin, P!RoundRobin, Children, P!Children
  <1> QED
    BY <1>1, Refines, Assumed, P!FairRound, PTL

=============================================================================

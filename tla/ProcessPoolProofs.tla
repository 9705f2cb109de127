-------------------------- MODULE ProcessPoolProofs --------------------------
(***************************************************************************)
(* What holds of the process pool for every number of children, every       *)
(* backlog, socketpair capacity and batch size, and any number of signals   *)
(* and crashes: the invariants of ProcessPool, proved of Spec.              *)
(***************************************************************************)
EXTENDS ProcessPool, SequenceTheorems, FiniteSetTheorems, TLAPS

-----------------------------------------------------------------------------
(* Lemmas about the operators.                                              *)

\* The indices of the processes and the round robin's successor.
LEMMA ProcFacts ==
  /\ Parent \in Procs /\ Parent \notin Children
  /\ Children \subseteq Procs /\ NumProc \in Children
  /\ \A p \in Procs : p # Parent => p \in Children
  /\ \A k \in Procs : Succ(k) \in Procs
  BY PoolAssumption DEF Parent, Procs, Children, Succ

\* Everybody who can be selected is forked by the time the parent selects.
AllBorn == pc[Parent] \in {"setup", "loop"} => \A i \in Children : pc[i] # "unborn"

First(k) == IF k = Parent THEN 1 ELSE k

\* The do-while loop of the parent stops at sub_process_idx, or one further when
\* that is the parent itself.
LEMMA SelIsFirst ==
  ASSUME TypeOK, \A i \in Children : pc[i] # "unborn"
  PROVE  Sel = First(sub_process_idx) /\ Sel \in Children
  <1> DEFINE f == First(sub_process_idx)
  <1>1. NumProc \in Nat /\ NumProc > 0 /\ sub_process_idx \in 0 .. NumProc
    BY PoolAssumption DEF TypeOK, Procs
  <1>2. f \in Children
    BY <1>1 DEF First, Children, Parent
  <1>3. Selectable = Children
    BY DEF Selectable, Procs, Children, Parent
  <1>4. \A j \in Children : Steps(f) <= Steps(j)
    BY <1>1 DEF Steps, First, Children, Parent
  <1>5. \A j \in Children : Steps(j) <= Steps(f) => j = f
    BY <1>1, <1>2 DEF Steps, First, Children, Parent
  <1>6. Sel = CHOOSE j \in Selectable : \A k \in Selectable : Steps(j) <= Steps(k)
    BY <1>2, <1>3 DEF Sel
  <1>7. Sel = f
    BY <1>2, <1>3, <1>4, <1>5, <1>6
  <1> QED
    BY <1>2, <1>7

\* A recv() of the signal pipe splits it: nothing is made up, nothing reordered.
LEMMA TakenSplits ==
  ASSUME TypeOK, NEW p \in Procs
  PROVE  /\ Taken(p) \in Seq(Signals)
         /\ Len(Taken(p)) \in 0 .. Len(sigPipe[p])
         /\ Len(sigPipe[p]) > 0 => Len(Taken(p)) > 0
         /\ \A k \in 1 .. Len(Taken(p)) : Taken(p)[k] = sigPipe[p][k]
         /\ SubSeq(sigPipe[p], Len(Taken(p)) + 1, Len(sigPipe[p])) \in Seq(Signals)
  <1> DEFINE s == sigPipe[p]
             n == IF Len(s) < SigBuf THEN Len(s) ELSE SigBuf
  <1>1. s \in Seq(Signals)
    BY DEF TypeOK
  <1>2. Len(s) \in Nat /\ \A k \in 1 .. Len(s) : s[k] \in Signals
    BY <1>1, LenProperties, ElementOfSeq
  <1>3. n \in 0 .. Len(s) /\ (Len(s) > 0 => n > 0)
    BY <1>2, PoolAssumption
  <1> HIDE DEF n
  <1>4. /\ SubSeq(s, 1, n) \in Seq(Signals)
        /\ Len(SubSeq(s, 1, n)) = n
        /\ \A k \in 1 .. n : SubSeq(s, 1, n)[k] = s[k]
    <2>1. \A k \in 1 .. n : s[k] \in Signals
      BY <1>2, <1>3
    <2>2. /\ SubSeq(s, 1, n) \in Seq(Signals)
          /\ Len(SubSeq(s, 1, n)) = IF 1 <= n THEN n - 1 + 1 ELSE 0
          /\ \A k \in 1 .. n - 1 + 1 : SubSeq(s, 1, n)[k] = s[1 + k - 1]
      <3>1. 1 \in Int /\ n \in Int
        BY <1>2, <1>3
      <3> QED
        BY <2>1, <3>1, SubSeqProperties
    <2> QED
      BY <1>2, <1>3, <2>2
  <1>5. \A m \in 1 .. Len(s) + 1 : SubSeq(s, m, Len(s)) \in Seq(Signals)
    <2> TAKE m \in 1 .. Len(s) + 1
    <2>1. \A k \in m .. Len(s) : s[k] \in Signals
      BY <1>2
    <2>2. m \in Int /\ Len(s) \in Int
      BY <1>2
    <2> QED
      BY <2>1, <2>2, SubSeqProperties
  <1>6. Taken(p) = SubSeq(s, 1, n)
    BY DEF Taken, n
  <1> QED
    BY <1>2, <1>3, <1>4, <1>5, <1>6

-----------------------------------------------------------------------------
(* Type correctness.                                                        *)

TypeInv == TypeOK /\ AllBorn

\* A death leaves everything well-typed.
LEMMA DiesType ==
  ASSUME TypeOK, NEW p \in Procs, NEW how \in {"exited", "killed"}, Dies(p, how)
  PROVE  /\ pc' \in [Procs -> PcParent \cup PcChild]
         /\ pc'[Parent] \in PcParent
         /\ \A i \in Children : pc'[i] \in PcChild
         /\ events' \in [Procs -> SUBSET {"listen", "ipc", "sig"}]
         /\ queue' \in 0 .. Backlog
         /\ pipe' \in [Children -> 0 .. PipeCap]
         /\ ipcEdge' \in [Children -> BOOLEAN]
         /\ pending' \in [Procs -> SUBSET Signals]
         /\ sigPipe' \in [Procs -> Seq(Signals)]
         /\ sigEdge' \in [Procs -> BOOLEAN]
  <1> USE ProcFacts, PoolAssumption DEF TypeOK
  <1>1. /\ pc' \in [Procs -> PcParent \cup PcChild]
        /\ pc'[Parent] \in PcParent
        /\ \A i \in Children : pc'[i] \in PcChild
    BY DEF Dies, PcParent, PcChild
  <1>2. events' \in [Procs -> SUBSET {"listen", "ipc", "sig"}]
    BY DEF Dies
  <1>3. queue' \in 0 .. Backlog
    BY DEF Dies, QueueWithout
  <1>4. pipe' \in [Children -> 0 .. PipeCap] /\ ipcEdge' \in [Children -> BOOLEAN]
    BY DEF Dies
  <1>5. pending' \in [Procs -> SUBSET Signals]
    BY DEF Dies, Signals
  <1>6. sigPipe' \in [Procs -> Seq(Signals)]
    <2>1. <<>> \in Seq(Signals)
      BY EmptySeq
    <2> QED
      BY <2>1 DEF Dies
  <1>7. sigEdge' \in [Procs -> BOOLEAN]
    BY DEF Dies
  <1> QED
    BY <1>1, <1>2, <1>3, <1>4, <1>5, <1>6, <1>7

\* A death is nobody's birth, and takes no one back to the constructor.
LEMMA DiesBorn ==
  ASSUME TypeInv, NEW p \in Procs, NEW how \in {"exited", "killed"}, Dies(p, how)
  PROVE  AllBorn'
  BY ProcFacts DEF TypeInv, TypeOK, AllBorn, Dies

LEMMA InitType == Init => TypeInv
  <1> SUFFICES ASSUME Init PROVE TypeInv
    OBVIOUS
  <1>1. <<>> \in Seq(Signals) /\ <<>> \in Seq(Procs)
    BY EmptySeq
  <1> QED
    BY <1>1, ProcFacts, PoolAssumption DEF Init, TypeInv, TypeOK, AllBorn, PcParent, PcChild

LEMMA ParentType ==
  ASSUME TypeInv, ParentStep
  PROVE  TypeInv'
  <1> USE ProcFacts, PoolAssumption DEF TypeInv, TypeOK
  <1>1. ASSUME NEW i \in Children, Fork(i) PROVE TypeInv'
    <2>1. TypeOK'
      BY <1>1 DEF Fork, kernVars, envVars, PcParent, PcChild
    <2>2. AllBorn'
      <3>1. CASE i = NumProc
        <4>1. \A j \in Children : j < i \/ j = i
          BY <3>1 DEF Children
        <4> QED
          BY <1>1, <4>1 DEF Fork, AllBorn
      <3>2. CASE i # NumProc
        BY <1>1, <3>2 DEF Fork, AllBorn
      <3> QED
        BY <3>1, <3>2
    <2> QED
      BY <2>1, <2>2
  <1>2. CASE ParentSetup
    BY <1>2 DEF ParentSetup, AllBorn, kernVars, envVars, PcParent, PcChild
  <1>3. CASE ParentWait
    BY <1>3 DEF ParentWait, SigReady, AllBorn, envVars
  <1>4. CASE ParentNotify
    <2>1. Sel \in Children
      BY <1>4, SelIsFirst DEF ParentNotify, InBatch, AllBorn
    <2>2. recent' \in Seq(Procs)
      <3>1. /\ Append(recent, Sel) \in Seq(Procs)
            /\ Append(recent, Sel) # <<>>
        <4>1. recent \in Seq(Procs) /\ Sel \in Procs
          BY <2>1
        <4> QED
          BY ONLY <4>1, AppendProperties
      <3>2. Tail(Append(recent, Sel)) \in Seq(Procs)
        BY <3>1, HeadTailProperties
      <3> QED
        BY <1>4, <3>1, <3>2 DEF ParentNotify, Window
    <2>3. sub_process_idx' \in Procs
      BY <1>4, <2>1 DEF ParentNotify
    <2>4. CASE Alive(Sel)
      <3>1. Notify(Sel)
        BY <1>4, <2>4 DEF ParentNotify
      <3>2. pipe' \in [Children -> 0 .. PipeCap] /\ ipcEdge' \in [Children -> BOOLEAN]
        <4>1. CASE pipe[Sel] < PipeCap
          <5>1. pipe[Sel] + 1 \in 0 .. PipeCap
            BY <2>1, <4>1
          <5>2. /\ pipe' = [pipe EXCEPT ![Sel] = pipe[Sel] + 1]
                /\ ipcEdge' = [ipcEdge EXCEPT ![Sel] = TRUE]
            BY <3>1, <4>1 DEF Notify
          <5>3. pipe \in [Children -> 0 .. PipeCap] /\ ipcEdge \in [Children -> BOOLEAN]
            OBVIOUS
          <5> QED
            BY ONLY <5>1, <5>2, <5>3
        <4>2. CASE ~(pipe[Sel] < PipeCap)
          BY <3>1, <4>2 DEF Notify
        <4> QED
          BY <4>1, <4>2
      <3>3. events' \in [Procs -> SUBSET {"listen", "ipc", "sig"}]
        BY <3>1 DEF Notify, Handled
      <3> QED
        BY <1>4, <2>2, <2>3, <3>1, <3>2, <3>3 DEF ParentNotify, Notify, AllBorn, envVars
    <2>5. CASE ~Alive(Sel)
      <3>1. Dies(Parent, "killed")
        BY <1>4, <2>5 DEF ParentNotify
      <3>2. AllBorn'
        BY <3>1, DiesBorn
      <3>3. TypeOK'
        BY <1>4, <2>2, <2>3, <3>1, DiesType DEF ParentNotify, envVars
      <3> QED
        BY <3>2, <3>3
    <2> QED
      BY <2>4, <2>5
  <1>5. CASE ParentSignals
    <2>1. sigPipe' \in [Procs -> Seq(Signals)]
      BY <1>5, TakenSplits DEF ParentSignals, SigsRead
    <2>2. pending' \in [Procs -> SUBSET Signals]
      <3>1. CASE StopTaken(Parent)
        <4>1. \A p \in Procs : pending[p] \cup {"TERM"} \in SUBSET Signals
          BY DEF Signals
        <4> QED
          BY <1>5, <3>1, <4>1 DEF ParentSignals
      <3>2. CASE ~StopTaken(Parent)
        BY <1>5, <3>2 DEF ParentSignals
      <3> QED
        BY <3>1, <3>2
    <2>3. stop' \in [Procs -> BOOLEAN] /\ events' \in [Procs -> SUBSET {"listen", "ipc", "sig"}]
      BY <1>5 DEF ParentSignals, Handled
    <2> QED
      BY <1>5, <2>1, <2>2, <2>3 DEF ParentSignals, AllBorn, envVars
  <1>6. CASE ParentExit
    <2>1. Dies(Parent, "exited")
      BY <1>6 DEF ParentExit
    <2>2. AllBorn'
      BY <2>1, DiesBorn
    <2> QED
      BY <1>6, <2>1, <2>2, DiesType DEF ParentExit, envVars
  <1> QED
    BY <1>1, <1>2, <1>3, <1>4, <1>5, <1>6 DEF ParentStep

LEMMA ChildType ==
  ASSUME TypeInv, NEW i \in Children, ChildStep(i)
  PROVE  TypeInv'
  <1> USE ProcFacts, PoolAssumption DEF TypeInv, TypeOK
  <1>1. CASE ChildSetup(i)
    BY <1>1 DEF ChildSetup, AllBorn, envVars, PcParent, PcChild
  <1>2. CASE ChildWait(i)
    BY <1>2 DEF ChildWait, SigReady, AllBorn, envVars
  <1>3. CASE ChildIpc(i)
    <2>1. pipe' \in [Children -> 0 .. PipeCap]
      BY <1>3 DEF ChildIpc
    <2>2. accept_left' \in [Children -> 0 .. MaxAccept]
      BY <1>3 DEF ChildIpc
    <2> QED
      BY <1>3, <2>1, <2>2 DEF ChildIpc, Handled, AllBorn, envVars, PcParent, PcChild
  <1>4. CASE ChildIpcEof(i)
    BY <1>4 DEF ChildIpcEof, Handled, AllBorn, kernVars, envVars
  <1>5. CASE ChildAccept(i)
    <2>1. accept_left' \in [Children -> 0 .. MaxAccept]
      BY <1>5 DEF ChildAccept
    <2>2. queue' \in 0 .. Backlog
      BY <1>5 DEF ChildAccept
    <2> QED
      BY <1>5, <2>1, <2>2 DEF ChildAccept, AllBorn, envVars
  <1>6. CASE ChildAcceptDone(i)
    <2>1. accept_left' \in [Children -> 0 .. MaxAccept]
      BY <1>6 DEF ChildAcceptDone
    <2> QED
      BY <1>6, <2>1 DEF ChildAcceptDone, AllBorn, kernVars, envVars, PcParent, PcChild
  <1>7. CASE ChildSignals(i)
    <2>1. sigPipe' \in [Procs -> Seq(Signals)]
      BY <1>7, TakenSplits DEF ChildSignals, SigsRead
    <2>2. stop' \in [Procs -> BOOLEAN] /\ events' \in [Procs -> SUBSET {"listen", "ipc", "sig"}]
      <3>1. StopTaken(i) \in BOOLEAN
        BY DEF StopTaken
      <3> QED
        BY <1>7, <3>1 DEF ChildSignals, Handled
    <2> QED
      BY <1>7, <2>1, <2>2 DEF ChildSignals, AllBorn, envVars
  <1>8. CASE ChildExit(i)
    <2>1. Dies(i, "exited")
      BY <1>8 DEF ChildExit
    <2>2. AllBorn'
      BY <2>1, DiesBorn
    <2> QED
      BY <1>8, <2>1, <2>2, DiesType DEF ChildExit, envVars
  <1>9. CASE ChildAcceptDrops(i)
    <2>1. accept_left' \in [Children -> 0 .. MaxAccept]
      BY <1>9 DEF ChildAcceptDrops
    <2>2. queue' \in 0 .. Backlog
      BY <1>9 DEF ChildAcceptDrops
    <2> QED
      BY <1>9, <2>1, <2>2 DEF ChildAcceptDrops, AllBorn, envVars, PcParent, PcChild
  <1> QED
    BY <1>1, <1>2, <1>3, <1>4, <1>5, <1>6, <1>7, <1>8, <1>9 DEF ChildStep

LEMMA SignalType ==
  ASSUME TypeInv, NEW p \in Procs, DeliverSignal(p)
  PROVE  TypeInv'
  <1> USE ProcFacts, PoolAssumption DEF TypeInv, TypeOK
  <1>1. ASSUME NEW s \in Signals, SignalHandled(p, s) PROVE TypeInv'
    <2>1. sigPipe' \in [Procs -> Seq(Signals)]
      <3>1. Append(sigPipe[p], s) \in Seq(Signals)
        BY AppendProperties
      <3> QED
        BY <1>1, <3>1 DEF SignalHandled
    <2> QED
      BY <1>1, <2>1 DEF SignalHandled, procVars, AllBorn, envVars
  <1>2. ASSUME NEW s \in Signals, SignalDefault(p, s) PROVE TypeInv'
    <2>1. CASE s \in StopSignals
      <3>1. Dies(p, "killed")
        BY <1>2, <2>1 DEF SignalDefault
      <3>2. AllBorn'
        BY <3>1, DiesBorn
      <3> QED
        BY <1>2, <3>1, <3>2, DiesType DEF SignalDefault, envVars
    <2>2. CASE s \notin StopSignals
      <3>1. pending' \in [Procs -> SUBSET Signals]
        BY <1>2, <2>2 DEF SignalDefault
      <3> QED
        BY <1>2, <2>2, <3>1 DEF SignalDefault, AllBorn, envVars
    <2> QED
      BY <2>1, <2>2
  <1> QED
    BY <1>1, <1>2 DEF DeliverSignal

\* A child that runs out of descriptors, or gets one back, does nothing thereby.
LEMMA FailingQuiet ==
  ASSUME NEW i \in Children, StartsFailing(i) \/ StopsFailing(i)
  PROVE  UNCHANGED <<procVars, kernVars, kills, crashes, recent>>
  BY DEF StartsFailing, StopsFailing

LEMMA EnvironmentType ==
  ASSUME TypeInv, Environment
  PROVE  TypeInv'
  <1> USE ProcFacts, PoolAssumption DEF TypeInv, TypeOK
  <1>1. CASE Connect
    <2>1. queue' \in 0 .. Backlog
      BY <1>1 DEF Connect
    <2> QED
      BY <1>1, <2>1 DEF Connect, procVars, envVars, AllBorn
  <1>2. CASE CtrlC
    <2>1. pending' \in [Procs -> SUBSET Signals]
      BY <1>2 DEF CtrlC, Signals
    <2> QED
      <3>1. kills' \in 0 .. MaxKill
        BY <1>2 DEF CtrlC
      <3> QED
        BY <1>2, <2>1, <3>1 DEF CtrlC, procVars, AllBorn
  <1>3. ASSUME NEW p \in Procs, Kill(p) PROVE TypeInv'
    <2>1. pending' \in [Procs -> SUBSET Signals]
      BY <1>3 DEF Kill, Signals
    <2> QED
      <3>1. kills' \in 0 .. MaxKill
        BY <1>3 DEF Kill
      <3> QED
        BY <1>3, <2>1, <3>1 DEF Kill, procVars, AllBorn
  <1>4. ASSUME NEW i \in Children, ChildCrash(i) PROVE TypeInv'
    <2>1. Dies(i, "killed")
      BY <1>4 DEF ChildCrash
    <2>2. AllBorn'
      BY <2>1, DiesBorn
    <2> QED
      <3>1. crashes' \in 0 .. MaxCrash
        BY <1>4 DEF ChildCrash
      <3> QED
        BY <1>4, <2>1, <2>2, <3>1, DiesType DEF ChildCrash
  <1>5. ASSUME NEW i \in Children, StartsFailing(i) \/ StopsFailing(i) PROVE TypeInv'
    <2>1. failing' \subseteq MayFail
      <3>1. failing \subseteq MayFail
        BY Zenon
      <3>2. \/ i \in MayFail /\ failing' = failing \cup {i}
            \/ failing' = failing \ {i}
        BY <1>5, Zenon DEF StartsFailing, StopsFailing
      <3> QED
        BY ONLY <3>1, <3>2
    <2> QED
      BY <1>5, <2>1, FailingQuiet DEF procVars, kernVars, AllBorn
  <1> QED
    BY <1>1, <1>2, <1>3, <1>4, <1>5 DEF Environment

LEMMA StutterType == TypeInv /\ UNCHANGED vars => TypeInv'
  BY DEF TypeInv, TypeOK, AllBorn, vars, procVars, kernVars, envVars

\* Every variable keeps its type, and the parent never selects before all its
\* children are forked.
THEOREM TypeCorrect == Spec => [](TypeOK /\ AllBorn)
  <1>1. TypeInv /\ [Next]_vars => TypeInv'
    BY ParentType, ChildType, SignalType, EnvironmentType, StutterType DEF Next
  <1> QED
    BY InitType, <1>1, PTL DEF Spec, TypeInv

-----------------------------------------------------------------------------
(* No full socketpair without a wake-up.                                    *)

\* A death wakes some of the others and silences only its own.
LEMMA DiesWedge ==
  ASSUME TypeInv, NoWedge, NEW p \in Procs, NEW how \in {"exited", "killed"}, Dies(p, how)
  PROVE  NoWedge'
  <1> SUFFICES ASSUME NEW i \in Children, Running(i)', (pipe[i] = PipeCap)'
               PROVE  (ipcEdge[i] \/ "ipc" \in events[i])'
    BY DEF NoWedge
  <1>1. i # p /\ Running(i)
    BY ProcFacts DEF TypeInv, TypeOK, Dies, Running
  <1>2. pipe[i] = PipeCap
    BY <1>1 DEF Dies
  <1>3. ipcEdge[i] \/ "ipc" \in events[i]
    BY <1>1, <1>2 DEF NoWedge
  <1>4. Alive(i)
    BY <1>1 DEF Running, Alive
  <1>5. ipcEdge[i] => ipcEdge'[i]
    BY <1>1, <1>4 DEF Dies
  <1>6. events'[i] = events[i]
    BY <1>1, ProcFacts DEF TypeInv, TypeOK, Dies
  <1> QED
    BY <1>3, <1>5, <1>6

LEMMA ParentWedge ==
  ASSUME TypeInv, NoWedge, ParentStep
  PROVE  NoWedge'
  <1> USE ProcFacts DEF TypeInv, TypeOK
  <1>1. ASSUME NEW i \in Children, Fork(i) PROVE NoWedge'
    BY <1>1 DEF Fork, kernVars, NoWedge, Running
  <1>2. CASE ParentSetup
    BY <1>2 DEF ParentSetup, kernVars, NoWedge, Running
  <1>3. CASE ParentWait
    BY <1>3 DEF ParentWait, NoWedge, Running
  <1>4. CASE ParentNotify
    <2>1. CASE Alive(Sel)
      <3>1. Notify(Sel)
        BY <1>4, <2>1 DEF ParentNotify
      <3>2. Sel \in Children
        BY <1>4, SelIsFirst DEF ParentNotify, InBatch, AllBorn
      <3>3. \A i \in Children : events'[i] = events[i]
        BY <3>1 DEF Notify, Handled
      <3>4. \A i \in Children : (ipcEdge[i] => ipcEdge'[i]) /\ (pipe'[i] # pipe[i] => ipcEdge'[i])
        <4>1. CASE pipe[Sel] < PipeCap
          BY <3>1, <3>2, <4>1 DEF Notify
        <4>2. CASE ~(pipe[Sel] < PipeCap)
          BY <3>1, <4>2 DEF Notify
        <4> QED
          BY <4>1, <4>2
      <3> QED
        BY <3>1, <3>3, <3>4 DEF Notify, NoWedge, Running
    <2>2. CASE ~Alive(Sel)
      BY <1>4, <2>2, DiesWedge DEF ParentNotify
    <2> QED
      BY <2>1, <2>2
  <1>5. CASE ParentSignals
    <2>1. \A i \in Children : events'[i] = events[i]
      BY <1>5 DEF ParentSignals, Handled
    <2> QED
      BY <1>5, <2>1 DEF ParentSignals, NoWedge, Running
  <1>6. CASE ParentExit
    BY <1>6, DiesWedge DEF ParentExit
  <1> QED
    BY <1>1, <1>2, <1>3, <1>4, <1>5, <1>6 DEF ParentStep

LEMMA ChildWedge ==
  ASSUME TypeInv, NoWedge, NEW i \in Children, ChildStep(i)
  PROVE  NoWedge'
  <1> USE ProcFacts, PoolAssumption DEF TypeInv, TypeOK
  <1>1. CASE ChildSetup(i)
    <2>1. pipe[i] = PipeCap => ipcEdge'[i]
      <3>1. pipe[i] = PipeCap => pipe[i] > 0
        OBVIOUS
      <3>2. ipcEdge'[i] = (pipe[i] > 0 \/ HangUp(i))
        BY <1>1, Zenon DEF ChildSetup
      <3> QED
        BY <3>1, <3>2
    <2>2. \A j \in Children : j # i => ipcEdge'[j] = ipcEdge[j] /\ pc'[j] = pc[j]
      BY <1>1 DEF ChildSetup
    <2> QED
      BY <1>1, <2>1, <2>2 DEF ChildSetup, NoWedge, Running
  <1>2. CASE ChildWait(i)
    <2>1. pipe[i] = PipeCap => pipe[i] > 0
      OBVIOUS
    <2>2. pipe[i] = PipeCap /\ ipcEdge[i] => "ipc" \in events'[i]
      BY <1>2, <2>1 DEF ChildWait
    <2>3. ~("ipc" \in events[i]) /\ Running(i)
      BY <1>2 DEF ChildWait, AtLoopHead, Running
    <2>4. \A j \in Children : j # i => ipcEdge'[j] = ipcEdge[j] /\ events'[j] = events[j]
      BY <1>2 DEF ChildWait
    <2>5. pc' = pc /\ pipe' = pipe
      BY <1>2 DEF ChildWait
    <2> QED
      BY <2>2, <2>3, <2>4, <2>5 DEF NoWedge, Running
  <1>3. CASE ChildIpc(i)
    <2>1. pipe'[i] # PipeCap
      BY <1>3 DEF ChildIpc
    <2>2. \A j \in Children : j # i => events'[j] = events[j] /\ pc'[j] = pc[j] /\ pipe'[j] = pipe[j]
      BY <1>3 DEF ChildIpc, Handled
    <2> QED
      BY <1>3, <2>1, <2>2 DEF ChildIpc, NoWedge, Running
  <1>4. CASE ChildIpcEof(i)
    <2>1. pipe[i] # PipeCap
      BY <1>4 DEF ChildIpcEof
    <2>2. \A j \in Children : j # i => events'[j] = events[j]
      BY <1>4 DEF ChildIpcEof, Handled
    <2> QED
      BY <1>4, <2>1, <2>2 DEF ChildIpcEof, kernVars, NoWedge, Running
  <1>5. CASE ChildAccept(i)
    BY <1>5 DEF ChildAccept, NoWedge, Running
  <1>6. CASE ChildAcceptDone(i)
    BY <1>6 DEF ChildAcceptDone, kernVars, NoWedge, Running
  <1>7. CASE ChildSignals(i)
    <2>1. \A j \in Children : "ipc" \in events[j] => "ipc" \in events'[j]
      BY <1>7 DEF ChildSignals, Handled
    <2> QED
      BY <1>7, <2>1 DEF ChildSignals, NoWedge, Running
  <1>8. CASE ChildExit(i)
    BY <1>8, DiesWedge DEF ChildExit
  <1>9. CASE ChildAcceptDrops(i)
    BY <1>9 DEF ChildAcceptDrops, NoWedge, Running
  <1> QED
    BY <1>1, <1>2, <1>3, <1>4, <1>5, <1>6, <1>7, <1>8, <1>9 DEF ChildStep

LEMMA OutsideWedge ==
  ASSUME TypeInv, NoWedge,
         \/ \E p \in Procs : DeliverSignal(p)
         \/ Environment
         \/ UNCHANGED vars
  PROVE  NoWedge'
  <1> USE ProcFacts
  <1>1. ASSUME NEW p \in Procs, NEW s \in Signals, SignalHandled(p, s) PROVE NoWedge'
    BY <1>1 DEF SignalHandled, procVars, NoWedge, Running
  <1>2. ASSUME NEW p \in Procs, NEW s \in Signals, SignalDefault(p, s) PROVE NoWedge'
    <2>1. CASE s \in StopSignals
      BY <1>2, <2>1, DiesWedge DEF SignalDefault
    <2>2. CASE s \notin StopSignals
      BY <1>2, <2>2 DEF SignalDefault, NoWedge, Running
    <2> QED
      BY <2>1, <2>2
  <1>3. ASSUME NEW i \in Children, ChildCrash(i) PROVE NoWedge'
    BY <1>3, DiesWedge DEF ChildCrash
  <1>4. CASE Connect \/ CtrlC \/ \E p \in Procs : Kill(p)
    BY <1>4 DEF Connect, CtrlC, Kill, procVars, NoWedge, Running
  <1>5. CASE UNCHANGED vars
    BY <1>5 DEF vars, procVars, kernVars, NoWedge, Running
  <1>6. ASSUME NEW i \in Children, StartsFailing(i) \/ StopsFailing(i) PROVE NoWedge'
    BY <1>6, FailingQuiet DEF procVars, kernVars, NoWedge, Running
  <1> QED
    BY <1>1, <1>2, <1>3, <1>4, <1>5, <1>6 DEF DeliverSignal, Environment

\* A child whose socketpair is full always has a wake-up on its way, for every
\* capacity of the socketpair and every number of notifications a recv() takes.
THEOREM NeverWedged == Spec => []NoWedge
  <1>1. Init => NoWedge
    BY ProcFacts DEF Init, NoWedge, Running
  <1>2. TypeInv /\ NoWedge /\ [Next]_vars => NoWedge'
    BY ParentWedge, ChildWedge, OutsideWedge DEF Next
  <1>3. Spec => []TypeInv
    BY TypeCorrect DEF TypeInv
  <1> QED
    BY <1>1, <1>2, <1>3, PTL DEF Spec

-----------------------------------------------------------------------------
(* A parent that stops dooms its children.                                  *)

\* Children have no children: the only signals they ever see tell them to stop,
\* so that a recv() that takes any byte takes a reason to stop.
OnlyStops(i) ==
  /\ pending[i] \subseteq StopSignals
  /\ \A k \in 1 .. Len(sigPipe[i]) : sigPipe[i][k] \in StopSignals

\* The parent only stops in its event loop, after the last fork.
StopsAfterForks == stop[Parent] => pc[Parent] # "fork"

DoomInv ==
  /\ TypeInv
  /\ \A i \in Children : OnlyStops(i)
  /\ StopsAfterForks
  /\ ChildrenDoomed

LEMMA InitDoom == Init => DoomInv
  <1> SUFFICES ASSUME Init PROVE DoomInv
    OBVIOUS
  <1>1. \A i \in Children : pending[i] = {} /\ sigPipe[i] = <<>>
    BY ProcFacts DEF Init
  <1>2. Len(<<>>) = 0
    OBVIOUS
  <1>3. ~stop[Parent]
    BY ProcFacts DEF Init
  <1> QED
    BY <1>1, <1>2, <1>3, InitType DEF DoomInv, OnlyStops, StopsAfterForks, ChildrenDoomed

\* A death changes nothing about the survivors' signals, and the children of a
\* dead child learn nothing.
LEMMA DiesDoom ==
  ASSUME DoomInv, NEW p \in Procs, NEW how \in {"exited", "killed"}, Dies(p, how),
         stop' = stop, TypeInv'
  PROVE  DoomInv'
  <1> USE ProcFacts DEF DoomInv, TypeInv, TypeOK
  <1>1. \A i \in Children : i # p => /\ pending'[i] = pending[i]
                                     /\ sigPipe'[i] = sigPipe[i]
                                     /\ sigEdge'[i] = sigEdge[i]
                                     /\ events'[i] = events[i]
                                     /\ pc'[i] = pc[i]
    BY DEF Dies
  <1>2. pending'[p] = {} /\ sigPipe'[p] = <<>> /\ ~Alive(p)'
    BY DEF Dies, Alive
  <1>3. Len(<<>>) = 0
    OBVIOUS
  <1>4. ASSUME NEW i \in Children PROVE OnlyStops(i)'
    <2>1. CASE i = p
      <3>1. Len(sigPipe'[i]) = 0 /\ pending'[i] = {}
        BY <1>2, <1>3, <2>1
      <3>2. \A k \in 1 .. Len(sigPipe'[i]) : FALSE
        BY <3>1
      <3> QED
        BY <3>1, <3>2 DEF OnlyStops
    <2>2. CASE i # p
      BY <1>1, <2>2 DEF OnlyStops
    <2> QED
      BY <2>1, <2>2
  <1>5. StopsAfterForks'
    BY DEF Dies, StopsAfterForks
  <1>6. ChildrenDoomed'
    <2> SUFFICES ASSUME stop[Parent], NEW i \in Children, Alive(i)' PROVE StopOnItsWay(i)'
      BY DEF ChildrenDoomed
    <2>1. i # p
      BY <1>2
    <2>2. Alive(i)
      BY <1>1, <2>1 DEF Alive
    <2>3. StopOnItsWay(i)
      BY <2>2 DEF ChildrenDoomed
    <2> QED
      BY <1>1, <2>1, <2>3 DEF StopOnItsWay
  <1> QED
    BY <1>4, <1>5, <1>6

\* A step that leaves the signals of the children and the parent's stop alone,
\* and brings nobody to life while the parent has stopped, keeps them doomed.
LEMMA QuietDoom ==
  ASSUME DoomInv, TypeInv',
         stop[Parent]' = stop[Parent],
         \A i \in Children : /\ stop'[i] = stop[i]
                             /\ pending'[i] = pending[i]
                             /\ sigPipe'[i] = sigPipe[i]
                             /\ sigEdge'[i] = sigEdge[i]
                             /\ "sig" \in events[i] => "sig" \in events'[i]
                             /\ stop[Parent] /\ Alive(i)' => Alive(i),
         pc'[Parent] = "fork" => pc[Parent] = "fork"
  PROVE  DoomInv'
  <1>1. \A i \in Children : OnlyStops(i)'
    BY DEF DoomInv, OnlyStops
  <1>2. StopsAfterForks'
    BY DEF DoomInv, StopsAfterForks
  <1>3. ChildrenDoomed'
    <2> SUFFICES ASSUME stop[Parent], NEW i \in Children, Alive(i)' PROVE StopOnItsWay(i)'
      BY DEF ChildrenDoomed
    <2>1. StopOnItsWay(i)
      BY DEF DoomInv, ChildrenDoomed
    <2> QED
      BY <2>1 DEF StopOnItsWay
  <1> QED
    BY <1>1, <1>2, <1>3 DEF DoomInv

LEMMA ParentDoom ==
  ASSUME DoomInv, ParentStep, TypeInv'
  PROVE  DoomInv'
  <1> USE ProcFacts DEF DoomInv, TypeInv, TypeOK
  <1>1. ASSUME NEW i \in Children, Fork(i) PROVE DoomInv'
    <2>1. ~stop[Parent]
      BY <1>1 DEF Fork, StopsAfterForks
    <2>2. pc'[Parent] = "fork" => pc[Parent] = "fork"
      BY <1>1 DEF Fork
    <2> HIDE DEF DoomInv, TypeInv, TypeOK
    <2> QED
      BY <1>1, <2>1, <2>2, QuietDoom DEF Fork, kernVars
  <1>2. CASE ParentSetup
    <2>1. \A i \in Children : Alive(i)' => Alive(i)
      BY <1>2 DEF ParentSetup, Alive
    <2>2. pc'[Parent] # "fork"
      BY <1>2 DEF ParentSetup
    <2> HIDE DEF DoomInv, TypeInv, TypeOK
    <2> QED
      BY <1>2, <2>1, <2>2, QuietDoom DEF ParentSetup, kernVars
  <1>3. CASE ParentWait
    <2>1. \A i \in Children : events'[i] = events[i] /\ sigEdge'[i] = sigEdge[i]
      BY <1>3 DEF ParentWait
    <2> HIDE DEF DoomInv, TypeInv, TypeOK
    <2> QED
      BY <1>3, <2>1, QuietDoom DEF ParentWait, Alive
  <1>4. CASE ParentNotify
    <2>1. CASE Alive(Sel)
      <3>1. \A i \in Children : events'[i] = events[i]
        BY <1>4, <2>1 DEF ParentNotify, Notify, Handled
      <3> HIDE DEF DoomInv, TypeInv, TypeOK
      <3> QED
        BY <1>4, <2>1, <3>1, QuietDoom DEF ParentNotify, Notify, Alive
    <2>2. CASE ~Alive(Sel)
      BY <1>4, <2>2, DiesDoom DEF ParentNotify
    <2> QED
      BY <2>1, <2>2
  <1>5. CASE ParentSignals
    <2>1. \A i \in Children : /\ events'[i] = events[i]
                              /\ sigPipe'[i] = sigPipe[i]
      BY <1>5 DEF ParentSignals, Handled, SigsRead
    <2>2. CASE ~StopTaken(Parent)
      <3> HIDE DEF DoomInv, TypeInv, TypeOK
      <3> QED
        BY <1>5, <2>1, <2>2, QuietDoom DEF ParentSignals, Alive
    <2>3. CASE StopTaken(Parent)
      <3>1. pc[Parent] = "loop" /\ pc' = pc
        BY <1>5 DEF ParentSignals, InBatch
      <3>2. ASSUME NEW i \in Children PROVE pending'[i] = IF Alive(i) THEN pending[i] \cup {"TERM"} ELSE pending[i]
        <4>1. i \in KillTargets
          BY <3>1 DEF AllBorn, KillTargets, Selectable
        <4>2. pending' = [p \in Procs |-> IF p \in KillTargets /\ Alive(p)
                                          THEN pending[p] \cup {"TERM"} ELSE pending[p]]
          BY <1>5, <2>3 DEF ParentSignals
        <4> QED
          BY <4>1, <4>2
      <3>3. ASSUME NEW i \in Children PROVE OnlyStops(i)'
        <4>1. OnlyStops(i) /\ sigPipe'[i] = sigPipe[i]
          BY <2>1
        <4>2. pending'[i] \subseteq StopSignals
          BY <3>2, <4>1 DEF OnlyStops, StopSignals
        <4> QED
          BY <4>1, <4>2 DEF OnlyStops
      <3>4. ASSUME NEW i \in Children, Alive(i)' PROVE StopOnItsWay(i)'
        <4>1. "TERM" \in pending'[i]
          BY <3>1, <3>2, <3>4 DEF Alive
        <4> QED
          BY <4>1 DEF StopOnItsWay, StopSignals
      <3> QED
        BY <3>1, <3>3, <3>4 DEF StopsAfterForks, ChildrenDoomed
    <2> QED
      BY <2>2, <2>3
  <1>6. CASE ParentExit
    BY <1>6, DiesDoom DEF ParentExit
  <1> QED
    BY <1>1, <1>2, <1>3, <1>4, <1>5, <1>6 DEF ParentStep

LEMMA HasByte ==
  ASSUME NEW p, \E k \in 1 .. Len(sigPipe[p]) : sigPipe[p][k] \in StopSignals
  PROVE  sigPipe[p] # <<>>
  <1>1. Len(<<>>) = 0
    OBVIOUS
  <1>2. sigPipe[p] = <<>> => \A k \in 1 .. Len(sigPipe[p]) : FALSE
    BY <1>1
  <1> QED
    BY <1>2

\* The bytes a child reads, and those it leaves, are all reasons to stop.
LEMMA ReadDoom ==
  ASSUME TypeOK, NEW i \in Children, OnlyStops(i), SigsRead(i)
  PROVE  /\ \A k \in 1 .. Len(sigPipe'[i]) : sigPipe'[i][k] \in StopSignals
         /\ sigPipe[i] # <<>> => StopTaken(i)
  <1> DEFINE s == sigPipe[i]
             t == SubSeq(s, Len(Taken(i)) + 1, Len(s))
  <1>1. /\ s \in Seq(Signals) /\ Len(s) \in Nat
        /\ \A k \in 1 .. Len(s) : s[k] \in StopSignals
        /\ s # <<>> => Len(s) > 0
    BY ProcFacts, LenProperties, EmptySeq DEF TypeOK, OnlyStops
  <1>2. /\ Len(Taken(i)) \in 0 .. Len(s)
        /\ Len(s) > 0 => Len(Taken(i)) > 0
        /\ \A k \in 1 .. Len(Taken(i)) : Taken(i)[k] = s[k]
    BY ProcFacts, TakenSplits
  <1>3. sigPipe'[i] = t
    BY ProcFacts DEF TypeOK, SigsRead
  <1>4. t \in Seq(StopSignals)
    <2>1. \A k \in Len(Taken(i)) + 1 .. Len(s) : s[k] \in StopSignals
      BY <1>1, <1>2
    <2>2. Len(Taken(i)) + 1 \in Int /\ Len(s) \in Int
      BY <1>1, <1>2
    <2> QED
      BY <2>1, <2>2, SubSeqProperties
  <1>5. \A k \in 1 .. Len(t) : t[k] \in StopSignals
    BY <1>4, ElementOfSeq
  <1>6. s # <<>> => StopTaken(i)
    <2> SUFFICES ASSUME s # <<>> PROVE StopTaken(i)
      OBVIOUS
    <2>1. 1 \in 1 .. Len(Taken(i)) /\ Taken(i)[1] \in StopSignals
      BY <1>1, <1>2
    <2> QED
      BY <2>1 DEF StopTaken
  <1> QED
    BY <1>3, <1>5, <1>6

LEMMA ChildDoom ==
  ASSUME DoomInv, NEW i \in Children, ChildStep(i), TypeInv'
  PROVE  DoomInv'
  <1> USE ProcFacts DEF DoomInv, TypeInv, TypeOK
  <1>1. CASE ChildSetup(i)
    <2>1. pc'[Parent] = pc[Parent] /\ \A j \in Children : Alive(j)' => Alive(j)
      BY <1>1 DEF ChildSetup, Alive
    <2> HIDE DEF DoomInv, TypeInv, TypeOK
    <2> QED
      BY <1>1, <2>1, QuietDoom DEF ChildSetup
  <1>2. CASE ChildWait(i)
    <2>1. \A j \in Children : OnlyStops(j)'
      BY <1>2 DEF ChildWait, OnlyStops
    <2>2. StopsAfterForks'
      BY <1>2 DEF ChildWait, StopsAfterForks
    <2>3. ASSUME stop[Parent], NEW j \in Children, Alive(j)' PROVE StopOnItsWay(j)'
      <3>1. StopOnItsWay(j)
        BY <1>2, <2>3 DEF ChildWait, Alive, ChildrenDoomed
      <3>2. CASE j # i
        BY <1>2, <3>1, <3>2 DEF ChildWait, StopOnItsWay
      <3>3. CASE j = i
        <4>1. events[i] = {}
          BY <1>2 DEF ChildWait, AtLoopHead
        <4>2. sigEdge[i] /\ sigPipe[i] # <<>> => "sig" \in events'[i]
          BY <1>2 DEF ChildWait, SigReady
        <4>3. (\E k \in 1 .. Len(sigPipe[i]) : sigPipe[i][k] \in StopSignals) => sigPipe[i] # <<>>
          BY HasByte
        <4> QED
          BY <1>2, <3>1, <3>3, <4>1, <4>2, <4>3 DEF ChildWait, StopOnItsWay
      <3> QED
        BY <3>2, <3>3
    <2>4. ChildrenDoomed'
      BY <1>2, <2>3 DEF ChildWait, ChildrenDoomed
    <2> QED
      BY <2>1, <2>2, <2>4
  <1>3. CASE ChildIpc(i)
    <2>1. /\ pc'[Parent] = pc[Parent]
          /\ \A j \in Children : (Alive(j)' => Alive(j)) /\ ("sig" \in events[j] => "sig" \in events'[j])
      BY <1>3 DEF ChildIpc, InBatch, Handled, Alive
    <2> HIDE DEF DoomInv, TypeInv, TypeOK
    <2> QED
      BY <1>3, <2>1, QuietDoom DEF ChildIpc
  <1>4. CASE ChildIpcEof(i)
    <2>1. \A j \in Children : "sig" \in events[j] => "sig" \in events'[j]
      BY <1>4 DEF ChildIpcEof, Handled
    <2> HIDE DEF DoomInv, TypeInv, TypeOK
    <2> QED
      BY <1>4, <2>1, QuietDoom DEF ChildIpcEof, kernVars, Alive
  <1>5. CASE ChildAccept(i)
    <2> HIDE DEF DoomInv, TypeInv, TypeOK
    <2> QED
      BY <1>5, QuietDoom DEF ChildAccept, Alive
  <1>6. CASE ChildAcceptDone(i)
    <2>1. pc'[Parent] = pc[Parent] /\ \A j \in Children : Alive(j)' => Alive(j)
      BY <1>6 DEF ChildAcceptDone, Alive
    <2> HIDE DEF DoomInv, TypeInv, TypeOK
    <2> QED
      BY <1>6, <2>1, QuietDoom DEF ChildAcceptDone, kernVars
  <1>7. CASE ChildSignals(i)
    <2>1. /\ \A k \in 1 .. Len(sigPipe'[i]) : sigPipe'[i][k] \in StopSignals
          /\ sigPipe[i] # <<>> => StopTaken(i)
      BY <1>7, ReadDoom DEF ChildSignals
    <2>2. \A j \in Children : j # i => /\ sigPipe'[j] = sigPipe[j]
                                       /\ events'[j] = events[j]
                                       /\ stop'[j] = stop[j]
      BY <1>7 DEF ChildSignals, SigsRead, Handled
    <2>3. stop'[Parent] = stop[Parent] /\ pending' = pending /\ pc' = pc /\ sigEdge' = sigEdge
      BY <1>7 DEF ChildSignals
    <2>4. stop[i] \/ StopTaken(i) => stop'[i]
      BY <1>7 DEF ChildSignals
    <2>5. \A j \in Children : OnlyStops(j)'
      BY <2>1, <2>2, <2>3 DEF OnlyStops
    <2>6. StopsAfterForks'
      BY <2>3 DEF StopsAfterForks
    <2>7. ASSUME stop[Parent], NEW j \in Children, Alive(j)' PROVE StopOnItsWay(j)'
      <3>1. StopOnItsWay(j)
        BY <2>3, <2>7 DEF Alive, ChildrenDoomed
      <3>2. CASE j # i
        BY <2>2, <2>3, <3>1, <3>2 DEF StopOnItsWay
      <3>3. CASE j = i
        <4>1. (\E k \in 1 .. Len(sigPipe[i]) : sigPipe[i][k] \in StopSignals) => sigPipe[i] # <<>>
          BY HasByte
        <4> QED
          BY <2>1, <2>3, <2>4, <3>1, <3>3, <4>1 DEF StopOnItsWay
      <3> QED
        BY <3>2, <3>3
    <2>8. ChildrenDoomed'
      BY <2>3, <2>7 DEF ChildrenDoomed
    <2> QED
      BY <2>5, <2>6, <2>8
  <1>8. CASE ChildExit(i)
    BY <1>8, DiesDoom DEF ChildExit
  <1>9. CASE ChildAcceptDrops(i)
    <2>1. pc'[Parent] = pc[Parent] /\ \A j \in Children : Alive(j)' => Alive(j)
      BY <1>9 DEF ChildAcceptDrops, Alive
    <2> HIDE DEF DoomInv, TypeInv, TypeOK
    <2> QED
      BY <1>9, <2>1, QuietDoom DEF ChildAcceptDrops
  <1> QED
    BY <1>1, <1>2, <1>3, <1>4, <1>5, <1>6, <1>7, <1>8, <1>9 DEF ChildStep

LEMMA SignalDoom ==
  ASSUME DoomInv, NEW p \in Procs, DeliverSignal(p), TypeInv'
  PROVE  DoomInv'
  <1> USE ProcFacts DEF DoomInv, TypeInv, TypeOK
  <1>1. ASSUME NEW s \in Signals, SignalHandled(p, s) PROVE DoomInv'
    <2>1. /\ stop' = stop /\ pc' = pc /\ events' = events
          /\ \A i \in Children : i # p => /\ pending'[i] = pending[i]
                                          /\ sigPipe'[i] = sigPipe[i]
                                          /\ sigEdge'[i] = sigEdge[i]
      BY <1>1 DEF SignalHandled, procVars
    <2>2. CASE p = Parent
      <3>1. \A i \in Children : i # p
        BY <2>2
      <3> HIDE DEF DoomInv, TypeInv, TypeOK
      <3> QED
        BY <2>1, <3>1, QuietDoom DEF Alive
    <2>3. CASE p \in Children
      <3>1. s \in StopSignals /\ pending'[p] = pending[p] \ {s}
        BY <1>1, <2>3 DEF SignalHandled, OnlyStops
      <3>2. sigPipe'[p] = Append(sigPipe[p], s) /\ sigEdge'[p]
        BY <1>1, <2>3 DEF SignalHandled
      <3>3. /\ Len(sigPipe'[p]) = Len(sigPipe[p]) + 1
            /\ Len(sigPipe[p]) \in Nat
            /\ \A k \in 1 .. Len(sigPipe[p]) : sigPipe'[p][k] = sigPipe[p][k]
            /\ sigPipe'[p][Len(sigPipe[p]) + 1] = s
        <4>1. sigPipe[p] \in Seq(Signals)
          OBVIOUS
        <4> QED
          BY <3>2, <4>1, AppendProperties, LenProperties
      <3>4. \A k \in 1 .. Len(sigPipe'[p]) : sigPipe'[p][k] \in StopSignals
        <4>1. \A k \in 1 .. Len(sigPipe[p]) : sigPipe[p][k] \in StopSignals
          BY <2>3 DEF OnlyStops
        <4>2. \A k \in 1 .. Len(sigPipe[p]) + 1 : k \in 1 .. Len(sigPipe[p]) \/ k = Len(sigPipe[p]) + 1
          <5>1. Len(sigPipe[p]) \in Nat
            BY <3>3
          <5> QED
            BY ONLY <5>1
        <4> QED
          BY <3>1, <3>3, <4>1, <4>2
      <3>5. \A i \in Children : OnlyStops(i)'
        BY <2>1, <3>1, <3>4 DEF OnlyStops
      <3>6. ASSUME stop[Parent], NEW i \in Children, Alive(i)' PROVE StopOnItsWay(i)'
        <4>1. CASE i = p
          <5>1. Len(sigPipe'[p]) \in 1 .. Len(sigPipe'[p])
            BY <3>3
          <5>2. sigPipe'[p][Len(sigPipe'[p])] \in StopSignals
            BY <3>4, <5>1
          <5> QED
            BY <3>2, <4>1, <5>1, <5>2 DEF StopOnItsWay
        <4>2. CASE i # p
          BY <2>1, <3>6, <4>2 DEF StopOnItsWay, Alive, ChildrenDoomed
        <4> QED
          BY <4>1, <4>2
      <3> QED
        BY <2>1, <3>5, <3>6 DEF StopsAfterForks, ChildrenDoomed
    <2> QED
      BY <2>2, <2>3
  <1>2. ASSUME NEW s \in Signals, SignalDefault(p, s) PROVE DoomInv'
    <2>1. CASE s \in StopSignals
      BY <1>2, <2>1, DiesDoom DEF SignalDefault
    <2>2. CASE s \notin StopSignals
      <3>1. p \notin Children
        BY <1>2, <2>2 DEF SignalDefault, OnlyStops
      <3>2. \A i \in Children : pending'[i] = pending[i]
        BY <1>2, <2>2, <3>1 DEF SignalDefault
      <3> HIDE DEF DoomInv, TypeInv, TypeOK
      <3> QED
        BY <1>2, <2>2, <3>2, QuietDoom DEF SignalDefault, Alive
    <2> QED
      BY <2>1, <2>2
  <1> QED
    BY <1>1, <1>2 DEF DeliverSignal

\* Signals from outside are reasons to stop as well.
LEMMA EnvironmentDoom ==
  ASSUME DoomInv, Environment, TypeInv'
  PROVE  DoomInv'
  <1> USE ProcFacts DEF DoomInv, TypeInv, TypeOK
  <1>1. CASE Connect
    <2> HIDE DEF DoomInv, TypeInv, TypeOK
    <2> QED
      BY <1>1, QuietDoom DEF Connect, procVars, Alive
  <1>2. CASE CtrlC \/ \E p \in Procs : Kill(p)
    <2>1. UNCHANGED <<procVars, sigPipe, sigEdge>>
      BY <1>2 DEF CtrlC, Kill
    <2>2. \A i \in Children : \E S \in SUBSET StopSignals : pending'[i] = pending[i] \cup S
      <3>1. {} \in SUBSET StopSignals /\ {"TERM"} \in SUBSET StopSignals /\ {"INT"} \in SUBSET StopSignals
        BY DEF StopSignals
      <3>2. \A i \in Children : \/ pending'[i] = pending[i] \cup {"TERM"}
                               \/ pending'[i] = pending[i] \cup {"INT"}
                               \/ pending'[i] = pending[i]
        <4>1. CASE CtrlC
          <5>1. pending' = [p \in Procs |-> IF Alive(p) THEN pending[p] \cup {"INT"} ELSE pending[p]]
            BY <4>1 DEF CtrlC
          <5> QED
            BY <5>1
        <4>2. ASSUME NEW p \in Procs, Kill(p), NEW i \in Children
              PROVE  pending'[i] = pending[i] \cup {"TERM"} \/ pending'[i] = pending[i]
          <5>1. pending' = [pending EXCEPT ![p] = pending[p] \cup {"TERM"}]
            BY <4>2 DEF Kill
          <5> QED
            BY <5>1
        <4> QED
          BY <1>2, <4>1, <4>2
      <3> QED
        <4>1. \A i \in Children : pending[i] = pending[i] \cup {}
          OBVIOUS
        <4> QED
          BY <3>1, <3>2, <4>1
    <2>3. \A i \in Children : /\ pending[i] \subseteq pending'[i]
                             /\ pending'[i] \subseteq pending[i] \cup StopSignals
      BY <2>2
    <2>4. \A i \in Children : OnlyStops(i)'
      BY <2>1, <2>3 DEF OnlyStops
    <2>5. ChildrenDoomed'
      BY <2>1, <2>3 DEF procVars, ChildrenDoomed, Alive, StopOnItsWay
    <2> QED
      BY <2>1, <2>4, <2>5 DEF procVars, StopsAfterForks
  <1>3. ASSUME NEW i \in Children, ChildCrash(i) PROVE DoomInv'
    BY <1>3, DiesDoom DEF ChildCrash
  <1>4. ASSUME NEW i \in Children, StartsFailing(i) \/ StopsFailing(i) PROVE DoomInv'
    <2> HIDE DEF DoomInv, TypeInv, TypeOK
    <2> QED
      BY <1>4, FailingQuiet, QuietDoom DEF procVars, kernVars, Alive
  <1> QED
    BY <1>1, <1>2, <1>3, <1>4 DEF Environment

LEMMA StutterDoom == DoomInv /\ UNCHANGED vars => DoomInv'
  <1> SUFFICES ASSUME DoomInv, UNCHANGED vars PROVE DoomInv'
    OBVIOUS
  <1>1. TypeInv'
    BY StutterType DEF DoomInv
  <1> QED
    BY <1>1, QuietDoom DEF vars, procVars, kernVars, Alive

LEMMA DoomInvariant == Spec => []DoomInv
  <1>1. DoomInv /\ [Next]_vars => DoomInv'
    <2> SUFFICES ASSUME DoomInv, [Next]_vars PROVE DoomInv'
      OBVIOUS
    <2>1. TypeInv'
      BY ParentType, ChildType, SignalType, EnvironmentType, StutterType DEF DoomInv, Next
    <2> QED
      BY <2>1, ParentDoom, ChildDoom, SignalDoom, EnvironmentDoom, StutterDoom DEF Next
  <1> QED
    BY InitDoom, <1>1, PTL DEF Spec

\* Once the parent has decided to stop, no live child can miss it: whatever the
\* parent and the operator do, and however signals, socketpairs and event loops
\* interleave.
THEOREM NoChildMissesTheStop == Spec => []ChildrenDoomed
  <1>1. DoomInv => ChildrenDoomed
    BY DEF DoomInv
  <1> QED
    BY <1>1, DoomInvariant, PTL

-----------------------------------------------------------------------------
(* A stop signal on its way stays there.                                    *)

\* A recv() of the signal pipe does not stop short of a reason to stop.
StopInReach(p) ==
  (\E k \in 1 .. Len(sigPipe[p]) : sigPipe[p][k] \in StopSignals) => StopTaken(p)

\* Then whatever happens next, a process that has a reason to stop keeps it, with a
\* wake-up, or has stopped, or is dead.
LEMMA StopStays ==
  ASSUME TypeInv, TypeInv', [Next]_vars, NEW p \in Procs, StopInReach(p),
         StopOnItsWay(p), Alive(p)'
  PROVE  StopOnItsWay(p)'
  <1> USE ProcFacts DEF TypeInv, TypeOK
  <1> DEFINE Quiet == /\ stop'[p] = stop[p] /\ pending[p] \subseteq pending'[p]
                      /\ sigPipe'[p] = sigPipe[p] /\ sigEdge'[p] = sigEdge[p]
                      /\ "sig" \in events[p] => "sig" \in events'[p]
  <1>1. ASSUME Quiet PROVE StopOnItsWay(p)'
    BY <1>1 DEF StopOnItsWay
  <1>2. ASSUME NEW q \in Procs, NEW how \in {"exited", "killed"}, Dies(q, how), stop' = stop
        PROVE  Quiet
    <2>1. q # p
      BY <1>2 DEF Dies, Alive
    <2> QED
      BY <1>2, <2>1 DEF Dies
  <1>3. ASSUME AtLoopHead(p), sigEdge[p] /\ sigPipe[p] # <<>> => "sig" \in events'[p],
               UNCHANGED <<stop, pending, sigPipe>>
        PROVE  StopOnItsWay(p)'
    <2>1. (\E k \in 1 .. Len(sigPipe[p]) : sigPipe[p][k] \in StopSignals) => sigPipe[p] # <<>>
      BY HasByte
    <2> QED
      BY <1>3, <2>1 DEF StopOnItsWay, AtLoopHead
  <1>4. ASSUME stop'[p] = (stop[p] \/ StopTaken(p)), pending[p] \subseteq pending'[p]
        PROVE  StopOnItsWay(p)'
    <2>1. CASE pending[p] \cap StopSignals # {}
      BY <1>4, <2>1 DEF StopOnItsWay
    <2>2. CASE stop[p] \/ StopTaken(p)
      BY <1>4, <2>2 DEF StopOnItsWay
    <2> QED
      BY <2>1, <2>2 DEF StopOnItsWay, StopInReach
  <1>5. CASE ParentStep
    <2>1. CASE (\E i \in Children : Fork(i)) \/ ParentSetup
      <3>1. Quiet
        BY <2>1 DEF Fork, ParentSetup, kernVars
      <3> QED
        BY <1>1, <3>1
    <2>2. CASE ParentWait
      <3>1. CASE p = Parent
        <4>1. /\ AtLoopHead(p) /\ UNCHANGED <<stop, pending, sigPipe>>
              /\ events'[p] = SigReady(p) \cup (IF queue > 0 THEN {"listen"} ELSE {})
          BY <2>2, <3>1 DEF ParentWait
        <4> QED
          BY <1>3, <4>1 DEF SigReady
      <3>2. CASE p # Parent
        <4>1. Quiet
          BY <2>2, <3>2 DEF ParentWait
        <4> QED
          BY <1>1, <4>1
      <3> QED
        BY <3>1, <3>2
    <2>3. CASE ParentNotify
      <3>1. CASE Alive(Sel)
        <4>1. /\ UNCHANGED <<stop, pending, sigPipe, sigEdge>>
              /\ events' = [events EXCEPT ![Parent] = events[Parent] \ {"listen"}]
          BY <2>3, <3>1 DEF ParentNotify, Notify, Handled
        <4>2. Quiet
          BY <4>1
        <4> QED
          BY <1>1, <4>2
      <3>2. CASE ~ Alive(Sel)
        BY <1>1, <1>2, <2>3, <3>2 DEF ParentNotify
      <3> QED
        BY <3>1, <3>2
    <2>4. CASE ParentSignals
      <3>1. pending[p] \subseteq pending'[p]
        <4>1. CASE StopTaken(Parent)
          <5>1. pending'[p] \in {pending[p] \cup {"TERM"}, pending[p]}
            BY <2>4, <4>1 DEF ParentSignals
          <5> QED
            BY <5>1
        <4>2. CASE ~ StopTaken(Parent)
          BY <2>4, <4>2 DEF ParentSignals
        <4> QED
          BY <4>1, <4>2
      <3>2. CASE p = Parent
        <4>1. stop'[p] = (stop[p] \/ StopTaken(p))
          BY <2>4, <3>2 DEF ParentSignals
        <4> QED
          BY <1>4, <3>1, <4>1
      <3>3. CASE p # Parent
        <4>1. Quiet
          BY <2>4, <3>1, <3>3 DEF ParentSignals, SigsRead, Handled
        <4> QED
          BY <1>1, <4>1
      <3> QED
        BY <3>2, <3>3
    <2>5. CASE ParentExit
      BY <1>1, <1>2, <2>5 DEF ParentExit
    <2> QED
      BY <1>5, <2>1, <2>2, <2>3, <2>4, <2>5 DEF ParentStep
  <1>6. ASSUME NEW i \in Children, ChildStep(i) PROVE StopOnItsWay(p)'
    <2>1. CASE ChildWait(i)
      <3>1. CASE p = i
        <4>1. AtLoopHead(p) /\ UNCHANGED <<stop, pending, sigPipe>> /\ SigReady(p) \subseteq events'[p]
          BY <2>1, <3>1 DEF ChildWait
        <4> QED
          BY <1>3, <4>1 DEF SigReady
      <3>2. CASE p # i
        <4>1. Quiet
          BY <2>1, <3>2 DEF ChildWait
        <4> QED
          BY <1>1, <4>1
      <3> QED
        BY <3>1, <3>2
    <2>2. CASE ChildSignals(i)
      <3>1. CASE p = i
        BY <1>4, <2>2, <3>1 DEF ChildSignals
      <3>2. CASE p # i
        <4>1. Quiet
          BY <2>2, <3>2 DEF ChildSignals, SigsRead, Handled
        <4> QED
          BY <1>1, <4>1
      <3> QED
        BY <3>1, <3>2
    <2>3. CASE ChildExit(i)
      BY <1>1, <1>2, <2>3 DEF ChildExit
    <2>4. CASE \/ ChildSetup(i) \/ ChildIpc(i) \/ ChildIpcEof(i)
               \/ ChildAccept(i) \/ ChildAcceptDrops(i) \/ ChildAcceptDone(i)
      <3>1. /\ UNCHANGED <<stop, pending, sigPipe, sigEdge>>
            /\ "sig" \in events[p] => "sig" \in events'[p]
        BY <2>4 DEF ChildSetup, ChildIpc, ChildIpcEof, ChildAccept, ChildAcceptDrops, ChildAcceptDone,
                    Handled, kernVars
      <3> QED
        BY <1>1, <3>1
    <2> QED
      BY <1>6, <2>1, <2>2, <2>3, <2>4 DEF ChildStep
  <1>7. ASSUME NEW q \in Procs, DeliverSignal(q) PROVE StopOnItsWay(p)'
    <2>1. ASSUME NEW s \in Signals, SignalHandled(q, s) PROVE StopOnItsWay(p)'
      <3>1. CASE q # p
        <4>1. Quiet
          BY <2>1, <3>1 DEF SignalHandled, procVars
        <4> QED
          BY <1>1, <4>1
      <3>2. CASE q = p
        <4>1. /\ stop'[p] = stop[p] /\ pending'[p] = pending[p] \ {s} /\ s \in pending[p]
              /\ sigPipe'[p] = Append(sigPipe[p], s) /\ sigEdge'[p]
          BY <2>1, <3>2 DEF SignalHandled, procVars
        <4>2. sigPipe[p] \in Seq(Signals)
          OBVIOUS
        <4>3. /\ Len(sigPipe[p]) \in Nat /\ Len(sigPipe'[p]) = Len(sigPipe[p]) + 1
              /\ \A k \in 1 .. Len(sigPipe[p]) : sigPipe'[p][k] = sigPipe[p][k]
              /\ sigPipe'[p][Len(sigPipe[p]) + 1] = s
          BY <4>1, <4>2, AppendProperties, LenProperties
        <4>4. /\ 1 .. Len(sigPipe[p]) \subseteq 1 .. Len(sigPipe'[p])
              /\ Len(sigPipe[p]) + 1 \in 1 .. Len(sigPipe'[p])
          BY ONLY <4>3
        <4>5. CASE s \in StopSignals
          BY <4>1, <4>3, <4>4, <4>5 DEF StopOnItsWay
        <4>6. CASE s \notin StopSignals
          <5>1. CASE stop[p] \/ pending[p] \cap StopSignals # {}
            BY <4>1, <4>6, <5>1 DEF StopOnItsWay
          <5>2. CASE \E k \in 1 .. Len(sigPipe[p]) : sigPipe[p][k] \in StopSignals
            BY <4>1, <4>3, <4>4, <5>2 DEF StopOnItsWay
          <5> QED
            BY <5>1, <5>2 DEF StopOnItsWay
        <4> QED
          BY <4>5, <4>6
      <3> QED
        BY <3>1, <3>2
    <2>2. ASSUME NEW s \in Signals, SignalDefault(q, s) PROVE StopOnItsWay(p)'
      <3>1. CASE s \in StopSignals
        BY <1>1, <1>2, <2>2, <3>1 DEF SignalDefault
      <3>2. CASE s \notin StopSignals
        <4>1. /\ UNCHANGED <<stop, events, sigPipe, sigEdge>>
              /\ pending'[p] = pending[p] \/ pending'[p] = pending[p] \ {s}
          BY <2>2, <3>2 DEF SignalDefault
        <4> QED
          BY <3>2, <4>1 DEF StopOnItsWay
      <3> QED
        BY <3>1, <3>2
    <2> QED
      BY <1>7, <2>1, <2>2 DEF DeliverSignal
  <1>8. CASE Environment
    <2>1. CASE Connect \/ CtrlC \/ \E q \in Procs : Kill(q)
      <3>1. UNCHANGED <<stop, events, sigPipe, sigEdge>> /\ pending[p] \subseteq pending'[p]
        <4>1. CASE Connect
          BY <4>1 DEF Connect, procVars
        <4>2. CASE CtrlC
          <5>1. /\ UNCHANGED <<stop, events, sigPipe, sigEdge>>
                /\ pending' = [q \in Procs |-> IF Alive(q) THEN pending[q] \cup {"INT"} ELSE pending[q]]
            BY <4>2 DEF CtrlC, procVars
          <5>2. pending'[p] \in {pending[p] \cup {"INT"}, pending[p]}
            BY <1>1, <5>1
          <5> QED
            BY <5>1, <5>2
        <4>3. CASE \E q \in Procs : Kill(q)
          BY <4>3 DEF Kill, procVars
        <4> QED
          BY <2>1, <4>1, <4>2, <4>3
      <3> QED
        BY <1>1, <3>1
    <2>2. ASSUME NEW i \in Children, ChildCrash(i) PROVE StopOnItsWay(p)'
      BY <1>1, <1>2, <2>2 DEF ChildCrash
    <2>3. ASSUME NEW i \in Children, StartsFailing(i) \/ StopsFailing(i) PROVE StopOnItsWay(p)'
      BY <1>1, <2>3, FailingQuiet DEF procVars, kernVars
    <2> QED
      BY <1>8, <2>1, <2>2, <2>3 DEF Environment
  <1>9. CASE UNCHANGED vars
    BY <1>1, <1>9 DEF vars, procVars, kernVars
  <1> QED
    BY <1>5, <1>6, <1>7, <1>8, <1>9 DEF Next

\* In a child every byte is a reason to stop, and a recv() takes one.
LEMMA ChildInReach ==
  ASSUME TypeOK, NEW i \in Children, OnlyStops(i)
  PROVE  StopInReach(i)
  <1> SUFFICES ASSUME \E k \in 1 .. Len(sigPipe[i]) : sigPipe[i][k] \in StopSignals
               PROVE  StopTaken(i)
    BY DEF StopInReach
  <1>1. i \in Procs /\ Len(sigPipe[i]) \in Nat
    BY ProcFacts, LenProperties DEF TypeOK
  <1>2. Len(sigPipe[i]) > 0
    BY <1>1
  <1>3. 1 \in 1 .. Len(Taken(i)) /\ Taken(i)[1] = sigPipe[i][1] /\ 1 \in 1 .. Len(sigPipe[i])
    BY <1>1, <1>2, TakenSplits
  <1> QED
    BY <1>3 DEF OnlyStops, StopTaken

\* The safety half of TermHandled for a child: a stop signal that has been sent to it,
\* by the parent or by anybody, is in the kernel, or in its signal pipe with a
\* wake-up, or taken note of, until the child is dead.
\* (Process.cc:34-47; ProcessPool.h:340-363.)
ChildKeepsStop ==
  [][\A i \in Children : Alive(i) /\ StopOnItsWay(i) => StopOnItsWay(i)' \/ ~ Alive(i)']_vars

THEOREM NoChildForgetsASignal == Spec => ChildKeepsStop
  <1>1. DoomInv /\ DoomInv' /\ [Next]_vars
        => [\A i \in Children : Alive(i) /\ StopOnItsWay(i) => StopOnItsWay(i)' \/ ~ Alive(i)']_vars
    BY ProcFacts, StopStays, ChildInReach DEF DoomInv, TypeInv
  <1> QED
    BY <1>1, DoomInvariant, PTL DEF Spec, ChildKeepsStop

\* The bytes that the parent may ever find in its signal pipe: one for the death of
\* each child, and one for each signal sent to it.
Dead == {i \in Children : pc[i] \in {"exited", "killed"}}

PipeInv ==
  Len(sigPipe[Parent]) + Cardinality(pending[Parent]) <= Cardinality(Dead) + kills

LEMMA FiniteCounts ==
  /\ \A D \in SUBSET Children : IsFiniteSet(D) /\ Cardinality(D) \in 0 .. NumProc
  /\ \A S \in SUBSET Signals : IsFiniteSet(S) /\ Cardinality(S) \in Nat
  <1>1. IsFiniteSet(Children) /\ Cardinality(Children) = NumProc
    BY PoolAssumption, FS_Interval DEF Children
  <1>2. ASSUME NEW D \in SUBSET Children PROVE IsFiniteSet(D) /\ Cardinality(D) \in 0 .. NumProc
    <2>1. IsFiniteSet(D) /\ Cardinality(D) <= NumProc
      BY <1>1, FS_Subset
    <2>2. Cardinality(D) \in Nat
      BY <2>1, FS_CardinalityType
    <2> QED
      BY <2>1, <2>2, PoolAssumption
  <1>3. IsFiniteSet(Signals)
    <2>1. Signals = (({} \cup {"TERM"}) \cup {"INT"}) \cup {"CHLD"}
      BY DEF Signals
    <2> QED
      BY <2>1, FS_EmptySet, FS_AddElement
  <1>4. ASSUME NEW S \in SUBSET Signals PROVE IsFiniteSet(S) /\ Cardinality(S) \in Nat
    BY <1>3, FS_Subset, FS_CardinalityType
  <1> QED
    BY <1>2, <1>4

LEMMA Counts ==
  ASSUME TypeOK
  PROVE  /\ IsFiniteSet(Dead) /\ Cardinality(Dead) \in 0 .. NumProc
         /\ IsFiniteSet(pending[Parent]) /\ Cardinality(pending[Parent]) \in Nat
         /\ Len(sigPipe[Parent]) \in Nat /\ kills \in 0 .. MaxKill
         /\ sigPipe[Parent] \in Seq(Signals)
  <1>1. Dead \in SUBSET Children
    BY DEF Dead
  <1>2. /\ pending[Parent] \in SUBSET Signals /\ sigPipe[Parent] \in Seq(Signals)
        /\ kills \in 0 .. MaxKill
    BY ProcFacts DEF TypeOK
  <1> QED
    BY <1>1, <1>2, FiniteCounts, LenProperties

LEMMA CountsNext ==
  ASSUME TypeOK'
  PROVE  /\ IsFiniteSet(Dead') /\ Cardinality(Dead') \in Nat
         /\ Cardinality(pending'[Parent]) \in Nat
         /\ Len(sigPipe'[Parent]) \in Nat /\ kills' \in Nat
  <1>1. Dead' \in SUBSET Children
    BY DEF Dead
  <1>2. /\ pending'[Parent] \in SUBSET Signals /\ sigPipe'[Parent] \in Seq(Signals)
        /\ kills' \in 0 .. MaxKill
    BY ProcFacts DEF TypeOK
  <1> QED
    BY <1>1, <1>2, FiniteCounts, LenProperties, PoolAssumption

\* How what the parent has pending may grow, and what pays for it: nothing, or one
\* signal from outside or the death of one child.
NoSignalMore ==
  /\ pending'[Parent] \in {pending[Parent], {}}
  /\ kills' \in {kills, kills + 1} /\ Dead \subseteq Dead'

OneSignalMore ==
  /\ \E s \in Signals : pending'[Parent] = pending[Parent] \cup {s}
  /\ \/ kills' = kills + 1 /\ Dead \subseteq Dead'
     \/ kills' = kills /\ \E i \in Dead' \ Dead : Dead' = Dead \cup {i}

\* A step that adds at most one signal to the parent's, when it is sent from outside or a
\* child dies.
LEMMA PipeGrows ==
  ASSUME TypeInv, TypeInv', PipeInv,
         Len(sigPipe'[Parent]) <= Len(sigPipe[Parent]),
         NoSignalMore \/ OneSignalMore
  PROVE  PipeInv'
  <1> DEFINE d == Cardinality(Dead)
             e == Cardinality(Dead')
             m == Cardinality(pending[Parent])
             n == Cardinality(pending'[Parent])
             l == Len(sigPipe[Parent])
             k == Len(sigPipe'[Parent])
             q == kills
             r == kills'
  <1>1. /\ IsFiniteSet(Dead) /\ d \in Nat /\ IsFiniteSet(pending[Parent]) /\ m \in Nat
        /\ l \in Nat /\ q \in Nat
    BY Counts, PoolAssumption DEF TypeInv
  <1>2. IsFiniteSet(Dead') /\ e \in Nat /\ n \in Nat /\ k \in Nat /\ r \in Nat
    <2>1. TypeOK'
      BY DEF TypeInv
    <2> QED
      BY <2>1, CountsNext
  <1>3. Dead \subseteq Dead' => d <= e
    BY <1>2, FS_Subset
  <1>4. ASSUME NEW s, pending'[Parent] = pending[Parent] \cup {s} PROVE n <= m + 1
    <2>1. Cardinality(pending[Parent] \cup {s}) \in {m, m + 1}
      BY <1>1, FS_AddElement
    <2>2. n \in {m, m + 1}
      BY <1>4, <2>1
    <2> HIDE DEF n, m
    <2> QED
      BY <1>1, <2>2
  <1>5. \A i \in Dead' \ Dead : Dead' = Dead \cup {i} => e = d + 1
    BY <1>1, FS_AddElement
  <1>6. pending'[Parent] \in {pending[Parent], {}} => n <= m
    <2>1. pending'[Parent] = pending[Parent] => n = m
      OBVIOUS
    <2>2. pending'[Parent] = {} => n = 0
      BY FS_EmptySet
    <2> HIDE DEF n, m
    <2> QED
      BY <1>1, <2>1, <2>2
  <1>7. k <= l /\ l + m <= d + q
    BY DEF PipeInv
  <1> HIDE DEF d, e, m, n, l, k, q, r
  <1>8. k + n <= e + r
    <2>1. CASE n <= m /\ q <= r /\ d <= e
      BY <1>1, <1>2, <1>7, <2>1
    <2>2. CASE n <= m + 1 /\ r = q + 1 /\ d <= e
      BY <1>1, <1>2, <1>7, <2>2
    <2>3. CASE n <= m + 1 /\ r = q /\ e = d + 1
      BY <1>1, <1>2, <1>7, <2>3
    <2>4. CASE NoSignalMore
      <3>1. n <= m /\ d <= e
        BY <1>3, <1>6, <2>4 DEF NoSignalMore
      <3>2. q <= r
        BY <1>1, <2>4 DEF NoSignalMore, q, r
      <3> QED
        BY <2>1, <3>1, <3>2
    <2>5. CASE OneSignalMore
      <3>1. n <= m + 1
        BY <1>4, <2>5 DEF OneSignalMore
      <3>2. CASE r = q + 1 /\ Dead \subseteq Dead'
        BY <1>3, <2>2, <3>1, <3>2
      <3>3. CASE r = q /\ \E i \in Dead' \ Dead : Dead' = Dead \cup {i}
        BY <1>5, <2>3, <3>1, <3>3
      <3> QED
        BY <2>5, <3>2, <3>3 DEF OneSignalMore, q, r
    <2> QED
      BY <2>4, <2>5
  <1> QED
    BY <1>8 DEF e, n, k, r, PipeInv

\* A death is counted once: of the parent it leaves nothing, of a child one signal.
LEMMA PipeDies ==
  ASSUME TypeInv, TypeInv', PipeInv, NEW p \in Procs, NEW how \in {"exited", "killed"},
         Alive(p), Dies(p, how), kills' = kills
  PROVE  PipeInv'
  <1> USE ProcFacts DEF TypeInv, TypeOK
  <1>1. Len(<<>>) = 0 /\ Len(sigPipe[Parent]) \in Nat
    BY Counts
  <1>2. CASE p = Parent
    <2>1. sigPipe'[Parent] = <<>> /\ pending'[Parent] = {} /\ Dead' = Dead
      BY <1>2 DEF Dies, Dead
    <2> HIDE DEF TypeInv, TypeOK
    <2>2. Len(sigPipe'[Parent]) <= Len(sigPipe[Parent])
      BY <1>1, <2>1
    <2> QED
      BY <2>1, <2>2, PipeGrows DEF NoSignalMore, OneSignalMore
  <1>3. CASE p \in Children
    <2>1. p \in Dead' \ Dead /\ Dead' = Dead \cup {p} /\ sigPipe'[Parent] = sigPipe[Parent]
      BY <1>3 DEF Dies, Dead, Alive
    <2>2. pending'[Parent] = pending[Parent] \cup {"CHLD"} \/ pending'[Parent] = pending[Parent]
      BY <1>3 DEF Dies
    <2>3. "CHLD" \in Signals
      BY DEF Signals
    <2> HIDE DEF TypeInv, TypeOK
    <2> QED
      BY <1>1, <2>1, <2>2, <2>3, PipeGrows DEF NoSignalMore, OneSignalMore
  <1> QED
    BY <1>2, <1>3

\* What takes a signal off the parent's, and may put its byte into the pipe.
LEMMA PipeDelivers ==
  ASSUME TypeInv, TypeInv', PipeInv, NEW s \in pending[Parent],
         pending'[Parent] = pending[Parent] \ {s},
         sigPipe'[Parent] \in {sigPipe[Parent], Append(sigPipe[Parent], s)},
         UNCHANGED <<kills, pc>>
  PROVE  PipeInv'
  <1>1. Dead' = Dead
    BY DEF Dead
  <1>2. Cardinality(pending'[Parent]) = Cardinality(pending[Parent]) - 1
    BY Counts, FS_RemoveElement DEF TypeInv
  <1>3. s \in Signals /\ sigPipe[Parent] \in Seq(Signals) /\ Len(sigPipe[Parent]) \in Nat
    BY ProcFacts, Counts DEF TypeInv, TypeOK
  <1>4. Len(sigPipe'[Parent]) \in {Len(sigPipe[Parent]), Len(sigPipe[Parent]) + 1}
    BY <1>3, AppendProperties
  <1>5. /\ Cardinality(pending[Parent]) \in Nat /\ Cardinality(Dead) \in Nat
        /\ kills \in Nat
    BY Counts, PoolAssumption DEF TypeInv
  <1>6. Len(sigPipe[Parent]) + Cardinality(pending[Parent]) <= Cardinality(Dead) + kills
    BY DEF PipeInv
  <1>7. Len(sigPipe'[Parent]) + Cardinality(pending'[Parent]) <= Cardinality(Dead) + kills
    BY <1>2, <1>3, <1>4, <1>5, <1>6
  <1> QED
    BY <1>1, <1>7 DEF PipeInv

LEMMA PipeStep ==
  ASSUME TypeInv, TypeInv', PipeInv, [Next]_vars
  PROVE  PipeInv'
  <1> USE ProcFacts DEF TypeInv, TypeOK
  <1>1. Len(sigPipe[Parent]) \in Nat
    BY Counts
  <1>2. ASSUME Len(sigPipe'[Parent]) <= Len(sigPipe[Parent]), pending'[Parent] = pending[Parent],
               kills' \in {kills, kills + 1}, \A i \in Children : pc[i] \in {"exited", "killed"} => pc'[i] = pc[i]
        PROVE  PipeInv'
    <2>1. Dead \subseteq Dead'
      BY <1>2 DEF Dead
    <2> HIDE DEF TypeInv, TypeOK
    <2> QED
      BY <1>2, <2>1, PipeGrows DEF NoSignalMore, OneSignalMore
  <1>3. CASE ParentStep
    <2>1. CASE (\E i \in Children : Fork(i)) \/ ParentSetup \/ ParentWait
      <3>1. UNCHANGED <<sigPipe, pending, kills>> /\ \A i \in Children : pc[i] \in {"exited", "killed"} => pc'[i] = pc[i]
        BY <2>1 DEF Fork, ParentSetup, ParentWait, kernVars, envVars
      <3> QED
        BY <1>1, <1>2, <3>1
    <2>2. CASE ParentNotify
      <3>1. CASE Alive(Sel)
        <4>1. UNCHANGED <<sigPipe, pending, kills, pc>>
          BY <2>2, <3>1 DEF ParentNotify, Notify, envVars
        <4> QED
          BY <1>1, <1>2, <4>1
      <3>2. CASE ~ Alive(Sel)
        <4>1. Alive(Parent) /\ Dies(Parent, "killed") /\ kills' = kills
          BY <2>2, <3>2 DEF ParentNotify, InBatch, Alive, envVars
        <4> QED
          BY <4>1, PipeDies
      <3> QED
        BY <3>1, <3>2
    <2>3. CASE ParentSignals
      <3>1. pending'[Parent] = pending[Parent] /\ UNCHANGED <<kills, pc>>
        BY <2>3 DEF ParentSignals, KillTargets, Selectable, envVars
      <3> DEFINE t == Len(Taken(Parent))
                 z == sigPipe[Parent]
      <3>2. sigPipe'[Parent] = SubSeq(z, t + 1, Len(z))
        BY <2>3 DEF ParentSignals, SigsRead
      <3>3. t \in 0 .. Len(z) /\ z \in Seq(Signals)
        BY TakenSplits
      <3> HIDE DEF t, z
      <3>4. Len(SubSeq(z, t + 1, Len(z))) <= Len(z)
        <4>1. Len(z) \in Nat /\ \A k \in 1 .. Len(z) : z[k] \in Signals
          BY <3>3, LenProperties, ElementOfSeq
        <4>2. t + 1 \in Int /\ Len(z) \in Int /\ \A k \in t + 1 .. Len(z) : z[k] \in Signals
          BY <3>3, <4>1
        <4>3. Len(SubSeq(z, t + 1, Len(z))) = IF t + 1 <= Len(z) THEN Len(z) - (t + 1) + 1 ELSE 0
          BY <4>2, SubSeqProperties
        <4> QED
          BY <3>3, <4>1, <4>3
      <3> QED
        BY <1>2, <3>1, <3>2, <3>4 DEF z
    <2>4. CASE ParentExit
      <3>1. Alive(Parent) /\ Dies(Parent, "exited") /\ kills' = kills
        BY <2>4 DEF ParentExit, AtLoopHead, Alive, envVars
      <3> QED
        BY <3>1, PipeDies
    <2> QED
      BY <1>3, <2>1, <2>2, <2>3, <2>4 DEF ParentStep
  <1>4. ASSUME NEW i \in Children, ChildStep(i) PROVE PipeInv'
    <2>1. CASE ChildExit(i)
      <3>1. Alive(i) /\ Dies(i, "exited") /\ kills' = kills
        BY <2>1 DEF ChildExit, AtLoopHead, Alive, envVars
      <3> QED
        BY <3>1, PipeDies
    <2>2. CASE ~ ChildExit(i)
      <3>1. /\ sigPipe'[Parent] = sigPipe[Parent] /\ pending' = pending /\ kills' = kills
            /\ \A j \in Children : pc[j] \in {"exited", "killed"} => pc'[j] = pc[j]
        BY <1>4, <2>2
           DEF ChildStep, ChildSetup, ChildWait, ChildIpc, ChildIpcEof, ChildAccept, ChildAcceptDrops,
               ChildAcceptDone, ChildSignals, SigsRead, InBatch, AtLoopHead, kernVars, envVars
      <3> QED
        BY <1>1, <1>2, <3>1
    <2> QED
      BY <2>1, <2>2
  <1>5. ASSUME NEW p \in Procs, DeliverSignal(p) PROVE PipeInv'
    <2>1. PICK s \in Signals : SignalHandled(p, s) \/ SignalDefault(p, s)
      BY <1>5 DEF DeliverSignal
    <2>2. CASE SignalDefault(p, s) /\ s \in StopSignals
      <3>1. Alive(p) /\ Dies(p, "killed") /\ kills' = kills
        BY <2>2 DEF SignalDefault, envVars
      <3> QED
        BY <3>1, PipeDies
    <2>3. CASE ~ (SignalDefault(p, s) /\ s \in StopSignals)
      <3>1. /\ UNCHANGED <<kills, pc>> /\ s \in pending[p]
            /\ pending' = [pending EXCEPT ![p] = @ \ {s}]
            /\ sigPipe' = sigPipe \/ sigPipe' = [sigPipe EXCEPT ![p] = Append(@, s)]
        BY <2>1, <2>3 DEF SignalHandled, SignalDefault, procVars, envVars
      <3>2. CASE p = Parent
        <4>1. /\ s \in pending[Parent] /\ pending'[Parent] = pending[Parent] \ {s}
              /\ sigPipe'[Parent] \in {sigPipe[Parent], Append(sigPipe[Parent], s)}
          BY <3>1, <3>2
        <4> QED
          BY <3>1, <4>1, PipeDelivers
      <3>3. CASE p # Parent
        <4>1. pending'[Parent] = pending[Parent] /\ sigPipe'[Parent] = sigPipe[Parent]
          BY <3>1, <3>3
        <4> QED
          BY <1>1, <1>2, <3>1, <4>1
      <3> QED
        BY <3>2, <3>3
    <2> QED
      BY <2>2, <2>3
  <1>6. CASE Environment
    <2>1. CASE Connect
      BY <1>1, <1>2, <2>1 DEF Connect, procVars, envVars
    <2>2. CASE CtrlC \/ \E p \in Procs : Kill(p)
      <3>1. UNCHANGED <<pc, sigPipe>> /\ kills' = kills + 1
        BY <2>2 DEF CtrlC, Kill, procVars
      <3>2. \/ pending'[Parent] = pending[Parent]
            \/ \E s \in Signals : pending'[Parent] = pending[Parent] \cup {s}
        <4>1. "TERM" \in Signals /\ "INT" \in Signals
          BY DEF Signals
        <4>2. CASE CtrlC
          BY <4>1, <4>2 DEF CtrlC
        <4>3. CASE \E p \in Procs : Kill(p)
          BY <4>1, <4>3 DEF Kill
        <4> QED
          BY <2>2, <4>2, <4>3
      <3>3. Dead' = Dead
        BY <3>1 DEF Dead
      <3> HIDE DEF TypeInv, TypeOK
      <3> QED
        BY <1>1, <3>1, <3>2, <3>3, PipeGrows DEF NoSignalMore, OneSignalMore
    <2>3. ASSUME NEW i \in Children, ChildCrash(i) PROVE PipeInv'
      <3>1. Alive(i) /\ Dies(i, "killed") /\ kills' = kills
        BY <2>3 DEF ChildCrash
      <3> QED
        BY <3>1, PipeDies
    <2>4. ASSUME NEW i \in Children, StartsFailing(i) \/ StopsFailing(i) PROVE PipeInv'
      <3>1. UNCHANGED <<pc, pending, sigPipe, kills>>
        BY <2>4, FailingQuiet DEF procVars, kernVars
      <3>2. Len(sigPipe'[Parent]) <= Len(sigPipe[Parent]) /\ pending'[Parent] = pending[Parent]
        BY <1>1, <3>1
      <3> QED
        BY <1>2, <3>1, <3>2
    <2> QED
      BY <1>6, <2>1, <2>2, <2>3, <2>4 DEF Environment
  <1>7. CASE UNCHANGED vars
    BY <1>1, <1>2, <1>7 DEF vars, procVars, kernVars, envVars
  <1> QED
    BY <1>3, <1>4, <1>5, <1>6, <1>7 DEF Next

LEMMA PipeInvariant == Spec => []PipeInv
  <1>1. Init => PipeInv
    <2> SUFFICES ASSUME Init PROVE PipeInv
      OBVIOUS
    <2>1. Len(sigPipe[Parent]) = 0 /\ Cardinality(pending[Parent]) = 0 /\ kills = 0
      BY ProcFacts, FS_EmptySet DEF Init
    <2>2. Cardinality(Dead) \in Nat
      BY InitType, Counts, PoolAssumption DEF TypeInv
    <2> QED
      BY <2>1, <2>2 DEF PipeInv
  <1>2. TypeInv /\ TypeInv' /\ PipeInv /\ [Next]_vars => PipeInv'
    BY PipeStep
  <1>3. Spec => []TypeInv
    BY TypeCorrect DEF TypeInv
  <1> QED
    BY <1>1, <1>2, <1>3, PTL DEF Spec

\* And of the parent: its stop signal is not overlooked, as long as a recv() takes a byte
\* for every child and for every signal that is ever sent to it.  With sigs[10] and ten
\* children there is no room for the first signal, and TermHandled does not hold.
\* (ProcessPool.h:194-229; Process.cc:34-47.)
ParentKeepsStop ==
  [][Alive(Parent) /\ StopOnItsWay(Parent) => StopOnItsWay(Parent)' \/ ~ Alive(Parent)']_vars

THEOREM RoomForEverySignal ==
  ASSUME NumProc + MaxKill <= SigBuf
  PROVE  Spec => ParentKeepsStop
  <1>1. ASSUME TypeInv, PipeInv PROVE StopInReach(Parent)
    <2> DEFINE z == sigPipe[Parent]
    <2>1. /\ Len(z) \in Nat /\ z \in Seq(Signals)
          /\ Cardinality(Dead) \in 0 .. NumProc /\ kills \in 0 .. MaxKill
          /\ Cardinality(pending[Parent]) \in Nat
      BY <1>1, Counts DEF TypeInv
    <2>2. Len(z) + Cardinality(pending[Parent]) <= Cardinality(Dead) + kills
      BY <1>1 DEF PipeInv
    <2>3. Len(z) <= SigBuf
      BY <2>1, <2>2, PoolAssumption
    <2>4. (IF Len(z) < SigBuf THEN Len(z) ELSE SigBuf) = Len(z)
      BY <2>1, <2>3, PoolAssumption
    <2>5. Taken(Parent) = z
      BY <2>1, <2>4, SubSeqFull DEF Taken
    <2> QED
      BY <2>5 DEF StopInReach, StopTaken
  <1>2. TypeInv /\ TypeInv' /\ PipeInv /\ [Next]_vars
        => [Alive(Parent) /\ StopOnItsWay(Parent)
              => StopOnItsWay(Parent)' \/ ~ Alive(Parent)']_vars
    BY <1>1, ProcFacts, StopStays
  <1>3. Spec => []TypeInv
    BY TypeCorrect DEF TypeInv
  <1> QED
    BY <1>2, <1>3, PipeInvariant, PTL DEF Spec, ParentKeepsStop

-----------------------------------------------------------------------------
(* The round robin.                                                         *)

\* The child selected d selections before the last one, when the round robin is
\* to resume at k.
Last(k) == IF k = 0 THEN NumProc ELSE k - 1
Ago(k, d) == IF Last(k) - d < 1 THEN (Last(k) - d) + NumProc ELSE Last(k) - d

RobinInv ==
  /\ TypeInv
  /\ pc[Parent] \in {"fork", "setup"} => recent = <<>>
  /\ Len(recent) <= NumProc
  /\ recent # <<>> => Last(sub_process_idx) \in Children
  /\ \A k \in 1 .. Len(recent) : recent[k] = Ago(sub_process_idx, Len(recent) - k)

LEMMA RobinImplies == RobinInv => RoundRobin
  <1> SUFFICES ASSUME RobinInv PROVE RoundRobin
    OBVIOUS
  <1> DEFINE n == Len(recent)
             last == Last(sub_process_idx)
  <1>1. n \in Nat /\ (n > 0 => recent # <<>>)
    <2>1. recent \in Seq(Procs) /\ Len(<<>>) = 0
      BY DEF RobinInv, TypeInv, TypeOK
    <2> QED
      BY <2>1, LenProperties
  <1>2. /\ NumProc \in Nat \ {0} /\ n <= NumProc
        /\ \A k \in 1 .. n : recent[k] = IF last - (n - k) < 1 THEN (last - (n - k)) + NumProc
                                         ELSE last - (n - k)
        /\ n > 0 => last \in 1 .. NumProc
    BY <1>1, PoolAssumption DEF RobinInv, Ago, Children
  <1> HIDE DEF n, last
  <1>3. \A k \in 1 .. n : recent[k] \in 1 .. NumProc
    BY <1>1, <1>2
  <1>4. \A k, l \in 1 .. n : recent[k] = recent[l] => k = l
    BY <1>1, <1>2
  <1> QED
    BY <1>3, <1>4 DEF RoundRobin, Children, n

\* Selecting the first child from sub_process_idx on continues the round.
LEMMA SelectContinues ==
  ASSUME RobinInv, ParentNotify, TypeInv'
  PROVE  RobinInv'
  <1> DEFINE n == Len(recent)
             k0 == sub_process_idx
             app == Append(recent, Sel)
  <1>1. \A i \in Children : pc[i] # "unborn"
    BY DEF RobinInv, TypeInv, AllBorn, ParentNotify, InBatch
  <1>2. Sel = First(k0) /\ Sel \in Children
    BY <1>1, SelIsFirst DEF RobinInv, TypeInv
  <1>3. k0 \in 0 .. NumProc /\ NumProc \in Nat \ {0} /\ Sel \in 1 .. NumProc
    BY <1>2, PoolAssumption DEF RobinInv, TypeInv, TypeOK, Procs, Children
  <1>4. recent \in Seq(Procs) /\ n \in Nat /\ n <= NumProc /\ Sel \in Procs
    BY <1>2, ProcFacts, LenProperties DEF RobinInv, TypeInv, TypeOK
  <1>5. /\ app \in Seq(Procs) /\ app # <<>> /\ Len(app) = n + 1
        /\ \A k \in 1 .. n : app[k] = recent[k]
        /\ app[n + 1] = Sel
    BY <1>4, AppendProperties
  <1>6. /\ Tail(app) \in Seq(Procs) /\ Len(Tail(app)) = n
        /\ \A k \in 1 .. n : Tail(app)[k] = app[k + 1]
    <2>1. /\ Tail(app) \in Seq(Procs)
          /\ Len(Tail(app)) = Len(app) - 1
          /\ \A k \in 1 .. Len(Tail(app)) : Tail(app)[k] = app[k + 1]
      BY <1>5, HeadTailProperties
    <2>2. Len(Tail(app)) = n
      BY <1>4, <1>5, <2>1
    <2> QED
      BY <2>1, <2>2
  <1>7. sub_process_idx' = Succ(Sel) /\ Last(sub_process_idx') = Sel
    BY <1>3 DEF ParentNotify, Succ, Last
  <1>8. \A k \in 1 .. n : recent[k] = Ago(k0, n - k) /\ Ago(k0, n - k) = Ago(sub_process_idx', (n + 1) - k)
    <2> TAKE k \in 1 .. n
    <2>1. recent[k] = Ago(k0, n - k)
      BY DEF RobinInv
    <2>2. Sel = IF k0 = 0 THEN 1 ELSE k0
      BY <1>2 DEF First, Parent
    <2>3. Last(k0) = IF k0 = 0 THEN NumProc ELSE k0 - 1
      BY DEF Last
    <2>4. k \in Nat /\ k >= 1 /\ k <= n
      BY <1>4
    <2>5. Ago(k0, n - k) = Ago(sub_process_idx', (n + 1) - k)
      <3>1. CASE k0 = 0
        BY <1>3, <1>4, <1>7, <2>2, <2>3, <2>4, <3>1 DEF Ago
      <3>2. CASE k0 # 0
        BY <1>3, <1>4, <1>7, <2>2, <2>3, <2>4, <3>2 DEF Ago
      <3> QED
        BY <3>1, <3>2
    <2> QED
      BY <2>1, <2>5
  <1>9. Sel = Ago(sub_process_idx', 0)
    BY <1>3, <1>7 DEF Ago
  <1>10. \A k \in 1 .. n + 1 : app[k] = Ago(sub_process_idx', (n + 1) - k)
    <2> TAKE k \in 1 .. n + 1
    <2>1. k \in 1 .. n \/ (k = n + 1 /\ (n + 1) - k = 0)
      BY <1>4
    <2> QED
      BY <1>5, <1>8, <1>9, <2>1
  <1>11. recent' = IF n + 1 > NumProc THEN Tail(app) ELSE app
    BY <1>5 DEF ParentNotify, Window
  <1>12. Len(recent') <= NumProc /\ \A k \in 1 .. Len(recent') : recent'[k] = Ago(sub_process_idx', Len(recent') - k)
    <2>1. CASE n + 1 > NumProc
      <3>1. recent' = Tail(app) /\ Len(recent') = n
        BY <1>6, <1>11, <2>1
      <3>2. \A k \in 1 .. n : k + 1 \in 1 .. n + 1 /\ (n + 1) - (k + 1) = n - k
        BY <1>4
      <3>3. \A k \in 1 .. n : app[k + 1] = Ago(sub_process_idx', n - k)
        BY <1>10, <3>2
      <3> QED
        BY <1>4, <1>6, <3>1, <3>3
    <2>2. CASE ~(n + 1 > NumProc)
      BY <1>3, <1>4, <1>5, <1>10, <1>11, <2>2
    <2> QED
      BY <2>1, <2>2
  <1>13. pc'[Parent] \notin {"fork", "setup"}
    BY ProcFacts DEF RobinInv, TypeInv, TypeOK, ParentNotify, InBatch, Notify, Dies
  <1> QED
    BY <1>2, <1>7, <1>12, <1>13 DEF RobinInv

\* Every other step leaves the round alone, and nobody goes back to set-up.
LEMMA OthersContinue ==
  ASSUME RobinInv, TypeInv', recent' = recent,
         sub_process_idx' = sub_process_idx \/ recent = <<>>,
         pc'[Parent] \in {"fork", "setup"} => pc[Parent] \in {"fork", "setup"}
  PROVE  RobinInv'
  <1>1. Len(<<>>) = 0
    OBVIOUS
  <1>2. recent = <<>> => \A k \in 1 .. Len(recent) : FALSE
    BY <1>1
  <1> QED
    BY <1>2 DEF RobinInv

LEMMA RobinStep ==
  ASSUME RobinInv, [Next]_vars, TypeInv'
  PROVE  RobinInv'
  <1>1. CASE ParentNotify
    BY <1>1, SelectContinues
  <1>2. CASE ParentSetup
    <2>1. pc[Parent] = "setup"
      BY <1>2 DEF ParentSetup
    <2>2. pc'[Parent] \notin {"fork", "setup"}
      BY <1>2, ProcFacts DEF ParentSetup, RobinInv, TypeInv, TypeOK
    <2>3. recent = <<>> /\ recent' = recent
      BY <1>2, <2>1 DEF RobinInv, ParentSetup
    <2> QED
      BY <2>2, <2>3, OthersContinue
  <1>3. ASSUME NEW p \in Procs, NEW how \in {"exited", "killed"}, Dies(p, how),
               UNCHANGED <<sub_process_idx, recent>>
        PROVE  RobinInv'
    <2>1. pc'[Parent] \in {"fork", "setup"} => pc[Parent] \in {"fork", "setup"}
      BY <1>3, ProcFacts DEF Dies, RobinInv, TypeInv, TypeOK
    <2> QED
      BY <1>3, <2>1, OthersContinue
  <1>4. ASSUME UNCHANGED <<sub_process_idx, recent>>,
               pc'[Parent] \in {"fork", "setup"} => pc[Parent] \in {"fork", "setup"}
        PROVE  RobinInv'
    BY <1>4, OthersContinue
  <1>5. CASE ParentStep /\ ~ParentNotify /\ ~ParentSetup
    <2>1. ASSUME NEW i \in Children, Fork(i) PROVE RobinInv'
      BY <2>1, <1>4 DEF Fork
    <2>2. CASE ParentWait \/ ParentSignals
      BY <2>2, <1>4 DEF ParentWait, ParentSignals
    <2>3. CASE ParentExit
      BY <2>3, <1>3, ProcFacts DEF ParentExit
    <2> QED
      BY <1>5, <2>1, <2>2, <2>3 DEF ParentStep
  <1>6. ASSUME NEW i \in Children, ChildStep(i) PROVE RobinInv'
    <2>1. CASE ChildExit(i)
      BY <2>1, <1>3, ProcFacts DEF ChildExit
    <2>2. CASE ~ChildExit(i)
      <3>1. UNCHANGED <<sub_process_idx, recent>> /\ pc'[Parent] = pc[Parent]
        BY <1>6, <2>2, ProcFacts
        DEF ChildStep, ChildSetup, ChildWait, ChildIpc, ChildIpcEof, ChildAccept,
            ChildAcceptDrops, ChildAcceptDone, ChildSignals, RobinInv, TypeInv, TypeOK
      <3> QED
        BY <3>1, <1>4
    <2> QED
      BY <2>1, <2>2
  <1>7. ASSUME NEW p \in Procs, DeliverSignal(p) PROVE RobinInv'
    <2>1. ASSUME NEW s \in Signals, SignalHandled(p, s) PROVE RobinInv'
      BY <2>1, <1>4 DEF SignalHandled, procVars
    <2>2. ASSUME NEW s \in Signals, SignalDefault(p, s), s \in StopSignals PROVE RobinInv'
      BY <2>2, <1>3 DEF SignalDefault
    <2>3. ASSUME NEW s \in Signals, SignalDefault(p, s), s \notin StopSignals PROVE RobinInv'
      BY <2>3, <1>4 DEF SignalDefault
    <2> QED
      BY <1>7, <2>1, <2>2, <2>3 DEF DeliverSignal
  <1>8. CASE Environment
    <2>1. ASSUME NEW i \in Children, ChildCrash(i) PROVE RobinInv'
      BY <2>1, <1>3, ProcFacts DEF ChildCrash
    <2>2. CASE Connect \/ CtrlC \/ \E p \in Procs : Kill(p)
      BY <2>2, <1>4 DEF Connect, CtrlC, Kill, procVars
    <2>3. ASSUME NEW i \in Children, StartsFailing(i) \/ StopsFailing(i) PROVE RobinInv'
      BY <1>4, <2>3, FailingQuiet DEF procVars
    <2> QED
      BY <1>8, <2>1, <2>2, <2>3 DEF Environment
  <1>9. CASE UNCHANGED vars
    BY <1>9, <1>4 DEF vars, procVars
  <1> QED
    BY <1>1, <1>2, <1>5, <1>6, <1>7, <1>8, <1>9 DEF Next, ParentStep

\* For every number of children, the parent hands connections out in turn: among
\* NumProc consecutive selections every child occurs at most once, the parent never.
THEOREM FairRound == Spec => []RoundRobin
  <1>1. Init => RobinInv
    <2>1. Len(<<>>) = 0
      OBVIOUS
    <2>2. \A k \in 1 .. Len(<<>>) : FALSE
      BY <2>1
    <2> QED
      BY <2>1, <2>2, InitType, PoolAssumption DEF Init, RobinInv
  <1>2. RobinInv /\ [Next]_vars => RobinInv'
    <2> SUFFICES ASSUME RobinInv, [Next]_vars PROVE RobinInv'
      OBVIOUS
    <2>1. TypeInv'
      BY ParentType, ChildType, SignalType, EnvironmentType, StutterType DEF RobinInv, Next
    <2> QED
      BY <2>1, RobinStep
  <1> QED
    BY <1>1, <1>2, RobinImplies, PTL DEF Spec

-----------------------------------------------------------------------------
(* The pool implements the listening socket.                                *)

\* A death closes the socket or changes nothing the clients can see.
LEMMA DiesServes ==
  ASSUME TypeInv, NEW p \in Procs, NEW how \in {"exited", "killed"}, Alive(p), Dies(p, how)
  PROVE  Listener!Close \/ (queue' = queue /\ SocketOpen' = SocketOpen)
  <1> USE DEF TypeInv, TypeOK
  <1>1. \A q \in Procs : Alive(q)' <=> q # p /\ Alive(q)
    BY DEF Dies, Alive
  <1>2. SocketOpen
    BY DEF SocketOpen
  <1>3. CASE \A q \in Procs \ {p} : ~Alive(q)
    <2>1. ~SocketOpen'
      BY <1>1, <1>3 DEF SocketOpen
    <2>2. queue' = 0
      BY <1>3 DEF Dies, QueueWithout
    <2>3. SocketOpen' = FALSE
      BY <2>1 DEF SocketOpen
    <2> QED
      BY <1>2, <2>2, <2>3 DEF Listener!Close
  <1>4. CASE \E q \in Procs \ {p} : Alive(q)
    <2>1. SocketOpen'
      BY <1>1, <1>4 DEF SocketOpen
    <2>2. queue' = queue
      BY <1>4 DEF Dies, QueueWithout
    <2>3. SocketOpen' = SocketOpen
      BY <1>2, <2>1 DEF SocketOpen
    <2> QED
      BY <2>2, <2>3
  <1> QED
    BY <1>3, <1>4

\* A step in which nobody is born or dies keeps the socket as it is.
LEMMA KeepsOpen ==
  ASSUME \A p \in Procs : Alive(p)' <=> Alive(p)
  PROVE  SocketOpen' = SocketOpen
  BY DEF SocketOpen

LEMMA StepServes ==
  ASSUME TypeInv, [Next]_vars
  PROVE  Listener!Next \/ (queue' = queue /\ SocketOpen' = SocketOpen)
  <1> DEFINE Same == queue' = queue /\ SocketOpen' = SocketOpen
             Goal == Listener!Next \/ Same
  <1> USE ProcFacts DEF TypeInv, TypeOK
  <1>1. ASSUME NEW p \in Procs, NEW how \in {"exited", "killed"}, Alive(p), Dies(p, how)
        PROVE  Goal
    BY <1>1, DiesServes DEF Listener!Next
  <1>2. ASSUME UNCHANGED <<pc, queue>> PROVE Goal
    BY <1>2, KeepsOpen DEF Alive
  <1>3. CASE ParentStep
    <2>1. ASSUME NEW i \in Children, Fork(i) PROVE Goal
      <3>1. Alive(Parent) /\ Alive(Parent)'
        BY <2>1 DEF Fork, Alive
      <3>2. SocketOpen /\ SocketOpen'
        BY <3>1 DEF SocketOpen
      <3>3. SocketOpen' = SocketOpen
        BY <3>2 DEF SocketOpen
      <3> QED
        BY <2>1, <3>3 DEF Fork, kernVars
    <2>2. CASE ParentSetup
      <3>1. \A p \in Procs : Alive(p)' <=> Alive(p)
        BY <2>2 DEF ParentSetup, Alive
      <3> QED
        BY <2>2, <3>1, KeepsOpen DEF ParentSetup, kernVars
    <2>3. CASE ParentWait \/ ParentSignals
      BY <2>3, <1>2 DEF ParentWait, ParentSignals
    <2>4. CASE ParentNotify
      <3>1. Alive(Parent)
        BY <2>4 DEF ParentNotify, InBatch, Alive
      <3>2. CASE Alive(Sel)
        BY <2>4, <3>2, <1>2 DEF ParentNotify, Notify
      <3>3. CASE ~Alive(Sel)
        BY <2>4, <3>1, <3>3, <1>1 DEF ParentNotify
      <3> QED
        BY <3>2, <3>3
    <2>5. CASE ParentExit
      <3>1. Alive(Parent)
        BY <2>5 DEF ParentExit, AtLoopHead, Alive
      <3> QED
        BY <2>5, <3>1, <1>1 DEF ParentExit
    <2> QED
      BY <1>3, <2>1, <2>2, <2>3, <2>4, <2>5 DEF ParentStep
  <1>4. ASSUME NEW i \in Children, ChildStep(i) PROVE Goal
    <2>1. CASE ChildSetup(i) \/ ChildIpc(i) \/ ChildAcceptDone(i)
      <3>1. \A p \in Procs : Alive(p)' <=> Alive(p)
        BY <2>1 DEF ChildSetup, ChildIpc, ChildAcceptDone, InBatch, Alive
      <3>2. queue' = queue
        BY <2>1 DEF ChildSetup, ChildIpc, ChildAcceptDone, kernVars
      <3> QED
        BY <3>1, <3>2, KeepsOpen
    <2>2. CASE ChildWait(i) \/ ChildIpcEof(i) \/ ChildSignals(i)
      BY <2>2, <1>2 DEF ChildWait, ChildIpcEof, ChildSignals, kernVars
    <2>3. CASE ChildAccept(i)
      <3>1. SocketOpen' = SocketOpen
        BY <2>3, KeepsOpen DEF ChildAccept, Alive
      <3> QED
        BY <2>3, <3>1 DEF ChildAccept, Listener!Next, Listener!Accept
    <2>5. CASE ChildAcceptDrops(i)
      <3>1. \A p \in Procs : Alive(p)' <=> Alive(p)
        BY <2>5 DEF ChildAcceptDrops, Alive
      <3>2. SocketOpen' = SocketOpen
        BY <3>1, KeepsOpen
      <3> QED
        BY <2>5, <3>2 DEF ChildAcceptDrops, Listener!Next, Listener!Accept
    <2>4. CASE ChildExit(i)
      <3>1. Alive(i)
        BY <2>4 DEF ChildExit, AtLoopHead, Alive
      <3> QED
        BY <2>4, <3>1, <1>1 DEF ChildExit
    <2> QED
      BY <1>4, <2>1, <2>2, <2>3, <2>4, <2>5 DEF ChildStep
  <1>5. ASSUME NEW p \in Procs, DeliverSignal(p) PROVE Goal
    <2>1. ASSUME NEW s \in Signals, SignalHandled(p, s) PROVE Goal
      BY <2>1, <1>2 DEF SignalHandled, procVars
    <2>2. ASSUME NEW s \in Signals, SignalDefault(p, s), s \in StopSignals PROVE Goal
      BY <2>2, <1>1 DEF SignalDefault
    <2>3. ASSUME NEW s \in Signals, SignalDefault(p, s), s \notin StopSignals PROVE Goal
      BY <2>3, <1>2 DEF SignalDefault
    <2> QED
      BY <1>5, <2>1, <2>2, <2>3 DEF DeliverSignal
  <1>6. CASE Environment
    <2>1. CASE Connect
      <3>1. SocketOpen' = SocketOpen /\ SocketOpen
        BY <2>1, KeepsOpen DEF Connect, procVars, Alive, SocketOpen
      <3> QED
        BY <2>1, <3>1 DEF Connect, Listener!Next, Listener!Arrive
    <2>2. CASE CtrlC \/ \E p \in Procs : Kill(p)
      BY <2>2, <1>2 DEF CtrlC, Kill, procVars
    <2>3. ASSUME NEW i \in Children, ChildCrash(i) PROVE Goal
      BY <2>3, <1>1 DEF ChildCrash
    <2>4. ASSUME NEW i \in Children, StartsFailing(i) \/ StopsFailing(i) PROVE Goal
      BY <1>2, <2>4, FailingQuiet DEF procVars, kernVars
    <2> QED
      BY <1>6, <2>1, <2>2, <2>3, <2>4 DEF Environment
  <1>7. CASE UNCHANGED vars
    BY <1>7, <1>2 DEF vars, procVars, kernVars
  <1> QED
    BY <1>3, <1>4, <1>5, <1>6, <1>7 DEF Next

\* The pool implements the abstract listening socket: connections leave its
\* queue by being accepted, one at a time, or with the last process.
THEOREM PoolServesListener == Spec => ServesListener
  <1>1. Init => Listener!Init
    <2> SUFFICES ASSUME Init PROVE Listener!Init
      OBVIOUS
    <2>1. Alive(Parent)
      BY ProcFacts DEF Init, Alive
    <2>2. SocketOpen = TRUE
      BY <2>1, ProcFacts DEF SocketOpen
    <2> QED
      BY <2>2 DEF Init, Listener!Init
  <1>2. TypeInv /\ [Next]_vars => [Listener!Next]_<<queue, SocketOpen>>
    BY StepServes
  <1>3. Spec => []TypeInv
    BY TypeCorrect DEF TypeInv
  <1> QED
    BY <1>1, <1>2, <1>3, PTL DEF Spec, ServesListener, Listener!Spec

=============================================================================

--------------------------- MODULE GroupChatsProofs ---------------------------
(***************************************************************************)
(* What holds of the two chat servers without timers, for every size of the  *)
(* table, every set of descriptors and every habit of the clients.           *)
(***************************************************************************)
EXTENDS MCGroupChats, ChatTableProofs

-----------------------------------------------------------------------------
(* Each server has the table of ChatTable: what it does to it is said there. *)

\* The steps of GroupChat, with the table of this module.
LEMMA FlagSteps ==
  /\ \A how : Flag!End(how) => End(how)
  /\ \A next : Flag!PollReturns(next) => PollReturns(next)
  /\ Flag!AcceptPhase => AcceptPhase
  /\ Flag!DropClient => DropClient
  /\ Flag!Receive => Receive
  /\ Flag!SkipClient => SkipClient
  /\ \A next : Flag!EndOfRound(next) => EndOfRound(next)
  /\ Flag!Broadcast => Broadcast
  /\ Flag!Clients => Clients
  <1>1. \A how : Flag!End(how) => End(how)
    BY DEF Flag!End, End, Flag!NoConn, NoConn, Flag!tableVars, tableVars
  <1>2. \A next : Flag!PollReturns(next) => PollReturns(next)
    BY DEF Flag!PollReturns, PollReturns, Flag!Refresh, Refresh, Flag!Event, Event,
           Flag!Slots, Slots, Flag!InUse, InUse, Flag!Polled, Polled, Flag!netVars,
           netVars
  <1>3. Flag!AcceptPhase => AcceptPhase
    BY DEF Flag!AcceptPhase, AcceptPhase, Flag!AcceptClient, AcceptClient,
           Flag!LowestFree, LowestFree, Flag!OpenFds, OpenFds, Flag!Open, Open,
           Flag!Refused, Refused, Flag!SlotOfNew, SlotOfNew, Flag!NewConn, NewConn,
           Flag!NoConn, NoConn, Flag!netVars, netVars, Flag!tableVars, tableVars
  <1>4. Flag!DropClient => DropClient
    BY DEF Flag!DropClient, DropClient, Flag!AtSlot, AtSlot, Flag!InUse, InUse,
           Flag!NoConn, NoConn, Flag!Replace, Replace, Flag!AfterDrop, AfterDrop
  <1>5. Flag!Receive => Receive
    BY DEF Flag!Receive, Receive, Flag!AtSlot, AtSlot, Flag!InUse, InUse,
           Flag!tableVars, tableVars
  <1>6. Flag!SkipClient => SkipClient
    BY DEF Flag!SkipClient, SkipClient, Flag!AtSlot, AtSlot, Flag!InUse, InUse,
           Flag!netVars, netVars, Flag!tableVars, tableVars
  <1>7. \A next : Flag!EndOfRound(next) => EndOfRound(next)
    BY DEF Flag!EndOfRound, EndOfRound, Flag!InUse, InUse, Flag!netVars, netVars,
           Flag!tableVars, tableVars
  <1>8. Flag!Broadcast => Broadcast
    <2>1. Flag!SendMessage => SendMessage
      BY DEF Flag!SendMessage, SendMessage, Flag!Sending, Sending, Flag!Blocked,
           Blocked, Flag!Addressee, Addressee, Flag!InUse, InUse, Flag!Open, Open,
           Flag!NextAddressee, NextAddressee, Flag!tableVars, tableVars
    <2>2. Flag!SendFails => SendFails
      BY DEF Flag!SendFails, SendFails, Flag!Sending, Sending, Flag!Addressee,
           Addressee, Flag!InUse, InUse, Flag!NextAddressee, NextAddressee,
           Flag!tableVars, tableVars
    <2>3. Flag!SendRaisesSigPipe => SendRaisesSigPipe
      BY <1>1 DEF Flag!SendRaisesSigPipe, SendRaisesSigPipe, Flag!Sending, Sending,
           Flag!Addressee, Addressee, Flag!InUse, InUse
    <2>4. Flag!SkipSender => SkipSender
      BY DEF Flag!SkipSender, SkipSender, Flag!Addressee, Addressee, Flag!InUse, InUse,
           Flag!NextAddressee, NextAddressee, Flag!tableVars, tableVars
    <2>5. Flag!SendDone => SendDone
      BY DEF Flag!SendDone, SendDone, Flag!InUse, InUse, Flag!netVars, netVars,
           Flag!tableVars, tableVars
    <2> QED
      BY <2>1, <2>2, <2>3, <2>4, <2>5 DEF Flag!Broadcast, Broadcast
  <1>9. Flag!Clients => Clients
    BY DEF Flag!Clients, Clients, Flag!Connect, Connect, Flag!Say, Say, Flag!Leave,
           Leave, Flag!Reset, Reset, Flag!Drain, Drain, Flag!Ended, Ended,
           Flag!tableVars, tableVars, Flag!loopVars, loopVars
  <1> QED
    BY <1>1, <1>2, <1>3, <1>4, <1>5, <1>6, <1>7, <1>8, <1>9

\* The steps of GroupChatSio, with the table of this module.
LEMMA SioSteps ==
  /\ \A how : Sio!End(how) => End(how)
  /\ \A next : Sio!PollReturns(next) => PollReturns(next)
  /\ Sio!AcceptPhase => AcceptPhase
  /\ Sio!DropClient => DropClient
  /\ Sio!Receive => Receive
  /\ Sio!SkipClient => SkipClient
  /\ \A next : Sio!EndOfRound(next) => EndOfRound(next)
  /\ Sio!Broadcast => Broadcast
  /\ Sio!Clients => Clients
  <1>1. \A how : Sio!End(how) => End(how)
    BY DEF Sio!End, End, Sio!NoConn, NoConn, Sio!tableVars, tableVars
  <1>2. \A next : Sio!PollReturns(next) => PollReturns(next)
    BY DEF Sio!PollReturns, PollReturns, Sio!Refresh, Refresh, Sio!Event, Event,
           Sio!Slots, Slots, Sio!InUse, InUse, Sio!Polled, Polled, Sio!netVars,
           netVars
  <1>3. Sio!AcceptPhase => AcceptPhase
    BY DEF Sio!AcceptPhase, AcceptPhase, Sio!AcceptClient, AcceptClient,
           Sio!LowestFree, LowestFree, Sio!OpenFds, OpenFds, Sio!Open, Open,
           Sio!Refused, Refused, Sio!SlotOfNew, SlotOfNew, Sio!NewConn, NewConn,
           Sio!NoConn, NoConn, Sio!netVars, netVars, Sio!tableVars, tableVars
  <1>4. Sio!DropClient => DropClient
    BY DEF Sio!DropClient, DropClient, Sio!AtSlot, AtSlot, Sio!InUse, InUse,
           Sio!NoConn, NoConn, Sio!Replace, Replace, Sio!AfterDrop, AfterDrop
  <1>5. Sio!Receive => Receive
    BY DEF Sio!Receive, Receive, Sio!AtSlot, AtSlot, Sio!InUse, InUse, Sio!tableVars,
           tableVars
  <1>6. Sio!SkipClient => SkipClient
    BY DEF Sio!SkipClient, SkipClient, Sio!AtSlot, AtSlot, Sio!InUse, InUse,
           Sio!netVars, netVars, Sio!tableVars, tableVars
  <1>7. \A next : Sio!EndOfRound(next) => EndOfRound(next)
    BY DEF Sio!EndOfRound, EndOfRound, Sio!InUse, InUse, Sio!netVars, netVars,
           Sio!tableVars, tableVars
  <1>8. Sio!Broadcast => Broadcast
    <2>1. Sio!SendMessage => SendMessage
      BY DEF Sio!SendMessage, SendMessage, Sio!Sending, Sending, Sio!Blocked, Blocked,
           Sio!Addressee, Addressee, Sio!InUse, InUse, Sio!Open, Open,
           Sio!NextAddressee, NextAddressee, Sio!tableVars, tableVars
    <2>2. Sio!SendFails => SendFails
      BY DEF Sio!SendFails, SendFails, Sio!Sending, Sending, Sio!Addressee, Addressee,
           Sio!InUse, InUse, Sio!NextAddressee, NextAddressee, Sio!tableVars,
           tableVars
    <2>3. Sio!SendRaisesSigPipe => SendRaisesSigPipe
      BY <1>1 DEF Sio!SendRaisesSigPipe, SendRaisesSigPipe, Sio!Sending, Sending,
           Sio!Addressee, Addressee, Sio!InUse, InUse
    <2>4. Sio!SkipSender => SkipSender
      BY DEF Sio!SkipSender, SkipSender, Sio!Addressee, Addressee, Sio!InUse, InUse,
           Sio!NextAddressee, NextAddressee, Sio!tableVars, tableVars
    <2>5. Sio!SendDone => SendDone
      BY DEF Sio!SendDone, SendDone, Sio!InUse, InUse, Sio!netVars, netVars,
           Sio!tableVars, tableVars
    <2> QED
      BY <2>1, <2>2, <2>3, <2>4, <2>5 DEF Sio!Broadcast, Broadcast
  <1>9. Sio!Clients => Clients
    BY DEF Sio!Clients, Clients, Sio!Connect, Connect, Sio!Say, Say, Sio!Leave, Leave,
           Sio!Reset, Reset, Sio!Drain, Drain, Sio!Ended, Ended, Sio!tableVars,
           tableVars, Sio!loopVars, loopVars
  <1> QED
    BY <1>1, <1>2, <1>3, <1>4, <1>5, <1>6, <1>7, <1>8, <1>9

-----------------------------------------------------------------------------
(* The steps of the servers.                                               *)

\* The test of the flag, the same in both.
LEMMA TestSound ==
  ASSUME ChatAssumption, Sound, pc = "test",
         IF kStop THEN End("exit")
         ELSE pc' = "poll" /\ UNCHANGED <<netVars, tableVars, listening, fds_i, send_j, due>>
  PROVE  Sound'
  <1>1. CASE kStop
    BY <1>1, EndSound DEF Ended
  <1>2. CASE ~ kStop
    BY <1>2, ToPollSound
  <1> QED
    BY <1>1, <1>2

LEMMA FlagSound ==
  ASSUME ChatAssumption, Sound, kStop \in BOOLEAN, [Flag!Next]_(Flag!vars)
  PROVE  Sound' /\ kStop' \in BOOLEAN
  <1>0. kStop' \in BOOLEAN
    BY DEF Flag!Next, Flag!Server, Flag!Test, Flag!Poll, Flag!Accept, Flag!Client, Flag!Send,
           Flag!Term, Flag!vars
  <1>1. CASE Flag!Test
    <2>1. /\ pc = "test"
          /\ IF kStop THEN Flag!End("exit")
             ELSE /\ pc' = "poll"
                  /\ UNCHANGED <<netVars, tableVars, listening, fds_i, send_j, due>>
      BY <1>1 DEF Flag!Test, Flag!netVars, netVars, Flag!tableVars, tableVars
    <2> QED
      BY <1>0, <2>1, FlagSteps, TestSound
  <1>2. CASE Flag!Poll
    <2>1. pc = "poll" /\ PollReturns("accept")
      BY <1>2, FlagSteps DEF Flag!Poll
    <2> QED
      BY <1>0, <2>1, PollSound
  <1>3. CASE Flag!Accept
    BY <1>0, <1>3, FlagSteps, AcceptSound DEF Flag!Accept
  <1>4. CASE Flag!Client
    BY <1>0, <1>4, FlagSteps, DropSound, ReceiveSound, SkipSound, EndOfRoundSound
       DEF Flag!Client
  <1>5. CASE Flag!Send
    BY <1>0, <1>5, FlagSteps, BroadcastSound DEF Flag!Send
  <1>6. CASE Flag!Clients
    BY <1>0, <1>6, FlagSteps, ClientsSound
  <1>7. CASE Flag!Term
    <2>1. UNCHANGED chatVars \/ End("exit")
      BY <1>7, FlagSteps DEF Flag!Term, Flag!chatVars, chatVars, Flag!netVars, netVars,
         Flag!tableVars, tableVars, Flag!loopVars, loopVars
    <2> QED
      BY <1>0, <2>1, IdleSound, EndSound DEF Ended
  <1>8. CASE UNCHANGED Flag!vars
    <2>1. UNCHANGED chatVars
      BY <1>8 DEF Flag!vars, Flag!chatVars, chatVars, Flag!netVars, netVars,
         Flag!tableVars, tableVars, Flag!loopVars, loopVars
    <2> QED
      BY <1>0, <2>1, IdleSound
  <1> QED
    BY <1>1, <1>2, <1>3, <1>4, <1>5, <1>6, <1>7, <1>8 DEF Flag!Next, Flag!Server

\* The types of what a server with a socketpair has besides.
PipeTypes ==
  kStop \in BOOLEAN /\ signalled \in BOOLEAN /\ kSigPipeFD \subseteq Sio!Signals

LEMMA SioSound ==
  ASSUME ChatAssumption, Sound, PipeTypes, [Sio!Next]_(Sio!vars)
  PROVE  Sound' /\ PipeTypes'
  <1>0. PipeTypes'
    <2>1. CASE Sio!Test \/ Sio!Accept \/ Sio!Client \/ Sio!Send \/ UNCHANGED Sio!sigVars
      BY <2>1 DEF PipeTypes, Sio!Test, Sio!Accept, Sio!Client, Sio!Send, Sio!sigVars
    <2>2. CASE Sio!Poll \/ Sio!SignalPhase
      BY <2>2 DEF PipeTypes, Sio!Poll, Sio!SignalPhase, Sio!ReadSignals
    <2>3. CASE \E sig \in Sio!Signals : Sio!GenSigIO(sig)
      BY <2>3 DEF PipeTypes, Sio!GenSigIO
    <2> QED
      BY <2>1, <2>2, <2>3 DEF Sio!Next, Sio!Server, Sio!vars
  <1>1. CASE Sio!Test
    <2>1. /\ pc = "test"
          /\ IF kStop THEN Sio!End("exit")
             ELSE /\ pc' = "poll"
                  /\ UNCHANGED <<netVars, tableVars, listening, fds_i, send_j, due>>
      BY <1>1 DEF Sio!Test, Sio!netVars, netVars, Sio!tableVars, tableVars
    <2> QED
      BY <1>0, <2>1, SioSteps, TestSound
  <1>2. CASE Sio!Poll
    <2>1. pc = "poll" /\ PollReturns("signals")
      BY <1>2, SioSteps DEF Sio!Poll
    <2> QED
      BY <1>0, <2>1, PollSound
  <1>3. CASE Sio!SignalPhase
    <2>1. /\ pc = "signals" /\ pc' = "accept"
          /\ UNCHANGED <<netVars, tableVars, listening, fds_i, send_j, due>>
      BY <1>3 DEF Sio!SignalPhase, Sio!netVars, netVars, Sio!tableVars, tableVars
    <2> QED
      BY <1>0, <2>1, ToAcceptSound
  <1>4. CASE Sio!Accept
    BY <1>0, <1>4, SioSteps, AcceptSound DEF Sio!Accept
  <1>5. CASE Sio!Client
    BY <1>0, <1>5, SioSteps, DropSound, ReceiveSound, SkipSound, EndOfRoundSound
       DEF Sio!Client
  <1>6. CASE Sio!Send
    BY <1>0, <1>6, SioSteps, BroadcastSound DEF Sio!Send
  <1>7. CASE Sio!Clients
    BY <1>0, <1>7, SioSteps, ClientsSound
  <1>8. CASE (\E sig \in Sio!Signals : Sio!GenSigIO(sig)) \/ UNCHANGED Sio!vars
    <2>1. SendInterrupted \/ UNCHANGED chatVars
      BY <1>8 DEF Sio!GenSigIO, Sio!SendInterrupted, SendInterrupted, Sio!Blocked, Blocked,
         Sio!Sending, Sending, Sio!Addressee, Addressee, Sio!InUse, InUse,
         Sio!NextAddressee, NextAddressee, Sio!vars, Sio!chatVars, chatVars, Sio!netVars,
         netVars, Sio!tableVars, tableVars, Sio!loopVars, loopVars
    <2> QED
      BY <1>0, <2>1, IdleSound, BroadcastSound
  <1> QED
    BY <1>1, <1>2, <1>3, <1>4, <1>5, <1>6, <1>7, <1>8 DEF Sio!Next, Sio!Server

-----------------------------------------------------------------------------
(* The theorems.                                                           *)

\* Sound says of the table and the loop what makes the invariants inductive.
Inv ==
  /\ program \in {"flag", "sio"} /\ Sound /\ PipeTypes
  /\ program = "flag" => kSigPipeFD = {} /\ ~ signalled

LEMMA SameTypes == Sound => (Flag!TableTypeOK /\ Sio!TableTypeOK)
  BY DEF Sound, TableTypeOK, Flag!TableTypeOK, Sio!TableTypeOK, Flag!Slots, Sio!Slots, Slots,
         Flag!NoFd, Sio!NoFd, NoFd, Flag!Revents, Sio!Revents, Revents, Flag!Ended, Sio!Ended,
         Ended

LEMMA SioInit == ASSUME Sio!Init PROVE TableInit
  BY DEF Sio!Init, Sio!TableInit, TableInit, Sio!NoConn, NoConn, Sio!Slots, Slots, Sio!NoFd,
         NoFd

LEMMA InvInit == ASSUME ChatAssumption, Init PROVE Inv
  <1>1. Sound
    BY SioInit, SoundInit DEF Init
  <1> QED
    BY <1>1 DEF Init, Sio!Init, Inv, PipeTypes

LEMMA InvNext == ASSUME ChatAssumption, Inv, [Next]_vars PROVE Inv'
  <1>1. CASE FlagRuns(Flag!Next)
    BY <1>1, FlagSound DEF FlagRuns, Inv, PipeTypes, pipeVars
  <1>2. CASE SioRuns(Sio!Next)
    BY <1>2, SioSound DEF SioRuns, Inv
  <1>3. CASE UNCHANGED vars
    <2>1. UNCHANGED <<chatVars, program, kStop, kSigPipeFD, signalled>>
      BY <1>3 DEF vars, pipeVars
    <2> QED
      BY <2>1, IdleSound DEF Inv, PipeTypes
  <1> QED
    BY <1>1, <1>2, <1>3 DEF Next

LEMMA InvHolds == Spec => []Inv
  <1>1. Init => Inv
    BY InvInit, ChatAssumption
  <1>2. Inv /\ [Next]_vars => Inv'
    BY InvNext, ChatAssumption
  <1> QED
    BY <1>1, <1>2, PTL DEF Spec

\* TypeOK: the tables, the indices into them, the connections and the signals stay in
\* their types.
THEOREM ChatTypeCorrect == Spec => []TypeOK
  <1>1. Inv => TypeOK
    BY SameTypes DEF Inv, PipeTypes, TypeOK, Flag!TypeOK, Sio!TypeOK
  <1> QED
    BY <1>1, InvHolds, PTL

\* TableExact: however clients come, speak, leave and reset, the removal of slots
\* loses nobody and keeps nobody.
\* (group_chat_service.cc:83-87, 169-205, 225-239; the same in the other.)
THEOREM ChatTableStaysExact == Spec => []TableExact
  <1>1. Inv => TableExact
    BY SoundRounds DEF Inv
  <1> QED
    BY <1>1, InvHolds, PTL

\* RoundComplete: nobody is passed over, though slots get new owners in the middle
\* of the loop, and signals interrupt it.
\* (group_chat_service.cc:213-267; group_chat_service_sio.cc:195-343.)
THEOREM ChatPassesNobodyOver == Spec => []RoundComplete
  <1>1. Inv => RoundComplete
    BY SoundRounds DEF Inv
  <1> QED
    BY <1>1, InvHolds, PTL

\* RecvHasData: no recv() waits for a client, not even for one that came into the
\* slot of another after poll() returned.
\* (group_chat_service.cc:193-196, 241-249; group_chat_service_sio.cc:305-318.)
THEOREM ChatNeverBlocksInRecv == Spec => []RecvHasData
  <1>1. Inv => RecvHasData
    BY SoundRounds DEF Inv
  <1> QED
    BY <1>1, InvHolds, PTL

\* The server with the flag, on its own.
THEOREM FlagServerCorrect == Flag!Spec => [](TableExact /\ RoundComplete /\ RecvHasData)
  <1>1. Flag!Init => Sound /\ kStop \in BOOLEAN
    <2> SUFFICES ASSUME Flag!Init PROVE TableInit
      BY SoundInit, ChatAssumption DEF Flag!Init
    <2> QED
      BY DEF Flag!Init, Flag!TableInit, TableInit, Flag!NoConn, NoConn, Flag!Slots, Slots,
             Flag!NoFd, NoFd
  <1>2. Sound /\ kStop \in BOOLEAN /\ [Flag!Next]_(Flag!vars)
          => Sound' /\ (kStop \in BOOLEAN)'
    BY FlagSound, ChatAssumption
  <1>3. Sound => TableExact /\ RoundComplete /\ RecvHasData
    BY SoundRounds
  <1> QED
    BY <1>1, <1>2, <1>3, PTL DEF Flag!Spec

\* The server with the socketpair, on its own.
THEOREM SioServerCorrect == Sio!Spec => [](TableExact /\ RoundComplete /\ RecvHasData)
  <1>1. Sio!Init => Sound /\ PipeTypes
    BY SioInit, SoundInit, ChatAssumption DEF Sio!Init, PipeTypes
  <1>2. Sound /\ PipeTypes /\ [Sio!Next]_(Sio!vars) => Sound' /\ PipeTypes'
    BY SioSound, ChatAssumption
  <1>3. Sound => TableExact /\ RoundComplete /\ RecvHasData
    BY SoundRounds
  <1> QED
    BY <1>1, <1>2, <1>3, PTL DEF Sio!Spec

-----------------------------------------------------------------------------
(* The safety halves of LeaverClosed, TermAtNextEvent and TermStops.        *)

\* The loop is never past a slot whose client hung up: whatever moves in the table
\* while it runs, the slot is still ahead.
HangUpsAhead ==
  pc \notin Ended =>
    \A s \in InUse : kFDS[s].revents \in {"err", "rdhup"} => s \in ToVisit

\* The step of a server, as far as its table is concerned.
TableStep ==
  \/ \E how \in Ended : End(how)
  \/ pc = "test" /\ pc' = "poll" /\ UNCHANGED <<kFDS, kCntClient, fds_i>>
  \/ pc = "poll" /\ \E next \in {"signals", "accept"} : PollReturns(next)
  \/ pc = "signals" /\ pc' = "accept" /\ UNCHANGED <<kFDS, kCntClient, fds_i>>
  \/ AcceptPhase \/ DropClient \/ Receive \/ SkipClient \/ EndOfRound("test")
  \/ Broadcast \/ UNCHANGED <<kFDS, kCntClient, pc, fds_i>>

LEMMA HangUpsStep ==
  ASSUME ChatAssumption, TableTypeOK, HangUpsAhead, TableStep
  PROVE  HangUpsAhead'
  <1> DEFINE Bad(s) == kFDS[s].revents \in {"err", "rdhup"}
  <1>0. pc \in Ended => pc' \in Ended
    <2>1. CASE \E how \in Ended : End(how)
      BY <2>1 DEF End
    <2>2. CASE Broadcast
      BY <2>2 DEF Broadcast, SendMessage, SendFails, SendRaisesSigPipe, SkipSender, SendDone,
                  Sending, Ended
    <2>3. CASE AcceptPhase \/ DropClient \/ Receive \/ SkipClient \/ EndOfRound("test")
      BY <2>3 DEF AcceptPhase, DropClient, Receive, SkipClient, EndOfRound, AtSlot, Ended
    <2> QED
      BY <2>1, <2>2, <2>3 DEF TableStep, Ended
  <1> SUFFICES ASSUME pc \notin Ended, pc' \notin Ended, NEW s \in InUse', Bad(s)'
               PROVE  s \in ToVisit'
    BY <1>0 DEF HangUpsAhead
  <1>1. /\ fds_i \in Nat /\ kCntClient \in Nat
        /\ \A t \in InUse : Bad(t) => t \in ToVisit
    BY DEF TableTypeOK, ChatAssumption, HangUpsAhead
  <1>2. CASE pc' \in {"signals", "accept"}
    BY <1>2 DEF ToVisit
  <1>3. CASE pc = "test" /\ pc' = "poll" /\ UNCHANGED <<kFDS, kCntClient, fds_i>>
    BY <1>1, <1>3 DEF ToVisit, InUse
  <1>4. CASE AcceptPhase
    <2>1. pc' = "clients" /\ fds_i' = 1
      BY <1>4 DEF AcceptPhase
    <2>2. s \in Nat /\ s >= 1
      BY <1>4 DEF InUse, AcceptPhase
    <2> QED
      BY <2>1, <2>2 DEF ToVisit
  <1>5. CASE DropClient
    <2>1. /\ pc = "clients" /\ pc' = "clients" /\ fds_i' = fds_i
          /\ kCntClient' = kCntClient - 1
          /\ kFDS' = [kFDS EXCEPT ![fds_i] = kFDS[kCntClient]]
      BY <1>5 DEF DropClient, AtSlot, Replace, AfterDrop
    <2>2. s \in InUse /\ s \in Nat
      BY <1>1, <2>1 DEF InUse
    <2>3. CASE s < fds_i
      <3>1. s \in Slots
        BY <1>1, <2>2 DEF TableTypeOK, InUse, Slots, ChatAssumption
      <3>2. kFDS'[s] = kFDS[s]
        BY <1>1, <2>1, <2>2, <2>3, <3>1 DEF TableTypeOK
      <3>3. s \in ToVisit
        BY <1>1, <2>2, <3>2
      <3> QED
        BY <1>1, <2>1, <2>2, <2>3, <3>3 DEF ToVisit
    <2>4. CASE s >= fds_i
      BY <2>1, <2>4 DEF ToVisit
    <2> QED
      BY <1>1, <2>2, <2>3, <2>4
  <1>6. CASE Receive \/ SkipClient
    <2>1. /\ pc = "clients" /\ UNCHANGED <<kFDS, kCntClient>> /\ ~ Bad(fds_i)
          /\ \/ pc' = "send" /\ fds_i' = fds_i
             \/ pc' = "clients" /\ fds_i' = fds_i + 1
      BY <1>6 DEF Receive, SkipClient, AtSlot, tableVars
    <2>2. s \in InUse /\ s \in Nat /\ Bad(s)
      BY <2>1 DEF InUse
    <2>3. s >= fds_i /\ s # fds_i
      BY <1>1, <2>1, <2>2 DEF ToVisit
    <2> QED
      BY <1>1, <2>1, <2>2, <2>3 DEF ToVisit
  <1>7. CASE EndOfRound("test")
    <2>1. pc = "clients" /\ fds_i \notin InUse /\ UNCHANGED <<kFDS, kCntClient>>
      BY <1>7 DEF EndOfRound, tableVars
    <2>2. s \in InUse /\ s \in 1 .. kCntClient /\ Bad(s)
      BY <2>1 DEF InUse
    <2>3. s >= fds_i
      BY <1>1, <2>1, <2>2 DEF ToVisit
    <2>4. fds_i \in 1 .. kCntClient
      BY <1>1, <2>2, <2>3 DEF TableTypeOK
    <2> QED
      BY <2>1, <2>4 DEF InUse
  <1>8. CASE Broadcast
    <2>1. CASE SendMessage \/ SendFails \/ SkipSender
      <3>1. UNCHANGED <<kFDS, kCntClient, pc, fds_i>>
        BY <2>1 DEF SendMessage, SendFails, SkipSender, NextAddressee, tableVars
      <3> QED
        BY <1>1, <3>1 DEF ToVisit, InUse
    <2>2. CASE SendDone
      <3>1. /\ pc = "send" /\ pc' = "clients" /\ fds_i' = fds_i + 1
            /\ UNCHANGED <<kFDS, kCntClient>>
        BY <2>2 DEF SendDone, tableVars
      <3>2. s \in InUse /\ s \in Nat /\ Bad(s)
        BY <3>1 DEF InUse
      <3>3. s > fds_i
        BY <1>1, <3>1, <3>2 DEF ToVisit
      <3> QED
        BY <1>1, <3>1, <3>2, <3>3 DEF ToVisit
    <2>3. CASE SendRaisesSigPipe
      BY <2>3 DEF SendRaisesSigPipe, End, Ended
    <2> QED
      BY <1>8, <2>1, <2>2, <2>3 DEF Broadcast
  <1>9. CASE UNCHANGED <<kFDS, kCntClient, pc, fds_i>>
    BY <1>1, <1>9 DEF ToVisit, InUse
  <1>10. CASE \E how \in Ended : End(how)
    BY <1>10 DEF End
  <1>11. CASE \E next \in {"signals", "accept"} : PollReturns(next)
    BY <1>2, <1>11 DEF PollReturns
  <1>12. CASE pc = "signals" /\ pc' = "accept" /\ UNCHANGED <<kFDS, kCntClient, fds_i>>
    BY <1>2, <1>12
  <1> QED
    BY <1>3, <1>4, <1>5, <1>6, <1>7, <1>8, <1>9, <1>10, <1>11, <1>12 DEF TableStep

\* Every step of the two servers is one of these.
LEMMA FlagTableStep == ASSUME [Flag!Next]_(Flag!vars) PROVE TableStep
  <1>1. CASE Flag!Test
    BY <1>1, FlagSteps DEF Flag!Test, TableStep, Ended, Flag!tableVars
  <1>2. CASE Flag!Poll
    BY <1>2, FlagSteps DEF Flag!Poll, TableStep
  <1>3. CASE Flag!Accept \/ Flag!Client \/ Flag!Send
    BY <1>3, FlagSteps DEF Flag!Accept, Flag!Client, Flag!Send, TableStep
  <1>4. CASE Flag!Clients
    BY <1>4, FlagSteps DEF Clients, tableVars, loopVars, TableStep
  <1>5. CASE Flag!Term
    <2>1. UNCHANGED <<kFDS, kCntClient, pc, fds_i>> \/ End("exit")
      BY <1>5, FlagSteps DEF Flag!Term, Flag!chatVars, Flag!tableVars, Flag!loopVars
    <2> QED
      BY <2>1 DEF TableStep, Ended
  <1>6. CASE UNCHANGED Flag!vars
    BY <1>6 DEF Flag!vars, Flag!chatVars, Flag!tableVars, Flag!loopVars, TableStep
  <1> QED
    BY <1>1, <1>2, <1>3, <1>4, <1>5, <1>6 DEF Flag!Next, Flag!Server

LEMMA SioTableStep == ASSUME [Sio!Next]_(Sio!vars) PROVE TableStep
  <1>1. CASE Sio!Test
    BY <1>1, SioSteps DEF Sio!Test, TableStep, Ended, Sio!tableVars
  <1>2. CASE Sio!Poll
    BY <1>2, SioSteps DEF Sio!Poll, TableStep
  <1>3. CASE Sio!Accept \/ Sio!Client \/ Sio!Send
    BY <1>3, SioSteps DEF Sio!Accept, Sio!Client, Sio!Send, TableStep
  <1>4. CASE Sio!Clients
    BY <1>4, SioSteps DEF Clients, tableVars, loopVars, TableStep
  <1>5. CASE Sio!SignalPhase
    BY <1>5 DEF Sio!SignalPhase, Sio!tableVars, TableStep
  <1>6. CASE (\E sig \in Sio!Signals : Sio!GenSigIO(sig)) \/ UNCHANGED Sio!vars
    <2>1. UNCHANGED <<kFDS, kCntClient, pc, fds_i>>
      BY <1>6 DEF Sio!GenSigIO, Sio!SendInterrupted, Sio!NextAddressee, Sio!vars, Sio!chatVars,
                  Sio!tableVars, Sio!loopVars
    <2> QED
      BY <2>1 DEF TableStep
  <1> QED
    BY <1>1, <1>2, <1>3, <1>4, <1>5, <1>6 DEF Sio!Next, Sio!Server

LEMMA BothTableStep == ASSUME [Next]_vars PROVE TableStep
  <1>1. CASE UNCHANGED vars
    BY <1>1 DEF vars, chatVars, tableVars, loopVars, TableStep
  <1> QED
    BY <1>1, FlagTableStep, SioTableStep DEF Next, FlagRuns, SioRuns

\* Whoever had hung up when poll() returned is out of the table when the round ends,
\* however slots were moved meanwhile; and then, by TableExact, his descriptor is closed.
\* (group_chat_service.cc:213-239; group_chat_service_sio.cc:277-303.)
HangUpsRemoved ==
  pc \in {"test", "poll"} => \A s \in InUse : kFDS[s].revents \notin {"err", "rdhup"}

THEOREM LeaversRemoved == Spec => []HangUpsRemoved
  <1>1. Init => HangUpsAhead
    <2> SUFFICES ASSUME Init PROVE HangUpsAhead
      OBVIOUS
    <2>1. kCntClient = 0
      BY SioInit DEF Init, TableInit
    <2> QED
      BY <2>1 DEF HangUpsAhead, InUse
  <1>2. Inv /\ HangUpsAhead /\ [Next]_vars => HangUpsAhead'
    BY BothTableStep, HangUpsStep, ChatAssumption DEF Inv, Sound
  <1>3. HangUpsAhead => HangUpsRemoved
    BY DEF HangUpsAhead, HangUpsRemoved, ToVisit, Ended
  <1> QED
    BY <1>1, <1>2, <1>3, InvHolds, PTL DEF Spec

\* SIGTERM is not forgotten: a byte of it that is in the socketpair stays there until
\* it is read, and then the flag is set, as the handler of the other server sets it at
\* once; the flag stays set, and poll() is not called again.  In the server with the
\* socketpair it is never called with the flag set: what is read in a round ends the
\* server with that round.
\* (group_chat_service.cc:37-42, 152-161; group_chat_service_sio.cc:55-60, 194-231.)
TermKept ==
  /\ [](program = "sio" /\ kStop => pc \notin {"poll", "signals"})
  /\ [][program = "sio" /\ "TERM" \in kSigPipeFD => ("TERM" \in kSigPipeFD \/ kStop)']_vars
  /\ [][kStop => kStop' /\ (pc' = "poll" => pc = "poll")]_vars

THEOREM TermNotForgotten == Spec => TermKept
  <1> DEFINE InRound == program = "sio" /\ kStop => pc \notin {"poll", "signals"}
             ByteStays == program = "sio" /\ "TERM" \in kSigPipeFD
                          => ("TERM" \in kSigPipeFD \/ kStop)'
             FlagStays == kStop => kStop' /\ (pc' = "poll" => pc = "poll")
  <1>1. Init => InRound
    BY DEF Init, Sio!Init
  <1>2. ASSUME Sio!Test \/ Sio!Accept \/ Sio!Client \/ Sio!Send
        PROVE  /\ UNCHANGED <<kStop, kSigPipeFD>>
               /\ kStop => pc' \notin {"poll", "signals"}
    BY <1>2 DEF Sio!Test, Sio!Accept, Sio!Client, Sio!Send, Sio!sigVars, Sio!End,
                Sio!AcceptPhase, Sio!DropClient, Sio!Receive, Sio!SkipClient, Sio!EndOfRound,
                Sio!AtSlot, Sio!Broadcast, Sio!SendMessage, Sio!SendFails,
                Sio!SendRaisesSigPipe, Sio!SkipSender, Sio!SendDone, Sio!NextAddressee,
                Sio!Sending
  <1>3. ASSUME Sio!Poll
        PROVE  pc = "poll" /\ pc' = "signals" /\ UNCHANGED <<kStop, kSigPipeFD>>
    BY <1>3 DEF Sio!Poll, Sio!PollReturns
  <1>4. ASSUME Sio!SignalPhase
        PROVE  /\ pc' = "accept" /\ (kStop => kStop')
               /\ "TERM" \in kSigPipeFD => ("TERM" \in kSigPipeFD \/ kStop)'
    BY <1>4 DEF Sio!SignalPhase, Sio!ReadSignals
  <1>5. ASSUME \/ \E sig \in Sio!Signals : Sio!GenSigIO(sig)
               \/ Sio!Clients /\ UNCHANGED Sio!sigVars
               \/ UNCHANGED Sio!vars
        PROVE  UNCHANGED <<pc, kStop>> /\ kSigPipeFD \subseteq kSigPipeFD'
    BY <1>5 DEF Sio!GenSigIO, Sio!SendInterrupted, Sio!NextAddressee, Sio!Clients, Sio!vars,
                Sio!chatVars, Sio!loopVars, Sio!sigVars
  <1>6. ASSUME InRound, [Sio!Next]_(Sio!vars), program = "sio", UNCHANGED program
        PROVE  InRound' /\ ByteStays /\ FlagStays
    BY <1>2, <1>3, <1>4, <1>5, <1>6 DEF Sio!Next, Sio!Server
  <1>7. ASSUME [Flag!Next]_(Flag!vars) PROVE FlagStays
    BY <1>7 DEF Flag!Next, Flag!Server, Flag!Test, Flag!Poll, Flag!Accept, Flag!Client,
                Flag!Send, Flag!Term, Flag!End, Flag!PollReturns, Flag!AcceptPhase,
                Flag!DropClient, Flag!Receive, Flag!SkipClient, Flag!EndOfRound,
                Flag!Broadcast, Flag!SendMessage, Flag!SendFails, Flag!SendRaisesSigPipe,
                Flag!SkipSender, Flag!SendDone, Flag!NextAddressee, Flag!Clients, Flag!vars,
                Flag!chatVars, Flag!loopVars
  <1>8. InRound /\ [Next]_vars => InRound' /\ ByteStays /\ FlagStays
    <2>1. ASSUME InRound, FlagRuns(Flag!Next) PROVE InRound' /\ ByteStays /\ FlagStays
      BY <1>7, <2>1 DEF FlagRuns
    <2>2. ASSUME InRound, SioRuns(Sio!Next) PROVE InRound' /\ ByteStays /\ FlagStays
      BY <1>6, <2>2 DEF SioRuns
    <2>3. ASSUME InRound, UNCHANGED vars PROVE InRound' /\ ByteStays /\ FlagStays
      BY <2>3 DEF vars, chatVars, loopVars, pipeVars
    <2> QED
      BY <2>1, <2>2, <2>3 DEF Next
  <1>9. InRound /\ [Next]_vars => [ByteStays]_vars /\ [FlagStays]_vars
    BY <1>8
  <1> QED
    BY <1>1, <1>8, <1>9, PTL DEF Spec, TermKept

=============================================================================

--------------------------- MODULE ChatTableProofs ---------------------------
(***************************************************************************)
(* What every step of ChatTable preserves, for every size of the table and   *)
(* every set of descriptors.  The theorems about the servers are in          *)
(* GroupChatsProofs and TimingGroupChatProofs.                              *)
(***************************************************************************)
EXTENDS ChatTable, WellFoundedInduction, TLAPS

-----------------------------------------------------------------------------
(* The invariant.                                                          *)

\* A slot in use has a descriptor; a broadcast has a sender, and accept() a connection.
Named == \A s \in InUse : kFDS[s].fd \in Fds

OnTurn ==
  /\ pc = "send" => fds_i \in InUse
  /\ pc \in {"signals", "accept"} /\ listening => waiting > 0

\* What the servers need to stay in their types.
Formed == TableTypeOK /\ (pc \notin Ended => Named /\ OnTurn)

\* The slots whose revents the loop has still to look at.
ToVisit ==
  {s \in InUse : \/ pc \in {"signals", "accept"}
                 \/ pc = "clients" /\ s >= fds_i
                 \/ pc = "send" /\ s > fds_i}

\* The loop is ahead of every event that is due, and of every byte that poll()
\* promised.
AheadOfEvents ==
  /\ \A fd \in due : \E s \in ToVisit : /\ kFDS[s].fd = fd
                                        /\ kFDS[s].revents \in {"err", "rdhup", "in"}
  /\ \A s \in ToVisit : kFDS[s].revents = "in" => conn[kFDS[s].fd].unread
  /\ OnTurn

Sound == TableTypeOK /\ (pc \notin Ended => TableExact /\ AheadOfEvents)

LEMMA SoundRounds ==
  ASSUME Sound
  PROVE  TableExact /\ RoundComplete /\ RecvHasData
  <1>1. TableExact
    BY DEF Sound, TableExact
  <1>2. RoundComplete
    <2> SUFFICES ASSUME pc \in {"test", "poll"} PROVE due = {}
      BY DEF RoundComplete
    <2>1. ToVisit = {} /\ pc \notin Ended
      BY DEF ToVisit, Ended
    <2> QED
      BY <2>1 DEF Sound, AheadOfEvents, OnTurn
  <1>3. RecvHasData
    <2> SUFFICES ASSUME AtSlot({"in"}) PROVE conn[kFDS[fds_i].fd].unread
      BY DEF RecvHasData
    <2>1. fds_i \in ToVisit /\ pc \notin Ended /\ kFDS[fds_i].revents = "in"
      BY DEF AtSlot, ToVisit, Ended, InUse, Sound, TableTypeOK
    <2> QED
      BY <2>1 DEF Sound, AheadOfEvents, OnTurn
  <1> QED
    BY <1>1, <1>2, <1>3

LEMMA SoundInit ==
  ASSUME ChatAssumption, TableInit
  PROVE  Sound
  <1>1. TableTypeOK
    <2>1. conn \in [Fds -> [state : {"closed", "open", "fin", "rst"},
                            unread : BOOLEAN, sent : 0 .. SendCap]]
      BY DEF ChatAssumption, TableInit, NoConn
    <2>2. kFDS \in [Slots -> [fd : Fds \cup {NoFd}, revents : Revents]]
      BY DEF TableInit, Revents
    <2>3. /\ waiting \in 0 .. Backlog /\ kCntClient \in 0 .. MaxnClient
          /\ fds_i \in 1 .. MaxnClient + 1 /\ send_j \in 1 .. MaxnClient + 1
      BY DEF ChatAssumption, TableInit
    <2> QED
      BY <2>1, <2>2, <2>3 DEF TableInit, TableTypeOK
  <1>2. InUse = {}
    BY DEF TableInit, InUse
  <1>3. TableExact
    <2>1. Polled = {}
      BY <1>2 DEF Polled
    <2>2. OpenFds = {}
      BY DEF TableInit, OpenFds, Open, NoConn
    <2> QED
      BY <1>2, <2>1, <2>2 DEF TableExact
  <1>4. AheadOfEvents
    BY <1>2 DEF AheadOfEvents, OnTurn, ToVisit, TableInit
  <1> QED
    BY <1>1, <1>3, <1>4 DEF Sound

-----------------------------------------------------------------------------
(* Facts about a sound state.                                               *)

LEMMA SlotFacts ==
  ASSUME ChatAssumption, TableTypeOK
  PROVE  /\ InUse \subseteq Slots
         /\ kCntClient \in Nat /\ kCntClient <= MaxnClient /\ MaxnClient \in Nat
         /\ \A s \in Slots : kFDS[s].fd \in Fds \cup {NoFd} /\ kFDS[s].revents \in Revents
         /\ OpenFds \subseteq Fds
  BY DEF ChatAssumption, TableTypeOK, InUse, Slots, OpenFds

LEMMA OpenSlots ==
  ASSUME ChatAssumption, Sound, pc \notin Ended, NEW s \in InUse
  PROVE  /\ s \in Slots
         /\ kFDS[s].fd \in Fds /\ kFDS[s].fd \in OpenFds
         /\ \A t \in InUse : kFDS[s].fd = kFDS[t].fd => s = t
  <1>1. TableTypeOK /\ TableExact
    BY DEF Sound
  <1>2. kFDS[s].fd \in Polled
    BY DEF Polled
  <1>3. /\ Polled = OpenFds
        /\ \A t \in InUse : kFDS[s].fd = kFDS[t].fd => s = t
    BY <1>1 DEF TableExact
  <1>4. InUse \subseteq Slots /\ OpenFds \subseteq Fds
    BY <1>1, SlotFacts
  <1> QED
    BY <1>2, <1>3, <1>4

LEMMA SoundFormed ==
  ASSUME ChatAssumption, Sound
  PROVE  Formed
  <1>1. pc \notin Ended => Named
    BY OpenSlots DEF Named
  <1> QED
    BY <1>1 DEF Sound, AheadOfEvents, Formed

Below == {p \in Nat \X Nat : p[1] < p[2]}

\* Every set of numbers has a least.
LEMMA LeastNat ==
  ASSUME NEW T, T \subseteq Nat, T # {}
  PROVE  \E x \in T : \A y \in T : x <= y
  <1>1. IsWellFoundedOn(Below, Nat)
    BY NatLessThanWellFounded DEF Below, OpToRel
  <1>2. \A x, y \in Nat : <<y, x>> \in Below <=> y < x
    BY DEF Below
  <1>3. PICK x \in T : \A y \in T : ~(<<y, x>> \in Below)
    BY <1>1, WFMin
  <1>4. \A y \in T : ~(y < x) /\ y \in Nat /\ x \in Nat
    BY <1>2, <1>3
  <1>5. \A y \in T : x <= y
    BY <1>4
  <1> QED
    BY <1>5

LEMMA LowestFreeIsFree ==
  ASSUME ChatAssumption, OpenFds # Fds
  PROVE  LowestFree \in Fds /\ LowestFree \notin OpenFds
  <1> DEFINE T == Fds \ OpenFds
  <1>1. T \subseteq Nat /\ T # {}
    BY DEF ChatAssumption, OpenFds
  <1>2. \E x \in T : \A y \in T : x <= y
    <2> HIDE DEF T
    <2> QED
      BY <1>1, LeastNat
  <1>3. LowestFree \in T
    BY <1>2 DEF LowestFree
  <1> QED
    BY <1>3

-----------------------------------------------------------------------------
(* The types.  A step of the loop needs no more for them than Formed.       *)

Connection == [state : {"closed", "open", "fin", "rst"}, unread : BOOLEAN, sent : 0 .. SendCap]
Slot       == [fd : Fds \cup {NoFd}, revents : Revents]

LEMMA NewConnection == ASSUME ChatAssumption PROVE NoConn \in Connection /\ NewConn \in Connection
  <1>1. NoConn \in Connection
    BY DEF NoConn, Connection, ChatAssumption
  <1> QED
    BY <1>1 DEF NewConn, Connection

LEMMA ClientsFormed ==
  ASSUME ChatAssumption, Formed, Clients
  PROVE  /\ Formed'
         /\ UNCHANGED <<kFDS, kCntClient, listening, pc, fds_i, send_j, due>>
         /\ waiting' >= waiting
         /\ \A fd \in Fds : conn'[fd].state = "closed" <=> conn[fd].state = "closed"
         /\ \A fd \in Fds : conn[fd].unread => conn'[fd].unread
  <1>0. TableTypeOK /\ conn \in [Fds -> Connection]
    BY DEF Formed, TableTypeOK, Connection
  <1>1. UNCHANGED <<kFDS, kCntClient, listening, pc, fds_i, send_j, due>>
    BY DEF Clients, tableVars, loopVars
  <1>2. /\ conn' \in [Fds -> Connection]
        /\ waiting' \in 0 .. Backlog /\ waiting' >= waiting
        /\ \A g \in Fds : conn'[g].state = "closed" <=> conn[g].state = "closed"
        /\ \A g \in Fds : conn[g].unread => conn'[g].unread
    <2>1. CASE Connect
      BY <1>0, <2>1 DEF Connect, TableTypeOK, ChatAssumption
    <2>2. ASSUME NEW fd \in Fds, Say(fd) \/ Leave(fd) \/ Reset(fd) \/ Drain(fd)
          PROVE  /\ conn' \in [Fds -> Connection]
                 /\ \A g \in Fds : conn'[g].state = "closed" <=> conn[g].state = "closed"
                 /\ \A g \in Fds : conn[g].unread => conn'[g].unread
      <3>1. CASE Say(fd)
        BY <1>0, <3>1 DEF Say, Connection
      <3>2. CASE Leave(fd)
        BY <1>0, <3>2 DEF Leave, Connection
      <3>3. CASE Reset(fd)
        BY <1>0, <3>3 DEF Reset, Connection
      <3>4. CASE Drain(fd)
        BY <1>0, <3>4 DEF Drain, ChatAssumption, Connection
      <3> QED
        BY <2>2, <3>1, <3>2, <3>3, <3>4
    <2>3. ASSUME NEW fd \in Fds, Say(fd) \/ Leave(fd) \/ Reset(fd) \/ Drain(fd)
          PROVE  waiting' = waiting
      BY <2>3 DEF Say, Leave, Reset, Drain
    <2>4. waiting \in 0 .. Backlog /\ waiting >= waiting
      BY <1>0 DEF TableTypeOK
    <2> QED
      BY <2>1, <2>2, <2>3, <2>4 DEF Clients
  <1>3. TableTypeOK'
    BY <1>0, <1>1, <1>2 DEF TableTypeOK, Connection
  <1>4. pc' \notin Ended => Named' /\ OnTurn'
    BY <1>0, <1>1, <1>2 DEF Formed, Named, OnTurn, InUse, TableTypeOK
  <1> QED
    BY <1>1, <1>2, <1>3, <1>4 DEF Formed

LEMMA EndFormed ==
  ASSUME ChatAssumption, Formed, NEW how \in Ended, End(how)
  PROVE  Formed'
  <1>1. conn' \in [Fds -> Connection]
    BY NewConnection DEF End
  <1>2. TableTypeOK'
    BY <1>1 DEF End, Formed, TableTypeOK, tableVars, ChatAssumption, Connection
  <1> QED
    BY <1>2 DEF End, Formed

LEMMA PollFormed ==
  ASSUME ChatAssumption, Formed, pc = "poll", NEW next \in {"signals", "accept"},
         PollReturns(next)
  PROVE  /\ Formed'
         /\ InUse' = InUse
         /\ \A s \in InUse : kFDS'[s].fd = kFDS[s].fd /\ kFDS'[s].revents = Event(kFDS[s].fd)
         /\ \A s \in Slots : kFDS'[s].fd = kFDS[s].fd
  <1>0. TableTypeOK /\ Named /\ InUse \subseteq Slots
    BY SlotFacts DEF Formed, Ended
  <1>1. /\ UNCHANGED <<waiting, conn, kCntClient, fds_i, send_j>>
        /\ pc' = next /\ kFDS' = Refresh(kFDS) /\ listening' = (waiting > 0)
        /\ due' = {fd \in Polled : Event(fd) \notin {"none", "nval"}}
    BY DEF PollReturns, netVars
  <1>2. \A fd \in Fds : Event(fd) \in Revents
    BY DEF Event, Revents
  <1>3. \A s \in Slots :
          /\ kFDS[s] \in Slot
          /\ kFDS'[s] = IF s \in InUse THEN [kFDS[s] EXCEPT !.revents = Event(kFDS[s].fd)]
                        ELSE kFDS[s]
    BY <1>0, <1>1 DEF Refresh, TableTypeOK, Slot
  <1>4. \A s \in Slots : /\ kFDS'[s].fd = kFDS[s].fd
                         /\ s \in InUse => kFDS'[s].revents = Event(kFDS[s].fd)
    BY <1>3 DEF Slot
  <1>5. ASSUME NEW s \in Slots PROVE kFDS'[s] \in Slot
    <2>1. CASE s \in InUse
      <3>1. Event(kFDS[s].fd) \in Revents
        BY <1>0, <1>2, <2>1 DEF Named
      <3> QED
        BY <1>3, <2>1, <3>1 DEF Slot
    <2>2. CASE s \notin InUse
      BY <1>3, <2>2
    <2> QED
      BY <2>1, <2>2
  <1>6. kFDS' \in [Slots -> Slot]
    <2>1. kFDS' = [s \in Slots |-> kFDS'[s]]
      BY <1>1 DEF Refresh
    <2> QED
      BY <1>5, <2>1
  <1>7. due' \subseteq Fds
    BY <1>0, <1>1 DEF Polled, Named
  <1>8. TableTypeOK'
    BY <1>0, <1>1, <1>6, <1>7 DEF TableTypeOK, Slot
  <1>9. InUse' = InUse
    BY <1>1 DEF InUse
  <1>10. Named' /\ OnTurn'
    BY <1>0, <1>1, <1>4, <1>9 DEF Named, OnTurn
  <1> QED
    BY <1>0, <1>4, <1>8, <1>9, <1>10 DEF Formed

LEMMA AcceptFormed ==
  ASSUME ChatAssumption, Formed, AcceptPhase
  PROVE  /\ Formed'
         /\ pc = "accept" /\ pc' = "clients" /\ fds_i' = 1
         /\ UNCHANGED <<listening, send_j, due>>
         /\ IF listening /\ ~ Refused
            THEN LET new == LowestFree
                     n   == kCntClient + 1
                 IN  /\ new \in Fds /\ new \notin OpenFds
                     /\ n \in Slots /\ n \notin InUse /\ InUse' = InUse \cup {n}
                     /\ kCntClient' = n
                     /\ kFDS'[n] = [fd |-> new, revents |-> "none"]
                     /\ \A s \in Slots \ {n} : kFDS'[s] = kFDS[s]
                     /\ conn'[new] = NewConn
                     /\ \A fd \in Fds \ {new} : conn'[fd] = conn[fd]
            ELSE UNCHANGED <<conn, kFDS, kCntClient>>
  <1> USE DEF Ended
  <1>1. /\ pc = "accept" /\ pc' = "clients" /\ fds_i' = 1
        /\ UNCHANGED <<listening, send_j, due>>
    BY DEF AcceptPhase
  <1>0. TableTypeOK /\ Named /\ OnTurn
    BY <1>1 DEF Formed
  <1>2. waiting' \in 0 .. Backlog
    BY <1>0, <1>1 DEF AcceptPhase, AcceptClient, OnTurn, TableTypeOK, ChatAssumption, netVars
  <1>3. InUse \subseteq Slots /\ kCntClient \in Nat /\ MaxnClient \in Nat
    BY <1>0, SlotFacts
  <1>4. CASE listening /\ ~ Refused
    <2> DEFINE new == LowestFree
               n   == kCntClient + 1
    <2>1. /\ conn' = [conn EXCEPT ![new] = NewConn]
          /\ kCntClient' = n
          /\ kFDS' = [kFDS EXCEPT ![n] = SlotOfNew(new, @)]
      BY <1>4 DEF AcceptPhase, AcceptClient
    <2>2. new \in Fds /\ new \notin OpenFds
      BY <1>4, LowestFreeIsFree DEF Refused
    <2>3. n \in Slots /\ n \notin InUse /\ InUse' = InUse \cup {n}
      BY <1>3, <1>4, <2>1 DEF Refused, Slots, InUse
    <2>4. /\ kFDS'[n] = [fd |-> new, revents |-> "none"]
          /\ \A s \in Slots \ {n} : kFDS'[s] = kFDS[s]
      BY <1>0, <1>3, <2>1, <2>3 DEF SlotOfNew, TableTypeOK
    <2>5. /\ conn'[new] = NewConn
          /\ \A fd \in Fds \ {new} : conn'[fd] = conn[fd]
      BY <1>0, <2>1, <2>2 DEF TableTypeOK
    <2>6. conn' \in [Fds -> Connection]
      BY <1>0, <2>1, NewConnection DEF TableTypeOK, Connection
    <2>7. kFDS' \in [Slots -> Slot]
      BY <1>0, <2>1, <2>2 DEF TableTypeOK, SlotOfNew, Revents, Slot
    <2>8. kCntClient' \in 0 .. MaxnClient /\ fds_i' \in 1 .. MaxnClient + 1
      BY <1>1, <1>3, <2>1, <2>3 DEF Slots
    <2>9. TableTypeOK'
      BY <1>0, <1>1, <1>2, <2>6, <2>7, <2>8 DEF TableTypeOK, Connection, Slot
    <2>10. Named' /\ OnTurn'
      BY <1>0, <1>1, <1>3, <2>2, <2>3, <2>4 DEF Named, OnTurn
    <2> QED
      BY <1>1, <1>4, <2>1, <2>2, <2>3, <2>4, <2>5, <2>9, <2>10 DEF Formed
  <1>5. CASE ~(listening /\ ~ Refused)
    <2>1. UNCHANGED <<conn, kFDS, kCntClient>>
      BY <1>5 DEF AcceptPhase, AcceptClient, netVars, tableVars
    <2>2. TableTypeOK'
      BY <1>0, <1>1, <1>2, <1>3, <2>1 DEF TableTypeOK
    <2>3. Named' /\ OnTurn'
      BY <1>0, <1>1, <2>1 DEF Named, OnTurn, InUse
    <2> QED
      BY <1>1, <1>5, <2>1, <2>2, <2>3 DEF Formed
  <1> QED
    BY <1>4, <1>5

LEMMA ReceiveFormed ==
  ASSUME ChatAssumption, Formed, Receive
  PROVE  /\ Formed'
         /\ UNCHANGED <<waiting, listening, kFDS, kCntClient, fds_i>>
         /\ fds_i \in InUse /\ pc' = "send" /\ due' = due \ {kFDS[fds_i].fd}
         /\ \A g \in Fds : /\ conn'[g].state = conn[g].state
                           /\ g # kFDS[fds_i].fd => conn'[g] = conn[g]
  <1> DEFINE fd == kFDS[fds_i].fd
  <1>0. TableTypeOK /\ pc = "clients" /\ fds_i \in InUse /\ Named
    BY DEF Receive, AtSlot, Formed, Ended
  <1>1. /\ conn' = [conn EXCEPT ![fd].unread = FALSE]
        /\ due' = due \ {fd}
        /\ pc' = "send" /\ send_j' = 1
        /\ UNCHANGED <<waiting, kFDS, kCntClient, listening, fds_i>>
    BY DEF Receive, tableVars
  <1>2. \A g \in Fds : /\ conn'[g].state = conn[g].state
                       /\ g # fd => conn'[g] = conn[g]
    BY <1>0, <1>1 DEF TableTypeOK
  <1>3. conn' \in [Fds -> Connection]
    BY <1>0, <1>1 DEF TableTypeOK, Connection
  <1>4. TableTypeOK'
    <2>1. send_j' \in 1 .. MaxnClient + 1
      BY <1>1 DEF ChatAssumption
    <2> QED
      BY <1>0, <1>1, <1>3, <2>1 DEF TableTypeOK, Connection
  <1>5. Named' /\ OnTurn'
    BY <1>0, <1>1 DEF Named, OnTurn, InUse
  <1> HIDE DEF fd
  <1>6. Formed'
    BY <1>4, <1>5 DEF Formed
  <1> QED
    BY <1>0, <1>1, <1>2, <1>6 DEF fd

LEMMA SkipFormed ==
  ASSUME ChatAssumption, Formed, SkipClient
  PROVE  Formed'
  <1>0. /\ TableTypeOK /\ Named /\ pc = "clients" /\ fds_i \in InUse
    BY DEF SkipClient, AtSlot, Formed, Ended
  <1>1. /\ fds_i' = fds_i + 1
        /\ UNCHANGED <<waiting, conn, kFDS, kCntClient, listening, pc, send_j, due>>
    BY DEF SkipClient, netVars, tableVars
  <1>2. fds_i' \in 1 .. MaxnClient + 1
    BY <1>0, <1>1, SlotFacts DEF InUse
  <1>3. TableTypeOK'
    BY <1>0, <1>1, <1>2 DEF TableTypeOK
  <1>4. Named' /\ OnTurn'
    BY <1>0, <1>1 DEF Named, OnTurn, InUse
  <1> QED
    BY <1>3, <1>4 DEF Formed

\* The steps that touch neither the table nor the connections.
LEMMA MovesFormed ==
  ASSUME ChatAssumption, Formed, pc \in {"test", "clients", "alarm", "tick", "signals"},
         pc' \in {"test", "poll", "accept", "alarm", "tick"},
         pc' = "accept" => pc = "signals",
         UNCHANGED <<netVars, tableVars, listening, send_j, due>>, fds_i' \in {1, fds_i}
  PROVE  Formed'
  <1>0. TableTypeOK /\ Named /\ OnTurn
    BY DEF Formed, Ended
  <1>1. UNCHANGED <<waiting, conn, kFDS, kCntClient>>
    BY DEF netVars, tableVars
  <1>2. fds_i' \in 1 .. MaxnClient + 1
    BY <1>0 DEF ChatAssumption, TableTypeOK
  <1>3. TableTypeOK'
    BY <1>0, <1>1, <1>2 DEF TableTypeOK
  <1>4. Named' /\ OnTurn'
    BY <1>0, <1>1 DEF Named, OnTurn, InUse
  <1> QED
    BY <1>3, <1>4 DEF Formed

LEMMA TurnFormed ==
  ASSUME ChatAssumption, Formed, pc = "send", send_j \in InUse, NextAddressee,
         conn' \in [Fds -> Connection]
  PROVE  Formed'
  <1>0. TableTypeOK /\ Named /\ OnTurn
    BY DEF Formed, Ended
  <1>1. /\ send_j' = send_j + 1
        /\ UNCHANGED <<waiting, kFDS, kCntClient, listening, pc, fds_i, due>>
    BY DEF NextAddressee, tableVars
  <1>2. send_j' \in 1 .. MaxnClient + 1
    BY <1>0, <1>1, SlotFacts DEF InUse
  <1>3. TableTypeOK'
    BY <1>0, <1>1, <1>2 DEF TableTypeOK, Connection
  <1>4. Named' /\ OnTurn'
    BY <1>0, <1>1 DEF Named, OnTurn, InUse
  <1> QED
    BY <1>3, <1>4 DEF Formed

LEMMA SendFormed ==
  ASSUME ChatAssumption, Formed, SendMessage \/ SendFails \/ SkipSender \/ SendInterrupted
  PROVE  /\ Formed' /\ pc = "send" /\ send_j \in InUse /\ NextAddressee
         /\ conn' \in [Fds -> Connection]
         /\ \A fd \in Fds : /\ conn'[fd].state = conn[fd].state
                            /\ conn'[fd].unread = conn[fd].unread
  <1>0. /\ pc = "send" /\ send_j \in InUse /\ NextAddressee
    BY DEF SendMessage, SendFails, SkipSender, SendInterrupted, Sending, Blocked
  <1>1. conn \in [Fds -> Connection] /\ Addressee \in Fds
    BY <1>0 DEF Formed, TableTypeOK, Connection, Named, Ended, Addressee
  <1>2. /\ conn' \in [Fds -> Connection]
        /\ \A fd \in Fds : /\ conn'[fd].state = conn[fd].state
                           /\ conn'[fd].unread = conn[fd].unread
    <2>1. CASE conn' = conn
      BY <1>1, <2>1
    <2>2. CASE conn' # conn
      <3>1. /\ conn' = [conn EXCEPT ![Addressee].sent = @ + 1]
            /\ ~ Blocked /\ conn[Addressee].state \notin {"rst", "closed"} /\ Sending
        BY <2>2 DEF SendMessage, SendFails, SkipSender, SendInterrupted, Open
      <3>2. conn[Addressee].sent \in 0 .. SendCap /\ conn[Addressee].sent # SendCap
        BY <1>1, <3>1 DEF Blocked, Connection
      <3>3. conn[Addressee].sent + 1 \in 0 .. SendCap
        BY <3>2 DEF ChatAssumption
      <3> HIDE DEF Addressee
      <3> QED
        BY <1>1, <3>1, <3>3 DEF Connection
    <2> QED
      BY <2>1, <2>2
  <1>3. Formed'
    BY <1>0, <1>2, TurnFormed
  <1> QED
    BY <1>0, <1>2, <1>3

LEMMA SendDoneFormed ==
  ASSUME ChatAssumption, Formed, SendDone
  PROVE  Formed' /\ fds_i \in InUse /\ fds_i' = fds_i + 1
  <1>0. TableTypeOK /\ Named /\ OnTurn
    BY DEF Formed, Ended, SendDone
  <1>1. /\ pc = "send" /\ pc' = "clients" /\ fds_i' = fds_i + 1 /\ send_j' = 1
        /\ UNCHANGED <<waiting, conn, kFDS, kCntClient, listening, due>>
    BY DEF SendDone, netVars, tableVars
  <1>2. fds_i \in InUse
    BY <1>0, <1>1 DEF OnTurn
  <1>3. fds_i' \in 1 .. MaxnClient + 1 /\ send_j' \in 1 .. MaxnClient + 1
    BY <1>0, <1>1, <1>2, SlotFacts DEF InUse
  <1>4. TableTypeOK'
    BY <1>0, <1>1, <1>3 DEF TableTypeOK
  <1>5. Named' /\ OnTurn'
    BY <1>0, <1>1 DEF Named, OnTurn, InUse
  <1> QED
    BY <1>1, <1>2, <1>4, <1>5 DEF Formed

-----------------------------------------------------------------------------
(* The steps.                                                              *)

\* A connection in the table that only changes in what its client may change.
LEMMA SameTable ==
  ASSUME ChatAssumption, Sound, TableTypeOK', pc \notin Ended,
         UNCHANGED <<kFDS, kCntClient, listening, pc, fds_i, due>>, waiting' >= waiting,
         \A fd \in Fds : conn'[fd].state = "closed" <=> conn[fd].state = "closed",
         \A fd \in Fds : conn[fd].unread => conn'[fd].unread
  PROVE  Sound'
  <1>1. InUse' = InUse /\ Polled' = Polled /\ ToVisit' = ToVisit
    BY DEF InUse, Polled, ToVisit
  <1>2. OpenFds' = OpenFds
    BY DEF OpenFds, Open
  <1>3. TableExact'
    BY <1>1, <1>2 DEF TableExact, Sound
  <1>4. \A s \in ToVisit : kFDS[s].fd \in Fds
    BY OpenSlots DEF ToVisit
  <1>5. AheadOfEvents'
    <2>1. \A s \in ToVisit' : kFDS'[s].revents = "in" => conn'[kFDS'[s].fd].unread
      BY <1>1, <1>4 DEF AheadOfEvents, OnTurn, Sound
    <2>2. pc' \in {"signals", "accept"} /\ listening' => waiting' > 0
      BY DEF AheadOfEvents, OnTurn, Sound, TableTypeOK
    <2> QED
      BY <1>1, <2>1, <2>2 DEF AheadOfEvents, OnTurn, Sound
  <1> QED
    BY <1>3, <1>5 DEF Sound

LEMMA ClientsSound ==
  ASSUME ChatAssumption, Sound, Clients
  PROVE  Sound'
  <1>1. Formed
    BY SoundFormed
  <1>2. /\ Formed'
        /\ UNCHANGED <<kFDS, kCntClient, listening, pc, fds_i, send_j, due>>
        /\ waiting' >= waiting
        /\ \A fd \in Fds : conn'[fd].state = "closed" <=> conn[fd].state = "closed"
        /\ \A fd \in Fds : conn[fd].unread => conn'[fd].unread
    BY <1>1, ClientsFormed
  <1>3. CASE pc \in Ended
    BY <1>2, <1>3 DEF Sound, Formed
  <1>4. CASE pc \notin Ended
    BY <1>2, <1>4, SameTable DEF Formed
  <1> QED
    BY <1>3, <1>4

LEMMA EndSound ==
  ASSUME ChatAssumption, Sound, NEW how \in Ended, End(how)
  PROVE  Sound'
  BY SoundFormed, EndFormed DEF End, Sound, Formed

LEMMA PollSound ==
  ASSUME ChatAssumption, Sound, pc = "poll", NEW next \in {"signals", "accept"},
         PollReturns(next)
  PROVE  Sound'
  <1>0. TableTypeOK /\ TableExact
    BY DEF Sound, Ended
  <1>1. /\ UNCHANGED <<waiting, conn, kCntClient, fds_i, send_j>>
        /\ pc' = next /\ kFDS' = Refresh(kFDS) /\ listening' = (waiting > 0)
        /\ due' = {fd \in Polled : Event(fd) \notin {"none", "nval"}}
    BY DEF PollReturns, netVars
  <1>2. /\ InUse' = InUse /\ InUse \subseteq Slots
        /\ OpenFds' = OpenFds
        /\ ToVisit' = InUse
    BY <1>0, <1>1, SlotFacts DEF InUse, OpenFds, Open, ToVisit
  <1>3. \A s \in InUse : kFDS[s].fd \in Fds /\ kFDS[s].fd \in Polled
    BY OpenSlots DEF Polled, Ended
  <1>5. \A fd \in Fds : /\ Event(fd) \in Revents
                        /\ Event(fd) = "in" => conn[fd].unread
    BY DEF Event, Revents
  <1>7. /\ Formed'
        /\ \A s \in InUse : kFDS'[s].fd = kFDS[s].fd /\ kFDS'[s].revents = Event(kFDS[s].fd)
    BY SoundFormed, PollFormed
  <1>8. TableTypeOK'
    BY <1>7 DEF Formed
  <1>9. TableExact'
    <2>1. Polled' = Polled
      BY <1>2, <1>7 DEF Polled
    <2>2. /\ Polled = OpenFds
          /\ \A s, t \in InUse : kFDS[s].fd = kFDS[t].fd => s = t
      BY <1>0 DEF TableExact, Ended
    <2> QED
      BY <1>2, <1>7, <2>1, <2>2 DEF TableExact
  <1>10. AheadOfEvents'
    <2>1. ASSUME NEW fd \in due'
          PROVE  \E s \in InUse : /\ kFDS'[s].fd = fd
                                  /\ kFDS'[s].revents \in {"err", "rdhup", "in"}
      <3>1. fd \in Polled /\ Event(fd) \notin {"none", "nval"}
        BY <1>1
      <3>2. PICK s \in InUse : kFDS[s].fd = fd
        BY <3>1 DEF Polled
      <3>3. Event(fd) \in {"err", "rdhup", "in"}
        BY <1>3, <1>5, <3>1, <3>2 DEF Revents
      <3> QED
        BY <1>7, <3>2, <3>3
    <2>2. \A s \in InUse : kFDS'[s].revents = "in" => conn'[kFDS'[s].fd].unread
      BY <1>1, <1>3, <1>5, <1>7
    <2>3. pc' # "send" /\ (listening' => waiting' > 0)
      BY <1>1
    <2> QED
      BY <1>2, <2>1, <2>2, <2>3 DEF AheadOfEvents, OnTurn
  <1> QED
    BY <1>8, <1>9, <1>10 DEF Sound

LEMMA AcceptSound ==
  ASSUME ChatAssumption, Sound, AcceptPhase
  PROVE  Sound'
  <1> USE DEF Sound, Ended
  <1>1. /\ pc = "accept" /\ pc' = "clients" /\ fds_i' = 1
        /\ UNCHANGED <<listening, send_j, due>>
    BY DEF AcceptPhase
  <1>2. Formed
    BY SoundFormed
  <1>3. Formed' /\ kCntClient \in Nat
    BY <1>2, AcceptFormed, SlotFacts
  <1>4. ToVisit = InUse
    BY <1>1 DEF ToVisit
  <1>5. ToVisit' = InUse'
    BY <1>1 DEF ToVisit, InUse
  <1>6. CASE listening /\ ~ Refused
    <2> DEFINE new == LowestFree
               n   == kCntClient + 1
    <2>1. /\ new \in Fds /\ new \notin OpenFds
          /\ n \in Slots /\ n \notin InUse /\ InUse' = InUse \cup {n}
          /\ kFDS'[n] = [fd |-> new, revents |-> "none"]
          /\ \A s \in Slots \ {n} : kFDS'[s] = kFDS[s]
          /\ conn'[new] = NewConn
          /\ \A fd \in Fds \ {new} : conn'[fd] = conn[fd]
      BY <1>2, <1>6, AcceptFormed
    <2>4. /\ kFDS'[n] = [fd |-> new, revents |-> "none"]
          /\ \A s \in InUse : kFDS'[s] = kFDS[s]
      BY <2>1, SlotFacts
    <2>6. \A s \in InUse : /\ kFDS[s].fd \in Fds /\ kFDS[s].fd # new
                           /\ kFDS'[s] = kFDS[s]
      BY <1>1, <2>1, <2>4, OpenSlots
    <2>7. TableTypeOK'
      BY <1>3 DEF Formed
    <2>8. TableExact'
      <3>1. Polled' = Polled \cup {new}
        BY <2>1, <2>4 DEF Polled
      <3>2. OpenFds' = OpenFds \cup {new}
        BY <2>1 DEF OpenFds, Open, NewConn, NoConn
      <3>3. \A s, t \in InUse' : kFDS'[s].fd = kFDS'[t].fd => s = t
        BY <1>1, <2>1, <2>4, <2>6 DEF TableExact
      <3> QED
        BY <1>1, <3>1, <3>2, <3>3 DEF TableExact
    <2>9. AheadOfEvents'
      <3>1. \A fd \in due' : \E s \in ToVisit' : /\ kFDS'[s].fd = fd
                                                 /\ kFDS'[s].revents \in {"err", "rdhup", "in"}
        BY <1>1, <1>4, <1>5, <2>1, <2>4 DEF AheadOfEvents, OnTurn
      <3>2. \A s \in ToVisit' : kFDS'[s].revents = "in" => conn'[kFDS'[s].fd].unread
        <4>1. kFDS'[n].revents # "in"
          BY <2>4
        <4>2. ASSUME NEW s \in InUse, kFDS'[s].revents = "in"
              PROVE  conn'[kFDS'[s].fd].unread
          <5>1. conn[kFDS[s].fd].unread
            BY <1>1, <1>4, <2>4, <4>2 DEF AheadOfEvents, OnTurn
          <5>2. conn'[kFDS[s].fd] = conn[kFDS[s].fd]
            BY <2>1, <2>6
          <5> QED
            BY <2>4, <5>1, <5>2
        <4> QED
          BY <1>5, <2>1, <4>1, <4>2
      <3> QED
        BY <1>1, <3>1, <3>2 DEF AheadOfEvents, OnTurn
    <2> QED
      BY <2>7, <2>8, <2>9
  <1>7. CASE ~(listening /\ ~ Refused)
    <2>1. UNCHANGED <<conn, kFDS, kCntClient>>
      BY <1>2, <1>7, AcceptFormed
    <2>2. InUse' = InUse /\ Polled' = Polled /\ OpenFds' = OpenFds
      BY <2>1 DEF InUse, Polled, OpenFds, Open
    <2>3. TableTypeOK'
      BY <1>3 DEF Formed
    <2>4. TableExact'
      BY <1>1, <2>1, <2>2 DEF TableExact
    <2>5. AheadOfEvents'
      BY <1>1, <1>4, <1>5, <2>1, <2>2 DEF AheadOfEvents, OnTurn
    <2> QED
      BY <2>3, <2>4, <2>5
  <1> QED
    BY <1>6, <1>7

\* The swap: what slot s of the smaller table holds was in slot From(s).
LEMMA DropSound ==
  ASSUME ChatAssumption, Sound, DropClient
  PROVE  Sound'
  <1> DEFINE i  == fds_i
             n  == kCntClient
             fd == kFDS[i].fd
             From(s) == IF s = i THEN n ELSE s
  <1>0. TableTypeOK /\ TableExact /\ AheadOfEvents /\ pc = "clients" /\ pc \notin Ended
    BY DEF DropClient, AtSlot, Sound, Ended
  <1>1. /\ i \in InUse /\ fds_i' = i /\ pc' = pc
        /\ kCntClient' = n - 1
        /\ conn' = [conn EXCEPT ![fd] = NoConn]
        /\ kFDS' = [kFDS EXCEPT ![i] = kFDS[n]]
        /\ due' = due \ {fd}
        /\ UNCHANGED <<waiting, listening, send_j>>
    BY DEF DropClient, AtSlot, AfterDrop, Replace
  <1>2. /\ InUse \subseteq Slots /\ n \in Nat /\ i \in Nat /\ i >= 1 /\ i <= n
        /\ n \in InUse /\ MaxnClient \in Nat /\ n <= MaxnClient
    BY <1>0, <1>1, SlotFacts DEF InUse
  <1>3. \A s \in InUse : /\ kFDS[s].fd \in Fds /\ kFDS[s].fd \in OpenFds
                         /\ \A t \in InUse : kFDS[s].fd = kFDS[t].fd => s = t
    BY <1>0, OpenSlots
  <1>4. \A s \in InUse' : /\ s \in InUse /\ s # n
                          /\ From(s) \in InUse /\ From(s) # i
    BY <1>1, <1>2 DEF InUse
  <1>5. \A s \in InUse' : kFDS'[s] = kFDS[From(s)]
    BY <1>0, <1>1, <1>2, <1>4 DEF TableTypeOK
  <1>6. \A t \in InUse : t # i => \E s \in InUse' : From(s) = t /\ (t > i => s >= i)
    <2>1. ASSUME NEW t \in InUse, t # i
          PROVE  \E s \in InUse' : From(s) = t /\ (t > i => s >= i)
      <3>1. CASE t = n
        <4>1. i \in InUse'
          BY <1>1, <1>2, <2>1, <3>1 DEF InUse
        <4> QED
          BY <1>2, <3>1, <4>1
      <3>2. CASE t # n
        <4>1. t \in InUse' /\ (t > i => t >= i)
          BY <1>1, <1>2, <2>1, <3>2 DEF InUse
        <4> QED
          BY <2>1, <4>1
      <3> QED
        BY <3>1, <3>2
    <2> QED
      BY <2>1
  <1>7. \A s, t \in InUse' : From(s) = From(t) => s = t
    BY <1>4
  <1>8. /\ conn'[fd] = NoConn
        /\ \A g \in Fds \ {fd} : conn'[g] = conn[g]
    BY <1>0, <1>1, <1>3 DEF TableTypeOK
  <1>9. TableTypeOK'
    <2>1. conn' \in [Fds -> [state : {"closed", "open", "fin", "rst"},
                            unread : BOOLEAN, sent : 0 .. SendCap]]
      <3>1. NoConn \in [state : {"closed", "open", "fin", "rst"},
                        unread : BOOLEAN, sent : 0 .. SendCap]
        BY DEF NoConn, ChatAssumption
      <3> QED
        BY <1>0, <1>1, <3>1 DEF TableTypeOK
    <2>2. kFDS' \in [Slots -> [fd : Fds \cup {NoFd}, revents : Revents]]
      BY <1>0, <1>1, <1>2 DEF TableTypeOK
    <2>3. kCntClient' \in 0 .. MaxnClient
      BY <1>1, <1>2
    <2> QED
      BY <1>0, <1>1, <2>1, <2>2, <2>3 DEF TableTypeOK
  <1>10. TableExact'
    <2>1. Polled' = Polled \ {fd}
      <3>1. ASSUME NEW g \in Polled' PROVE g \in Polled \ {fd}
        <4>1. PICK s \in InUse' : kFDS'[s].fd = g
          BY DEF Polled
        <4>2. From(s) \in InUse /\ From(s) # i /\ kFDS[From(s)].fd = g
          BY <1>4, <1>5, <4>1
        <4> HIDE DEF From
        <4> QED
          BY <1>1, <1>3, <4>2 DEF Polled
      <3>2. ASSUME NEW g \in Polled \ {fd} PROVE g \in Polled'
        <4>1. PICK t \in InUse : kFDS[t].fd = g
          BY DEF Polled
        <4>2. PICK s \in InUse' : From(s) = t
          BY <1>6, <3>2, <4>1
        <4>3. kFDS'[s].fd = g
          BY <1>5, <4>1, <4>2
        <4> QED
          BY <4>3 DEF Polled
      <3> QED
        BY <3>1, <3>2
    <2>2. OpenFds' = OpenFds \ {fd}
      <3>1. conn'[fd].state = "closed"
        BY <1>8 DEF NoConn
      <3>2. \A g \in Fds : g \in OpenFds' <=> g \in OpenFds /\ g # fd
        BY <1>8, <3>1 DEF OpenFds, Open
      <3> HIDE DEF fd
      <3> QED
        BY <3>2 DEF OpenFds
    <2>3. \A s, t \in InUse' : kFDS'[s].fd = kFDS'[t].fd => s = t
      <3>1. ASSUME NEW s \in InUse', NEW t \in InUse', kFDS'[s].fd = kFDS'[t].fd
            PROVE  From(s) = From(t)
        <4>1. /\ From(s) \in InUse /\ From(t) \in InUse
              /\ kFDS[From(s)].fd = kFDS[From(t)].fd
          BY <1>4, <1>5, <3>1
        <4> HIDE DEF From
        <4> QED
          BY <1>3, <4>1
      <3> QED
        BY <1>7, <3>1
    <2> QED
      BY <1>0, <2>1, <2>2, <2>3 DEF TableExact
  <1>11. AheadOfEvents'
    <2>1. /\ ToVisit = {s \in InUse : s >= i}
          /\ ToVisit' = {s \in InUse' : s >= i}
      BY <1>0, <1>1 DEF ToVisit
    <2>2. ASSUME NEW g \in due'
          PROVE  \E s \in ToVisit' : /\ kFDS'[s].fd = g
                                     /\ kFDS'[s].revents \in {"err", "rdhup", "in"}
      <3>1. g \in due /\ g # fd
        BY <1>1
      <3>2. PICK t \in ToVisit : /\ kFDS[t].fd = g
                                 /\ kFDS[t].revents \in {"err", "rdhup", "in"}
        BY <1>0, <3>1 DEF AheadOfEvents, OnTurn
      <3>3. t \in InUse /\ t # i /\ t > i
        BY <1>2, <2>1, <3>1, <3>2 DEF InUse
      <3>4. PICK s \in InUse' : From(s) = t /\ s >= i
        BY <1>6, <3>3
      <3>5. kFDS'[s] = kFDS[t]
        BY <1>5, <3>4
      <3> QED
        BY <2>1, <3>2, <3>4, <3>5
    <2>3. ASSUME NEW s \in ToVisit', kFDS'[s].revents = "in"
          PROVE  conn'[kFDS'[s].fd].unread
      <3>1. s \in InUse' /\ s >= i
        BY <2>1
      <3>2. From(s) \in InUse /\ From(s) # i /\ From(s) >= i /\ kFDS'[s] = kFDS[From(s)]
        BY <1>2, <1>4, <1>5, <3>1
      <3>3. conn[kFDS[From(s)].fd].unread
        BY <1>0, <2>1, <2>3, <3>2 DEF AheadOfEvents, OnTurn
      <3>4. kFDS[From(s)].fd \in Fds /\ kFDS[From(s)].fd # fd
        <4> HIDE DEF From
        <4> QED
          BY <1>1, <1>3, <3>2
      <3> QED
        BY <1>8, <3>2, <3>3, <3>4
    <2>4. pc' = "clients"
      BY <1>0, <1>1
    <2> QED
      BY <2>2, <2>3, <2>4 DEF AheadOfEvents, OnTurn
  <1> QED
    BY <1>9, <1>10, <1>11 DEF Sound

\* A step that leaves the table and the descriptors alone, and has looked at the
\* slots it leaves behind.
LEMMA LoopSound ==
  ASSUME ChatAssumption, Sound, TableTypeOK', pc \notin Ended,
         UNCHANGED <<waiting, listening, kFDS, kCntClient>>,
         \A fd \in Fds : conn'[fd].state = "closed" <=> conn[fd].state = "closed",
         ToVisit' \subseteq ToVisit,
         \A s \in ToVisit' : conn[kFDS[s].fd].unread => conn'[kFDS[s].fd].unread,
         due' \subseteq due,
         \A s \in ToVisit \ ToVisit' :
           kFDS[s].revents \in {"err", "rdhup", "in"} => kFDS[s].fd \notin due',
         pc' = "send" => fds_i' \in InUse,
         pc' \notin {"signals"}, pc' = "accept" => pc \in {"signals", "accept"}
  PROVE  Sound'
  <1>0. TableExact /\ AheadOfEvents
    BY DEF Sound
  <1>1. InUse' = InUse /\ Polled' = Polled /\ OpenFds' = OpenFds
    BY DEF InUse, Polled, OpenFds, Open
  <1>2. TableExact'
    BY <1>0, <1>1 DEF TableExact
  <1>3. ASSUME NEW fd \in due'
        PROVE  \E s \in ToVisit' : /\ kFDS'[s].fd = fd
                                   /\ kFDS'[s].revents \in {"err", "rdhup", "in"}
    <2>1. PICK s \in ToVisit : /\ kFDS[s].fd = fd
                               /\ kFDS[s].revents \in {"err", "rdhup", "in"}
      BY <1>0 DEF AheadOfEvents, OnTurn
    <2>2. s \in ToVisit'
      BY <2>1
    <2> QED
      BY <2>1, <2>2
  <1>4. \A s \in ToVisit' : kFDS'[s].revents = "in" => conn'[kFDS'[s].fd].unread
    BY <1>0 DEF AheadOfEvents, OnTurn
  <1>5. /\ pc' = "send" => fds_i' \in InUse'
        /\ pc' \in {"signals", "accept"} /\ listening' => waiting' > 0
    BY <1>0, <1>1 DEF AheadOfEvents, OnTurn
  <1>6. AheadOfEvents'
    BY <1>3, <1>4, <1>5 DEF AheadOfEvents, OnTurn
  <1> QED
    BY <1>2, <1>6 DEF Sound

LEMMA ReceiveSound ==
  ASSUME ChatAssumption, Sound, Receive
  PROVE  Sound'
  <1> DEFINE fd == kFDS[fds_i].fd
  <1>0. TableTypeOK /\ pc = "clients" /\ pc \notin Ended /\ fds_i \in InUse
    BY DEF Receive, AtSlot, Sound, Ended
  <1>1. /\ Formed'
        /\ UNCHANGED <<waiting, kFDS, kCntClient, listening, fds_i>>
        /\ due' = due \ {fd} /\ pc' = "send"
        /\ \A g \in Fds : /\ conn'[g].state = conn[g].state
                          /\ g # fd => conn'[g] = conn[g]
    BY SoundFormed, ReceiveFormed
  <1>2. \A s \in InUse : /\ kFDS[s].fd \in Fds
                         /\ s # fds_i => kFDS[s].fd # fd
    BY <1>0, OpenSlots
  <1>3. \A g \in Fds : /\ conn'[g].state = conn[g].state
                       /\ g # fd => conn'[g] = conn[g]
    BY <1>1
  <1>4. TableTypeOK'
    BY <1>1 DEF Formed
  <1>5. /\ ToVisit = {s \in InUse : s >= fds_i}
        /\ ToVisit' = {s \in InUse : s > fds_i}
    BY <1>0, <1>1 DEF ToVisit, InUse
  <1>6. ToVisit' \subseteq ToVisit /\ ToVisit \ ToVisit' \subseteq {fds_i}
    BY <1>0, <1>5 DEF InUse, TableTypeOK
  <1>7. \A s \in ToVisit' : kFDS[s].fd \in Fds /\ kFDS[s].fd # fd
    <2> SUFFICES ASSUME NEW s \in ToVisit'
                 PROVE  kFDS[s].fd \in Fds /\ kFDS[s].fd # fd
      OBVIOUS
    <2>1. s \in InUse /\ s > fds_i
      BY <1>5
    <2>2. s # fds_i
      BY <1>0, <2>1 DEF InUse, TableTypeOK
    <2> QED
      BY <1>2, <2>1, <2>2
  <1>8. \A s \in ToVisit' : conn'[kFDS[s].fd] = conn[kFDS[s].fd]
    <2> SUFFICES ASSUME NEW s \in ToVisit' PROVE conn'[kFDS[s].fd] = conn[kFDS[s].fd]
      OBVIOUS
    <2> HIDE DEF fd
    <2> QED
      BY <1>3, <1>7
  <1>9. \A s \in ToVisit \ ToVisit' : kFDS[s].fd \notin due'
    BY <1>1, <1>6
  <1>10. pc' \notin {"signals", "accept"} /\ due' \subseteq due
    BY <1>1
  <1>11. \A g \in Fds : conn'[g].state = "closed" <=> conn[g].state = "closed"
    <2> HIDE DEF fd
    <2> QED
      BY <1>3
  <1>12. \A s \in ToVisit' : conn[kFDS[s].fd].unread => conn'[kFDS[s].fd].unread
    BY <1>8
  <1> HIDE DEF fd
  <1> QED
    BY <1>0, <1>1, <1>4, <1>6, <1>9, <1>10, <1>11, <1>12, LoopSound

LEMMA SkipSound ==
  ASSUME ChatAssumption, Sound, SkipClient
  PROVE  Sound'
  <1>0. /\ TableTypeOK /\ pc = "clients" /\ pc \notin Ended
        /\ fds_i \in InUse /\ kFDS[fds_i].revents \in {"none", "nval"}
    BY DEF SkipClient, AtSlot, Sound, Ended
  <1>1. /\ fds_i' = fds_i + 1
        /\ UNCHANGED <<waiting, conn, kFDS, kCntClient, listening, pc, send_j, due>>
    BY DEF SkipClient, netVars, tableVars
  <1>2. TableTypeOK'
    BY SoundFormed, SkipFormed DEF Formed
  <1>3. ToVisit' \subseteq ToVisit /\ ToVisit \ ToVisit' \subseteq {fds_i}
    BY <1>0, <1>1 DEF ToVisit, InUse, TableTypeOK
  <1>4. \A s \in ToVisit \ ToVisit' : kFDS[s].revents \notin {"err", "rdhup", "in"}
    BY <1>0, <1>3
  <1> QED
    BY <1>0, <1>1, <1>2, <1>3, <1>4, LoopSound

LEMMA EndOfRoundSound ==
  ASSUME ChatAssumption, Sound, NEW next \in {"test", "alarm"}, EndOfRound(next)
  PROVE  Sound'
  <1>0. TableTypeOK /\ pc = "clients" /\ pc \notin Ended /\ fds_i \notin InUse
    BY DEF EndOfRound, Sound, Ended
  <1>1. /\ pc' = next /\ fds_i' = 1
        /\ UNCHANGED <<waiting, conn, kFDS, kCntClient, listening, send_j, due>>
    BY DEF EndOfRound, netVars, tableVars
  <1>2. TableTypeOK'
    BY <1>0, <1>1, SoundFormed, MovesFormed DEF Formed, netVars, tableVars
  <1>3. ToVisit = {} /\ ToVisit' = {}
    <2>1. ToVisit = {}
      BY <1>0 DEF ToVisit, InUse, TableTypeOK
    <2>2. ToVisit' = {}
      BY <1>1 DEF ToVisit
    <2> QED
      BY <2>1, <2>2
  <1> QED
    BY <1>0, <1>1, <1>2, <1>3, LoopSound

LEMMA BroadcastSound ==
  ASSUME ChatAssumption, Sound, Broadcast \/ SendInterrupted
  PROVE  Sound'
  <1>0. TableTypeOK /\ Formed
    BY SoundFormed DEF Sound
  <1>1. CASE SendMessage \/ SendFails \/ SkipSender \/ SendInterrupted
    <2>1. /\ Formed' /\ pc = "send" /\ NextAddressee
          /\ \A fd \in Fds : /\ conn'[fd].state = conn[fd].state
                             /\ conn'[fd].unread = conn[fd].unread
      BY <1>0, <1>1, SendFormed
    <2>2. /\ UNCHANGED <<waiting, kFDS, kCntClient, listening, pc, fds_i, due>>
          /\ pc \notin Ended /\ waiting' >= waiting
      BY <1>0, <2>1 DEF NextAddressee, tableVars, Ended, TableTypeOK
    <2> QED
      BY <2>1, <2>2, SameTable DEF Formed
  <1>3. CASE SendRaisesSigPipe
    BY <1>3, EndSound DEF SendRaisesSigPipe, Ended
  <1>4. CASE SendDone
    <2>1. /\ pc = "send" /\ pc' = "clients" /\ fds_i' = fds_i + 1 /\ send_j' = 1
          /\ UNCHANGED <<waiting, conn, kFDS, kCntClient, listening, due>>
      BY <1>4 DEF SendDone, netVars, tableVars
    <2>2. Formed' /\ fds_i \in InUse /\ pc \notin Ended
      BY <1>0, <1>4, <2>1, SendDoneFormed DEF Ended
    <2>3. TableTypeOK'
      BY <2>2 DEF Formed
    <2>4. ToVisit' = ToVisit
      BY <1>0, <2>1 DEF ToVisit, InUse, TableTypeOK
    <2> QED
      BY <2>1, <2>2, <2>3, <2>4, LoopSound
  <1> QED
    BY <1>1, <1>3, <1>4 DEF Broadcast

\* A step of a server in which the table, the connections and the loop are left alone.
LEMMA IdleSound ==
  ASSUME Sound, UNCHANGED chatVars
  PROVE  Sound'
  BY DEF Sound, TableTypeOK, TableExact, AheadOfEvents, OnTurn, ToVisit, InUse, Polled, OpenFds, Open,
         chatVars, netVars, tableVars, loopVars

\* The test of the stop flag, and whatever else leads to poll() with nothing done.
LEMMA ToPollSound ==
  ASSUME ChatAssumption, Sound, pc \in {"test", "alarm", "tick"}, pc' \in {"test", "poll", "tick"},
         UNCHANGED <<netVars, tableVars, listening, fds_i, send_j, due>>
  PROVE  Sound'
  <1>1. TableTypeOK' /\ UNCHANGED <<waiting, conn, kFDS, kCntClient, listening, fds_i, due>>
    BY DEF Sound, TableTypeOK, netVars, tableVars
  <1>2. ToVisit = {} /\ ToVisit' = {} /\ pc \notin Ended
    BY DEF ToVisit, Ended
  <1> QED
    BY <1>1, <1>2, LoopSound

\* Signals are read between poll() and accept(): the events stay due.
LEMMA ToAcceptSound ==
  ASSUME ChatAssumption, Sound, pc = "signals", pc' = "accept",
         UNCHANGED <<netVars, tableVars, listening, fds_i, send_j, due>>
  PROVE  Sound'
  <1>1. /\ TableTypeOK' /\ pc \notin Ended
        /\ UNCHANGED <<waiting, conn, kFDS, kCntClient, listening, fds_i, due>>
    BY DEF Sound, TableTypeOK, Ended, netVars, tableVars
  <1>2. ToVisit' = ToVisit
    BY <1>1 DEF ToVisit, InUse
  <1> QED
    BY <1>1, <1>2, LoopSound

=============================================================================

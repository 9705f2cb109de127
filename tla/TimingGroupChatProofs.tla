------------------------ MODULE TimingGroupChatProofs ------------------------
(***************************************************************************)
(* What holds of the chat server with timers, for every table, every two     *)
(* times and all signals.                                                   *)
(***************************************************************************)
EXTENDS TimerListProofs

-----------------------------------------------------------------------------
(* The invariant.                                                          *)

Fd(s)   == kFDS[s].fd
Idx(fd) == kClient[fd].pollfds_idx

\* The types that TypeOK adds to those of the table.
Data == [pollfds_idx : 0 .. MaxnClient, timer : Timers \cup {NoTimer}]

TimingTypes ==
  /\ kStop \in BOOLEAN /\ signalled \in BOOLEAN /\ kTimeout \in BOOLEAN
  /\ kSigPipeFD \subseteq UserSignals \cup {"ALRM"}
  /\ alarm \in 0 .. AlrmSlotSec
  /\ kClientTimerList \in Seq(SortedList!Entry)
  /\ client_data \in [Timers -> Fds \cup {NoFd}]
  /\ kClient \in [Fds -> Data]
  /\ expiring \in Nat /\ moved \in BOOLEAN

\* As many timers as clients.
Counted == Len(kClientTimerList) = kCntClient /\ SortedList!NoneTwice(kClientTimerList)

\* Whatever a client or a timer remembers is a slot that has had a client.
Slotted ==
  /\ \A s \in InUse : Idx(Fd(s)) \in Slots
  /\ \A fd \in Fds : Idx(fd) \in Slots => Fd(Idx(fd)) \in Fds
  /\ \A t \in Listed : client_data[t] \in Fds /\ Idx(client_data[t]) \in Slots

\* A client only ever moves towards the head of the table, and what it remembers is
\* never brought up to date: it names the slot the client is in, or a later one.  As
\* long as it names that slot the client has its timer.
Behind ==
  \A s \in InUse : Open(Fd(s)) =>
    /\ Idx(Fd(s)) >= s
    /\ Idx(Fd(s)) = s => /\ kClient[Fd(s)].timer \in Listed
                         /\ client_data[kClient[Fd(s)].timer] = Fd(s)

\* An error is reported of connections only that are still there when it is read.
Heard == \A s \in ToVisit : kFDS[s].revents \in {"err", "rdhup"} => Open(Fd(s))

\* The timers that the alarm has still to take off are the first, and have expired.
Ticking ==
  /\ expiring <= Len(kClientTimerList)
  /\ expiring > 0 => pc = "tick"
  /\ \A k \in 1 .. expiring : kClientTimerList[k].expire < 0

Base    == Counted /\ Slotted /\ Behind /\ Heard /\ Ticking
BaseInv == Formed /\ TimingTypes /\ (pc \notin Ended => Base)

LEMMA BaseTypes == BaseInv => TypeOK
  BY DEF BaseInv, Formed, TimingTypes, TypeOK, Data

LEMMA BaseInit == ASSUME ChatAssumption, TimingAssumption, Init PROVE BaseInv
  <1>1. Sound
    BY SoundInit DEF Init
  <1>2. Formed
    BY <1>1, SoundFormed
  <1>3. TimingTypes
    <2>1. kClientTimerList \in Seq(SortedList!Entry)
      BY DEF Init
    <2>2. kClient \in [Fds -> Data]
      BY DEF Init, Data, ChatAssumption
    <2>3. client_data \in [Timers -> Fds \cup {NoFd}]
      BY DEF Init
    <2>4. alarm \in 0 .. AlrmSlotSec
      BY DEF Init, TimingAssumption
    <2> QED
      BY <2>1, <2>2, <2>3, <2>4 DEF Init, TimingTypes
  <1>4. kCntClient = 0 /\ InUse = {} /\ ToVisit = {} /\ Listed = {}
    BY DEF Init, TableInit, InUse, ToVisit, Listed, SortedList!Listed
  <1>5. Counted
    BY <1>4 DEF Init, Counted, SortedList!NoneTwice
  <1>6. Slotted
    <2>1. \A fd \in Fds : Idx(fd) \notin Slots
      BY DEF Init, Idx, Slots
    <2> QED
      BY <1>4, <2>1 DEF Slotted
  <1>7. Behind /\ Heard
    BY <1>4 DEF Behind, Heard
  <1>8. Ticking
    BY DEF Init, Ticking
  <1> QED
    BY <1>2, <1>3, <1>5, <1>6, <1>7, <1>8 DEF BaseInv, Base

-----------------------------------------------------------------------------
(* The timers.                                                             *)

\* The timer of a client that has just been heard of.
LEMMA FreshEntry ==
  ASSUME TimingAssumption, NEW t \in Timers
  PROVE  /\ [timer |-> t, expire |-> ClientAliveSec] \in SortedList!Entry
         /\ [timer |-> t, expire |-> ClientAliveSec].timer = t
  BY DEF TimingAssumption, SortedList!Entry, TimesLeft

LEMMA InsertedFresh ==
  ASSUME TimingAssumption, NEW l \in Seq(SortedList!Entry), SortedList!NoneTwice(l),
         NEW t \in Timers, t \notin SortedList!Listed(l)
  PROVE  LET s == SortedList!Insert(l, [timer |-> t, expire |-> ClientAliveSec])
         IN  /\ s \in Seq(SortedList!Entry) /\ Len(s) = Len(l) + 1
             /\ SortedList!Listed(s) = SortedList!Listed(l) \cup {t}
             /\ SortedList!NoneTwice(s)
  <1> DEFINE x == [timer |-> t, expire |-> ClientAliveSec]
             s == SortedList!Insert(l, x)
  <1>1. x \in SortedList!Entry /\ x.timer = t
    BY FreshEntry
  <1> HIDE DEF x
  <1>2. s \in Seq(SortedList!Entry) /\ Len(s) = Len(l) + 1
    BY <1>1, InsertFacts
  <1>3. /\ SortedList!Listed(s) = SortedList!Listed(l) \cup {x.timer}
        /\ SortedList!NoneTwice(l) /\ x.timer \notin SortedList!Listed(l)
             => SortedList!NoneTwice(s)
    BY <1>1, InsertListed
  <1> HIDE DEF s
  <1> QED
    BY <1>1, <1>2, <1>3 DEF s, x

LEMMA ResetFacts ==
  ASSUME TimingAssumption, NEW l \in Seq(SortedList!Entry), SortedList!NoneTwice(l), NEW t
  PROVE  LET s == ResetTimer(l, t)
         IN  /\ s \in Seq(SortedList!Entry) /\ Len(s) = Len(l)
             /\ SortedList!Listed(s) = SortedList!Listed(l)
             /\ SortedList!NoneTwice(s)
  <1>1. CASE t \notin SortedList!Listed(l)
    BY <1>1 DEF ResetTimer
  <1>2. CASE t \in SortedList!Listed(l)
    <2> DEFINE w == SortedList!Without(l, t)
               s == SortedList!Insert(w, [timer |-> t, expire |-> ClientAliveSec])
    <2>1. t \in Timers /\ Len(l) \in Nat
      <3>1. PICK k \in 1 .. Len(l) : l[k].timer = t
        BY <1>2 DEF SortedList!Listed
      <3>2. l[k] \in SortedList!Entry
        BY <3>1, ElementOfSeq
      <3> QED
        BY <3>1, <3>2, LenProperties DEF SortedList!Entry
    <2>2. /\ w \in Seq(SortedList!Entry)
          /\ Len(w) = Len(l) - 1
          /\ SortedList!Listed(w) = SortedList!Listed(l) \ {t}
          /\ SortedList!NoneTwice(w)
      BY <1>2, WithoutListed
    <2> HIDE DEF w
    <2>3. /\ s \in Seq(SortedList!Entry) /\ Len(s) = Len(w) + 1
          /\ SortedList!Listed(s) = SortedList!Listed(w) \cup {t}
          /\ SortedList!NoneTwice(s)
      BY <2>1, <2>2, InsertedFresh
    <2>4. ResetTimer(l, t) = s
      BY <1>2 DEF ResetTimer, w
    <2> HIDE DEF s
    <2>5. Len(s) = Len(l)
      BY <2>1, <2>2, <2>3
    <2>6. SortedList!Listed(s) = SortedList!Listed(l)
      BY <1>2, <2>2, <2>3
    <2> QED
      BY <2>3, <2>4, <2>5, <2>6
  <1> QED
    BY <1>1, <1>2

\* A second passes for all timers.
LEMMA SecondFacts ==
  ASSUME TimingAssumption, NEW l \in Seq(SortedList!Entry),
         NEW s, s = [k \in DOMAIN l |-> [l[k] EXCEPT !.expire = Left(@)]]
  PROVE  /\ s \in Seq(SortedList!Entry) /\ Len(s) = Len(l)
         /\ SortedList!Listed(s) = SortedList!Listed(l)
         /\ SortedList!NoneTwice(l) => SortedList!NoneTwice(s)
         /\ \A k \in 1 .. Len(l) : l[k].expire < 0 => s[k].expire < 0
  <1>1. Len(l) \in Nat /\ DOMAIN l = 1 .. Len(l) /\ \A k \in 1 .. Len(l) : l[k] \in SortedList!Entry
    BY LenProperties, ElementOfSeq
  <1>2. \A e \in TimesLeft : Left(e) \in TimesLeft /\ (e < 0 => Left(e) < 0)
    BY DEF Left, TimesLeft, TimingAssumption
  <1>3. ASSUME NEW k \in 1 .. Len(l)
        PROVE  /\ s[k] \in SortedList!Entry /\ s[k].timer = l[k].timer
               /\ l[k].expire < 0 => s[k].expire < 0
    <2>1. s[k] = [l[k] EXCEPT !.expire = Left(@)]
      BY <1>1
    <2>2. l[k].expire \in TimesLeft /\ s[k].expire = Left(l[k].expire)
      BY <1>1, <2>1 DEF SortedList!Entry
    <2> QED
      BY <1>1, <1>2, <2>1, <2>2 DEF SortedList!Entry
  <1> DEFINE n == Len(l)
  <1>4. s \in [1 .. n -> SortedList!Entry]
    <2>1. DOMAIN s = 1 .. n /\ s = [k \in 1 .. n |-> s[k]]
      BY <1>1
    <2> QED
      BY <1>3, <2>1
  <1>5. s \in Seq(SortedList!Entry) /\ Len(s) = n
    <2> HIDE DEF n
    <2>1. n \in Nat
      BY <1>1 DEF n
    <2>2. s \in Seq(SortedList!Entry)
      BY <1>4, <2>1, SeqDef
    <2>3. DOMAIN s = 1 .. n /\ Len(s) \in Nat /\ DOMAIN s = 1 .. Len(s)
      BY <1>4, <2>2, LenProperties
    <2> QED
      BY <2>1, <2>2, <2>3
  <1>6. SortedList!Listed(s) = SortedList!Listed(l)
    BY <1>3, <1>5 DEF SortedList!Listed
  <1>7. SortedList!NoneTwice(l) => SortedList!NoneTwice(s)
    BY <1>3, <1>5 DEF SortedList!NoneTwice
  <1> QED
    BY <1>3, <1>5, <1>6, <1>7

\* The first timer goes.
LEMMA TailFacts ==
  ASSUME NEW l \in Seq(SortedList!Entry), SortedList!NoneTwice(l), Len(l) # 0
  PROVE  LET s == Tail(l)
             t == Head(l).timer
         IN  /\ s \in Seq(SortedList!Entry) /\ Len(s) = Len(l) - 1
             /\ Head(l) = l[1] /\ t \in SortedList!Listed(l) /\ t \in Timers
             /\ SortedList!Listed(s) = SortedList!Listed(l) \ {t}
             /\ SortedList!NoneTwice(s)
             /\ \A k \in 1 .. Len(l) - 1 : s[k] = l[k + 1]
  <1> DEFINE s == Tail(l)
             n == Len(l)
             f == [k \in 1 .. n - 1 |-> k + 1]
  <1>1. n \in Nat /\ 1 \in 1 .. n /\ l # <<>>
    BY LenProperties
  <1>2. /\ Head(l) = l[1] /\ s \in Seq(SortedList!Entry) /\ Len(s) = n - 1
        /\ \A k \in 1 .. n - 1 : s[k] = l[k + 1]
    <2>1. /\ Head(l) = l[1] /\ s \in Seq(SortedList!Entry) /\ Len(s) = n - 1
          /\ \A k \in 1 .. Len(s) : s[k] = l[k + 1]
      BY <1>1, HeadTailProperties
    <2> HIDE DEF s, n
    <2> QED
      BY <2>1
  <1>3. l[1] \in SortedList!Entry
    BY <1>1, ElementOfSeq
  <1> HIDE DEF s, n
  <1>4. /\ f \in [1 .. Len(s) -> 1 .. n]
        /\ \A k \in 1 .. Len(s) : s[k] = l[f[k]] /\ f[k] # 1
        /\ \A j, k \in 1 .. Len(s) : j < k => f[j] < f[k]
        /\ Len(s) \in Nat
    BY <1>1, <1>2
  <1> HIDE DEF f
  <1>5. SortedList!NoneTwice(s)
    BY <1>1, <1>4, Thinned DEF n
  <1>6. SortedList!Listed(s) = SortedList!Listed(l) \ {l[1].timer}
    <2>1. ASSUME NEW u \in SortedList!Listed(s)
          PROVE  u \in SortedList!Listed(l) /\ u # l[1].timer
      <3>1. PICK k \in 1 .. Len(s) : s[k].timer = u
        BY DEF SortedList!Listed
      <3>2. f[k] \in 1 .. n /\ l[f[k]].timer = u /\ f[k] # 1
        BY <1>4, <3>1
      <3> QED
        BY <1>1, <3>2 DEF SortedList!Listed, SortedList!NoneTwice, n
    <2>2. ASSUME NEW u \in SortedList!Listed(l), u # l[1].timer PROVE u \in SortedList!Listed(s)
      <3>1. PICK k \in 1 .. n : l[k].timer = u
        BY DEF SortedList!Listed, n
      <3>2. k - 1 \in 1 .. n - 1 /\ (k - 1) + 1 = k
        BY <1>1, <2>2, <3>1
      <3>3. s[k - 1] = l[(k - 1) + 1]
        BY <1>2, <3>2
      <3> QED
        BY <1>2, <3>1, <3>2, <3>3 DEF SortedList!Listed
    <2> QED
      BY <2>1, <2>2
  <1>7. l[1].timer \in SortedList!Listed(l) /\ l[1].timer \in Timers
    BY <1>1, <1>3 DEF SortedList!Listed, SortedList!Entry, n
  <1> QED
    BY <1>2, <1>5, <1>6, <1>7 DEF s, n

-----------------------------------------------------------------------------
(* The steps.                                                              *)

\* A step that removes nobody and lets nobody in.
LEMMA QuietBase ==
  ASSUME ChatAssumption, Formed, pc \notin Ended, Base,
         UNCHANGED <<kCntClient, client_data, kClient>>,
         \A s \in Slots : Fd(s)' = Fd(s),
         \A fd \in Fds : Open(fd)' <=> Open(fd),
         Len(kClientTimerList') = Len(kClientTimerList), Listed' = Listed,
         SortedList!NoneTwice(kClientTimerList'), Heard', Ticking'
  PROVE  Base'
  <1>1. InUse' = InUse /\ InUse \subseteq Slots /\ \A s \in InUse : Fd(s) \in Fds
    BY SlotFacts DEF Formed, Named, InUse, Fd
  <1>2. \A fd : Idx(fd)' = Idx(fd)
    BY DEF Idx
  <1>3. Counted'
    BY DEF Base, Counted
  <1>4. Slotted'
    BY <1>1, <1>2 DEF Base, Slotted
  <1>5. Behind'
    <2>1. ASSUME NEW s \in InUse', Open(Fd(s))'
          PROVE  s \in InUse /\ Fd(s)' = Fd(s) /\ Open(Fd(s))
      <3>1. s \in InUse /\ Fd(s)' = Fd(s) /\ Fd(s) \in Fds
        BY <1>1, <2>1
      <3>2. Open(Fd(s))' <=> conn'[Fd(s)'].state # "closed"
        BY DEF Open
      <3>3. Open(Fd(s)) <=> conn'[Fd(s)].state # "closed"
        BY <3>1 DEF Open
      <3> QED
        BY <2>1, <3>1, <3>2, <3>3
    <2>2. \A s \in InUse' : Idx(Fd(s))' = kClient[Fd(s)'].pollfds_idx
      BY DEF Idx
    <2> QED
      BY <2>1, <2>2 DEF Base, Behind, Idx
  <1> QED
    BY <1>3, <1>4, <1>5 DEF Base

\* A step of the loop over the slots, or of those it reads events of.
LEMMA LoopBase ==
  ASSUME ChatAssumption, TimingTypes, Formed, pc \notin Ended, Base,
         UNCHANGED <<kFDS, kCntClient, timerVars>>,
         \A fd \in Fds : conn'[fd].state = "closed" <=> conn[fd].state = "closed",
         ToVisit' \subseteq ToVisit, expiring > 0 => pc' = "tick"
  PROVE  Base'
  <1>1. /\ UNCHANGED <<kClientTimerList, client_data, kClient, expiring>>
        /\ \A fd \in Fds : Open(fd)' <=> Open(fd)
        /\ \A s \in Slots : Fd(s)' = Fd(s)
        /\ Listed' = Listed
    BY DEF timerVars, Open, Fd, Listed
  <1>2. Heard'
    <2>1. \A s \in ToVisit : kFDS[s].fd \in Fds
      BY DEF Formed, Named, ToVisit
    <2> QED
      BY <1>1, <2>1 DEF Base, Heard, Fd, Open
  <1>3. Ticking'
    BY <1>1 DEF Base, Ticking
  <1>4. /\ SortedList!NoneTwice(kClientTimerList')
        /\ Len(kClientTimerList') = Len(kClientTimerList)
    BY <1>1 DEF Base, Counted
  <1> QED
    BY <1>1, <1>2, <1>3, <1>4, QuietBase

\* What the removal of fd does: the last slot takes the place of the one that fd
\* remembers, and the client in that one is closed.
LEMMA Removal ==
  ASSUME ChatAssumption, TableTypeOK, TimingTypes, NEW fd \in Fds,
         NEW dst \in Slots, dst = Idx(fd), Fd(dst) \in Fds,
         NEW n \in InUse, n = kCntClient, Fd(n) \in Fds,
         BecomesTable(RemoveClientFromPoll(Table, fd))
  PROVE  /\ kCntClient' = n - 1 /\ InUse' = InUse \ {n}
         /\ conn' \in [Fds -> Connection] /\ conn'[Fd(dst)] = NoConn
         /\ \A g \in Fds \ {Fd(dst)} : conn'[g] = conn[g]
         /\ kFDS' \in [Slots -> Slot] /\ kFDS'[dst] = kFDS[n]
         /\ \A s \in Slots \ {dst} : kFDS'[s] = kFDS[s]
         /\ kClient' \in [Fds -> Data] /\ kClient'[Fd(dst)] = kClient[Fd(n)]
         /\ \A g \in Fds \ {Fd(dst)} : kClient'[g] = kClient[g]
         /\ moved' = (moved \/ dst # n)
  <1>1. /\ conn' = [conn EXCEPT ![Fd(dst)] = NoConn]
        /\ kFDS' = [kFDS EXCEPT ![dst] = kFDS[n]]
        /\ kCntClient' = n - 1
        /\ kClient' = [kClient EXCEPT ![Fd(dst)] = kClient[Fd(n)]]
        /\ moved' = (moved \/ dst # n)
    BY DEF BecomesTable, RemoveClientFromPoll, SlotOf, Table, Replace, Fd, Idx
  <1>2. n \in Slots /\ n \in Nat /\ InUse' = InUse \ {n}
    BY <1>1, SlotFacts DEF InUse, Slots
  <1>3. conn \in [Fds -> Connection] /\ kFDS \in [Slots -> Slot] /\ kClient \in [Fds -> Data]
    BY DEF TableTypeOK, TimingTypes, Connection, Slot
  <1>4. /\ conn' \in [Fds -> Connection] /\ conn'[Fd(dst)] = NoConn
        /\ \A g \in Fds \ {Fd(dst)} : conn'[g] = conn[g]
    BY <1>1, <1>3, NewConnection
  <1>5. /\ kFDS' \in [Slots -> Slot] /\ kFDS'[dst] = kFDS[n]
        /\ \A s \in Slots \ {dst} : kFDS'[s] = kFDS[s]
    BY <1>1, <1>2, <1>3
  <1>6. /\ kClient' \in [Fds -> Data] /\ kClient'[Fd(dst)] = kClient[Fd(n)]
        /\ \A g \in Fds \ {Fd(dst)} : kClient'[g] = kClient[g]
    BY <1>1, <1>3
  <1> QED
    BY <1>1, <1>2, <1>4, <1>5, <1>6

\* Whoever is removed by the timer that was made for it: those that stay remember
\* their slots, or later ones.
LEMMA RemovedBase ==
  ASSUME ChatAssumption, TableTypeOK, TimingTypes, Named, Slotted, Behind,
         NEW t0 \in Listed, NEW fd, fd = client_data[t0], InUse # {},
         BecomesTable(RemoveClientFromPoll(Table, fd)),
         UNCHANGED client_data, Listed' = Listed \ {t0}
  PROVE  /\ Slotted' /\ Behind' /\ Named'
         /\ kCntClient' = kCntClient - 1
         /\ conn' \in [Fds -> Connection] /\ kFDS' \in [Slots -> Slot]
         /\ kClient' \in [Fds -> Data] /\ moved' \in BOOLEAN
  <1> DEFINE dst == Idx(fd)
             n   == kCntClient
             gone == Fd(dst)
  <1>1. fd \in Fds /\ dst \in Slots /\ gone \in Fds
    BY DEF Slotted
  <1>2. n \in InUse /\ n \in Nat /\ InUse \subseteq Slots /\ \A s \in InUse : Fd(s) \in Fds
    BY SlotFacts DEF InUse, Named, Fd
  <1>3. /\ kCntClient' = n - 1 /\ InUse' = InUse \ {n}
        /\ conn' \in [Fds -> Connection] /\ conn'[gone] = NoConn
        /\ \A g \in Fds \ {gone} : conn'[g] = conn[g]
        /\ kFDS' \in [Slots -> Slot] /\ kFDS'[dst] = kFDS[n]
        /\ \A s \in Slots \ {dst} : kFDS'[s] = kFDS[s]
        /\ kClient' \in [Fds -> Data] /\ kClient'[gone] = kClient[Fd(n)]
        /\ \A g \in Fds \ {gone} : kClient'[g] = kClient[g]
        /\ moved' = (moved \/ dst # n)
    <2>1. dst = Idx(fd) /\ n = kCntClient /\ gone = Fd(dst) /\ Fd(n) \in Fds
      BY <1>2
    <2> HIDE DEF dst, n, gone
    <2>2. gone = Fd(dst) /\ Fd(dst) \in Fds
      BY <1>1, <2>1
    <2> QED
      BY <1>1, <1>2, <2>1, <2>2, Removal
  <1> HIDE DEF dst, n, gone
  <1>4. \A s \in Slots : Fd(s)' = IF s = dst THEN Fd(n) ELSE Fd(s)
    BY <1>3 DEF Fd
  <1>5. \A g \in Fds : kClient'[g] = IF g = gone THEN kClient[Fd(n)] ELSE kClient[g]
    BY <1>3
  <1>6. \A g : Idx(g)' = kClient'[g].pollfds_idx
    BY DEF Idx
  <1>7. \A s \in InUse' : s \in InUse /\ s # n /\ s < n /\ s \in Slots
    BY <1>2, <1>3 DEF InUse, n
  <1>8. \A g \in Fds : Idx(g)' = IF g = gone THEN Idx(Fd(n)) ELSE Idx(g)
    BY <1>5, <1>6 DEF Idx
  <1>9. Named'
    BY <1>2, <1>4, <1>7 DEF Named, Fd
  <1>10. Idx(Fd(n)) \in Slots /\ Fd(n) \in Fds /\ \A s \in Slots : Fd(s) \in Fds => Fd(s)' \in Fds
    BY <1>2, <1>4 DEF Slotted
  <1>11. Slotted'
    <2>1. ASSUME NEW s \in InUse', NEW g, g = Fd(s)' PROVE Idx(g)' \in Slots
      <3>1. g = Fd(s) \/ g = Fd(n)
        BY <1>4, <1>7, <2>1
      <3>2. Fd(s) \in Fds /\ Idx(Fd(s)) \in Slots
        BY <1>2, <1>7 DEF Slotted
      <3> QED
        BY <1>8, <1>10, <3>1, <3>2
    <2>2. ASSUME NEW g \in Fds, NEW s, s = Idx(g)', s \in Slots PROVE Fd(s)' \in Fds
      <3>1. PICK h \in Fds : s = Idx(h)
        BY <1>8, <1>10, <2>2
      <3>2. Fd(s) \in Fds
        BY <2>2, <3>1 DEF Slotted
      <3> QED
        BY <1>10, <2>2, <3>2
    <2>3. ASSUME NEW t \in Listed', NEW g, g = client_data'[t] PROVE g \in Fds /\ Idx(g)' \in Slots
      <3>1. g \in Fds /\ Idx(g) \in Slots
        BY <2>3 DEF Slotted
      <3> QED
        BY <1>8, <1>10, <3>1
    <2> QED
      BY <2>1, <2>2, <2>3 DEF Slotted, Idx, Fd
  <1>12. Behind'
    <2> SUFFICES ASSUME NEW s \in InUse', NEW g, g = Fd(s)', conn'[g].state # "closed"
                 PROVE  /\ kClient'[g].pollfds_idx >= s
                        /\ kClient'[g].pollfds_idx = s => /\ kClient'[g].timer \in Listed'
                                                          /\ client_data'[kClient'[g].timer] = g
      BY DEF Behind, Open, Idx, Fd
    <2>1. s \in InUse /\ s # n /\ s < n /\ s \in Slots
      BY <1>7
    <2>2. g \in Fds /\ g # gone
      BY <1>2, <1>3, <1>4, <2>1 DEF NoConn
    <2>3. kClient'[g] = kClient[g] /\ conn[g].state # "closed"
      BY <1>3, <2>2
    <2>4. CASE s = dst
      <3>1. g = Fd(n) /\ Idx(g) >= n
        BY <1>2, <1>4, <2>1, <2>3, <2>4 DEF Behind, Open
      <3>2. Idx(g) \in Nat /\ s \in Nat
        BY <1>10, <2>1, <3>1 DEF Slots
      <3> QED
        BY <1>2, <2>1, <2>3, <3>1, <3>2 DEF Idx
    <2>5. CASE s # dst
      <3>1. g = Fd(s)
        BY <1>4, <2>1, <2>5
      <3>2. /\ Idx(g) >= s
            /\ Idx(g) = s => kClient[g].timer \in Listed /\ client_data[kClient[g].timer] = g
        BY <2>1, <2>3, <3>1 DEF Behind, Open
      <3>3. ASSUME Idx(g) = s PROVE kClient[g].timer # t0
        BY <2>5, <3>2, <3>3 DEF dst
      <3> QED
        BY <2>3, <3>2, <3>3 DEF Idx
    <2> QED
      BY <2>4, <2>5
  <1>13. moved' \in BOOLEAN
    BY <1>3 DEF TimingTypes
  <1> QED
    BY <1>3, <1>9, <1>11, <1>12, <1>13 DEF n

\* As LoopBase, for the whole invariant.
LEMMA LoopStep ==
  ASSUME ChatAssumption, BaseInv, pc \notin Ended, Formed', TimingTypes',
         UNCHANGED <<kFDS, kCntClient, timerVars>>,
         \A fd \in Fds : conn'[fd].state = "closed" <=> conn[fd].state = "closed",
         ToVisit' \subseteq ToVisit, expiring > 0 => pc' = "tick"
  PROVE  BaseInv'
  BY LoopBase DEF BaseInv

\* Only while the alarm takes timers off, some are left to take off.
LEMMA NoneExpiring ==
  ASSUME BaseInv, pc \notin Ended, pc # "tick"
  PROVE  expiring = 0
  BY DEF BaseInv, Base, Ticking, TimingTypes

LEMMA TestBase == ASSUME ChatAssumption, BaseInv, Test PROVE BaseInv'
  <1>1. /\ pc = "test" /\ pc \notin Ended /\ expiring = 0
        /\ UNCHANGED <<kStop, kSigPipeFD, signalled, kTimeout, alarm, timerVars, moved>>
    BY NoneExpiring DEF Test, Sio!Test, Sio!sigVars, timing, Ended
  <1>2. TimingTypes'
    BY <1>1 DEF BaseInv, TimingTypes, timerVars
  <1>3. CASE kStop
    <2>1. End("exit") /\ pc' = "exit"
      BY <1>3 DEF Test, Sio!Test, Sio!End, End, Sio!NoConn, NoConn, Sio!tableVars, tableVars
    <2>2. Formed'
      BY <2>1, EndFormed DEF BaseInv, Ended
    <2> QED
      BY <1>2, <2>1, <2>2 DEF BaseInv, Ended
  <1>4. CASE ~ kStop
    <2>1. /\ pc' = "poll"
          /\ UNCHANGED <<netVars, tableVars, listening, fds_i, send_j, due>>
      BY <1>4 DEF Test, Sio!Test, Sio!netVars, netVars, Sio!tableVars, tableVars
    <2>2. Formed'
      BY <1>1, <2>1, MovesFormed DEF BaseInv
    <2>3. ToVisit' = {}
      BY <2>1 DEF ToVisit
    <2> QED
      BY <1>1, <1>2, <2>1, <2>2, <2>3, LoopStep DEF netVars, tableVars
  <1> QED
    BY <1>3, <1>4

LEMMA PollBase == ASSUME ChatAssumption, BaseInv, Poll PROVE BaseInv'
  <1>1. /\ pc = "poll" /\ pc \notin Ended /\ expiring = 0
        /\ UNCHANGED <<kStop, kSigPipeFD, kTimeout, alarm, timerVars, moved>>
        /\ signalled' \in BOOLEAN
    BY NoneExpiring DEF Poll, Sio!Poll, timing, Ended
  <1>2. PollReturns("signals")
    BY DEF Poll, Sio!Poll, Sio!PollReturns, PollReturns, Sio!Refresh, Refresh, Sio!Event, Event,
           Sio!Slots, Slots, Sio!InUse, InUse, Sio!Polled, Polled, Sio!netVars, netVars
  <1>3. /\ Formed' /\ InUse' = InUse
        /\ \A s \in InUse : kFDS'[s].fd = kFDS[s].fd /\ kFDS'[s].revents = Event(kFDS[s].fd)
        /\ \A s \in Slots : kFDS'[s].fd = kFDS[s].fd
    BY <1>1, <1>2, PollFormed DEF BaseInv
  <1>4. TimingTypes'
    BY <1>1 DEF BaseInv, TimingTypes, timerVars
  <1>5. pc' = "signals" /\ UNCHANGED <<conn, kCntClient>>
    BY <1>2 DEF PollReturns, netVars
  <1>6. \A fd : Event(fd) \in {"err", "rdhup"} => Open(fd)
    BY DEF Event, Open
  <1>7. \A s \in Slots : Fd(s)' = Fd(s)
    BY <1>3 DEF Fd
  <1>8. \A fd : Open(fd)' <=> Open(fd)
    BY <1>5 DEF Open
  <1>9. Heard'
    <2>1. ASSUME NEW s \in ToVisit', kFDS'[s].revents \in {"err", "rdhup"} PROVE Open(Fd(s))'
      <3>1. s \in InUse /\ kFDS'[s].revents = Event(kFDS[s].fd) /\ kFDS'[s].fd = kFDS[s].fd
        BY <1>3, <2>1 DEF ToVisit
      <3>2. Open(kFDS[s].fd)
        BY <1>6, <2>1, <3>1
      <3> QED
        BY <1>5, <3>1, <3>2 DEF Open, Fd
    <2> QED
      BY <2>1 DEF Heard
  <1>10. Ticking' /\ Base /\ Formed /\ UNCHANGED <<kClientTimerList, client_data, kClient>>
    BY <1>1 DEF BaseInv, Base, Ticking, timerVars
  <1>11. /\ Len(kClientTimerList') = Len(kClientTimerList) /\ Listed' = Listed
         /\ SortedList!NoneTwice(kClientTimerList')
    BY <1>10 DEF Base, Counted, Listed
  <1>12. Base'
    BY <1>1, <1>5, <1>7, <1>8, <1>9, <1>10, <1>11, QuietBase
  <1> QED
    BY <1>3, <1>4, <1>12 DEF BaseInv

LEMMA SignalPhaseBase == ASSUME ChatAssumption, BaseInv, SignalPhase PROVE BaseInv'
  <1>1. /\ pc = "signals" /\ pc' = "accept" /\ pc \notin Ended /\ expiring = 0
        /\ UNCHANGED <<netVars, tableVars, listening, fds_i, send_j, due, timerVars>>
    BY NoneExpiring DEF SignalPhase, Sio!SignalPhase, Ended, Sio!netVars, netVars,
                        Sio!tableVars, tableVars
  <1>2. TimingTypes'
    BY <1>1 DEF SignalPhase, Sio!SignalPhase, Sio!ReadSignals, BaseInv, TimingTypes, timerVars
  <1>3. Formed'
    BY <1>1, MovesFormed DEF BaseInv
  <1>4. ToVisit' = ToVisit
    BY <1>1 DEF ToVisit, InUse, tableVars
  <1> QED
    BY <1>1, <1>2, <1>3, <1>4, LoopStep DEF netVars, tableVars

LEMMA ClientBase == ASSUME ChatAssumption, BaseInv, Client PROVE BaseInv'
  <1>1. /\ pc = "clients" /\ pc \notin Ended /\ expiring = 0
        /\ UNCHANGED <<kStop, kSigPipeFD, signalled, kTimeout, alarm, timerVars, moved>>
    BY NoneExpiring DEF Client, Receive, SkipClient, EndOfRound, AtSlot, Ended, sigVars
  <1>2. TimingTypes' /\ Formed /\ TableTypeOK
    BY <1>1 DEF BaseInv, TimingTypes, timerVars, Formed
  <1>3. fds_i \in Nat /\ InUse \subseteq Nat
    BY <1>2, SlotFacts DEF TableTypeOK, InUse, ChatAssumption
  <1>4. CASE Receive
    <2>1. /\ Formed' /\ UNCHANGED <<kFDS, kCntClient, fds_i>> /\ pc' = "send"
          /\ \A g \in Fds : conn'[g].state = conn[g].state
      BY <1>2, <1>4, ReceiveFormed
    <2>2. ToVisit' \subseteq ToVisit
      BY <1>1, <1>3, <2>1 DEF ToVisit, InUse
    <2> QED
      BY <1>1, <1>2, <2>1, <2>2, LoopStep
  <1>5. CASE SkipClient
    <2>1. UNCHANGED <<netVars, tableVars, pc>> /\ fds_i' = fds_i + 1
      BY <1>5 DEF SkipClient
    <2>2. Formed'
      BY <1>2, <1>5, SkipFormed
    <2>3. ToVisit' \subseteq ToVisit
      BY <1>1, <1>3, <2>1 DEF ToVisit, InUse, tableVars
    <2> QED
      BY <1>1, <1>2, <2>1, <2>2, <2>3, LoopStep DEF netVars, tableVars
  <1>6. CASE EndOfRound("alarm")
    <2>1. /\ UNCHANGED <<netVars, tableVars, listening, send_j, due>>
          /\ pc' = "alarm" /\ fds_i' = 1
      BY <1>6 DEF EndOfRound
    <2>2. Formed'
      BY <1>1, <1>2, <2>1, MovesFormed
    <2>3. ToVisit' = {}
      BY <2>1 DEF ToVisit
    <2> QED
      BY <1>1, <1>2, <2>1, <2>2, <2>3, LoopStep DEF netVars, tableVars
  <1> QED
    BY <1>4, <1>5, <1>6 DEF Client

\* The steps of a broadcast that do not end it, and the one a signal makes.
LEMMA SendingBase ==
  ASSUME ChatAssumption, BaseInv, SendMessage \/ SendFails \/ SkipSender \/ SendInterrupted,
         TimingTypes', UNCHANGED timerVars
  PROVE  BaseInv'
  <1>1. /\ Formed' /\ pc = "send" /\ NextAddressee
        /\ \A fd \in Fds : conn'[fd].state = conn[fd].state
    BY SendFormed DEF BaseInv
  <1>2. UNCHANGED <<kFDS, kCntClient, fds_i, pc>>
    BY <1>1 DEF NextAddressee, tableVars
  <1>3. ToVisit' = ToVisit /\ pc \notin Ended
    BY <1>1, <1>2 DEF ToVisit, InUse, Ended
  <1>4. expiring = 0
    BY <1>1, <1>3, NoneExpiring
  <1> QED
    BY <1>1, <1>2, <1>3, <1>4, LoopStep

LEMMA SendBase == ASSUME ChatAssumption, BaseInv, Send PROVE BaseInv'
  <1>1. UNCHANGED <<kStop, kSigPipeFD, signalled, kTimeout, alarm, timerVars, moved>>
    BY DEF Send, sigVars
  <1>2. TimingTypes'
    BY <1>1 DEF BaseInv, TimingTypes, timerVars
  <1>3. CASE SendRaisesSigPipe
    <2>1. End("killed") /\ pc' = "killed"
      BY <1>3 DEF SendRaisesSigPipe, End
    <2>2. Formed'
      BY <2>1, EndFormed DEF BaseInv, Ended
    <2> QED
      BY <1>2, <2>1, <2>2 DEF BaseInv, Ended
  <1>4. CASE SendMessage \/ SendFails \/ SkipSender
    BY <1>1, <1>2, <1>4, SendingBase
  <1> QED
    BY <1>3, <1>4 DEF Send

LEMMA ResetSenderBase ==
  ASSUME ChatAssumption, TimingAssumption, BaseInv, ResetSender
  PROVE  BaseInv'
  <1> DEFINE t == kClient[kFDS[fds_i].fd].timer
             s == ResetTimer(kClientTimerList, t)
  <1>1. /\ pc = "send" /\ pc \notin Ended /\ expiring = 0 /\ pc' = "clients"
        /\ UNCHANGED <<kStop, kSigPipeFD, signalled, kTimeout, alarm, client_data, kClient,
                       expiring, moved, conn, kFDS, kCntClient>>
        /\ kClientTimerList' = s
    BY NoneExpiring DEF ResetSender, SendDone, Ended, sigVars, netVars, tableVars
  <1>2. Formed /\ TimingTypes /\ Base /\ TableTypeOK
    BY <1>1 DEF BaseInv, Formed
  <1>3. Formed' /\ fds_i \in InUse /\ fds_i' = fds_i + 1
    BY <1>2, SendDoneFormed DEF ResetSender
  <1>4. kClientTimerList \in Seq(SortedList!Entry) /\ SortedList!NoneTwice(kClientTimerList)
    BY <1>2 DEF TimingTypes, Base, Counted
  <1> HIDE DEF t
  <1>5. /\ s \in Seq(SortedList!Entry) /\ Len(s) = Len(kClientTimerList)
        /\ SortedList!Listed(s) = SortedList!Listed(kClientTimerList)
        /\ SortedList!NoneTwice(s)
    BY <1>4, ResetFacts
  <1> HIDE DEF s
  <1>6. TimingTypes'
    BY <1>1, <1>2, <1>5 DEF TimingTypes
  <1>7. Listed' = Listed
    BY <1>1, <1>5 DEF Listed
  <1>8. ToVisit' \subseteq ToVisit
    <2>1. InUse \subseteq Nat /\ fds_i \in Nat
      BY <1>3 DEF InUse
    <2> QED
      BY <1>1, <1>3, <2>1 DEF ToVisit, InUse
  <1>9. Heard'
    BY <1>1, <1>2, <1>8 DEF Base, Heard, Open, Fd
  <1>10. Ticking'
    <2>1. Len(s) \in Nat
      BY <1>5, LenProperties
    <2> QED
      BY <1>1, <2>1 DEF Ticking
  <1>11. /\ \A x \in Slots : Fd(x)' = Fd(x)
         /\ \A fd \in Fds : Open(fd)' <=> Open(fd)
    BY <1>1 DEF Fd, Open
  <1>12. Base'
    BY <1>1, <1>2, <1>5, <1>7, <1>9, <1>10, <1>11, QuietBase
  <1> QED
    BY <1>3, <1>6, <1>12 DEF BaseInv

\* The timers that the alarm takes off are those before the first that has not
\* expired.
LEMMA ExpiredFacts ==
  ASSUME NEW S, NEW l \in Seq(S), \A k \in 1 .. Len(l) : l[k].expire \in Int
  PROVE  LET n == Len(SortedList!Expired(l, 0))
         IN  n \in Nat /\ n <= Len(l) /\ \A k \in 1 .. n : l[k].expire < 0
  <1> DEFINE p == SortedList!Place(l, 0)
  <1>1. StopsThere(l, 0, p)
    BY PlaceFacts
  <1> HIDE DEF p
  <1>2. /\ Len(l) \in Nat /\ p \in 1 .. Len(l) + 1
        /\ \A m \in 1 .. p - 1 : ~(l[m].expire >= 0)
    BY <1>1, LenProperties DEF StopsThere
  <1>3. /\ 1 \in 1 .. Len(l) + 1 /\ p - 1 \in 0 .. Len(l) /\ 1 <= (p - 1) + 1
        /\ (p - 1) - 1 + 1 = p - 1
    BY <1>2
  <1>4. Len(SubSeq(l, 1, p - 1)) = (p - 1) - 1 + 1
    BY <1>3, SubSequence
  <1>5. Len(SortedList!Expired(l, 0)) = p - 1
    BY <1>3, <1>4 DEF SortedList!Expired, p
  <1>6. \A m \in 1 .. p - 1 : m \in 1 .. Len(l)
    BY <1>2
  <1>7. \A m \in 1 .. p - 1 : l[m].expire < 0
    BY <1>2, <1>6
  <1> QED
    BY <1>3, <1>5, <1>7

LEMMA StartTickBase ==
  ASSUME ChatAssumption, TimingAssumption, BaseInv, StartTick
  PROVE  BaseInv'
  <1> DEFINE n == Len(SortedList!Expired(kClientTimerList, 0))
  <1>1. /\ pc = "alarm" /\ pc' = "tick" /\ pc \notin Ended
        /\ kTimeout' = FALSE /\ expiring' = n
        /\ UNCHANGED <<netVars, tableVars, listening, fds_i, send_j, due>>
        /\ UNCHANGED <<kStop, kSigPipeFD, signalled, alarm, kClientTimerList, client_data,
                       kClient, moved>>
    BY DEF StartTick, Ended
  <1>2. TimingTypes /\ Base /\ Formed
    BY <1>1 DEF BaseInv
  <1>3. \A k \in 1 .. Len(kClientTimerList) : kClientTimerList[k].expire \in Int
    <2>1. \A k \in 1 .. Len(kClientTimerList) : kClientTimerList[k] \in SortedList!Entry
      BY <1>2, ElementOfSeq DEF TimingTypes
    <2>2. TimesLeft \subseteq Int
      BY DEF TimesLeft, TimingAssumption
    <2> QED
      BY <2>1, <2>2 DEF SortedList!Entry
  <1>4. n \in Nat /\ n <= Len(kClientTimerList) /\ \A k \in 1 .. n : kClientTimerList[k].expire < 0
    BY <1>2, <1>3, ExpiredFacts DEF TimingTypes
  <1> HIDE DEF n
  <1>5. Formed'
    BY <1>1, <1>2, MovesFormed
  <1>6. TimingTypes'
    BY <1>1, <1>2, <1>4 DEF TimingTypes
  <1>7. Ticking'
    BY <1>1, <1>4 DEF Ticking
  <1>8. Heard'
    BY <1>1 DEF Heard, ToVisit
  <1>9. /\ Len(kClientTimerList') = Len(kClientTimerList) /\ Listed' = Listed
        /\ SortedList!NoneTwice(kClientTimerList')
    BY <1>1, <1>2 DEF Base, Counted, Listed
  <1>10. /\ UNCHANGED <<conn, kFDS, kCntClient>>
         /\ \A s \in Slots : Fd(s)' = Fd(s)
         /\ \A fd \in Fds : Open(fd)' <=> Open(fd)
    BY <1>1 DEF Open, Fd, netVars, tableVars
  <1>11. Base'
    BY <1>1, <1>2, <1>7, <1>8, <1>9, <1>10, QuietBase
  <1> QED
    BY <1>5, <1>6, <1>11 DEF BaseInv

\* The two ways back to the test of the stop flag.
LEMMA ToTestBase ==
  ASSUME ChatAssumption, TimingAssumption, BaseInv, EndTick \/ NoAlarm
  PROVE  BaseInv'
  <1>1. /\ pc \in {"alarm", "tick"} /\ pc \notin Ended /\ pc' = "test" /\ expiring = 0
        /\ UNCHANGED <<netVars, tableVars, listening, fds_i, send_j, due>>
        /\ UNCHANGED <<kStop, kSigPipeFD, signalled, kTimeout, timerVars, moved>>
        /\ alarm' \in {alarm, AlrmSlotSec}
    BY NoneExpiring DEF EndTick, NoAlarm, Rearm, Ended, sigVars
  <1>2. TimingTypes'
    BY <1>1 DEF BaseInv, TimingTypes, timerVars, TimingAssumption
  <1>3. Formed'
    BY <1>1, MovesFormed DEF BaseInv
  <1>4. ToVisit' = {}
    BY <1>1 DEF ToVisit
  <1> QED
    BY <1>1, <1>2, <1>3, <1>4, LoopStep DEF netVars, tableVars

LEMMA DropBase == ASSUME ChatAssumption, BaseInv, Drop PROVE BaseInv'
  <1> DEFINE i  == fds_i
             fd == kFDS[i].fd
             t0 == kClient[fd].timer
             l  == kClientTimerList
             s  == DelTimer(l, t0)
  <1>1. /\ pc = "clients" /\ pc \notin Ended /\ expiring = 0
        /\ i \in InUse /\ kFDS[i].revents \in {"err", "rdhup"}
        /\ kClientTimerList' = s
        /\ UNCHANGED <<client_data, expiring, kStop, kSigPipeFD, signalled, kTimeout, alarm>>
    BY NoneExpiring DEF Drop, AtSlot, Ended, sigVars
  <1>2. Formed /\ TimingTypes /\ Base /\ TableTypeOK /\ Named /\ OnTurn
    BY <1>1 DEF BaseInv, Formed
  <1>3. l \in Seq(SortedList!Entry) /\ SortedList!NoneTwice(l)
    BY <1>2 DEF TimingTypes, Base, Counted
  <1>4. /\ s \in Seq(SortedList!Entry)
        /\ Len(s) = IF t0 \in SortedList!Listed(l) THEN Len(l) - 1 ELSE Len(l)
        /\ SortedList!Listed(s) = SortedList!Listed(l) \ {t0}
        /\ SortedList!NoneTwice(s)
    BY <1>3, WithoutListed DEF DelTimer
  <1>5. fd \in Fds /\ fd = Fd(i) /\ i \in Slots
    BY <1>1, <1>2, SlotFacts DEF Named, Fd
  <1>6. ToVisit = {k \in InUse : k >= i} /\ i \in Nat /\ i \in ToVisit
    BY <1>1 DEF ToVisit, InUse
  <1>7. Open(fd)
    BY <1>1, <1>2, <1>5, <1>6 DEF Base, Heard
  <1> HIDE DEF s, t0
  <1>8. CASE Idx(fd) # i
    <2>1. End("aborted") /\ pc' = "aborted" /\ UNCHANGED <<kClient, moved>>
      BY <1>8 DEF Drop, Idx, End
    <2>2. Formed'
      BY <1>2, <2>1, EndFormed DEF Ended
    <2>3. TimingTypes'
      BY <1>1, <1>2, <1>4, <2>1 DEF TimingTypes
    <2> QED
      BY <2>1, <2>2, <2>3 DEF BaseInv, Ended
  <1>9. CASE Idx(fd) = i
    <2>1. /\ BecomesTable(RemoveClientFromPoll(Table, fd))
          /\ fds_i' = i /\ due' = due \ {fd}
          /\ UNCHANGED <<waiting, listening, pc, send_j>>
      BY <1>9 DEF Drop, Idx, AfterDrop
    <2>2. t0 \in Listed /\ client_data[t0] = fd /\ Slotted /\ Behind
      BY <1>1, <1>2, <1>5, <1>7, <1>9 DEF Base, Behind, t0
    <2>3. Listed' = Listed \ {t0}
      BY <1>1, <1>4 DEF Listed
    <2> HIDE DEF fd
    <2>4. /\ Slotted' /\ Behind' /\ Named'
          /\ kCntClient' = kCntClient - 1
          /\ conn' \in [Fds -> Connection] /\ kFDS' \in [Slots -> Slot]
          /\ kClient' \in [Fds -> Data] /\ moved' \in BOOLEAN
      BY <1>1, <1>2, <2>1, <2>2, <2>3, RemovedBase
    <2>5. kCntClient \in 1 .. MaxnClient /\ kCntClient \in InUse /\ MaxnClient \in Nat
      BY <1>1, <1>2, SlotFacts DEF InUse
    <2>6. Formed'
      <3>1. TableTypeOK'
        <4>1. kCntClient' \in 0 .. MaxnClient
          BY <2>4, <2>5
        <4>2. /\ UNCHANGED <<waiting, listening, pc, send_j, fds_i>>
              /\ due' \subseteq Fds
          BY <1>2, <2>1 DEF TableTypeOK
        <4> HIDE DEF i
        <4> QED
          BY <1>2, <2>4, <4>1, <4>2 DEF TableTypeOK, Connection, Slot
      <3>2. OnTurn'
        BY <1>1, <2>1 DEF OnTurn
      <3> QED
        BY <2>4, <3>1, <3>2 DEF Formed
    <2>7. TimingTypes'
      BY <1>1, <1>2, <1>4, <2>4 DEF TimingTypes
    <2>8. Counted'
      BY <1>1, <1>2, <1>4, <2>2, <2>4 DEF Base, Counted, Listed
    <2>9. Ticking'
      <3>1. Len(s) \in Nat
        BY <1>4, LenProperties
      <3> QED
        BY <1>1, <3>1 DEF Ticking
    <2>10. Heard'
      <3>1. /\ Idx(fd) \in Slots /\ Fd(Idx(fd)) \in Fds /\ Fd(kCntClient) \in Fds
        BY <1>2, <1>5, <1>9, <2>5 DEF Named, Fd
      <3>2. /\ InUse' = InUse \ {kCntClient} /\ kFDS'[i] = kFDS[kCntClient]
            /\ \A k \in Slots \ {i} : kFDS'[k] = kFDS[k]
            /\ \A g \in Fds \ {fd} : conn'[g] = conn[g]
        BY <1>2, <1>5, <1>9, <2>1, <2>5, <3>1, Removal
      <3> SUFFICES ASSUME NEW k \in ToVisit', kFDS'[k].revents \in {"err", "rdhup"}
                   PROVE  conn'[kFDS'[k].fd].state # "closed"
        BY DEF Heard, Open, Fd
      <3>3. k \in InUse /\ k \in Nat /\ k >= i /\ k < kCntClient
        <4>1. pc' = "clients" /\ fds_i' = i
          BY <1>1, <2>1
        <4>2. k \in InUse' /\ k >= i
          BY <4>1 DEF ToVisit
        <4>3. k \in InUse /\ k # kCntClient
          BY <3>2, <4>2
        <4> QED
          BY <2>5, <4>2, <4>3 DEF InUse
      <3>4. PICK m \in ToVisit : kFDS'[k] = kFDS[m] /\ m # i
        <4>1. CASE k = i
          BY <1>6, <2>5, <3>2, <3>3, <4>1
        <4>2. CASE k # i
          <5>1. k \in Slots \ {i}
            BY <1>2, <3>3, <4>2, SlotFacts
          <5> QED
            BY <1>6, <3>2, <3>3, <4>2, <5>1
        <4> QED
          BY <4>1, <4>2
      <3>5. m \in InUse /\ m \in Nat /\ m > i /\ Fd(m) \in Fds
        BY <1>2, <1>6, <3>4 DEF InUse, Named, Fd
      <3>6. Open(Fd(m))
        BY <1>2, <3>4 DEF Base, Heard
      <3>7. Fd(m) # fd
        BY <1>6, <1>9, <2>2, <3>5, <3>6 DEF Behind
      <3> QED
        BY <3>2, <3>4, <3>5, <3>6, <3>7 DEF Open, Fd
    <2> QED
      BY <2>4, <2>6, <2>7, <2>8, <2>9, <2>10 DEF BaseInv, Base
  <1> QED
    BY <1>8, <1>9

LEMMA ExpireFirstBase == ASSUME ChatAssumption, BaseInv, ExpireFirst PROVE BaseInv'
  <1> DEFINE l  == kClientTimerList
             t0 == Head(l).timer
             fd == client_data[t0]
             s  == Tail(l)
  <1>1. /\ pc = "tick" /\ pc' = "tick" /\ pc \notin Ended /\ expiring > 0
        /\ BecomesTable(RemoveClientFromPoll(Table, fd))
        /\ kClientTimerList' = s /\ expiring' = expiring - 1
        /\ UNCHANGED <<waiting, loopVars, sigVars, client_data>>
    BY DEF ExpireFirst, loopVars, Ended
  <1>2. Formed /\ TimingTypes /\ Base /\ TableTypeOK /\ Named
    BY <1>1 DEF BaseInv, Formed
  <1>3. /\ l \in Seq(SortedList!Entry) /\ SortedList!NoneTwice(l) /\ Len(l) = kCntClient
        /\ expiring \in Nat /\ expiring <= Len(l) /\ Len(l) \in Nat /\ Len(l) # 0
    BY <1>1, <1>2, LenProperties DEF TimingTypes, Base, Counted, Ticking
  <1>4. /\ s \in Seq(SortedList!Entry) /\ Len(s) = Len(l) - 1
        /\ t0 \in SortedList!Listed(l)
        /\ SortedList!Listed(s) = SortedList!Listed(l) \ {t0}
        /\ SortedList!NoneTwice(s)
        /\ \A k \in 1 .. Len(l) - 1 : s[k] = l[k + 1]
    BY <1>3, TailFacts
  <1> HIDE DEF s, t0
  <1>5. t0 \in Listed /\ Listed' = Listed \ {t0}
    BY <1>1, <1>4 DEF Listed
  <1>6. Slotted /\ Behind
    BY <1>2 DEF Base
  <1>7. kCntClient \in InUse /\ kCntClient \in 1 .. MaxnClient /\ MaxnClient \in Nat
    BY <1>2, <1>3, SlotFacts DEF InUse
  <1>8. fd = client_data[t0] /\ InUse # {} /\ UNCHANGED client_data
    BY <1>1, <1>7
  <1> HIDE DEF fd
  <1>9. /\ Slotted' /\ Behind' /\ Named'
        /\ kCntClient' = kCntClient - 1
        /\ conn' \in [Fds -> Connection] /\ kFDS' \in [Slots -> Slot]
        /\ kClient' \in [Fds -> Data] /\ moved' \in BOOLEAN
    BY <1>1, <1>2, <1>5, <1>6, <1>8, RemovedBase
  <1>10. Formed'
    <2>1. TableTypeOK'
      BY <1>1, <1>2, <1>7, <1>9 DEF TableTypeOK, Connection, Slot, loopVars
    <2>2. OnTurn'
      BY <1>1 DEF OnTurn
    <2> QED
      BY <1>9, <2>1, <2>2 DEF Formed
  <1>11. TimingTypes'
    BY <1>1, <1>2, <1>3, <1>4, <1>9 DEF TimingTypes, sigVars
  <1>12. Counted'
    BY <1>1, <1>3, <1>4, <1>9 DEF Counted
  <1>13. Heard'
    BY <1>1 DEF Heard, ToVisit
  <1>14. Ticking'
    <2>1. \A k \in 1 .. expiring : l[k].expire < 0
      BY <1>2 DEF Base, Ticking
    <2>2. ASSUME NEW k \in 1 .. expiring - 1 PROVE s[k].expire < 0
      <3>1. k + 1 \in 1 .. expiring /\ k \in 1 .. Len(l) - 1
        BY <1>3
      <3> QED
        BY <1>4, <2>1, <3>1
    <2> QED
      BY <1>1, <1>3, <1>4, <2>2 DEF Ticking
  <1> QED
    BY <1>9, <1>10, <1>11, <1>12, <1>13, <1>14 DEF BaseInv, Base

LEMMA AcceptBase ==
  ASSUME ChatAssumption, TimingAssumption, BaseInv, Accept
  PROVE  BaseInv'
  <1>1. /\ AcceptPhase /\ pc \notin Ended /\ expiring = 0
        /\ UNCHANGED <<kStop, kSigPipeFD, signalled, kTimeout, alarm, moved>>
    BY NoneExpiring DEF Accept, AcceptPhase, Ended, sigVars
  <1>2. Formed /\ TimingTypes /\ Base /\ TableTypeOK /\ Named
    BY <1>1 DEF BaseInv, Formed
  <1>3. Formed' /\ pc = "accept" /\ pc' = "clients" /\ fds_i' = 1
    BY <1>1, <1>2, AcceptFormed
  <1>4. InUse \subseteq Slots /\ \A s \in InUse : s >= 1
    BY <1>2, SlotFacts DEF InUse
  <1>5. CASE ~(listening /\ ~ Refused)
    <2>1. UNCHANGED <<conn, kFDS, kCntClient, timerVars>>
      BY <1>1, <1>2, <1>5, AcceptFormed DEF Accept
    <2>2. TimingTypes'
      BY <1>1, <1>2, <2>1 DEF TimingTypes, timerVars
    <2>3. ToVisit' \subseteq ToVisit
      BY <1>3, <2>1 DEF ToVisit, InUse
    <2> QED
      BY <1>1, <1>3, <2>1, <2>2, <2>3, LoopStep
  <1>6. CASE listening /\ ~ Refused
    <2> DEFINE new == LowestFree
               n   == kCntClient + 1
               l   == kClientTimerList
    <2>1. /\ new \in Fds /\ new \notin OpenFds
          /\ n \in Slots /\ n \notin InUse /\ InUse' = InUse \cup {n}
          /\ kCntClient' = n
          /\ kFDS'[n] = [fd |-> new, revents |-> "none"]
          /\ \A s \in Slots \ {n} : kFDS'[s] = kFDS[s]
          /\ conn'[new] = NewConn
          /\ \A fd \in Fds \ {new} : conn'[fd] = conn[fd]
      BY <1>1, <1>2, <1>6, AcceptFormed
    <2>2. PICK t \in Timers : BindTimer(new, t)
      BY <1>6 DEF Accept
    <2> DEFINE s == SortedList!Insert(l, [timer |-> t, expire |-> ClientAliveSec])
               data == [pollfds_idx |-> n, timer |-> t]
    <2>3. /\ t \notin Listed /\ kClientTimerList' = s /\ UNCHANGED expiring
          /\ kClient' = [kClient EXCEPT ![new] = data]
          /\ client_data' = [client_data EXCEPT ![t] = new]
      BY <2>2 DEF BindTimer
    <2>4. l \in Seq(SortedList!Entry) /\ SortedList!NoneTwice(l) /\ Len(l) = kCntClient
      BY <1>2 DEF TimingTypes, Base, Counted
    <2>5. /\ s \in Seq(SortedList!Entry) /\ Len(s) = Len(l) + 1
          /\ SortedList!Listed(s) = SortedList!Listed(l) \cup {t}
          /\ SortedList!NoneTwice(s)
      BY <2>3, <2>4, InsertedFresh DEF Listed
    <2> HIDE DEF s
    <2>6. Listed' = Listed \cup {t}
      BY <2>3, <2>5 DEF Listed
    <2>7. data \in Data /\ data.pollfds_idx = n /\ data.timer = t
      BY <2>1, <1>2 DEF Data, Slots, TableTypeOK, ChatAssumption
    <2> HIDE DEF data, new, n
    <2>8. /\ kClient' \in [Fds -> Data] /\ kClient'[new] = data
          /\ \A g \in Fds \ {new} : kClient'[g] = kClient[g]
      BY <1>2, <2>1, <2>3, <2>7 DEF TimingTypes
    <2>9. /\ client_data' \in [Timers -> Fds \cup {NoFd}] /\ client_data'[t] = new
          /\ \A u \in Timers \ {t} : client_data'[u] = client_data[u]
      BY <1>2, <2>1, <2>3 DEF TimingTypes
    <2>10. \A u \in Listed : u # t /\ u \in Timers
      <3>1. \A k \in 1 .. Len(l) : l[k].timer \in Timers
        <4>1. \A k \in 1 .. Len(l) : l[k] \in SortedList!Entry
          BY <2>4, ElementOfSeq
        <4> QED
          BY <4>1 DEF SortedList!Entry
      <3> QED
        BY <2>3, <3>1 DEF Listed, SortedList!Listed
    <2>11. \A u \in Listed : client_data'[u] = client_data[u]
      BY <2>9, <2>10
    <2>12. \A x \in Slots : Fd(x)' = IF x = n THEN new ELSE Fd(x)
      BY <2>1 DEF Fd
    <2>13. \A g \in Fds : Idx(g)' = IF g = new THEN n ELSE Idx(g)
      BY <2>7, <2>8 DEF Idx
    <2>14. \A x \in InUse : x \in Slots /\ x # n /\ Fd(x) \in Fds /\ x < n
      BY <1>2, <1>4, <2>1, SlotFacts DEF Named, Fd, InUse, n
    <2>15. TimingTypes'
      BY <1>1, <1>2, <2>3, <2>5, <2>8, <2>9 DEF TimingTypes
    <2>16. Counted'
      BY <2>1, <2>3, <2>4, <2>5 DEF Counted, n
    <2>17. Slotted'
      <3>1. ASSUME NEW x \in InUse', NEW g, g = Fd(x)' PROVE Idx(g)' \in Slots
        <4>1. CASE x = n
          BY <2>1, <2>12, <2>13, <3>1, <4>1
        <4>2. CASE x # n
          <5>1. g = Fd(x) /\ x \in InUse /\ g \in Fds /\ Idx(g) \in Slots
            BY <1>2, <2>1, <2>12, <2>14, <3>1, <4>2 DEF Base, Slotted
          <5> QED
            BY <2>1, <2>13, <5>1
        <4> QED
          BY <4>1, <4>2
      <3>2. ASSUME NEW g \in Fds, NEW x, x = Idx(g)', x \in Slots PROVE Fd(x)' \in Fds
        <4>1. CASE x = n
          BY <2>1, <2>12, <4>1
        <4>2. CASE x # n
          <5>1. x = Idx(g)
            BY <2>13, <3>2, <4>2
          <5>2. Fd(x) \in Fds
            BY <1>2, <3>2, <5>1 DEF Base, Slotted
          <5> QED
            BY <2>12, <3>2, <4>2, <5>2
        <4> QED
          BY <4>1, <4>2
      <3>3. ASSUME NEW u \in Listed', NEW g, g = client_data'[u]
            PROVE  g \in Fds /\ Idx(g)' \in Slots
        <4>1. CASE u = t
          BY <2>1, <2>9, <2>13, <3>3, <4>1
        <4>2. CASE u # t
          <5>1. u \in Listed /\ g = client_data[u]
            BY <2>6, <2>11, <3>3, <4>2
          <5>2. g \in Fds /\ Idx(g) \in Slots
            BY <1>2, <5>1 DEF Base, Slotted
          <5> QED
            BY <2>1, <2>13, <5>2
        <4> QED
          BY <4>1, <4>2
      <3> QED
        BY <3>1, <3>2, <3>3 DEF Slotted, Idx, Fd
    <2>18. Behind'
      <3> SUFFICES ASSUME NEW x \in InUse', NEW g, g = Fd(x)', conn'[g].state # "closed"
                   PROVE  /\ kClient'[g].pollfds_idx >= x
                          /\ kClient'[g].pollfds_idx = x =>
                               /\ kClient'[g].timer \in Listed'
                               /\ client_data'[kClient'[g].timer] = g
        BY DEF Behind, Open, Idx, Fd
      <3>1. n \in Nat
        BY <2>1 DEF Slots
      <3>2. CASE x = n
        <4>1. g = new /\ kClient'[g] = data
          BY <2>1, <2>8, <2>12, <3>2
        <4> QED
          BY <2>6, <2>7, <2>9, <3>1, <3>2, <4>1
      <3>3. CASE x # n /\ g = new
        <4>1. x \in InUse /\ x < n /\ x \in Nat
          BY <2>1, <2>14, <3>3 DEF InUse
        <4> QED
          BY <2>7, <2>8, <3>1, <3>3, <4>1
      <3>4. CASE x # n /\ g # new
        <4>1. x \in InUse /\ g = Fd(x) /\ g \in Fds
          BY <2>1, <2>12, <2>14, <3>4
        <4>2. kClient'[g] = kClient[g] /\ conn[g].state # "closed"
          BY <2>1, <2>8, <3>4, <4>1
        <4>3. /\ kClient[g].pollfds_idx >= x
              /\ kClient[g].pollfds_idx = x => /\ kClient[g].timer \in Listed
                                               /\ client_data[kClient[g].timer] = g
          BY <1>2, <4>1, <4>2 DEF Base, Behind, Open, Idx
        <4> QED
          BY <2>6, <2>11, <4>2, <4>3
      <3> QED
        BY <3>2, <3>3, <3>4
    <2>19. Heard'
      <3> SUFFICES ASSUME NEW x \in ToVisit', kFDS'[x].revents \in {"err", "rdhup"}
                   PROVE  conn'[kFDS'[x].fd].state # "closed"
        BY DEF Heard, Open, Fd
      <3>1. x \in InUse' /\ x # n
        BY <2>1 DEF ToVisit
      <3>2. x \in InUse /\ kFDS'[x] = kFDS[x] /\ x \in ToVisit
        BY <1>3, <2>1, <2>14, <3>1 DEF ToVisit
      <3>3. Open(Fd(x)) /\ Fd(x) \in Fds
        BY <1>2, <2>14, <3>2 DEF Base, Heard
      <3>4. Fd(x) # new
        BY <2>1, <3>3 DEF OpenFds
      <3> QED
        BY <2>1, <3>2, <3>3, <3>4 DEF Open, Fd
    <2>20. Ticking'
      <3>1. Len(s) \in Nat
        BY <2>5, LenProperties
      <3> QED
        BY <1>1, <2>3, <3>1 DEF Ticking
    <2> QED
      BY <1>3, <2>15, <2>16, <2>17, <2>18, <2>19, <2>20 DEF BaseInv, Base
  <1> QED
    BY <1>5, <1>6

\* Nothing happens, or the clients do something.
LEMMA ClientsBase ==
  ASSUME ChatAssumption, BaseInv, Clients \/ UNCHANGED chatVars,
         TimingTypes', UNCHANGED timerVars
  PROVE  BaseInv'
  <1>1. CASE pc \in Ended
    <2>1. Formed' /\ pc' = pc
      <3>1. CASE Clients
        BY <3>1, ClientsFormed DEF BaseInv
      <3>2. CASE UNCHANGED chatVars
        BY <3>2 DEF BaseInv, chatVars, netVars, tableVars, loopVars, Formed, TableTypeOK,
                    Named, OnTurn, InUse
      <3> QED
        BY <3>1, <3>2
    <2> QED
      BY <1>1, <2>1 DEF BaseInv
  <1>2. CASE pc \notin Ended
    <2>1. /\ Formed' /\ UNCHANGED <<kFDS, kCntClient, pc, fds_i>>
          /\ \A fd \in Fds : conn'[fd].state = "closed" <=> conn[fd].state = "closed"
      <3>1. CASE Clients
        BY <3>1, ClientsFormed DEF BaseInv
      <3>2. CASE UNCHANGED chatVars
        BY <3>2 DEF BaseInv, chatVars, netVars, tableVars, loopVars, Formed, TableTypeOK,
                    Named, OnTurn, InUse
      <3> QED
        BY <3>1, <3>2
    <2>2. ToVisit' = ToVisit
      BY <2>1 DEF ToVisit, InUse
    <2>3. expiring > 0 => pc' = "tick"
      BY <1>2, <2>1 DEF BaseInv, Base, Ticking
    <2> QED
      BY <1>2, <2>1, <2>2, <2>3, LoopStep
  <1> QED
    BY <1>1, <1>2

\* A signal: the byte of its handler, and perhaps a send() that it interrupts.
LEMMA SignalFacts ==
  ASSUME ChatAssumption, Formed, NEW sig, Sio!GenSigIO(sig)
  PROVE  /\ pc \notin Ended /\ Formed'
         /\ kSigPipeFD' = kSigPipeFD \cup {sig}
         /\ SendInterrupted \/ UNCHANGED chatVars
         /\ UNCHANGED <<conn, kFDS, kCntClient, fds_i, pc, kStop, signalled>>
  <1>1. SendInterrupted \/ UNCHANGED chatVars
    BY DEF Sio!GenSigIO, Sio!SendInterrupted, SendInterrupted, Sio!Blocked, Blocked,
           Sio!Sending, Sending, Sio!Addressee, Addressee, Sio!InUse, InUse,
           Sio!NextAddressee, NextAddressee, Sio!tableVars, tableVars, Sio!chatVars, chatVars,
           Sio!netVars, netVars, Sio!loopVars, loopVars
  <1>2. Formed'
    <2>1. CASE SendInterrupted
      BY <2>1, SendFormed
    <2>2. CASE UNCHANGED chatVars
      BY <2>2 DEF chatVars, netVars, tableVars, loopVars, Formed, TableTypeOK, Named, OnTurn,
                  InUse
    <2> QED
      BY <1>1, <2>1, <2>2
  <1>3. UNCHANGED <<conn, kFDS, kCntClient, fds_i, pc>>
    BY <1>1 DEF SendInterrupted, NextAddressee, chatVars, netVars, tableVars, loopVars
  <1> QED
    BY <1>1, <1>2, <1>3 DEF Sio!GenSigIO, Sio!Ended, Ended

LEMMA UserSignalBase ==
  ASSUME ChatAssumption, BaseInv, NEW sig \in UserSignals, UserSignal(sig)
  PROVE  BaseInv'
  <1>1. /\ kSigPipeFD' = kSigPipeFD \cup {sig}
        /\ SendInterrupted \/ UNCHANGED chatVars
        /\ UNCHANGED <<kStop, signalled, kTimeout, alarm, timerVars, moved>>
    BY SignalFacts DEF UserSignal, BaseInv, timing
  <1>2. TimingTypes'
    BY <1>1 DEF BaseInv, TimingTypes, timerVars
  <1> QED
    BY <1>1, <1>2, SendingBase, ClientsBase

LEMMA SecondBase == ASSUME ChatAssumption, TimingAssumption, BaseInv, Second PROVE BaseInv'
  <1> DEFINE l == kClientTimerList
             s == [k \in DOMAIN l |-> [l[k] EXCEPT !.expire = Left(@)]]
  <1>1. /\ pc \notin Ended /\ kClientTimerList' = s
        /\ UNCHANGED <<kTimeout, client_data, kClient, expiring, moved>>
        /\ alarm' = IF alarm = 0 THEN 0 ELSE alarm - 1
    BY DEF Second
  <1>2. Formed /\ TimingTypes /\ Base
    BY <1>1 DEF BaseInv
  <1>3. /\ Formed' /\ kSigPipeFD' \subseteq kSigPipeFD \cup {"ALRM"}
        /\ UNCHANGED <<conn, kFDS, kCntClient, fds_i, pc, kStop, signalled>>
    <2>1. CASE alarm = 1
      BY <1>2, <2>1, SignalFacts DEF Second
    <2>2. CASE alarm # 1
      BY <1>2, <2>2 DEF Second, chatVars, netVars, tableVars, loopVars, Formed, TableTypeOK,
                        Named, OnTurn, InUse
    <2> QED
      BY <2>1, <2>2
  <1>4. l \in Seq(SortedList!Entry) /\ SortedList!NoneTwice(l)
    BY <1>2 DEF TimingTypes, Base, Counted
  <1>5. /\ s \in Seq(SortedList!Entry) /\ Len(s) = Len(l)
        /\ SortedList!Listed(s) = SortedList!Listed(l)
        /\ SortedList!NoneTwice(s)
        /\ \A k \in 1 .. Len(l) : l[k].expire < 0 => s[k].expire < 0
    BY <1>4, SecondFacts
  <1> HIDE DEF s
  <1>6. TimingTypes'
    <2>1. alarm' \in 0 .. AlrmSlotSec
      BY <1>1, <1>2 DEF TimingTypes, TimingAssumption
    <2> QED
      BY <1>1, <1>2, <1>3, <1>5, <2>1 DEF TimingTypes
  <1>7. Listed' = Listed /\ ToVisit' = ToVisit
    BY <1>1, <1>3, <1>5 DEF Listed, ToVisit, InUse
  <1>8. /\ \A x \in Slots : Fd(x)' = Fd(x)
        /\ \A fd \in Fds : Open(fd)' <=> Open(fd)
    BY <1>3 DEF Fd, Open
  <1>9. Heard'
    BY <1>2, <1>3, <1>7 DEF Base, Heard, Open, Fd
  <1>10. Ticking'
    <2>1. expiring \in Nat /\ Len(l) \in Nat /\ expiring <= Len(l)
      BY <1>2, <1>4, LenProperties DEF TimingTypes, Base, Ticking
    <2>2. \A k \in 1 .. expiring : k \in 1 .. Len(l) /\ l[k].expire < 0
      BY <1>2, <2>1 DEF Base, Ticking
    <2>3. \A k \in 1 .. expiring : s[k].expire < 0
      BY <1>5, <2>2
    <2> QED
      BY <1>1, <1>2, <1>3, <1>5, <2>1, <2>3 DEF Base, Ticking
  <1>11. Base'
    BY <1>1, <1>2, <1>3, <1>5, <1>7, <1>8, <1>9, <1>10, QuietBase
  <1> QED
    BY <1>3, <1>6, <1>11 DEF BaseInv

LEMMA BaseNext ==
  ASSUME ChatAssumption, TimingAssumption, BaseInv, [Next]_vars
  PROVE  BaseInv'
  <1>1. CASE Server
    BY <1>1, TestBase, PollBase, SignalPhaseBase, AcceptBase, DropBase, ClientBase, SendBase,
       ResetSenderBase, StartTickBase, ExpireFirstBase, ToTestBase DEF Server
  <1>2. CASE (Clients /\ UNCHANGED <<sigVars, timerVars, moved>>) \/ UNCHANGED vars
    <2>1. /\ Clients \/ UNCHANGED chatVars
          /\ UNCHANGED <<kStop, kSigPipeFD, signalled, kTimeout, alarm, timerVars, moved>>
      BY <1>2 DEF vars, sigVars
    <2>2. TimingTypes'
      BY <2>1 DEF BaseInv, TimingTypes, timerVars
    <2> QED
      BY <2>1, <2>2, ClientsBase
  <1>3. CASE \E sig \in UserSignals : UserSignal(sig)
    BY <1>3, UserSignalBase
  <1>4. CASE Second
    BY <1>4, SecondBase
  <1> QED
    BY <1>1, <1>2, <1>3, <1>4 DEF Next, Environment

\* TypeOK: the table, its indices, the timers and what the clients' data says of them
\* stay in their types, whatever clients, signals and clocks do.
THEOREM TimingTypeCorrect == Spec => []TypeOK
  <1>1. Init => BaseInv
    BY BaseInit, ChatAssumption, TimingAssumption
  <1>2. BaseInv /\ [Next]_vars => BaseInv'
    BY BaseNext, ChatAssumption, TimingAssumption
  <1> QED
    BY <1>1, <1>2, BaseTypes, PTL DEF Spec

\* As many different timers as entries in the list.
LEMMA ListedCount ==
  ASSUME NEW S, NEW l \in Seq(S), SortedList!NoneTwice(l)
  PROVE  Cardinality(SortedList!Listed(l)) = Len(l)
  <1> DEFINE n == Len(l)
             f == [k \in 1 .. n |-> l[k].timer]
  <1>1. n \in Nat
    BY LenProperties
  <1>2. f \in Bijection(1 .. n, SortedList!Listed(l))
    <2>1. /\ f \in [1 .. n -> SortedList!Listed(l)]
          /\ \A t \in SortedList!Listed(l) : \E k \in 1 .. n : f[k] = t
      BY DEF SortedList!Listed
    <2>2. DOMAIN f = 1 .. n /\ \A j, k \in 1 .. n : f[j] = f[k] => j = k
      BY DEF SortedList!NoneTwice
    <2> HIDE DEF f, n
    <2> QED
      BY <2>1, <2>2 DEF Bijection, Injection, Surjection, IsInjective
  <1> HIDE DEF n, f
  <1> QED
    BY <1>1, <1>2, FS_CountingElements DEF n, ExistsBijection

\* TimersMatchClients: no call to the list and to the table is ever made without the
\* other, also when the table no longer agrees with what the clients remember.
\* (timing_group_chat_service.cc:118-130, 303-305, 339-365; client_timer_list.h:170-187.)
THEOREM OneTimerPerClient == Spec => []TimersMatchClients
  <1>1. Init => BaseInv
    BY BaseInit, ChatAssumption, TimingAssumption
  <1>2. BaseInv /\ [Next]_vars => BaseInv'
    BY BaseNext, ChatAssumption, TimingAssumption
  <1>3. BaseInv => TimersMatchClients
    BY ListedCount DEF BaseInv, TimingTypes, Base, Counted, TimersMatchClients, Listed
  <1> QED
    BY <1>1, <1>2, <1>3, PTL DEF Spec

-----------------------------------------------------------------------------
(* The alarm.                                                              *)

\* A second counts the alarm down to zero only as it sends the signal: that needs
\* the alarm to be a number.
AlarmInv == alarm \in Nat /\ AlarmChain

\* The steps that leave the alarm alone, and do not start the server again.
LEMMA AlarmKept ==
  ASSUME AlarmInv, pc' \notin Ended => pc \notin Ended,
         alarm' = alarm, kSigPipeFD \subseteq kSigPipeFD', kTimeout => kTimeout',
         pc = "tick" => pc' = "tick"
  PROVE  AlarmInv'
  BY DEF AlarmInv, AlarmChain

LEMMA AlarmNext ==
  ASSUME TimingAssumption, AlarmInv, [Next]_vars
  PROVE  AlarmInv'
  <1> USE DEF Ended
  <1>1. CASE Test
    BY <1>1, AlarmKept DEF Test, Sio!Test, Sio!sigVars, End, Sio!End, timing
  <1>2. CASE Poll
    BY <1>2, AlarmKept DEF Poll, Sio!Poll, Sio!PollReturns, timing
  <1>3. CASE SignalPhase
    BY <1>3 DEF SignalPhase, Sio!SignalPhase, Sio!ReadSignals, AlarmInv, AlarmChain
  <1>4. CASE Accept
    BY <1>4, AlarmKept DEF Accept, AcceptPhase, sigVars
  <1>5. CASE Drop
    BY <1>5, AlarmKept DEF Drop, AtSlot, End, sigVars
  <1>6. CASE Client
    BY <1>6, AlarmKept DEF Client, Receive, SkipClient, AtSlot, EndOfRound, sigVars
  <1>7. CASE Send
    BY <1>7, AlarmKept DEF Send, SendMessage, SendFails, SendRaisesSigPipe, SkipSender,
                           Sending, NextAddressee, End, sigVars
  <1>8. CASE ResetSender
    BY <1>8, AlarmKept DEF ResetSender, SendDone, sigVars
  <1>9. CASE StartTick \/ ExpireFirst \/ EndTick
    <2>1. CASE StartTick
      BY <2>1 DEF StartTick, AlarmInv, AlarmChain
    <2>2. CASE ExpireFirst
      BY <2>2, AlarmKept DEF ExpireFirst, loopVars, sigVars
    <2>3. CASE EndTick
      BY <2>3 DEF EndTick, Rearm, TimingAssumption, AlarmInv, AlarmChain
    <2> QED
      BY <1>9, <2>1, <2>2, <2>3
  <1>10. CASE NoAlarm
    BY <1>10, AlarmKept DEF NoAlarm, sigVars
  <1>11. CASE Clients /\ UNCHANGED <<sigVars, timerVars, moved>>
    BY <1>11, AlarmKept DEF Clients, loopVars, sigVars
  <1>12. CASE \E sig \in UserSignals : UserSignal(sig)
    BY <1>12, AlarmKept DEF UserSignal, Sio!GenSigIO, Sio!SendInterrupted, Sio!Blocked,
                            Sio!NextAddressee, Sio!Ended, Sio!chatVars, Sio!loopVars, timing
  <1>13. CASE Second
    <2>1. CASE alarm = 0
      BY <1>13, <2>1, AlarmKept DEF Second, Sio!GenSigIO, chatVars, loopVars
    <2>2. CASE alarm = 1
      BY <1>13, <2>2 DEF Second, Sio!GenSigIO, AlarmInv, AlarmChain
    <2>3. CASE alarm \notin {0, 1}
      BY <1>13, <2>3 DEF Second, AlarmInv, AlarmChain
    <2> QED
      BY <2>1, <2>2, <2>3
  <1>14. CASE UNCHANGED vars
    BY <1>14, AlarmKept DEF vars, chatVars, loopVars, sigVars
  <1> QED
    BY <1>1, <1>2, <1>3, <1>4, <1>5, <1>6, <1>7, <1>8, <1>9, <1>10, <1>11, <1>12, <1>13,
       <1>14 DEF Next, Server, Environment

\* AlarmChain: whatever signals come and however long a broadcast takes, the next
\* alarm is armed, or its signal on its way to the handler that arms the next.
\* (timing_group_chat_service.cc:132-145, 219-221, 246-251, 398-400.)
THEOREM AlarmsGoOn == Spec => []AlarmChain
  <1>1. Init => AlarmInv
    BY TimingAssumption DEF Init, AlarmInv, AlarmChain, TimingAssumption
  <1>2. AlarmInv /\ [Next]_vars => AlarmInv'
    BY AlarmNext, TimingAssumption
  <1>3. AlarmInv => AlarmChain
    BY DEF AlarmInv
  <1> QED
    BY <1>1, <1>2, <1>3, PTL DEF Spec

-----------------------------------------------------------------------------
(* Until a client is moved to another slot.                                *)

\* Clients remember the slots they are in.
InStep == \A s \in InUse : Idx(Fd(s)) = s

\* Every timer that runs was made for a client in the table, which knows it.
Owned ==
  \A t \in Listed :
    LET fd == client_data[t]
    IN  Idx(fd) \in InUse /\ Fd(Idx(fd)) = fd /\ kClient[fd].timer = t

StrongInv ==
  ~ moved =>
    /\ Sound /\ pc # "aborted"
    /\ pc \notin Ended => InStep /\ Owned

LEMMA StrongBound ==
  ASSUME ChatAssumption, BaseInv, StrongInv
  PROVE  BoundUntilMoved
  <1> SUFFICES ASSUME ~ moved PROVE BoundUntilMoved
    BY DEF BoundUntilMoved
  <1>1. pc # "aborted" /\ (pc \notin Ended => TableExact)
    BY DEF StrongInv, Sound
  <1>2. ASSUME pc \notin Ended, NEW s \in InUse
        PROVE  LET fd == kFDS[s].fd
               IN  /\ kClient[fd].pollfds_idx = s
                   /\ kClient[fd].timer \in Listed
                   /\ client_data[kClient[fd].timer] = fd
    <2>1. Sound /\ Idx(Fd(s)) = s /\ Behind
      BY <1>2 DEF StrongInv, InStep, BaseInv, Base
    <2>2. Open(Fd(s))
      BY <1>2, <2>1, OpenSlots DEF Fd, OpenFds
    <2> QED
      BY <1>2, <2>1, <2>2 DEF Behind, Fd, Idx
  <1> QED
    BY <1>1, <1>2 DEF BoundUntilMoved

LEMMA StrongInit == ASSUME ChatAssumption, Init PROVE StrongInv
  <1>1. Sound /\ pc # "aborted"
    BY SoundInit DEF Init, TableInit
  <1>2. InUse = {} /\ Listed = {}
    BY DEF Init, TableInit, InUse, Listed, SortedList!Listed
  <1> QED
    BY <1>1, <1>2 DEF StrongInv, InStep, Owned

\* A step that removes nobody and lets nobody in.
LEMMA QuietBound ==
  ASSUME InStep, Owned, UNCHANGED <<kCntClient, kClient, client_data>>,
         \A s \in InUse : kFDS'[s].fd = kFDS[s].fd, Listed' = Listed
  PROVE  InStep' /\ Owned'
  <1>1. InUse' = InUse
    BY DEF InUse
  <1>2. InStep'
    BY <1>1 DEF InStep, Idx, Fd
  <1>3. Owned'
    BY <1>1 DEF Owned, Idx, Fd
  <1> QED
    BY <1>2, <1>3

\* The removal of the client in the last slot.
LEMMA RemoveLast ==
  ASSUME ChatAssumption, BaseInv, StrongInv, ~ moved', pc \notin Ended,
         NEW t0 \in Listed, NEW fd, fd = client_data[t0], kClient[fd].timer = t0,
         BecomesTable(RemoveClientFromPoll(Table, fd)), UNCHANGED client_data,
         Listed' = Listed \ {t0}
  PROVE  /\ ~ moved /\ fd \in Fds /\ Idx(fd) = kCntClient /\ Fd(kCntClient) = fd
         /\ kCntClient \in InUse /\ InUse' = InUse \ {kCntClient}
         /\ UNCHANGED <<kFDS, kClient>>
         /\ conn' = [conn EXCEPT ![fd] = NoConn]
         /\ InStep' /\ Owned'
  <1> DEFINE n == kCntClient
  <1>1. moved' = (moved \/ Idx(fd) # n)
    BY DEF BecomesTable, RemoveClientFromPoll, SlotOf, Table, Idx
  <1>2. ~ moved /\ Idx(fd) = n
    BY <1>1
  <1>3. Formed /\ TimingTypes /\ Base /\ TableTypeOK /\ Named /\ InStep /\ Owned
    BY <1>2 DEF BaseInv, Formed, StrongInv
  <1>4. fd \in Fds /\ n \in InUse /\ Fd(n) = fd
    BY <1>2, <1>3 DEF Base, Slotted, Owned
  <1>5. n \in Slots /\ InUse \subseteq Slots
    BY <1>3, <1>4, SlotFacts
  <1>6. /\ kCntClient' = n - 1
        /\ conn' = [conn EXCEPT ![fd] = NoConn]
        /\ kFDS' = [kFDS EXCEPT ![n] = kFDS[n]]
        /\ kClient' = [kClient EXCEPT ![fd] = kClient[fd]]
    BY <1>2, <1>4 DEF BecomesTable, RemoveClientFromPoll, SlotOf, Table, Replace, Fd, Idx
  <1>7. UNCHANGED <<kFDS, kClient>>
    <2>1. kFDS = [s \in Slots |-> kFDS[s]] /\ kClient = [g \in Fds |-> kClient[g]]
      BY <1>3 DEF TableTypeOK, TimingTypes
    <2> QED
      BY <1>6, <2>1
  <1>8. InUse' = InUse \ {n}
    BY <1>3, <1>6, SlotFacts DEF InUse
  <1>9. InStep'
    BY <1>3, <1>7, <1>8 DEF InStep, Idx, Fd
  <1>10. Owned'
    <2>1. ASSUME NEW t \in Listed'
          PROVE  LET g == client_data[t]
                 IN  Idx(g) \in InUse /\ Idx(g) # n /\ Fd(Idx(g)) = g /\ kClient[g].timer = t
      <3> DEFINE g == client_data[t]
      <3>1. t # t0 /\ Idx(g) \in InUse /\ Fd(Idx(g)) = g /\ kClient[g].timer = t
        BY <1>3, <2>1 DEF Owned
      <3>2. Idx(g) # n
        BY <1>4, <3>1
      <3> QED
        BY <3>1, <3>2
    <2> QED
      BY <1>7, <1>8, <2>1 DEF Owned, Idx, Fd
  <1> QED
    BY <1>2, <1>4, <1>6, <1>7, <1>8, <1>9, <1>10

LEMMA StrongDrop == ASSUME ChatAssumption, BaseInv, StrongInv, Drop PROVE StrongInv'
  <1> SUFFICES ASSUME ~ moved' PROVE StrongInv'
    BY DEF StrongInv
  <1> DEFINE i  == fds_i
             fd == kFDS[i].fd
             t0 == kClient[fd].timer
  <1>1. AtSlot({"err", "rdhup"}) /\ pc = "clients" /\ pc \notin Ended /\ i \in InUse
    BY DEF Drop, AtSlot, Ended
  <1>2. ~ moved
    BY DEF Drop, BecomesTable, RemoveClientFromPoll, Table
  <1>3. Sound /\ InStep /\ Owned /\ TimingTypes /\ Base
    BY <1>1, <1>2 DEF StrongInv, BaseInv
  <1>4. kClient[fd].pollfds_idx = i
    BY <1>1, <1>3 DEF InStep, Idx, Fd
  <1>5. t0 \in Listed /\ client_data[t0] = fd
    <2>1. BoundUntilMoved
      BY StrongBound
    <2> QED
      BY <1>1, <1>2, <2>1 DEF BoundUntilMoved
  <1>6. /\ BecomesTable(RemoveClientFromPoll(Table, fd))
        /\ fds_i' = AfterDrop(i) /\ due' = due \ {fd}
        /\ UNCHANGED <<waiting, listening, pc, send_j>>
        /\ kClientTimerList' = DelTimer(kClientTimerList, t0)
        /\ UNCHANGED client_data
    BY <1>4 DEF Drop
  <1>7. Listed' = Listed \ {t0}
    <2>1. kClientTimerList \in Seq(SortedList!Entry) /\ SortedList!NoneTwice(kClientTimerList)
      BY <1>3 DEF TimingTypes, Base, Counted
    <2> HIDE DEF t0
    <2>2. SortedList!Listed(SortedList!Without(kClientTimerList, t0))
            = SortedList!Listed(kClientTimerList) \ {t0}
      BY <2>1, WithoutListed
    <2> QED
      BY <1>6, <2>2 DEF Listed, DelTimer
  <1>8. /\ Idx(fd) = kCntClient /\ conn' = [conn EXCEPT ![fd] = NoConn]
        /\ InStep' /\ Owned'
    <2>1. t0 \in Listed /\ fd = client_data[t0] /\ kClient[fd].timer = t0
      BY <1>5
    <2> HIDE DEF t0, fd
    <2> QED
      BY <1>1, <1>6, <1>7, <2>1, RemoveLast
  <1>9. DropClient
    <2>1. kFDS' = Replace(kFDS, i, kCntClient) /\ kCntClient' = kCntClient - 1
      BY <1>4, <1>6 DEF BecomesTable, RemoveClientFromPoll, SlotOf, Table
    <2> QED
      BY <1>1, <1>6, <1>8, <2>1 DEF DropClient
  <1>10. Sound'
    BY <1>3, <1>9, DropSound
  <1> QED
    BY <1>1, <1>6, <1>8, <1>10 DEF StrongInv

\* What the alarm does to the client of the first timer, and to that client only.
LEMMA ExpiredClient ==
  ASSUME ChatAssumption, BaseInv, StrongInv, ExpireFirst, ~ moved',
         NEW t0, t0 = Head(kClientTimerList).timer, NEW fd, fd = client_data[t0]
  PROVE  /\ ~ moved /\ pc = "tick" /\ pc \notin Ended /\ pc' = pc
         /\ t0 \in Listed /\ Listed' = Listed \ {t0} /\ Head(kClientTimerList).expire < 0
         /\ UNCHANGED <<kClient, client_data, kFDS, loopVars>>
         /\ fd \in Fds /\ Idx(fd) = kCntClient /\ Fd(kCntClient) = fd
         /\ kCntClient \in InUse /\ InUse' = InUse \ {kCntClient}
         /\ conn' = [conn EXCEPT ![fd] = NoConn]
         /\ InStep' /\ Owned'
  <1> DEFINE l == kClientTimerList
  <1>1. /\ pc = "tick" /\ pc' = pc /\ pc \notin Ended /\ expiring > 0
        /\ BecomesTable(RemoveClientFromPoll(Table, fd))
        /\ kClientTimerList' = Tail(l) /\ UNCHANGED <<client_data, loopVars>>
    BY DEF ExpireFirst, loopVars, Ended
  <1>2. ~ moved /\ TimingTypes /\ Base
    BY <1>1 DEF BecomesTable, RemoveClientFromPoll, Table, BaseInv
  <1>3. Owned
    BY <1>1, <1>2 DEF StrongInv
  <1>4. /\ l \in Seq(SortedList!Entry) /\ SortedList!NoneTwice(l) /\ Len(l) \in Nat
        /\ expiring \in Nat /\ expiring <= Len(l)
    BY <1>2, LenProperties DEF TimingTypes, Base, Counted, Ticking
  <1>5. Len(l) # 0 /\ 1 \in 1 .. expiring
    BY <1>1, <1>4
  <1>6. /\ Head(l) = l[1] /\ t0 \in SortedList!Listed(l)
        /\ SortedList!Listed(Tail(l)) = SortedList!Listed(l) \ {t0}
    BY <1>4, <1>5, TailFacts
  <1>7. t0 \in Listed /\ Listed' = Listed \ {t0}
    BY <1>1, <1>6 DEF Listed
  <1>8. Head(l).expire < 0
    BY <1>2, <1>5, <1>6 DEF Base, Ticking
  <1>9. kClient[fd].timer = t0
    BY <1>3, <1>7 DEF Owned
  <1>10. /\ fd \in Fds /\ Idx(fd) = kCntClient /\ Fd(kCntClient) = fd
         /\ kCntClient \in InUse /\ InUse' = InUse \ {kCntClient}
         /\ UNCHANGED <<kFDS, kClient>>
         /\ conn' = [conn EXCEPT ![fd] = NoConn]
         /\ InStep' /\ Owned'
    BY <1>1, <1>7, <1>9, RemoveLast
  <1> QED
    BY <1>1, <1>2, <1>7, <1>8, <1>10

LEMMA StrongExpire ==
  ASSUME ChatAssumption, BaseInv, BaseInv', StrongInv, ExpireFirst
  PROVE  StrongInv'
  <1> SUFFICES ASSUME ~ moved' PROVE StrongInv'
    BY DEF StrongInv
  <1> DEFINE n  == kCntClient
             t0 == Head(kClientTimerList).timer
             fd == client_data[t0]
  <1>1. /\ ~ moved /\ pc = "tick" /\ pc \notin Ended /\ pc' = pc
        /\ UNCHANGED <<kFDS, loopVars>>
        /\ fd \in Fds /\ Fd(n) = fd
        /\ n \in InUse /\ InUse' = InUse \ {n}
        /\ conn' = [conn EXCEPT ![fd] = NoConn]
        /\ InStep' /\ Owned'
    BY ExpiredClient
  <1> HIDE DEF fd
  <1>2. Sound /\ TableTypeOK /\ TableExact /\ AheadOfEvents
    BY <1>1 DEF StrongInv, Sound
  <1>3. TableTypeOK'
    BY DEF BaseInv, Formed
  <1>4. ToVisit = {} /\ ToVisit' = {} /\ due = {} /\ due' = {}
    <2>1. ToVisit = {} /\ ToVisit' = {} /\ due' = due
      BY <1>1 DEF ToVisit, loopVars
    <2> QED
      BY <1>2, <2>1 DEF AheadOfEvents
  <1>5. AheadOfEvents'
    BY <1>1, <1>4 DEF AheadOfEvents, OnTurn
  <1>6. \A s, t \in InUse : kFDS[s].fd = kFDS[t].fd => s = t
    BY <1>1, <1>2 DEF TableExact
  <1>7. Polled' = Polled \ {fd}
    BY <1>1, <1>6 DEF Polled, Fd
  <1>8. OpenFds' = OpenFds \ {fd}
    <2>1. /\ conn'[fd].state = "closed"
          /\ \A g \in Fds \ {fd} : conn'[g] = conn[g]
      BY <1>1, <1>2 DEF TableTypeOK, NoConn
    <2> QED
      BY <2>1 DEF OpenFds, Open
  <1>9. TableExact'
    BY <1>1, <1>2, <1>6, <1>7, <1>8 DEF TableExact
  <1> QED
    BY <1>1, <1>3, <1>5, <1>9 DEF StrongInv, Sound

\* A client that is let in is in step, and its timer made for it.
LEMMA StrongAccept ==
  ASSUME ChatAssumption, TimingAssumption, BaseInv, StrongInv, Accept
  PROVE  StrongInv'
  <1> SUFFICES ASSUME ~ moved' PROVE StrongInv'
    BY DEF StrongInv
  <1>1. AcceptPhase /\ ~ moved /\ pc = "accept" /\ pc' = "clients" /\ pc \notin Ended
    BY DEF Accept, AcceptPhase, Ended
  <1>2. Sound /\ InStep /\ Owned /\ Formed /\ TimingTypes /\ Base
    BY <1>1 DEF StrongInv, BaseInv
  <1>3. Sound'
    BY <1>1, <1>2, AcceptSound
  <1>4. CASE ~(listening /\ ~ Refused)
    <2>1. UNCHANGED <<kFDS, kCntClient, kClient, client_data, kClientTimerList>>
      BY <1>1, <1>2, <1>4, AcceptFormed DEF Accept, timerVars
    <2>2. InStep' /\ Owned'
      BY <1>2, <2>1, QuietBound DEF Listed
    <2> QED
      BY <1>1, <1>3, <2>2 DEF StrongInv
  <1>5. CASE listening /\ ~ Refused
    <2> DEFINE new == LowestFree
               n   == kCntClient + 1
               l   == kClientTimerList
    <2>1. /\ new \in Fds /\ new \notin OpenFds
          /\ n \in Slots /\ n \notin InUse /\ InUse' = InUse \cup {n}
          /\ kFDS'[n] = [fd |-> new, revents |-> "none"]
          /\ \A s \in Slots \ {n} : kFDS'[s] = kFDS[s]
      BY <1>1, <1>2, <1>5, AcceptFormed
    <2>2. PICK t \in Timers : BindTimer(new, t)
      BY <1>5 DEF Accept
    <2> DEFINE s == SortedList!Insert(l, [timer |-> t, expire |-> ClientAliveSec])
               data == [pollfds_idx |-> n, timer |-> t]
    <2>3. /\ t \notin Listed /\ kClientTimerList' = s
          /\ kClient' = [kClient EXCEPT ![new] = data]
          /\ client_data' = [client_data EXCEPT ![t] = new]
      BY <2>2 DEF BindTimer
    <2>4. l \in Seq(SortedList!Entry) /\ SortedList!NoneTwice(l)
      BY <1>2 DEF TimingTypes, Base, Counted
    <2>5. SortedList!Listed(s) = SortedList!Listed(l) \cup {t}
      BY <2>3, <2>4, InsertedFresh DEF Listed
    <2> HIDE DEF s
    <2>6. Listed' = Listed \cup {t}
      BY <2>3, <2>5 DEF Listed
    <2>7. data.pollfds_idx = n /\ data.timer = t
      OBVIOUS
    <2> HIDE DEF data, new, n
    <2>8. kClient'[new] = data /\ \A g \in Fds \ {new} : kClient'[g] = kClient[g]
      BY <1>2, <2>1, <2>3 DEF TimingTypes
    <2>9. /\ client_data'[t] = new
          /\ \A u \in Listed : client_data'[u] = client_data[u]
      BY <1>2, <2>1, <2>3 DEF TimingTypes
    <2>10. \A x \in Slots : Fd(x)' = IF x = n THEN new ELSE Fd(x)
      BY <2>1 DEF Fd
    <2>11. \A x \in InUse : x \in Slots /\ x # n /\ Fd(x) \in Fds /\ Fd(x) # new
      BY <1>1, <1>2, <2>1, OpenSlots DEF Fd
    <2>12. InStep'
      <3> SUFFICES ASSUME NEW x \in InUse', NEW g, g = Fd(x)' PROVE kClient'[g].pollfds_idx = x
        BY DEF InStep, Idx, Fd
      <3>1. CASE x = n
        BY <2>1, <2>7, <2>8, <2>10, <3>1
      <3>2. CASE x # n
        <4>1. x \in InUse /\ x \in Slots
          BY <2>1, <2>11, <3>2
        <4>2. g = Fd(x) /\ g \in Fds \ {new}
          BY <2>10, <2>11, <3>2, <4>1
        <4>3. kClient[g].pollfds_idx = x
          BY <1>2, <4>1, <4>2 DEF InStep, Idx
        <4> QED
          BY <2>8, <4>2, <4>3
      <3> QED
        BY <3>1, <3>2
    <2>13. Owned'
      <3> SUFFICES ASSUME NEW u \in Listed', NEW g, g = client_data'[u],
                          NEW x, x = kClient'[g].pollfds_idx
                   PROVE  x \in InUse' /\ Fd(x)' = g /\ kClient'[g].timer = u
        BY DEF Owned, Idx, Fd
      <3>1. CASE u = t
        BY <2>1, <2>7, <2>8, <2>9, <2>10, <3>1
      <3>2. CASE u # t
        <4>1. u \in Listed /\ g = client_data[u]
          BY <2>6, <2>9, <3>2
        <4>2. Idx(g) \in InUse /\ Fd(Idx(g)) = g /\ kClient[g].timer = u
          BY <1>2, <4>1 DEF Owned
        <4>3. kClient'[g] = kClient[g]
          BY <2>8, <2>11, <4>2
        <4> QED
          BY <2>1, <2>10, <2>11, <4>2, <4>3 DEF Idx
      <3> QED
        BY <3>1, <3>2
    <2> QED
      BY <1>1, <1>3, <2>12, <2>13 DEF StrongInv
  <1> QED
    BY <1>4, <1>5

\* The other steps of the loop.
LEMMA StrongQuiet ==
  ASSUME StrongInv, Sound', pc' # "aborted", pc' \notin Ended => pc \notin Ended,
         UNCHANGED <<kCntClient, kClient, client_data, moved>>,
         \A s \in InUse : kFDS'[s].fd = kFDS[s].fd, Listed' = Listed
  PROVE  StrongInv'
  BY QuietBound DEF StrongInv

LEMMA StrongLoop ==
  ASSUME ChatAssumption, BaseInv, StrongInv, ~ moved,
         Test \/ Poll \/ SignalPhase \/ Client \/ Send \/ StartTick \/ EndTick \/ NoAlarm
  PROVE  StrongInv'
  <1> USE DEF Ended
  <1>0. Sound
    BY DEF StrongInv
  <1>1. UNCHANGED <<kClient, client_data, kClientTimerList, moved>> /\ Listed' = Listed
    BY DEF Test, Poll, SignalPhase, Client, Send, StartTick, EndTick, NoAlarm, timing, timerVars,
           Listed
  <1>2. CASE Test
    <2>1. UNCHANGED <<kFDS, kCntClient>> /\ pc = "test" /\ pc' \in {"exit", "poll"}
      BY <1>2 DEF Test, Sio!Test, Sio!End, Sio!tableVars
    <2>2. Sound'
      <3>1. CASE kStop
        <4>1. End("exit")
          BY <1>2, <3>1 DEF Test, Sio!Test, Sio!End, End, Sio!NoConn, NoConn, Sio!tableVars,
                            tableVars
        <4> QED
          BY <1>0, <4>1, EndSound
      <3>2. CASE ~ kStop
        <4>1. /\ pc = "test" /\ pc' = "poll"
              /\ UNCHANGED <<netVars, tableVars, listening, fds_i, send_j, due>>
          BY <1>2, <3>2 DEF Test, Sio!Test, Sio!netVars, netVars, Sio!tableVars, tableVars
        <4> QED
          BY <1>0, <4>1, ToPollSound
      <3> QED
        BY <3>1, <3>2
    <2> QED
      BY <1>1, <2>1, <2>2, StrongQuiet
  <1>3. CASE Poll
    <2>1. PollReturns("signals") /\ pc = "poll"
      BY <1>3 DEF Poll, Sio!Poll, Sio!PollReturns, PollReturns, Sio!Refresh, Refresh, Sio!Event,
                  Event, Sio!Slots, Slots, Sio!InUse, InUse, Sio!Polled, Polled, Sio!netVars,
                  netVars
    <2>2. Sound' /\ \A s \in InUse : kFDS'[s].fd = kFDS[s].fd
      BY <1>0, <2>1, PollSound, PollFormed DEF BaseInv
    <2>3. pc' = "signals" /\ UNCHANGED kCntClient
      BY <2>1 DEF PollReturns
    <2> QED
      BY <1>1, <2>1, <2>2, <2>3, StrongQuiet
  <1>4. CASE SignalPhase
    <2>1. /\ pc = "signals" /\ pc' = "accept"
          /\ UNCHANGED <<netVars, tableVars, listening, fds_i, send_j, due>>
      BY <1>4 DEF SignalPhase, Sio!SignalPhase, Sio!netVars, netVars, Sio!tableVars, tableVars
    <2>2. Sound'
      BY <1>0, <2>1, ToAcceptSound
    <2> QED
      BY <1>1, <2>1, <2>2, StrongQuiet DEF tableVars
  <1>5. CASE Client
    <2>1. Sound'
      BY <1>0, <1>5, ReceiveSound, SkipSound, EndOfRoundSound DEF Client
    <2>2. /\ UNCHANGED <<kFDS, kCntClient>> /\ pc = "clients"
          /\ pc' \in {"clients", "send", "alarm"}
      BY <1>5 DEF Client, Receive, SkipClient, EndOfRound, AtSlot, tableVars
    <2> QED
      BY <1>1, <2>1, <2>2, StrongQuiet
  <1>6. CASE Send
    <2>1. Sound'
      BY <1>0, <1>6, BroadcastSound DEF Send, Broadcast
    <2>2. /\ UNCHANGED <<kFDS, kCntClient>> /\ pc = "send"
          /\ pc' \in {"send", "killed"}
      BY <1>6 DEF Send, SendMessage, SendFails, SendRaisesSigPipe, SkipSender, Sending,
                  NextAddressee, End, tableVars
    <2> QED
      BY <1>1, <2>1, <2>2, StrongQuiet
  <1>7. CASE StartTick \/ EndTick \/ NoAlarm
    <2>1. /\ pc \in {"alarm", "tick"} /\ pc' \in {"tick", "test"}
          /\ UNCHANGED <<netVars, tableVars, listening, fds_i, send_j, due>>
      BY <1>7 DEF StartTick, EndTick, NoAlarm
    <2>2. Sound'
      BY <1>0, <2>1, ToPollSound
    <2> QED
      BY <1>1, <2>1, <2>2, StrongQuiet DEF tableVars
  <1> QED
    BY <1>2, <1>3, <1>4, <1>5, <1>6, <1>7

LEMMA StrongReset ==
  ASSUME ChatAssumption, TimingAssumption, BaseInv, StrongInv, ~ moved, ResetSender
  PROVE  StrongInv'
  <1> DEFINE t == kClient[kFDS[fds_i].fd].timer
  <1>1. /\ SendDone /\ pc = "send" /\ pc' = "clients" /\ pc \notin Ended
        /\ UNCHANGED <<kFDS, kCntClient, kClient, client_data, moved>>
        /\ kClientTimerList' = ResetTimer(kClientTimerList, t)
    BY DEF ResetSender, SendDone, Ended, tableVars
  <1>2. Sound'
    BY <1>1, BroadcastSound DEF StrongInv, Broadcast
  <1>3. kClientTimerList \in Seq(SortedList!Entry) /\ SortedList!NoneTwice(kClientTimerList)
    BY <1>1 DEF BaseInv, TimingTypes, Base, Counted
  <1> HIDE DEF t
  <1>4. SortedList!Listed(ResetTimer(kClientTimerList, t)) = SortedList!Listed(kClientTimerList)
    BY <1>3, ResetFacts
  <1>5. Listed' = Listed
    BY <1>1, <1>4 DEF Listed
  <1> QED
    BY <1>1, <1>2, <1>5, StrongQuiet DEF Ended

LEMMA StrongSecond ==
  ASSUME ChatAssumption, TimingAssumption, BaseInv, StrongInv, ~ moved,
         Second \/ \E sig \in UserSignals : UserSignal(sig)
  PROVE  StrongInv'
  <1>1. pc \notin Ended /\ UNCHANGED <<client_data, kClient, moved>>
    BY DEF Second, UserSignal, Sio!GenSigIO, Sio!Ended, Ended, timing, timerVars
  <1>2. Formed /\ TimingTypes /\ Base /\ Sound /\ pc # "aborted"
    BY <1>1 DEF BaseInv, StrongInv
  <1>3. (SendInterrupted \/ UNCHANGED chatVars) /\ UNCHANGED <<kFDS, kCntClient, pc>>
    <2>1. CASE \E sig \in UserSignals \cup {"ALRM"} : Sio!GenSigIO(sig)
      BY <1>2, <2>1, SignalFacts
    <2>2. CASE UNCHANGED chatVars
      BY <2>2 DEF chatVars, tableVars, loopVars
    <2> QED
      BY <2>1, <2>2 DEF Second, UserSignal
  <1>4. Sound'
    BY <1>2, <1>3, IdleSound, BroadcastSound
  <1>5. Listed' = Listed
    <2> DEFINE l == kClientTimerList
               s == [k \in DOMAIN l |-> [l[k] EXCEPT !.expire = Left(@)]]
    <2>1. CASE Second
      <3>1. l \in Seq(SortedList!Entry) /\ kClientTimerList' = s
        BY <1>2, <2>1 DEF TimingTypes, Second
      <3>2. SortedList!Listed(s) = SortedList!Listed(l)
        BY <3>1, SecondFacts
      <3> QED
        BY <3>1, <3>2 DEF Listed
    <2>2. CASE \E sig \in UserSignals : UserSignal(sig)
      BY <2>2 DEF UserSignal, timing, timerVars, Listed
    <2> QED
      BY <2>1, <2>2
  <1> QED
    BY <1>1, <1>2, <1>3, <1>4, <1>5, StrongQuiet

LEMMA StrongNext ==
  ASSUME ChatAssumption, TimingAssumption, BaseInv, StrongInv, [Next]_vars
  PROVE  StrongInv'
  <1>1. CASE Accept \/ Drop \/ ExpireFirst
    BY <1>1, StrongAccept, StrongDrop, StrongExpire, BaseNext
  <1>2. CASE ~(Accept \/ Drop \/ ExpireFirst)
    <2>1. UNCHANGED moved
      BY <1>2 DEF Next, Server, Environment, Test, Poll, SignalPhase, Client, Send, ResetSender,
                  StartTick, EndTick, NoAlarm, UserSignal, Second, vars
    <2> SUFFICES ASSUME ~ moved PROVE StrongInv'
      BY <2>1 DEF StrongInv
    <2>2. CASE Server
      BY <1>2, <2>2, StrongLoop, StrongReset DEF Server
    <2>3. CASE (Clients /\ UNCHANGED <<sigVars, timerVars, moved>>) \/ UNCHANGED vars
      <3>1. /\ Clients \/ UNCHANGED chatVars
            /\ UNCHANGED <<kFDS, kCntClient, pc, kClient, client_data, moved>>
            /\ Listed' = Listed
        BY <2>3 DEF vars, Clients, chatVars, tableVars, loopVars, timerVars, Listed
      <3>2. Sound /\ pc # "aborted"
        BY DEF StrongInv
      <3>3. Sound'
        BY <3>1, <3>2, ClientsSound, IdleSound
      <3> QED
        BY <3>1, <3>2, <3>3, StrongQuiet
    <2>4. CASE Second \/ \E sig \in UserSignals : UserSignal(sig)
      BY <2>4, StrongSecond
    <2> QED
      BY <2>2, <2>3, <2>4 DEF Next, Environment
  <1> QED
    BY <1>1, <1>2

\* BoundUntilMoved: whatever the order in which clients come, speak, leave and are
\* closed, it takes the removal of a client that is not in the last slot to break the
\* binding of clients, slots and timers.
\* (timing_group_chat_service.cc:280-305, 343-347, 357-361, 385-386.)
THEOREM ClientsBound == Spec => []BoundUntilMoved
  <1>1. Init => BaseInv /\ StrongInv
    BY BaseInit, StrongInit, ChatAssumption, TimingAssumption
  <1>2. BaseInv /\ StrongInv /\ [Next]_vars => BaseInv' /\ StrongInv'
    BY BaseNext, StrongNext, ChatAssumption, TimingAssumption
  <1>3. BaseInv /\ StrongInv => BoundUntilMoved
    BY StrongBound, ChatAssumption
  <1> QED
    BY <1>1, <1>2, <1>3, PTL DEF Spec

\* The step of ClosesTheIdle.
LEMMA ClosesOnlyIdle ==
  ASSUME ChatAssumption, BaseInv, StrongInv, ExpireFirst, ~ moved'
  PROVE  /\ Head(kClientTimerList).expire < 0
         /\ \A t \in Listed : t \in Listed' <=> conn'[client_data[t]].state # "closed"
  <1> DEFINE n  == kCntClient
             t0 == Head(kClientTimerList).timer
             fd == client_data[t0]
  <1>1. /\ ~ moved /\ pc = "tick" /\ pc \notin Ended
        /\ t0 \in Listed /\ Listed' = Listed \ {t0} /\ Head(kClientTimerList).expire < 0
        /\ fd \in Fds /\ conn' = [conn EXCEPT ![fd] = NoConn]
    BY ExpiredClient
  <1>2. Sound /\ Owned /\ TableTypeOK
    BY <1>1 DEF StrongInv, Sound
  <1> HIDE DEF t0
  <1>3. kClient[fd].timer = t0
    BY <1>1, <1>2 DEF Owned
  <1>4. /\ conn'[fd].state = "closed"
        /\ \A g \in Fds \ {fd} : conn'[g] = conn[g]
    BY <1>1, <1>2 DEF TableTypeOK, NoConn
  <1>5. ASSUME NEW t \in Listed, t # t0 PROVE conn'[client_data[t]].state # "closed"
    <2> DEFINE g == client_data[t]
    <2>1. Idx(g) \in InUse /\ Fd(Idx(g)) = g /\ kClient[g].timer = t
      BY <1>2 DEF Owned
    <2>2. g \in Fds /\ g \in OpenFds
      BY <1>1, <1>2, <2>1, OpenSlots DEF Fd
    <2>3. g # fd
      BY <1>3, <1>5, <2>1
    <2> QED
      BY <1>4, <2>2, <2>3 DEF OpenFds, Open
  <1> QED
    BY <1>1, <1>4, <1>5

\* ClosesTheIdle: the alarm closes the client of a timer that has expired, and of no
\* other, as long as no client was moved to another slot.
\* (timing_group_chat_service.cc:118-145; client_timer_list.h:170-187.)
THEOREM OnlyIdleClosed == Spec => ClosesTheIdle
  <1>1. Init => BaseInv /\ StrongInv
    BY BaseInit, StrongInit, ChatAssumption, TimingAssumption
  <1>2. BaseInv /\ StrongInv /\ [Next]_vars => BaseInv' /\ StrongInv'
    BY BaseNext, StrongNext, ChatAssumption, TimingAssumption
  <1>3. BaseInv /\ StrongInv /\ [Next]_vars
          => [ExpireFirst /\ ~ moved' =>
                /\ Head(kClientTimerList).expire < 0
                /\ \A t \in Listed : t \in Listed' <=> conn'[client_data[t]].state # "closed"]_vars
    BY ClosesOnlyIdle, ChatAssumption
  <1> QED
    BY <1>1, <1>2, <1>3, PTL DEF Spec, ClosesTheIdle

\* TimersTypeOK: with the list alone, and with the server.
THEOREM TimersTypeCorrect == TimersSpec => []TimersTypeOK
  <1>1. TimersInit => BaseInv
    BY BaseInit, ChatAssumption, TimingAssumption DEF TimersInit
  <1>2. BaseInv /\ [TimersNext]_allVars => BaseInv'
    <2> SUFFICES ASSUME BaseInv, [TimersNext]_allVars PROVE BaseInv'
      OBVIOUS
    <2>1. [Next]_vars
      BY DEF TimersNext, ListRuns, ChatRuns, allVars
    <2> QED
      BY <2>1, BaseNext, ChatAssumption, TimingAssumption
  <1>3. ListInv /\ BaseInv => TimersTypeOK
    BY ListTypes, BaseTypes DEF TimersTypeOK
  <1> QED
    BY <1>1, <1>2, <1>3, ListAlways, PTL DEF TimersSpec

=============================================================================

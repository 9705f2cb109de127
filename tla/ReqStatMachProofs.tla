-------------------------- MODULE ReqStatMachProofs --------------------------
(***************************************************************************)
(* What holds of a connection for every set of streams and every size of    *)
(* the receive buffer: the invariants of ReqStatMach, proved of Spec.       *)
(***************************************************************************)
EXTENDS ReqStatMach, SequenceTheorems, WellFoundedInduction, TLAPS

-----------------------------------------------------------------------------
(* Lemmas about numbers and sequences.                                      *)

Below == {p \in Nat \X Nat : p[1] < p[2]}

LEMMA BelowWellFounded == IsWellFoundedOn(Below, Nat)
  BY NatLessThanWellFounded DEF Below, OpToRel

LEMMA LeastElement ==
  ASSUME NEW T \in SUBSET Nat, T # {}
  PROVE  \E x \in T : \A y \in T : x <= y
  <1>1. \A x, y \in Nat : <<y, x>> \in Below <=> y < x
    BY DEF Below
  <1>2. PICK x \in T : \A y \in T : ~(<<y, x>> \in Below)
    BY BelowWellFounded, WFMin
  <1>3. \A y \in T : ~(y < x)
    BY <1>1, <1>2
  <1>4. \A y \in T : x <= y
    BY <1>3
  <1> QED
    BY <1>4

\* What \o joins may be joined in any order.
LEMMA BytesAssociate == \A x, y, z \in Seq(Bytes) : (x \o y) \o z = x \o (y \o z)
  BY ONLY ConcatAssociative, SMTT(30)

\* Cutting a sequence in two.
LEMMA Cut ==
  ASSUME NEW s \in Seq(Bytes), NEW n \in 0 .. Len(s)
  PROVE  /\ SubSeq(s, 1, n) \in Seq(Bytes)
         /\ Len(SubSeq(s, 1, n)) = n
         /\ SubSeq(s, n + 1, Len(s)) \in Seq(Bytes)
  <1>1. Len(s) \in Nat /\ \A k \in 1 .. Len(s) : s[k] \in Bytes
    BY LenProperties, ElementOfSeq
  <1>2. 1 \in Int /\ n \in Int /\ n + 1 \in Int /\ Len(s) \in Int
    BY <1>1
  <1>3. SubSeq(s, 1, n) \in Seq(Bytes) /\ Len(SubSeq(s, 1, n)) = n
    <2>1. \A k \in 1 .. n : s[k] \in Bytes
      BY <1>1
    <2>2. /\ SubSeq(s, 1, n) \in Seq(Bytes)
          /\ Len(SubSeq(s, 1, n)) = IF 1 <= n THEN n - 1 + 1 ELSE 0
      BY <1>2, <2>1, SubSeqProperties
    <2> QED
      BY <1>1, <2>2
  <1>4. SubSeq(s, n + 1, Len(s)) \in Seq(Bytes)
    <2>1. \A k \in n + 1 .. Len(s) : s[k] \in Bytes
      BY <1>1
    <2> QED
      BY <1>2, <2>1, SubSeqProperties
  <1> QED
    BY <1>3, <1>4

\* Writing on two neighbouring bytes of a buffer.
LEMMA Overwritten ==
  ASSUME NEW s \in Seq(Bytes \cup {"NUL"}), NEW k \in Int
  PROVE  LET t == [s EXCEPT ![k] = "NUL", ![k + 1] = "NUL"] IN
         /\ t \in Seq(Bytes \cup {"NUL"})
         /\ Len(t) = Len(s)
         /\ \A j \in 1 .. Len(s) : t[j] = IF j \in {k, k + 1} THEN "NUL" ELSE s[j]
  <1> DEFINE t == [s EXCEPT ![k] = "NUL", ![k + 1] = "NUL"]
             n == Len(s)
  <1>1. n \in Nat /\ s \in [1 .. n -> Bytes \cup {"NUL"}]
    BY LenProperties
  <1> HIDE DEF n
  <1>2. t \in [1 .. n -> Bytes \cup {"NUL"}]
    BY <1>1
  <1>3. \A j \in 1 .. n : t[j] = IF j \in {k, k + 1} THEN "NUL" ELSE s[j]
    BY <1>1
  <1> HIDE DEF t
  <1>4. t \in Seq(Bytes \cup {"NUL"})
    BY <1>1, <1>2
  <1>5. Len(t) = n
    <2>1. Len(t) \in Nat /\ DOMAIN t = 1 .. Len(t)
      BY <1>4, LenProperties
    <2>2. DOMAIN t = 1 .. n
      BY <1>2
    <2>3. \A m \in Nat : 1 .. m = 1 .. n => m = n
      BY <1>1
    <2> QED
      BY <2>1, <2>2, <2>3
  <1> QED
    BY <1>3, <1>4, <1>5 DEF t, n

-----------------------------------------------------------------------------
(* Lemmas about the scanner.                                                *)

\* Where the scan stops.
LEMMA StopFacts ==
  ASSUME TypeOK, Stops # {}
  PROVE  FirstStop \in checked_idx .. ReadIdx - 1 /\ FirstStop \in Stops
  <1>1. checked_idx \in Nat
    BY DEF TypeOK
  <1>2. Stops \in SUBSET Nat
    BY <1>1 DEF Stops
  <1>3. FirstStop \in Stops
    BY <1>2, LeastElement DEF FirstStop
  <1> QED
    BY <1>3 DEF Stops

\* A finished line ends in two bytes that lie before ReadIdx, the second of which
\* had not been scanned.
LEMMA LineFacts ==
  ASSUME TypeOK, LineStat = "OK"
  PROVE  /\ LineEnd \in Int
         /\ LineEnd + 2 \in checked_idx + 1 .. ReadIdx
  <1>1. Stops # {} /\ ~CrAtEnd(FirstStop)
    BY DEF LineStat
  <1>2. FirstStop \in checked_idx .. ReadIdx - 1
    BY <1>1, StopFacts
  <1>3. checked_idx \in Nat /\ ReadIdx \in Nat
    BY LenProperties DEF TypeOK, ReadIdx
  <1>4. CASE CrLf(FirstStop)
    BY <1>2, <1>3, <1>4 DEF LineEnd, CrLf
  <1>5. CASE ~CrLf(FirstStop)
    BY <1>2, <1>3, <1>5 DEF LineEnd
  <1> QED
    BY <1>4, <1>5

-----------------------------------------------------------------------------
(* Type correctness, and an object that answers once.                       *)

\* What makes an answer the last thing that happens to a connection: a child in
\* the middle of process() has no result yet, or knows the descriptor it is
\* about to close.
Once ==
  /\ pc \in {"recv", "scan"} => result = "NO_REQUEST"
  /\ pc = "scan" => sockfd = "fd"
  /\ pc = "reply" /\ result = "GOT_REQUEST" => sockfd = "fd"
  /\ pc = "wait" /\ result = "GOT_REQUEST" => ~fd_open

TypeInv == TypeOK /\ Once /\ AnsweredIsOver

LEMMA InitType == Init => TypeInv
  <1> SUFFICES ASSUME Init PROVE TypeInv
    OBVIOUS
  <1>1. stream \in Seq(Bytes)
    BY ReqAssumption DEF Init
  <1>2. <<>> \in Seq(Bytes) /\ <<>> \in Seq(Bytes \cup {"NUL"}) /\ Len(<<>>) = 0
    BY EmptySeq
  <1>3. TypeOK
    <2>1. /\ inbox \in Seq(Bytes) /\ received \in Seq(Bytes)
          /\ recvbuf \in Seq(Bytes \cup {"NUL"}) /\ Len(recvbuf) = 0
      BY <1>2 DEF Init
    <2>2. /\ Len(recvbuf) <= BufSize
          /\ checked_idx \in 0 .. Len(recvbuf)
          /\ linest_idx \in 0 .. checked_idx
      BY <2>1, ReqAssumption DEF Init
    <2> QED
      BY <1>1, <2>1, <2>2 DEF Init, TypeOK, LineStats, CheckStats, ResultCodes
  <1>4. Once /\ AnsweredIsOver
    BY DEF Init, Once, AnsweredIsOver
  <1> QED
    BY <1>3, <1>4 DEF TypeInv

\* The client and the kernel.
LEMMA ClientType == TypeInv /\ Client => TypeInv'
  <1> SUFFICES ASSUME TypeInv, Client PROVE TypeInv'
    OBVIOUS
  <1> USE DEF TypeInv
  <1>1. CASE Arrive
    <2>1. PICK n \in 1 .. Len(stream) :
            /\ inbox' = inbox \o SubSeq(stream, 1, n)
            /\ stream' = SubSeq(stream, n + 1, Len(stream))
      BY <1>1 DEF Arrive
    <2>2. Len(stream) \in Nat /\ n \in 0 .. Len(stream)
      BY LenProperties DEF TypeOK
    <2>3. stream' \in Seq(Bytes) /\ SubSeq(stream, 1, n) \in Seq(Bytes)
      BY <2>1, <2>2, Cut DEF TypeOK
    <2>4. inbox' \in Seq(Bytes)
      BY <2>1, <2>3, ConcatProperties DEF TypeOK
    <2>5. TypeOK'
      BY <1>1, <2>3, <2>4 DEF Arrive, TypeOK, parseVars, obsVars
    <2>6. Once' /\ AnsweredIsOver'
      BY <1>1 DEF Arrive, Once, AnsweredIsOver, parseVars, obsVars
    <2> QED
      BY <2>5, <2>6
  <1>2. CASE Leave
    <2>1. TypeOK'
      BY <1>2 DEF Leave, TypeOK, parseVars, obsVars
    <2>2. Once' /\ AnsweredIsOver'
      BY <1>2 DEF Leave, Once, AnsweredIsOver, parseVars, obsVars
    <2> QED
      BY <2>1, <2>2
  <1> QED
    BY <1>1, <1>2 DEF Client

\* An event, and what recv() returns.
LEMMA ReceiveType ==
  TypeInv /\ (Event \/ RecvData \/ RecvEmpty \/ RecvZero \/ RecvError) => TypeInv'
  <1> SUFFICES ASSUME TypeInv, Event \/ RecvData \/ RecvEmpty \/ RecvZero \/ RecvError
               PROVE  TypeInv'
    OBVIOUS
  <1> USE DEF TypeInv
  <1>1. CASE Event
    <2>1. TypeOK'
      BY <1>1 DEF Event, TypeOK, clientVars, parseVars, obsVars
    <2>2. Once' /\ AnsweredIsOver'
      BY <1>1 DEF Event, Once, AnsweredIsOver, TypeOK, clientVars, parseVars, obsVars
    <2> QED
      BY <2>1, <2>2
  <1>2. CASE RecvData
    <2> DEFINE n == IF Len(inbox) < Room THEN Len(inbox) ELSE Room
               batch == SubSeq(inbox, 1, n)
    <2>1. Len(inbox) \in Nat /\ Len(recvbuf) \in Nat /\ BufSize \in Nat
      BY LenProperties, ReqAssumption DEF TypeOK
    <2>2. n \in 0 .. Len(inbox) /\ n <= BufSize - Len(recvbuf)
      BY <2>1 DEF TypeOK, Room
    <2>3. batch \in Seq(Bytes) /\ Len(batch) = n /\ inbox' \in Seq(Bytes)
      <3> HIDE DEF n
      <3>1. inbox' = SubSeq(inbox, n + 1, Len(inbox))
        BY <1>2 DEF RecvData, n
      <3> QED
        BY <2>2, <3>1, Cut DEF TypeOK
    <2>4. recvbuf' = recvbuf \o batch /\ received' = received \o batch
      BY <1>2 DEF RecvData
    <2> HIDE DEF batch, n
    <2>5. batch \in Seq(Bytes \cup {"NUL"})
      BY <2>3, SeqMonotonic
    <2>6. recvbuf' \in Seq(Bytes \cup {"NUL"}) /\ Len(recvbuf') = Len(recvbuf) + n
      BY <2>3, <2>4, <2>5, ConcatProperties DEF TypeOK
    <2>7. received' \in Seq(Bytes)
      BY <2>3, <2>4, ConcatProperties DEF TypeOK
    <2>8. /\ Len(recvbuf') <= BufSize
          /\ checked_idx' \in 0 .. Len(recvbuf')
          /\ linest_idx' \in 0 .. checked_idx'
      BY <1>2, <2>1, <2>2, <2>6 DEF RecvData, TypeOK
    <2>9. TypeOK'
      BY <1>2, <2>3, <2>6, <2>7, <2>8 DEF RecvData, TypeOK, clientVars
    <2>10. Once' /\ AnsweredIsOver'
      BY <1>2 DEF RecvData, Once, AnsweredIsOver, TypeOK, clientVars
    <2> QED
      BY <2>9, <2>10
  <1>3. CASE RecvEmpty \/ RecvZero \/ RecvError
    <2>1. PICK res \in {"NO_REQUEST", "DONE_RECV", "INTERNAL_ERROR"} : RecvEnds(res)
      BY <1>3 DEF RecvEmpty, RecvZero, RecvError, RecvEnds, Once
    <2>2. TypeOK'
      BY <2>1 DEF RecvEnds, TypeOK, ResultCodes, clientVars, kernVars, obsVars
    <2>3. Once' /\ AnsweredIsOver'
      BY <2>1 DEF RecvEnds, Once, AnsweredIsOver, TypeOK, clientVars, kernVars, obsVars
    <2> QED
      BY <2>2, <2>3
  <1> QED
    BY <1>1, <1>2, <1>3

\* What a line does to the buffer and its indices.
LEMMA TakeLineType ==
  ASSUME TypeOK, LineStat = "OK", TakeLine
  PROVE  /\ recvbuf' \in Seq(Bytes \cup {"NUL"})
         /\ Len(recvbuf') = Len(recvbuf)
         /\ \A j \in 1 .. Len(recvbuf) :
              recvbuf'[j] = IF j \in {LineEnd + 1, LineEnd + 2} THEN "NUL" ELSE recvbuf[j]
         /\ checked_idx' \in checked_idx + 1 .. Len(recvbuf)
         /\ linest_idx' = checked_idx'
         /\ checked_idx' = LineEnd + 2
  <1>1. LineEnd \in Int /\ LineEnd + 2 \in checked_idx + 1 .. Len(recvbuf)
    BY LineFacts DEF ReadIdx
  <1> DEFINE k == LineEnd + 1
  <1>2. recvbuf' = [recvbuf EXCEPT ![k] = "NUL", ![k + 1] = "NUL"]
    BY <1>1 DEF TakeLine
  <1>3. k \in Int
    BY <1>1
  <1> HIDE DEF k
  <1>4. /\ recvbuf' \in Seq(Bytes \cup {"NUL"})
        /\ Len(recvbuf') = Len(recvbuf)
        /\ \A j \in 1 .. Len(recvbuf) :
             recvbuf'[j] = IF j \in {k, k + 1} THEN "NUL" ELSE recvbuf[j]
    BY <1>2, <1>3, Overwritten DEF TypeOK
  <1>5. k + 1 = LineEnd + 2
    BY <1>1 DEF k
  <1> QED
    BY <1>1, <1>4, <1>5 DEF TakeLine, k

\* The scanner.
LEMMA ScanType == TypeInv /\ (ScanLine \/ ScanMore \/ ScanBad) => TypeInv'
  <1> SUFFICES ASSUME TypeInv, ScanLine \/ ScanMore \/ ScanBad PROVE TypeInv'
    OBVIOUS
  <1> USE DEF TypeInv
  <1>1. checked_idx \in Nat /\ linest_idx \in Nat /\ Len(recvbuf) \in Nat /\ BufSize \in Nat
    BY LenProperties, ReqAssumption DEF TypeOK
  <1>2. CASE ScanLine
    <2>1. /\ recvbuf' \in Seq(Bytes \cup {"NUL"})
          /\ Len(recvbuf') = Len(recvbuf)
          /\ checked_idx' \in 0 .. Len(recvbuf')
          /\ linest_idx' \in 0 .. checked_idx'
      BY <1>1, <1>2, TakeLineType DEF ScanLine
    <2>2. ParseLine \in ResultCodes
      BY DEF ParseLine, TypeOK, CheckStats, ResultCodes
    <2>3. check_stat' \in CheckStats /\ result' \in ResultCodes
      BY <1>2, <2>2 DEF ScanLine, TypeOK, CheckStats
    <2>4. TypeOK'
      BY <1>1, <1>2, <2>1, <2>3
      DEF ScanLine, Crashes, TypeOK, LineStats, clientVars, obsVars
    <2>5. Once' /\ AnsweredIsOver'
      BY <1>2 DEF ScanLine, Crashes, Once, AnsweredIsOver, TypeOK, clientVars, obsVars
    <2> QED
      BY <2>4, <2>5
  <1>3. CASE ScanMore
    <2>1. LineStat = "WAITING_N" => Stops # {}
      BY DEF LineStat
    <2>2. checked_idx' \in checked_idx .. Len(recvbuf)
      BY <1>1, <1>3, <2>1, StopFacts DEF ScanMore, ReadIdx, TypeOK
    <2>3. TypeOK'
      BY <1>1, <1>3, <2>2
      DEF ScanMore, TypeOK, LineStats, clientVars, kernVars, obsVars
    <2>4. Once' /\ AnsweredIsOver'
      BY <1>3 DEF ScanMore, Once, AnsweredIsOver, TypeOK, clientVars, kernVars, obsVars
    <2> QED
      BY <2>3, <2>4
  <1>4. CASE ScanBad
    <2>1. Stops # {}
      BY <1>4 DEF ScanBad, LineStat
    <2>2. checked_idx' \in checked_idx .. Len(recvbuf)
      BY <1>1, <1>4, <2>1, StopFacts DEF ScanBad, ReadIdx
    <2>3. TypeOK'
      BY <1>1, <1>4, <2>2
      DEF ScanBad, TypeOK, LineStats, ResultCodes, clientVars, kernVars, obsVars
    <2>4. Once' /\ AnsweredIsOver'
      BY <1>4 DEF ScanBad, Once, AnsweredIsOver, TypeOK, clientVars, kernVars, obsVars
    <2> QED
      BY <2>3, <2>4
  <1> QED
    BY <1>2, <1>3, <1>4

\* The end of process().
LEMMA ReplyType == TypeInv /\ (Reply \/ ReplySigPipe) => TypeInv'
  <1> SUFFICES ASSUME TypeInv, Reply \/ ReplySigPipe PROVE TypeInv'
    OBVIOUS
  <1> USE DEF TypeInv
  <1>1. CASE Reply
    <2>1. fd_open' \in BOOLEAN /\ edge' \in BOOLEAN
      <3>1. CASE result = "NO_REQUEST"
        BY <1>1, <3>1 DEF Reply, TypeOK
      <3>2. CASE result # "NO_REQUEST"
        BY <1>1, <3>2, Zenon DEF Reply, DelFd
      <3> QED
        BY <3>1, <3>2
    <2>2. answered' \in Nat
      BY <1>1 DEF Reply, TypeOK
    <2>3. TypeOK'
      BY <1>1, <2>1, <2>2 DEF Reply, TypeOK, clientVars, parseVars
    <2>4. Once'
      BY <1>1 DEF Reply, DelFd, Once, clientVars, parseVars
    <2>5. AnsweredIsOver'
      <3>1. answered = 0
        BY <1>1 DEF Reply, AnsweredIsOver, TypeOK
      <3>2. CASE result = "GOT_REQUEST"
        <4>1. answered' = 1 /\ pc' = "wait"
          BY <1>1, <3>1, <3>2 DEF Reply
        <4>2. ~fd_open'
          BY <1>1, <3>2 DEF Reply, DelFd, Once
        <4> QED
          BY <4>1, <4>2 DEF AnsweredIsOver
      <3>3. CASE result # "GOT_REQUEST"
        BY <1>1, <3>1, <3>3 DEF Reply, AnsweredIsOver
      <3> QED
        BY <3>2, <3>3
    <2> QED
      BY <2>3, <2>4, <2>5
  <1>2. CASE ReplySigPipe
    <2>1. TypeOK'
      BY <1>2 DEF ReplySigPipe, Crashes, TypeOK, clientVars, parseVars, obsVars
    <2>2. Once' /\ AnsweredIsOver'
      BY <1>2 DEF ReplySigPipe, Crashes, Once, AnsweredIsOver, TypeOK, clientVars, parseVars, obsVars
    <2> QED
      BY <2>1, <2>2
  <1> QED
    BY <1>1, <1>2

LEMMA StutterType == TypeInv /\ UNCHANGED vars => TypeInv'
  BY DEF TypeInv, TypeOK, Once, AnsweredIsOver, vars, clientVars, kernVars, parseVars, obsVars

LEMMA TypeInvariant == Spec => []TypeInv
  <1>1. TypeInv /\ [Next]_vars => TypeInv'
    BY ClientType, ReceiveType, ScanType, ReplyType, StutterType DEF Next, Child
  <1> QED
    BY InitType, <1>1, PTL DEF Spec

\* Type correctness: the receive buffer never overflows, and the three indices into
\* it stay in order, whatever arrives in whatever pieces.
THEOREM TypeCorrect == Spec => []TypeOK
  <1>1. TypeInv => TypeOK
    BY DEF TypeInv
  <1> QED
    BY TypeInvariant, <1>1, PTL

\* A connection is answered at most once, and is closed with its answer.
THEOREM AnsweredOnce == Spec => []AnsweredIsOver
  <1>1. TypeInv => AnsweredIsOver
    BY DEF TypeInv
  <1> QED
    BY TypeInvariant, <1>1, PTL

-----------------------------------------------------------------------------
(* The scanner and the bytes.                                               *)

Frontier == TypeInv /\ ScanFrontier

LEMMA InitFrontier == Init => Frontier
  <1> SUFFICES ASSUME Init PROVE ScanFrontier
    BY InitType DEF Frontier
  <1>1. Len(recvbuf) = 0 /\ Len(received) = 0
    BY EmptySeq DEF Init
  <1> QED
    BY <1>1 DEF Init, ScanFrontier

\* A step that writes nothing only moves checked_idx, and forwards.
LEMMA QuietFrontier ==
  ASSUME Frontier, UNCHANGED <<recvbuf, received, linest_idx>>,
         checked_idx' \in checked_idx .. Len(recvbuf)
  PROVE  ScanFrontier'
  <1>1. checked_idx \in Nat /\ Len(recvbuf) \in Nat
    BY LenProperties DEF Frontier, TypeInv, TypeOK
  <1> DEFINE c == checked_idx'
  <1>2. c \in checked_idx .. Len(recvbuf)
    OBVIOUS
  <1> HIDE DEF c
  <1>3. \A k \in c + 1 .. Len(recvbuf) : k \in checked_idx + 1 .. Len(recvbuf)
    BY <1>1, <1>2
  <1> QED
    BY <1>3 DEF Frontier, ScanFrontier, c

\* recv() appends what it received.
LEMMA RecvDataFrontier == Frontier /\ RecvData => ScanFrontier'
  <1> SUFFICES ASSUME Frontier, RecvData PROVE ScanFrontier'
    OBVIOUS
  <1> DEFINE n == IF Len(inbox) < Room THEN Len(inbox) ELSE Room
             batch == SubSeq(inbox, 1, n)
             l == Len(recvbuf)
  <1>1. /\ inbox \in Seq(Bytes) /\ received \in Seq(Bytes)
        /\ recvbuf \in Seq(Bytes \cup {"NUL"})
        /\ checked_idx \in 0 .. l /\ linest_idx \in 0 .. checked_idx
    BY DEF Frontier, TypeInv, TypeOK
  <1>2. l \in Nat /\ Len(inbox) \in Nat /\ n \in 0 .. Len(inbox)
    <2>1. Len(inbox) \in Nat /\ l \in Nat /\ BufSize \in Nat
      BY <1>1, LenProperties, ReqAssumption
    <2> QED
      BY <2>1 DEF Room, RecvData
  <1>3. recvbuf' = recvbuf \o batch /\ received' = received \o batch
    BY DEF RecvData
  <1>4. checked_idx' = checked_idx /\ linest_idx' = linest_idx
    BY DEF RecvData
  <1> HIDE DEF n
  <1>5. batch \in Seq(Bytes) /\ Len(batch) = n
    BY <1>1, <1>2, Cut
  <1> HIDE DEF batch
  <1>6. /\ Len(received) = l
        /\ \A k \in checked_idx + 1 .. l : recvbuf[k] = received[k]
        /\ linest_idx > 0 => recvbuf[linest_idx] = "NUL"
        /\ \A k \in linest_idx + 1 .. l : recvbuf[k] # "NUL"
    BY DEF Frontier, ScanFrontier
  <1> HIDE DEF l
  <1>7. batch \in Seq(Bytes \cup {"NUL"})
    BY <1>5, SeqMonotonic
  <1>8. /\ Len(recvbuf') = l + n
        /\ \A k \in 1 .. l + n :
             recvbuf'[k] = IF k <= l THEN recvbuf[k] ELSE batch[k - l]
    BY <1>1, <1>3, <1>5, <1>7, ConcatProperties DEF l
  <1>9. /\ Len(received') = l + n
        /\ \A k \in 1 .. l + n :
             received'[k] = IF k <= l THEN received[k] ELSE batch[k - l]
    BY <1>1, <1>3, <1>5, <1>6, ConcatProperties
  <1>10. \A k \in 1 .. n : batch[k] # "NUL"
    BY <1>5, ElementOfSeq DEF Bytes
  <1>11. \A k \in checked_idx + 1 .. l + n : recvbuf'[k] = received'[k]
    BY <1>1, <1>2, <1>6, <1>8, <1>9
  <1>12. linest_idx > 0 => recvbuf'[linest_idx] = "NUL"
    BY <1>1, <1>2, <1>6, <1>8
  <1>13. \A k \in linest_idx + 1 .. l + n : recvbuf'[k] # "NUL"
    <2> TAKE k \in linest_idx + 1 .. l + n
    <2>1. k \in 1 .. l + n
      BY <1>1, <1>2
    <2>2. CASE k <= l
      BY <1>1, <1>2, <1>6, <1>8, <2>1, <2>2
    <2>3. CASE ~(k <= l)
      <3>1. k - l \in 1 .. n
        BY <1>2, <2>1, <2>3
      <3> QED
        BY <1>8, <1>10, <2>1, <2>3, <3>1
    <2> QED
      BY <2>2, <2>3
  <1> QED
    BY <1>4, <1>8, <1>9, <1>11, <1>12, <1>13 DEF ScanFrontier

\* A line: both bytes it writes are behind the new checked_idx.
LEMMA ScanLineFrontier == Frontier /\ ScanLine => ScanFrontier'
  <1> SUFFICES ASSUME Frontier, ScanLine PROVE ScanFrontier'
    OBVIOUS
  <1> DEFINE l == Len(recvbuf)
  <1>1. /\ Len(recvbuf') = l
        /\ \A j \in 1 .. l :
             recvbuf'[j] = IF j \in {LineEnd + 1, LineEnd + 2} THEN "NUL" ELSE recvbuf[j]
        /\ checked_idx' \in checked_idx + 1 .. l
        /\ linest_idx' = checked_idx'
        /\ checked_idx' = LineEnd + 2
    BY TakeLineType DEF Frontier, TypeInv, ScanLine
  <1>2. LineEnd \in Int
    BY LineFacts DEF Frontier, TypeInv, ScanLine
  <1>3. received' = received
    BY DEF ScanLine, obsVars
  <1>4. checked_idx \in 0 .. l /\ linest_idx \in 0 .. checked_idx /\ l \in Nat
    BY LenProperties DEF Frontier, TypeInv, TypeOK
  <1>5. /\ Len(received) = l
        /\ \A k \in checked_idx + 1 .. l : recvbuf[k] = received[k]
        /\ \A k \in linest_idx + 1 .. l : recvbuf[k] # "NUL"
    BY DEF Frontier, ScanFrontier
  <1> HIDE DEF l
  <1>6. \A k \in checked_idx' + 1 .. l : /\ k \in checked_idx + 1 .. l
                                         /\ k \in linest_idx + 1 .. l
                                         /\ recvbuf'[k] = recvbuf[k]
    BY <1>1, <1>2, <1>4
  <1>7. recvbuf'[linest_idx'] = "NUL"
    BY <1>1, <1>2, <1>4
  <1> QED
    BY <1>1, <1>3, <1>5, <1>6, <1>7 DEF ScanFrontier

LEMMA FrontierStep == Frontier /\ [Next]_vars => Frontier'
  <1> SUFFICES ASSUME Frontier, [Next]_vars PROVE Frontier'
    OBVIOUS
  <1>1. TypeInv'
    BY ClientType, ReceiveType, ScanType, ReplyType, StutterType DEF Frontier, Next, Child
  <1>2. checked_idx \in Nat /\ Len(recvbuf) \in Nat /\ checked_idx <= Len(recvbuf)
    BY LenProperties DEF Frontier, TypeInv, TypeOK
  <1>3. TypeOK
    BY DEF Frontier, TypeInv
  <1>4. CASE RecvData
    BY <1>1, <1>4, RecvDataFrontier DEF Frontier
  <1>5. CASE ScanLine
    BY <1>1, <1>5, ScanLineFrontier DEF Frontier
  <1>6. CASE ~RecvData /\ ~ScanLine
    <2>1. UNCHANGED <<recvbuf, received, linest_idx>>
      BY <1>6 DEF Next, Client, Child, Arrive, Leave, Event, RecvEmpty, RecvZero, RecvError,
                  RecvEnds, ScanMore, ScanBad, Reply, ReplySigPipe, vars, parseVars, obsVars
    <2>2. checked_idx' \in checked_idx .. Len(recvbuf)
      <3>1. CASE ScanMore
        <4>1. LineStat = "WAITING_N" => Stops # {}
          BY DEF LineStat
        <4> QED
          BY <1>2, <1>3, <3>1, <4>1, StopFacts DEF ScanMore, ReadIdx
      <3>2. CASE ScanBad
        <4>1. Stops # {}
          BY <3>2 DEF ScanBad, LineStat
        <4> QED
          BY <1>2, <1>3, <3>2, <4>1, StopFacts DEF ScanBad, ReadIdx
      <3>3. CASE ~ScanMore /\ ~ScanBad
        <4>1. checked_idx' = checked_idx
          BY <1>6, <3>3 DEF Next, Client, Child, Arrive, Leave, Event, RecvEmpty, RecvZero,
                            RecvError, RecvEnds, Reply, ReplySigPipe, vars, parseVars
        <4> QED
          BY <1>2, <4>1
      <3> QED
        BY <3>1, <3>2, <3>3
    <2> QED
      BY <1>1, <2>1, <2>2, QuietFrontier DEF Frontier
  <1> QED
    BY <1>4, <1>5, <1>6

\* The scanner writes only behind checked_idx and only to end lines, in buffers of
\* every size and for streams of every length: what is not scanned is as received.
THEOREM NothingUnscannedIsTouched == Spec => []ScanFrontier
  <1>1. Frontier => ScanFrontier
    BY DEF Frontier
  <1> QED
    BY InitFrontier, FrontierStep, <1>1, PTL DEF Spec

-----------------------------------------------------------------------------
(* The verdict on a sequence of bytes, line by line.                        *)

\* A CR is followed by an LF, if by anything.
OnlyCrLf(s) == \A k \in 1 .. Len(s) - 1 : s[k] = "CR" => s[k + 1] = "LF"

\* The first l bytes are lines, none of which decides.
LinesDone(s, l) ==
  /\ l = 0 \/ l \in LineEnds(s)
  /\ \A k \in LoneLFs(s) \cup BadFirst(s) \cup Blank(s) : k > l

\* Nothing decides as long as the last line is not ended.
LEMMA VerdictOpen ==
  ASSUME NEW s \in Seq(Bytes), NEW l \in 0 .. Len(s), LinesDone(s, l),
         \A k \in l + 1 .. Len(s) : s[k] # "LF"
  PROVE  Verdict(s) = "NO_REQUEST"
  <1>1. Len(s) \in Nat
    BY LenProperties
  <1>2. \A k \in 1 .. Len(s) : s[k] = "LF" => ~(k > l)
    BY <1>1
  <1>3. LoneLFs(s) = {} /\ BadFirst(s) = {} /\ Blank(s) = {}
    BY <1>1, <1>2 DEF LinesDone, LoneLFs, BadFirst, Blank, LineEnds
  <1> QED
    BY <1>3 DEF Verdict

\* An LF alone decides, if it is the first after whole lines.
LEMMA VerdictLone ==
  ASSUME NEW s \in Seq(Bytes), NEW l \in 0 .. Len(s), LinesDone(s, l),
         NEW f \in l + 1 .. Len(s), s[f] = "LF", f \notin LineEnds(s),
         \A k \in l + 1 .. f - 1 : s[k] # "LF"
  PROVE  Verdict(s) = "BAD_REQUEST"
  <1>1. Len(s) \in Nat
    BY LenProperties
  <1>2. f \in LoneLFs(s)
    BY <1>1 DEF LoneLFs
  <1>3. \A b \in Blank(s) : b > l /\ b \in LineEnds(s) /\ b \in 2 .. Len(s) /\ s[b] = "LF"
    BY DEF LinesDone, Blank, LineEnds
  <1>4. \A b \in Blank(s) : f < b
    BY <1>1, <1>3
  <1> QED
    BY <1>2, <1>4 DEF Verdict

\* The first line decides, if it is no request line.
LEMMA VerdictFirst ==
  ASSUME NEW s \in Seq(Bytes), NEW f \in LineEnds(s), f = 2 \/ s[1] # "req",
         \A k \in 1 .. f - 1 : s[k] # "LF"
  PROVE  Verdict(s) = "BAD_REQUEST"
  <1>1. Len(s) \in Nat /\ f \in 2 .. Len(s)
    BY LenProperties DEF LineEnds
  <1>2. \A k \in LineEnds(s) : k \in 2 .. Len(s) /\ f <= k
    BY <1>1 DEF LineEnds
  <1>3. f \in BadFirst(s)
    BY <1>2 DEF BadFirst
  <1>4. \A b \in Blank(s) : f < b
    BY <1>1, <1>2 DEF Blank, LineEnds
  <1> QED
    BY <1>3, <1>4 DEF Verdict

\* An empty line decides, if it is the first.
LEMMA VerdictBlank ==
  ASSUME NEW s \in Seq(Bytes), NEW l \in LineEnds(s), LinesDone(s, l), l + 2 \in LineEnds(s)
  PROVE  Verdict(s) = "GOT_REQUEST"
  <1>1. Len(s) \in Nat /\ l \in 2 .. Len(s) /\ l + 2 <= Len(s)
    BY LenProperties DEF LineEnds
  <1>2. l + 2 \in Blank(s)
    BY <1>1 DEF Blank
  <1>3. \A k \in LoneLFs(s) : ~(k < l + 2)
    BY <1>1 DEF LoneLFs, LineEnds, LinesDone
  <1>4. \A k \in BadFirst(s) : FALSE
    <2> SUFFICES ASSUME NEW k \in BadFirst(s) PROVE FALSE
      OBVIOUS
    <2>1. k \in Int /\ k <= l
      BY DEF BadFirst, LineEnds
    <2>2. k > l
      BY DEF LinesDone
    <2> QED
      BY ONLY <1>1, <2>1, <2>2
  <1> QED
    BY <1>2, <1>3, <1>4 DEF Verdict

\* A line that does not decide is done.
LEMMA LineDone ==
  ASSUME NEW s \in Seq(Bytes), NEW l \in 0 .. Len(s), LinesDone(s, l),
         NEW f \in LineEnds(s), f > l, \A k \in l + 1 .. f - 1 : s[k] # "LF",
         l = 0 => f # 2 /\ s[1] = "req",
         l > 0 => f # l + 2
  PROVE  LinesDone(s, f)
  <1>1. Len(s) \in Nat /\ f \in 2 .. Len(s) /\ s[f] = "LF" /\ s[f - 1] = "CR"
    BY LenProperties DEF LineEnds
  <1>2. l > 0 => s[l] = "LF"
    BY DEF LinesDone, LineEnds
  <1>3. \A k \in 1 .. Len(s) : k > l /\ s[k] = "LF" => k >= f
    BY <1>1
  <1>4. \A k \in LoneLFs(s) : k > f
    <2>1. \A k \in LoneLFs(s) : k \in 1 .. Len(s) /\ k > l /\ s[k] = "LF" /\ k # f
      BY DEF LoneLFs, LinesDone
    <2> QED
      BY <1>1, <1>3, <2>1
  <1>5. \A k \in BadFirst(s) : k > f
    <2>1. \A k \in BadFirst(s) : /\ k \in 1 .. Len(s) /\ k > l /\ s[k] = "LF"
                                 /\ k = 2 \/ s[1] # "req"
                                 /\ l \in LineEnds(s) => k <= l
      BY DEF BadFirst, LineEnds, LinesDone
    <2>2. l > 0 => l \in LineEnds(s)
      BY DEF LinesDone
    <2> QED
      BY <1>1, <1>3, <2>1, <2>2
  <1>6. \A k \in Blank(s) : k > f
    <2> TAKE k \in Blank(s)
    <2>1. k \in 2 .. Len(s) /\ k > l /\ s[k] = "LF" /\ s[k - 1] = "CR"
          /\ k - 2 \in 2 .. Len(s) /\ s[k - 2] = "LF"
      BY DEF Blank, LineEnds, LinesDone
    <2>2. k >= f
      BY <1>1, <1>3, <2>1
    <2>3. SUFFICES ASSUME k = f PROVE FALSE
      BY <1>1, <2>1, <2>2
    <2>4. f - 2 <= l
      BY <1>1, <1>3, <2>1, <2>3
    <2>5. CASE l = 0
      BY <1>1, <2>1, <2>3, <2>4, <2>5
    <2>6. CASE l > 0
      <3>1. f = l + 1
        BY <1>1, <2>4, <2>6
      <3> QED
        BY <1>1, <1>2, <2>6, <3>1
    <2> QED
      BY <2>5, <2>6
  <1> QED
    BY <1>4, <1>5, <1>6 DEF LinesDone

\* What is done stays done when more bytes arrive.
LEMMA DoneStaysDone ==
  ASSUME NEW s \in Seq(Bytes), NEW b \in Seq(Bytes), NEW l \in 0 .. Len(s), LinesDone(s, l)
  PROVE  LinesDone(s \o b, l)
  <1> DEFINE t == s \o b
             n == Len(s)
             m == Len(t)
  <1>1. n \in Nat /\ m \in Nat /\ n <= m /\ \A k \in 1 .. n : t[k] = s[k]
    <2>1. n \in Nat /\ Len(b) \in Nat
      BY LenProperties
    <2>2. m = n + Len(b) /\ \A k \in 1 .. n + Len(b) : t[k] = IF k <= n THEN s[k] ELSE b[k - n]
      BY ConcatProperties
    <2> QED
      BY <2>1, <2>2
  <1> HIDE DEF t
  <1>2. \A k \in 0 .. n : k \in LineEnds(t) <=> k \in LineEnds(s)
    BY <1>1 DEF LineEnds
  <1>3. \A k \in LineEnds(s) : k \in 0 .. n
    BY <1>1 DEF LineEnds
  <1>4. \A k \in LoneLFs(t) : k > l
    <2>1. \A k \in LoneLFs(t) : k \in 1 .. m /\ t[k] = "LF" /\ k \notin LineEnds(t)
      BY DEF LoneLFs
    <2>2. \A k \in LoneLFs(t) : k <= n => k \in LoneLFs(s)
      BY <1>1, <1>2, <2>1 DEF LoneLFs
    <2> QED
      BY <1>1, <2>1, <2>2 DEF LinesDone
  <1>5. \A k \in BadFirst(t) : k > l
    <2>1. \A k \in BadFirst(t) : /\ k \in 2 .. m /\ k \in LineEnds(t)
                                 /\ \A j \in LineEnds(t) : k <= j
                                 /\ k = 2 \/ t[1] # "req"
      BY DEF BadFirst, LineEnds
    <2>2. \A k \in BadFirst(t) : k <= n => k \in BadFirst(s)
      BY <1>1, <1>2, <1>3, <2>1 DEF BadFirst
    <2> QED
      BY <1>1, <2>1, <2>2 DEF LinesDone
  <1>6. \A k \in Blank(t) : k > l
    <2>1. \A k \in Blank(t) : k \in 2 .. m /\ k \in LineEnds(t) /\ k - 2 \in LineEnds(t) /\ k - 2 \in 2 .. m
      BY DEF Blank, LineEnds
    <2>2. \A k \in Blank(t) : k <= n => k \in Blank(s)
      BY <1>1, <1>2, <2>1 DEF Blank
    <2> QED
      BY <1>1, <2>1, <2>2 DEF LinesDone
  <1>7. l = 0 \/ l \in LineEnds(t)
    BY <1>2 DEF LinesDone
  <1> QED
    BY <1>4, <1>5, <1>6, <1>7 DEF LinesDone, t

-----------------------------------------------------------------------------
(* The scanner agrees with the verdict.                                     *)

\* What holds while nothing is decided: only whole lines lie behind linest_idx,
\* and no end of a line between it and checked_idx, nor anywhere once a batch is done.
Undecided ==
  /\ LinesDone(received, linest_idx)
  /\ check_stat = "REQLINE" <=> linest_idx = 0
  /\ \A k \in linest_idx + 1 .. checked_idx : received[k] \notin {"CR", "LF"}
  /\ lastline_stat = "WAITING_N" =>
       /\ checked_idx < Len(received) /\ received[checked_idx + 1] = "CR"
       /\ pc = "scan" => checked_idx + 1 < Len(received)
  /\ pc # "scan" => \A k \in linest_idx + 1 .. Len(received) : received[k] # "LF"

Judged ==
  /\ OnlyCrLf((received \o inbox) \o stream)
  /\ Len(recvbuf) = Len(received)
  /\ \A k \in linest_idx + 1 .. Len(recvbuf) : recvbuf[k] = received[k]
  /\ result \in {"GOT_REQUEST", "BAD_REQUEST"} => Verdict(received) = result
  /\ result = "NO_REQUEST" /\ pc # "crashed" => Undecided

JudgeInv == TypeInv /\ Judged

\* Cutting a sequence in two, and joining it again.
LEMMA CutJoins ==
  ASSUME NEW s \in Seq(Bytes), NEW n \in 0 .. Len(s)
  PROVE  SubSeq(s, 1, n) \o SubSeq(s, n + 1, Len(s)) = s
  <1>1. Len(s) \in Nat
    BY LenProperties
  <1>2. 1 \in 1 .. Len(s) + 1 /\ n \in 1 - 1 .. Len(s) /\ Len(s) \in n .. Len(s)
    BY <1>1
  <1>3. SubSeq(s, 1, n) \o SubSeq(s, n + 1, Len(s)) = SubSeq(s, 1, Len(s))
    BY <1>2, ConcatAdjacentSubSeq
  <1> QED
    BY <1>3, SubSeqFull

LEMMA OnlyCrLfPrefix ==
  ASSUME NEW s \in Seq(Bytes), NEW b \in Seq(Bytes), OnlyCrLf(s \o b)
  PROVE  OnlyCrLf(s)
  <1> DEFINE t == s \o b
             n == Len(s)
             m == Len(t)
  <1>1. n \in Nat /\ m \in Nat /\ n <= m /\ \A k \in 1 .. n : t[k] = s[k]
    <2>1. n \in Nat /\ Len(b) \in Nat
      BY LenProperties
    <2>2. m = n + Len(b) /\ \A k \in 1 .. n + Len(b) : t[k] = IF k <= n THEN s[k] ELSE b[k - n]
      BY ConcatProperties
    <2> QED
      BY <2>1, <2>2
  <1>2. \A k \in 1 .. m - 1 : t[k] = "CR" => t[k + 1] = "LF"
    BY DEF OnlyCrLf
  <1> HIDE DEF t, n, m
  <1>3. \A k \in 1 .. n - 1 : s[k] = "CR" => s[k + 1] = "LF"
    BY <1>1, <1>2
  <1> QED
    BY <1>3 DEF OnlyCrLf, n

\* The bytes received are the beginning of those that are sent.
LEMMA ReceivedOnlyCrLf ==
  ASSUME JudgeInv
  PROVE  OnlyCrLf(received)
  <1>1. received \in Seq(Bytes) /\ inbox \in Seq(Bytes) /\ stream \in Seq(Bytes)
    BY DEF JudgeInv, TypeInv, TypeOK
  <1>2. received \o inbox \in Seq(Bytes)
    BY <1>1, ConcatProperties
  <1>3. OnlyCrLf(received \o inbox)
    BY <1>1, <1>2, OnlyCrLfPrefix DEF JudgeInv, Judged
  <1> QED
    BY <1>1, <1>3, OnlyCrLfPrefix

\* Bytes on their way from the client to the buffer stay the same bytes.
LEMMA Reassociated ==
  ASSUME NEW r \in Seq(Bytes), NEW i \in Seq(Bytes), NEW t \in Seq(Bytes), NEW n \in 0 .. Len(t)
  PROVE  (r \o (i \o SubSeq(t, 1, n))) \o SubSeq(t, n + 1, Len(t)) = (r \o i) \o t
  <1> DEFINE a == SubSeq(t, 1, n)
             b == SubSeq(t, n + 1, Len(t))
  <1>1. a \in Seq(Bytes) /\ b \in Seq(Bytes) /\ a \o b = t
    BY Cut, CutJoins
  <1> HIDE DEF a, b
  <1>2. r \o i \in Seq(Bytes)
    BY ConcatProperties
  <1>3. \A x, y, z \in Seq(Bytes) : (x \o y) \o z = x \o (y \o z)
    BY BytesAssociate
  <1>4. r \o (i \o a) = (r \o i) \o a
    BY <1>1, <1>3
  <1>5. ((r \o i) \o a) \o b = (r \o i) \o (a \o b)
    BY <1>1, <1>2, <1>3
  <1> QED
    BY <1>1, <1>4, <1>5 DEF a, b

\* What the scanner finds in the buffer is what was received.
LEMMA ScanFacts ==
  ASSUME JudgeInv
  PROVE  /\ Stops = {} => \A k \in checked_idx + 1 .. Len(received) : received[k] \notin {"CR", "LF"}
         /\ Stops # {} =>
              /\ FirstStop \in checked_idx .. Len(received) - 1
              /\ \A k \in checked_idx + 1 .. FirstStop : received[k] \notin {"CR", "LF"}
              /\ received[FirstStop + 1] \in {"CR", "LF"}
              /\ CrAtEnd(FirstStop) <=> received[FirstStop + 1] = "CR" /\ FirstStop + 1 = Len(received)
              /\ CrLf(FirstStop) <=> received[FirstStop + 1] = "CR" /\ FirstStop + 1 < Len(received)
              /\ CrLf(FirstStop) => received[FirstStop + 2] = "LF"
  <1> DEFINE n == Len(received)
             c == checked_idx
  <1>1. n \in Nat /\ c \in Nat /\ linest_idx \in Nat /\ linest_idx <= c /\ ReadIdx = n
    BY LenProperties DEF JudgeInv, TypeInv, TypeOK, Judged, ReadIdx
  <1>2. \A k \in linest_idx + 1 .. n : recvbuf[k] = received[k]
    BY DEF JudgeInv, Judged
  <1>3. \A k \in 1 .. n - 1 : received[k] = "CR" => received[k + 1] = "LF"
    BY ReceivedOnlyCrLf DEF OnlyCrLf
  <1> HIDE DEF n, c
  <1>4. \A k \in c .. n - 1 :
          /\ Byte(k) = received[k + 1]
          /\ CrAtEnd(k) <=> received[k + 1] = "CR" /\ k + 1 = n
          /\ CrLf(k) <=> received[k + 1] = "CR" /\ k + 1 < n
    <2> TAKE k \in c .. n - 1
    <2>1. Byte(k) = received[k + 1]
      <3>1. k + 1 \in linest_idx + 1 .. n
        BY <1>1
      <3> QED
        BY <1>2, <3>1 DEF Byte
    <2>2. k + 1 < n => Byte(k + 1) = received[k + 2]
      <3>1. k + 1 < n => k + 2 \in linest_idx + 1 .. n
        BY <1>1
      <3>2. (k + 1) + 1 = k + 2
        BY <1>1
      <3> QED
        BY <1>2, <3>1, <3>2 DEF Byte
    <2>3. k + 1 < n /\ received[k + 1] = "CR" => received[k + 2] = "LF"
      <3>1. k + 1 < n => k + 1 \in 1 .. n - 1
        BY <1>1
      <3>2. (k + 1) + 1 = k + 2
        BY <1>1
      <3> QED
        BY <1>3, <3>1, <3>2
    <2> QED
      BY <1>1, <2>1, <2>2, <2>3 DEF CrAtEnd, CrLf
  <1>5. \A k \in c .. n - 1 : k \in Stops <=> received[k + 1] \in {"CR", "LF"}
    <2> TAKE k \in c .. n - 1
    <2>1. k \in Stops <=> CrAtEnd(k) \/ CrLf(k) \/ Byte(k) = "LF"
      BY <1>1 DEF Stops, c
    <2>2. k + 1 = n \/ k + 1 < n
      BY <1>1
    <2> QED
      BY <1>4, <2>1, <2>2
  <1>6. \A k \in c + 1 .. n : k - 1 \in c .. n - 1 /\ (k - 1) + 1 = k
    BY <1>1
  <1>7. Stops = {} => \A k \in c + 1 .. n : received[k] \notin {"CR", "LF"}
    BY <1>5, <1>6
  <1>8. ASSUME Stops # {}
        PROVE  FirstStop \in c .. n - 1 /\ FirstStop \in Stops /\ \A k \in Stops : FirstStop <= k
    <2>1. Stops \in SUBSET Nat
      BY <1>1 DEF Stops, c
    <2>2. PICK x \in Stops : \A y \in Stops : x <= y
      BY <1>8, <2>1, LeastElement
    <2>3. FirstStop \in Stops /\ \A k \in Stops : FirstStop <= k
      BY <2>2 DEF FirstStop
    <2> QED
      BY <1>1, <2>3 DEF Stops, c
  <1>9. ASSUME Stops # {}
        PROVE  \A k \in c + 1 .. FirstStop : received[k] \notin {"CR", "LF"}
    <2> TAKE k \in c + 1 .. FirstStop
    <2>1. k - 1 \in c .. n - 1 /\ (k - 1) + 1 = k /\ k - 1 < FirstStop
      BY <1>1, <1>8, <1>9
    <2>2. k - 1 \notin Stops
      BY <1>1, <1>8, <1>9, <2>1
    <2> QED
      BY <1>5, <2>1, <2>2
  <1>10. ASSUME Stops # {}
         PROVE  CrLf(FirstStop) => received[FirstStop + 2] = "LF"
    <2>1. CrLf(FirstStop) => FirstStop + 1 \in 1 .. n - 1 /\ received[FirstStop + 1] = "CR"
      BY <1>1, <1>4, <1>8, <1>10
    <2>2. (FirstStop + 1) + 1 = FirstStop + 2
      BY <1>1, <1>8, <1>10
    <2> QED
      BY <1>3, <2>1, <2>2
  <1> QED
    BY <1>4, <1>5, <1>7, <1>8, <1>9, <1>10 DEF n, c

\* A step that leaves the parser and what it was given alone.
LEMMA QuietJudged ==
  ASSUME JudgeInv, UNCHANGED <<parseVars, received>>,
         (received' \o inbox') \o stream' = (received \o inbox) \o stream,
         \/ pc' = pc \/ pc' = "crashed"
         \/ pc \in {"wait", "reply"} /\ pc' \in {"wait", "recv", "reply"}
  PROVE  Judged'
  <1>1. UNCHANGED <<recvbuf, checked_idx, linest_idx, lastline_stat, check_stat, result, received>>
    BY DEF parseVars
  <1>2. Undecided /\ pc' # "crashed" => Undecided'
    BY <1>1 DEF Undecided
  <1>3. pc' # "crashed" => pc # "crashed"
    OBVIOUS
  <1> QED
    BY <1>1, <1>2, <1>3 DEF JudgeInv, Judged

\* The client, the events, and the end of process().
LEMMA ArriveJudged == JudgeInv /\ Arrive => Judged'
  <1> SUFFICES ASSUME JudgeInv, Arrive PROVE Judged'
    OBVIOUS
  <1>1. PICK n \in 1 .. Len(stream) :
          /\ inbox' = inbox \o SubSeq(stream, 1, n)
          /\ stream' = SubSeq(stream, n + 1, Len(stream))
    BY DEF Arrive
  <1>2. stream \in Seq(Bytes) /\ inbox \in Seq(Bytes) /\ received \in Seq(Bytes) /\ Len(stream) \in Nat
    BY LenProperties DEF JudgeInv, TypeInv, TypeOK
  <1>3. n \in 0 .. Len(stream)
    BY <1>2
  <1>4. received' = received /\ UNCHANGED parseVars /\ pc' = pc
    BY DEF Arrive, obsVars
  <1>5. (received' \o inbox') \o stream' = (received \o inbox) \o stream
    BY <1>1, <1>2, <1>3, <1>4, Reassociated
  <1> QED
    BY <1>4, <1>5, QuietJudged

LEMMA OthersJudged == JudgeInv /\ (Leave \/ Event \/ Reply \/ ReplySigPipe) => Judged'
  <1> SUFFICES ASSUME JudgeInv, Leave \/ Event \/ Reply \/ ReplySigPipe PROVE Judged'
    OBVIOUS
  <1>1. UNCHANGED <<parseVars, received, inbox, stream>>
    BY DEF Leave, Event, Reply, ReplySigPipe, clientVars, obsVars
  <1>2. \/ pc' = pc \/ pc' = "crashed"
        \/ pc \in {"wait", "reply"} /\ pc' \in {"wait", "recv", "reply"}
    BY DEF Leave, Event, Reply, ReplySigPipe, Crashes
  <1> QED
    BY <1>1, <1>2, QuietJudged

\* recv() appends to what was received.
LEMMA RecvDataJudged == JudgeInv /\ RecvData => Judged'
  <1> SUFFICES ASSUME JudgeInv, RecvData PROVE Judged'
    OBVIOUS
  <1> DEFINE n == IF Len(inbox) < Room THEN Len(inbox) ELSE Room
             batch == SubSeq(inbox, 1, n)
             rest == SubSeq(inbox, n + 1, Len(inbox))
             l == Len(received)
  <1>1. /\ stream \in Seq(Bytes) /\ inbox \in Seq(Bytes) /\ received \in Seq(Bytes)
        /\ recvbuf \in Seq(Bytes \cup {"NUL"}) /\ Len(recvbuf) = l
        /\ checked_idx \in 0 .. l /\ linest_idx \in 0 .. checked_idx /\ l \in Nat
    BY LenProperties DEF JudgeInv, Judged, TypeInv, TypeOK
  <1>2. n \in 0 .. Len(inbox) /\ n > 0
    <2>1. Len(inbox) \in Nat /\ l \in Nat /\ BufSize \in Nat /\ Room = BufSize - l
      BY <1>1, LenProperties, ReqAssumption DEF Room
    <2>2. Len(inbox) > 0 /\ Room > 0
      BY <1>1, <2>1, EmptySeq DEF RecvData
    <2> QED
      BY <2>1, <2>2
  <1>3. /\ recvbuf' = recvbuf \o batch /\ received' = received \o batch
        /\ inbox' = rest /\ pc' = "scan" /\ pc = "recv"
        /\ UNCHANGED <<stream, checked_idx, linest_idx, lastline_stat, check_stat, result>>
    BY DEF RecvData, clientVars
  <1> HIDE DEF n
  <1>4. batch \in Seq(Bytes) /\ rest \in Seq(Bytes) /\ Len(batch) = n /\ batch \o rest = inbox
    BY <1>1, <1>2, Cut, CutJoins
  <1> HIDE DEF batch, rest, l
  <1>5. (received' \o inbox') \o stream' = (received \o inbox) \o stream
    <2>1. \A x, y, z \in Seq(Bytes) : (x \o y) \o z = x \o (y \o z)
      BY BytesAssociate
    <2>2. (received \o batch) \o rest = received \o (batch \o rest)
      BY <1>1, <1>4, <2>1
    <2> QED
      BY <1>3, <1>4, <2>2
  <1>6. /\ Len(received') = l + n
        /\ \A k \in 1 .. l + n : received'[k] = IF k <= l THEN received[k] ELSE batch[k - l]
    BY <1>1, <1>3, <1>4, ConcatProperties DEF l
  <1>7. batch \in Seq(Bytes \cup {"NUL"})
    BY <1>4, SeqMonotonic
  <1>8. /\ Len(recvbuf') = l + n
        /\ \A k \in 1 .. l + n : recvbuf'[k] = IF k <= l THEN recvbuf[k] ELSE batch[k - l]
    BY <1>1, <1>3, <1>4, <1>7, ConcatProperties
  <1>9. \A k \in linest_idx + 1 .. l : recvbuf[k] = received[k]
    BY <1>1 DEF JudgeInv, Judged
  <1>10. \A k \in linest_idx' + 1 .. Len(recvbuf') : recvbuf'[k] = received'[k]
    BY <1>1, <1>2, <1>3, <1>6, <1>8, <1>9
  <1>11. result = "NO_REQUEST"
    BY <1>3 DEF JudgeInv, TypeInv, Once
  <1>12. Undecided
    BY <1>3, <1>11 DEF JudgeInv, Judged
  <1>13. LinesDone(received', linest_idx')
    <2>1. linest_idx \in 0 .. Len(received)
      BY <1>1 DEF l
    <2> QED
      BY <1>1, <1>3, <1>4, <1>12, <2>1, DoneStaysDone DEF Undecided
  <1>14. \A k \in linest_idx + 1 .. checked_idx : received'[k] \notin {"CR", "LF"}
    <2>1. \A k \in linest_idx + 1 .. checked_idx : k \in 1 .. l + n /\ k <= l
      BY <1>1, <1>2
    <2>2. \A k \in linest_idx + 1 .. checked_idx : received[k] \notin {"CR", "LF"}
      BY <1>12 DEF Undecided
    <2> QED
      BY <1>6, <2>1, <2>2
  <1>15. lastline_stat = "WAITING_N" =>
           /\ checked_idx + 1 < Len(received') /\ received'[checked_idx + 1] = "CR"
    BY <1>1, <1>2, <1>6, <1>12 DEF Undecided, l
  <1>16. Undecided'
    BY <1>1, <1>2, <1>3, <1>6, <1>12, <1>13, <1>14, <1>15 DEF Undecided
  <1> QED
    BY <1>3, <1>5, <1>6, <1>8, <1>10, <1>11, <1>16 DEF JudgeInv, Judged

\* recv() returns nothing: no verdict.
LEMMA RecvEndsJudged ==
  ASSUME JudgeInv, NEW res \in {"NO_REQUEST", "DONE_RECV", "INTERNAL_ERROR"}, RecvEnds(res)
  PROVE  Judged'
  <1>1. /\ pc = "recv" /\ pc' = "reply" /\ result' = res
        /\ UNCHANGED <<stream, inbox, recvbuf, checked_idx, linest_idx, lastline_stat, check_stat, received>>
    BY DEF RecvEnds, clientVars, kernVars, obsVars
  <1>2. result = "NO_REQUEST"
    BY <1>1 DEF JudgeInv, TypeInv, Once
  <1>3. Undecided'
    BY <1>1, <1>2 DEF JudgeInv, Judged, Undecided
  <1> QED
    BY <1>1, <1>3 DEF JudgeInv, Judged

\* A turn of parse_batch() that finds a line: what the parser makes of the line is
\* what the verdict makes of the bytes.
LEMMA ScanLineJudged == JudgeInv /\ ScanLine => Judged'
  <1> SUFFICES ASSUME JudgeInv, ScanLine PROVE Judged'
    OBVIOUS
  <1> DEFINE s == received
             l == linest_idx
             f == FirstStop
             e == f + 2
  <1>1. /\ s \in Seq(Bytes) /\ Len(s) \in Nat /\ Len(recvbuf) = Len(s)
        /\ checked_idx \in 0 .. Len(s) /\ l \in 0 .. checked_idx /\ l \in Nat
        /\ TypeOK
    BY LenProperties DEF JudgeInv, Judged, TypeInv, TypeOK
  <1>2. pc = "scan" /\ LineStat = "OK" /\ result = "NO_REQUEST"
    BY DEF ScanLine, JudgeInv, TypeInv, Once
  <1>3. Undecided
    BY <1>2 DEF JudgeInv, Judged
  <1>4. Stops # {} /\ ~CrAtEnd(f) /\ (CrLf(f) \/ lastline_stat = "WAITING_N")
    BY <1>2 DEF LineStat
  <1>5. /\ f \in checked_idx .. Len(s) - 1
        /\ \A k \in checked_idx + 1 .. f : s[k] \notin {"CR", "LF"}
        /\ s[f + 1] \in {"CR", "LF"}
        /\ CrLf(f) <=> s[f + 1] = "CR" /\ f + 1 < Len(s)
        /\ CrLf(f) => s[e] = "LF"
    BY <1>4, ScanFacts
  <1>6. CrLf(f)
    <2>1. CASE lastline_stat = "WAITING_N"
      <3>1. checked_idx + 1 < Len(s) /\ s[checked_idx + 1] = "CR"
        BY <1>2, <1>3, <2>1 DEF Undecided
      <3>2. f = checked_idx
        BY <1>1, <1>5, <3>1
      <3> QED
        BY <1>5, <3>1, <3>2
    <2> QED
      BY <1>4, <2>1
  <1> HIDE DEF f
  <1>7. e \in LineEnds(s) /\ e \in Nat /\ e <= Len(s) /\ l < e /\ l <= f /\ f \in Nat
    <2>1. e \in 2 .. Len(s) /\ e - 1 = f + 1 /\ l < e /\ l <= f /\ f \in Nat
      BY <1>1, <1>5, <1>6
    <2> QED
      BY <1>5, <1>6, <2>1 DEF LineEnds
  <1>8. \A k \in l + 1 .. f : s[k] \notin {"CR", "LF"}
    <2>1. \A k \in l + 1 .. f : k \in l + 1 .. checked_idx \/ k \in checked_idx + 1 .. f
      BY <1>1, <1>7
    <2>2. \A k \in l + 1 .. checked_idx : s[k] \notin {"CR", "LF"}
      BY <1>3 DEF Undecided
    <2> QED
      BY <1>5, <2>1, <2>2
  <1>9. \A k \in l + 1 .. e - 1 : s[k] # "LF"
    <2>1. \A k \in l + 1 .. e - 1 : k \in l + 1 .. f \/ k = f + 1
      BY <1>1, <1>7
    <2> QED
      BY <1>5, <1>6, <1>8, <2>1
  <1>10. /\ LineEnd = f
         /\ UNCHANGED <<stream, inbox, received>>
         /\ lastline_stat' = "OK" /\ checked_idx' = e /\ linest_idx' = e
         /\ Len(recvbuf') = Len(s)
         /\ \A j \in 1 .. Len(s) :
              recvbuf'[j] = IF j \in {f + 1, e} THEN "NUL" ELSE recvbuf[j]
    <2>1. LineEnd = f
      BY <1>6 DEF LineEnd, f
    <2>2. TakeLine /\ lastline_stat' = "OK" /\ UNCHANGED <<stream, inbox, received>>
      BY DEF ScanLine, clientVars, obsVars
    <2> QED
      BY <1>1, <1>2, <2>1, <2>2, TakeLineType DEF TakeLine
  <1>11. \A k \in e + 1 .. Len(recvbuf') : recvbuf'[k] = received'[k]
    <2>1. \A k \in e + 1 .. Len(s) : k \in 1 .. Len(s) /\ k \notin {f + 1, e} /\ k \in l + 1 .. Len(s)
      BY <1>1, <1>7
    <2>2. \A k \in l + 1 .. Len(s) : recvbuf[k] = s[k]
      BY <1>1 DEF JudgeInv, Judged
    <2> QED
      BY <1>10, <2>1, <2>2
  <1>12. /\ Line = <<>> <=> f = l
         /\ f > l => Line # <<>> /\ Line[1] = s[l + 1]
    <2>1. Line = SubSeq(recvbuf, l + 1, f)
      BY <1>10 DEF Line
    <2>2. \A k \in l + 1 .. f : recvbuf[k] \in Bytes /\ recvbuf[k] = s[k]
      <3>1. \A k \in l + 1 .. f : k \in l + 1 .. Len(s) /\ k \in 1 .. Len(s)
        BY <1>1, <1>7
      <3> QED
        BY <1>1, <3>1, ElementOfSeq DEF JudgeInv, Judged
    <2>3. l + 1 \in Int /\ f \in Int
      BY <1>1, <1>7
    <2>4. /\ Line \in Seq(Bytes)
          /\ Len(Line) = IF l + 1 <= f THEN f - (l + 1) + 1 ELSE 0
          /\ \A i \in 1 .. f - (l + 1) + 1 : Line[i] = recvbuf[(l + 1) + i - 1]
      BY <2>1, <2>2, <2>3, SubSeqProperties
    <2>5. Line = <<>> <=> Len(Line) = 0
      BY <2>4, EmptySeq
    <2>6. Len(Line) = 0 <=> f = l
      BY <1>1, <1>7, <2>4
    <2>7. f > l => Line[1] = s[l + 1]
      <3>1. f > l => 1 \in 1 .. f - (l + 1) + 1 /\ (l + 1) + 1 - 1 = l + 1 /\ l + 1 \in l + 1 .. f
        BY <1>1, <1>7
      <3> QED
        BY <2>2, <2>4, <3>1
    <2> QED
      BY <1>1, <1>7, <2>5, <2>6, <2>7
  <1>13. LinesDone(s, l) /\ (check_stat = "REQLINE" <=> l = 0) /\ check_stat \in {"REQLINE", "HEADER"}
    BY <1>1, <1>3 DEF Undecided, TypeOK, CheckStats
  <1> HIDE DEF s, l, e
  <1>14. OnlyCrLf((received' \o inbox') \o stream')
    BY <1>10 DEF JudgeInv, Judged
  <1>15. CASE check_stat = "REQLINE" /\ FollowsNull(Line)
    <2>1. result' = result /\ pc' = "crashed"
      BY <1>15 DEF ScanLine, Crashes
    <2> QED
      BY <1>2, <1>10, <1>11, <1>14, <2>1 DEF Judged, s, e
  <1>16. CASE ~(check_stat = "REQLINE" /\ FollowsNull(Line))
    <2>1. /\ result' = ParseLine
          /\ check_stat' = IF ParseLine = "NO_REQUEST" THEN "HEADER" ELSE check_stat
          /\ pc' = IF ParseLine = "NO_REQUEST" THEN "scan" ELSE "reply"
      BY <1>16 DEF ScanLine
    <2>2. CASE check_stat = "REQLINE" /\ ~AcceptsRequestLine(Line)
      <3>1. ParseLine = "BAD_REQUEST"
        BY <2>2 DEF ParseLine
      <3>2. e = 2 \/ s[1] # "req"
        BY <1>7, <1>12, <1>13, <2>2 DEF AcceptsRequestLine, e
      <3>3. \A k \in 1 .. e - 1 : s[k] # "LF"
        BY <1>9, <1>13, <2>2
      <3>4. Verdict(s) = "BAD_REQUEST"
        BY <1>1, <1>7, <3>2, <3>3, VerdictFirst DEF s
      <3> QED
        BY <1>10, <1>11, <1>14, <2>1, <3>1, <3>4 DEF Judged, s, e
    <2>3. CASE check_stat = "HEADER" /\ Line = <<>>
      <3>1. ParseLine = "GOT_REQUEST"
        BY <2>3 DEF ParseLine
      <3>2. l \in LineEnds(s) /\ e = l + 2
        BY <1>12, <1>13, <2>3 DEF LinesDone, e
      <3>3. Verdict(s) = "GOT_REQUEST"
        BY <1>1, <1>7, <1>13, <3>2, VerdictBlank DEF s
      <3> QED
        BY <1>10, <1>11, <1>14, <2>1, <3>1, <3>3 DEF Judged, s, e
    <2>4. CASE \/ check_stat = "REQLINE" /\ AcceptsRequestLine(Line)
               \/ check_stat = "HEADER" /\ Line # <<>>
      <3>1. ParseLine = "NO_REQUEST"
        BY <2>4 DEF ParseLine
      <3>2. f # l
        BY <1>12, <2>4 DEF AcceptsRequestLine
      <3>3. l = 0 => e # 2 /\ s[1] = "req"
        BY <1>1, <1>7, <1>12, <1>13, <2>4, <3>2 DEF AcceptsRequestLine, e, l
      <3>4. l > 0 => e # l + 2
        BY <1>1, <1>7, <3>2 DEF e, l
      <3>5. l \in 0 .. Len(s)
        BY <1>1 DEF s, l
      <3>6. LinesDone(s, e)
        BY <1>1, <1>7, <1>9, <1>13, <3>3, <3>4, <3>5, LineDone DEF s
      <3>7. \A k \in e + 1 .. e : FALSE
        BY <1>7
      <3>8. e # 0
        BY <1>7 DEF e
      <3>9. Undecided'
        BY <1>10, <2>1, <3>1, <3>6, <3>7, <3>8 DEF Undecided, s
      <3> QED
        BY <1>10, <1>11, <1>14, <2>1, <3>1, <3>9 DEF Judged, s, e
    <2> QED
      BY <1>13, <2>2, <2>3, <2>4
  <1> QED
    BY <1>15, <1>16

\* The batch ends within a line, or between a CR and its LF.
LEMMA ScanMoreJudged == JudgeInv /\ ScanMore => Judged'
  <1> SUFFICES ASSUME JudgeInv, ScanMore PROVE Judged'
    OBVIOUS
  <1>1. /\ received \in Seq(Bytes) /\ Len(received) \in Nat /\ ReadIdx = Len(received)
        /\ checked_idx \in 0 .. Len(received) /\ linest_idx \in 0 .. checked_idx
    BY LenProperties DEF JudgeInv, Judged, TypeInv, TypeOK, ReadIdx
  <1>2. /\ pc = "scan" /\ result = "NO_REQUEST" /\ LineStat \in {"OPEN", "WAITING_N"}
        /\ lastline_stat' = LineStat /\ pc' = "recv"
        /\ checked_idx' = IF LineStat = "OPEN" THEN Len(received) ELSE FirstStop
        /\ UNCHANGED <<stream, inbox, received, recvbuf, linest_idx, check_stat, result>>
    BY <1>1 DEF ScanMore, JudgeInv, TypeInv, Once, clientVars, kernVars, obsVars
  <1>3. Undecided
    BY <1>2 DEF JudgeInv, Judged
  <1>4. \A k \in linest_idx + 1 .. checked_idx : received[k] \notin {"CR", "LF"}
    BY <1>3 DEF Undecided
  <1>5. CASE Stops = {}
    <2>1. LineStat = "OPEN" /\ \A k \in checked_idx + 1 .. Len(received) : received[k] \notin {"CR", "LF"}
      BY <1>5, ScanFacts DEF LineStat
    <2>2. \A k \in linest_idx + 1 .. Len(received) :
            k \in linest_idx + 1 .. checked_idx \/ k \in checked_idx + 1 .. Len(received)
      BY <1>1
    <2>3. \A k \in linest_idx + 1 .. Len(received) : received[k] \notin {"CR", "LF"}
      BY <1>4, <2>1, <2>2
    <2>4. Undecided'
      BY <1>2, <1>3, <2>1, <2>3 DEF Undecided
    <2> QED
      BY <1>2, <2>4 DEF JudgeInv, Judged
  <1>6. CASE Stops # {}
    <2> DEFINE f == FirstStop
    <2>1. LineStat = "WAITING_N" /\ CrAtEnd(f)
      BY <1>2, <1>6 DEF LineStat
    <2>2. /\ f \in checked_idx .. Len(received) - 1
          /\ \A k \in checked_idx + 1 .. f : received[k] \notin {"CR", "LF"}
          /\ received[f + 1] = "CR" /\ f + 1 = Len(received)
      BY <1>6, <2>1, ScanFacts
    <2>3. lastline_stat' = "WAITING_N" /\ checked_idx' = f
      BY <1>2, <2>1
    <2> HIDE DEF f
    <2>4. \A k \in linest_idx + 1 .. f : k \in linest_idx + 1 .. checked_idx \/ k \in checked_idx + 1 .. f
      BY <1>1, <2>2
    <2>5. \A k \in linest_idx + 1 .. f : received[k] \notin {"CR", "LF"}
      BY <1>4, <2>2, <2>4
    <2>6. \A k \in linest_idx + 1 .. Len(received) : k \in linest_idx + 1 .. f \/ k = f + 1
      BY <1>1, <2>2
    <2>7. \A k \in linest_idx + 1 .. Len(received) : received[k] # "LF"
      BY <2>2, <2>5, <2>6
    <2>8. f < Len(received)
      BY <1>1, <2>2
    <2>9. Undecided'
      BY <1>2, <1>3, <2>2, <2>3, <2>5, <2>7, <2>8 DEF Undecided
    <2> QED
      BY <1>2, <2>9 DEF JudgeInv, Judged
  <1> QED
    BY <1>5, <1>6

\* An LF without its CR.
LEMMA ScanBadJudged == JudgeInv /\ ScanBad => Judged'
  <1> SUFFICES ASSUME JudgeInv, ScanBad PROVE Judged'
    OBVIOUS
  <1> DEFINE s == received
             f == FirstStop
             l == linest_idx
  <1>1. /\ s \in Seq(Bytes) /\ Len(s) \in Nat
        /\ checked_idx \in 0 .. Len(s) /\ l \in 0 .. checked_idx
    BY LenProperties DEF JudgeInv, Judged, TypeInv, TypeOK
  <1>2. /\ pc = "scan" /\ result = "NO_REQUEST" /\ LineStat = "BAD"
        /\ result' = "BAD_REQUEST"
        /\ UNCHANGED <<stream, inbox, received, recvbuf, linest_idx>>
    BY DEF ScanBad, JudgeInv, TypeInv, Once, clientVars, kernVars, obsVars
  <1>3. Undecided
    BY <1>2 DEF JudgeInv, Judged
  <1>4. Stops # {} /\ ~CrAtEnd(f) /\ ~CrLf(f)
    BY <1>2 DEF LineStat
  <1>5. /\ f \in checked_idx .. Len(s) - 1
        /\ \A k \in checked_idx + 1 .. f : s[k] \notin {"CR", "LF"}
        /\ s[f + 1] \in {"CR", "LF"}
        /\ ~(s[f + 1] = "CR" /\ f + 1 = Len(s))
        /\ ~(s[f + 1] = "CR" /\ f + 1 < Len(s))
    BY <1>4, ScanFacts
  <1> HIDE DEF f
  <1>6. s[f + 1] = "LF" /\ f + 1 \in l + 1 .. Len(s) /\ f \in Nat /\ l \in 0 .. Len(s) /\ l <= f
    BY <1>1, <1>5
  <1>7. \A k \in l + 1 .. f : s[k] \notin {"CR", "LF"}
    <2>1. \A k \in l + 1 .. f : k \in l + 1 .. checked_idx \/ k \in checked_idx + 1 .. f
      BY <1>1, <1>6
    <2>2. \A k \in l + 1 .. checked_idx : s[k] \notin {"CR", "LF"}
      BY <1>3 DEF Undecided
    <2> QED
      BY <1>5, <2>1, <2>2
  <1>8. f + 1 \notin LineEnds(s)
    <2>1. SUFFICES ASSUME f + 1 \in LineEnds(s) PROVE FALSE
      OBVIOUS
    <2>2. f >= 1 /\ s[f] = "CR"
      <3>1. f + 1 \in 2 .. Len(s) /\ s[(f + 1) - 1] = "CR"
        BY <2>1 DEF LineEnds
      <3>2. (f + 1) - 1 = f
        BY <1>6
      <3> QED
        BY <1>6, <3>1, <3>2
    <2>3. CASE l < f
      <3>1. f \in l + 1 .. f
        BY <1>1, <1>6, <2>3
      <3> QED
        BY <1>7, <2>2, <3>1
    <2>4. CASE l = f
      <3>1. l # 0
        BY <2>2, <2>4
      <3>2. s[l] = "LF"
        BY <1>3, <3>1 DEF Undecided, LinesDone, LineEnds
      <3> QED
        BY <2>2, <2>4, <3>2
    <2> QED
      BY <1>1, <1>6, <2>3, <2>4
  <1>9. \A k \in l + 1 .. (f + 1) - 1 : s[k] # "LF"
    BY <1>6, <1>7
  <1>10. LinesDone(s, l)
    BY <1>3 DEF Undecided
  <1> HIDE DEF s, l
  <1>11. Verdict(s) = "BAD_REQUEST"
    BY <1>1, <1>6, <1>8, <1>9, <1>10, VerdictLone
  <1> QED
    BY <1>2, <1>11 DEF JudgeInv, Judged, s

\* The parser's steps, which the serial server shares.
LEMMA ParserJudged ==
  JudgeInv /\ (RecvData \/ RecvEmpty \/ RecvZero \/ RecvError \/ ScanLine \/ ScanMore \/ ScanBad)
    => Judged'
  <1>1. ASSUME JudgeInv, RecvEmpty \/ RecvZero \/ RecvError PROVE Judged'
    <2>1. PICK res \in {"NO_REQUEST", "DONE_RECV", "INTERNAL_ERROR"} : RecvEnds(res)
      BY <1>1 DEF RecvEmpty, RecvZero, RecvError, RecvEnds, JudgeInv, TypeInv, Once
    <2> QED
      BY <1>1, <2>1, RecvEndsJudged
  <1> QED
    BY <1>1, RecvDataJudged, ScanLineJudged, ScanMoreJudged, ScanBadJudged

\* What the parser says is the verdict on the bytes received.
LEMMA JudgedVerdict == JudgeInv => PiecesDontMatter
  <1> SUFFICES ASSUME JudgeInv, NEW r \in Parsed PROVE r = Verdict(received)
    BY DEF PiecesDontMatter
  <1>1. /\ received \in Seq(Bytes) /\ linest_idx \in 0 .. Len(received)
    BY LenProperties DEF JudgeInv, Judged, TypeInv, TypeOK
  <1>2. pc \in {"recv", "reply"} /\ (pc = "recv" => r = "NO_REQUEST") /\ (pc = "reply" => r = result)
    BY DEF Parsed
  <1>3. r = result /\ r \in {"GOT_REQUEST", "BAD_REQUEST", "NO_REQUEST"}
    BY <1>2 DEF JudgeInv, TypeInv, Once, Parsed
  <1>4. CASE r \in {"GOT_REQUEST", "BAD_REQUEST"}
    BY <1>3, <1>4 DEF JudgeInv, Judged
  <1>5. CASE r = "NO_REQUEST"
    <2>1. LinesDone(received, linest_idx) /\ \A k \in linest_idx + 1 .. Len(received) : received[k] # "LF"
      BY <1>2, <1>3, <1>5 DEF JudgeInv, Judged, Undecided
    <2> QED
      BY <1>1, <1>5, <2>1, VerdictOpen
  <1> QED
    BY <1>3, <1>4, <1>5

\* No bytes, no verdict.
LEMMA NothingReceived ==
  /\ LinesDone(<<>>, 0)
  /\ \A s \in Seq(Bytes) : (<<>> \o <<>>) \o s = s
  <1>1. Len(<<>>) = 0 /\ <<>> \in Seq(Bytes) /\ <<>> \o <<>> = <<>>
    BY EmptySeq, ConcatEmptySeq
  <1>2. LineEnds(<<>>) = {} /\ LoneLFs(<<>>) = {}
    BY <1>1 DEF LineEnds, LoneLFs
  <1>3. LinesDone(<<>>, 0)
    BY <1>2 DEF LinesDone, BadFirst, Blank
  <1>4. \A s \in Seq(Bytes) : <<>> \o s = s
    BY ConcatEmptySeq
  <1> QED
    BY <1>1, <1>3, <1>4

LEMMA JudgeInvariant ==
  ASSUME \A s \in Streams : OnlyCrLf(s)
  PROVE  Spec => []JudgeInv
  <1>1. ASSUME Init PROVE JudgeInv
    <2>1. stream \in Streams /\ stream \in Seq(Bytes)
      BY <1>1, ReqAssumption DEF Init
    <2>2. OnlyCrLf((received \o inbox) \o stream)
      BY <1>1, <2>1, NothingReceived DEF Init
    <2>3. Len(received) = 0 /\ Len(recvbuf) = 0
      BY <1>1, EmptySeq DEF Init
    <2>4. Undecided
      BY <1>1, <2>3, NothingReceived DEF Init, Undecided
    <2> QED
      BY <1>1, <2>2, <2>3, <2>4, InitType DEF Init, JudgeInv, Judged
  <1>2. ASSUME JudgeInv, [Next]_vars PROVE JudgeInv'
    <2>1. TypeInv'
      BY <1>2, ClientType, ReceiveType, ScanType, ReplyType, StutterType DEF JudgeInv, Next, Child
    <2>2. ASSUME UNCHANGED vars PROVE Judged'
      BY <1>2, <2>2, QuietJudged DEF vars, clientVars, kernVars, obsVars
    <2>3. ASSUME Next PROVE Judged'
      BY <1>2, <2>3, ArriveJudged, OthersJudged, ParserJudged DEF Next, Client, Child
    <2>4. Judged'
      BY <1>2, <2>2, <2>3
    <2> QED
      BY <2>1, <2>4 DEF JudgeInv
  <1> QED
    BY <1>1, <1>2, PTL DEF Spec

\* The outcome of a connection depends on the bytes received and not on the pieces that
\* recv() cut them into, for streams of every length without a lone CR and for
\* buffers of every size.  (ReqStatMach.h:139-166, 203-241, 293-362.)  A stream with
\* a lone CR may be taken for more than it is: LinesEndInCrLf of MCReqStatMach does not hold.
THEOREM VerdictOfTheBytes ==
  ASSUME \A s \in Streams : OnlyCrLf(s)
  PROVE  Spec => []PiecesDontMatter
  <1> QED
    BY JudgeInvariant, JudgedVerdict, PTL

\* The streams of the runs are among them.
LEMMA CleanIsOnlyCrLf == \A s \in Seq(Bytes) : Clean(s) => OnlyCrLf(s)
  BY LenProperties DEF Clean, OnlyCrLf

-----------------------------------------------------------------------------
(* A request that has arrived in time is not overlooked.                    *)

\* Sequence w begins with s.
BeginsWith(w, s) == Len(s) <= Len(w) /\ \A k \in 1 .. Len(s) : w[k] = s[k]

\* Once there is a verdict, what is sent after it changes nothing.
LEMMA VerdictOfPrefix ==
  ASSUME NEW w \in Seq(Bytes), NEW s \in Seq(Bytes), BeginsWith(w, s),
         Verdict(s) # "NO_REQUEST"
  PROVE  Verdict(w) = Verdict(s)
  <1> DEFINE n == Len(s)
             m == Len(w)
             bad(q) == LoneLFs(q) \cup BadFirst(q)
  <1>1. n \in Nat /\ m \in Nat /\ n <= m /\ \A k \in 1 .. n : w[k] = s[k]
    BY LenProperties DEF BeginsWith
  <1>2. \A k \in 0 .. n : k \in LineEnds(w) <=> k \in LineEnds(s)
    BY <1>1 DEF LineEnds
  <1>3. \A k \in LineEnds(s) : k \in 2 .. n
    BY <1>1 DEF LineEnds
  <1>4. \A k \in LineEnds(w) : k \in 2 .. m
    BY <1>1 DEF LineEnds
  <1>5. \A k \in 0 .. n : k \in LoneLFs(w) <=> k \in LoneLFs(s)
    BY <1>1, <1>2 DEF LoneLFs
  <1>6. \A k \in 0 .. n : k \in BadFirst(w) <=> k \in BadFirst(s)
    <2> TAKE k \in 0 .. n
    <2>1. CASE k \in LineEnds(s)
      <3>1. k \in LineEnds(w) /\ k \in 2 .. n /\ w[1] = s[1]
        BY <1>1, <1>2, <1>3, <2>1
      <3>2. (\A l \in LineEnds(w) : k <= l) <=> (\A l \in LineEnds(s) : k <= l)
        <4>1. \A l \in LineEnds(w) : l <= n => l \in LineEnds(s)
          BY <1>1, <1>2, <1>4
        <4>2. \A l \in LineEnds(s) : l \in LineEnds(w)
          BY <1>1, <1>2, <1>3
        <4>3. \A l \in LineEnds(w) : l <= n \/ k <= l
          BY <1>1, <1>4, <3>1
        <4> QED
          BY <4>1, <4>2, <4>3
      <3> QED
        BY <2>1, <3>1, <3>2 DEF BadFirst
    <2>2. CASE k \notin LineEnds(s)
      BY <1>2, <2>2 DEF BadFirst
    <2> QED
      BY <2>1, <2>2
  <1>7. \A k \in 0 .. n : k \in Blank(w) <=> k \in Blank(s)
    <2> TAKE k \in 0 .. n
    <2>1. k - 2 \in LineEnds(w) <=> k - 2 \in LineEnds(s)
      <3>1. CASE k >= 2
        BY <1>1, <1>2, <3>1
      <3>2. CASE k < 2
        BY <1>1, <1>3, <1>4, <3>2
      <3> QED
        BY <1>1, <3>1, <3>2
    <2> QED
      BY <1>2, <2>1 DEF Blank
  <1>8. /\ \A k \in bad(s) \cup Blank(s) : k \in 1 .. n
        /\ \A k \in bad(w) \cup Blank(w) : k \in 1 .. m
    BY <1>1, <1>3, <1>4 DEF LoneLFs, BadFirst, Blank
  <1>9. /\ \A k \in 1 .. n : k \in bad(w) <=> k \in bad(s)
        /\ \A k \in 1 .. n : k \in Blank(w) <=> k \in Blank(s)
    BY <1>1, <1>5, <1>6, <1>7
  <1> HIDE DEF n, m, bad
  <1>10. CASE \E k \in bad(s) : \A l \in Blank(s) : k < l
    <2>1. PICK k \in bad(s) : \A l \in Blank(s) : k < l
      BY <1>10
    <2>2. k \in bad(w) /\ k \in 1 .. n
      BY <1>8, <1>9
    <2>3. \A l \in Blank(w) : l \in Blank(s) \/ l > n
      BY <1>1, <1>8, <1>9
    <2>4. ASSUME NEW l \in Blank(w) PROVE k < l
      <3>1. l \in Nat
        BY <1>8
      <3>2. l \in Blank(s) \/ l > n
        BY <2>3
      <3>3. CASE l \in Blank(s)
        BY <2>1, <3>3
      <3>4. CASE l > n
        BY <1>1, <2>2, <3>1, <3>4
      <3> QED
        BY <3>2, <3>3, <3>4
    <2> QED
      BY <1>10, <2>2, <2>4 DEF Verdict, bad
  <1>11. CASE ~ \E k \in bad(s) : \A l \in Blank(s) : k < l
    <2>1. Verdict(s) = "GOT_REQUEST" /\ Blank(s) # {}
      BY <1>11 DEF Verdict, bad
    <2>2. PICK b \in Blank(s) : TRUE
      BY <2>1
    <2>3. b \in Blank(w) /\ b \in 1 .. n
      BY <1>8, <1>9
    <2>4. ASSUME NEW k \in bad(w), \A l \in Blank(w) : k < l
          PROVE  FALSE
      <3>1. k \in 1 .. n
        BY <1>1, <1>8, <2>3, <2>4
      <3>2. k \in bad(s) /\ \A l \in Blank(s) : k < l
        BY <1>8, <1>9, <2>4, <3>1
      <3> QED
        BY <1>11, <3>2
    <2>5. Verdict(w) = "GOT_REQUEST"
      BY <2>3, <2>4 DEF Verdict, bad
    <2> QED
      BY <2>1, <2>5
  <1> QED
    BY <1>10, <1>11

\* Two beginnings of the same bytes do not contradict each other.
LEMMA OneVerdict ==
  ASSUME NEW w \in Seq(Bytes), NEW s \in Seq(Bytes), NEW t \in Seq(Bytes),
         BeginsWith(w, s), BeginsWith(w, t),
         Verdict(s) # "NO_REQUEST", Verdict(t) # "NO_REQUEST"
  PROVE  Verdict(s) = Verdict(t)
  <1>1. Verdict(w) = Verdict(s)
    BY VerdictOfPrefix
  <1>2. Verdict(w) = Verdict(t)
    BY VerdictOfPrefix
  <1> QED
    BY <1>1, <1>2

\* A request starts with a request line.
LEMMA RequestsStart ==
  ASSUME NEW s \in Seq(Bytes), Verdict(s) = "GOT_REQUEST"
  PROVE  Len(s) > 0 /\ s[1] = "req"
  <1>1. Len(s) \in Nat
    BY LenProperties
  <1>2. /\ Blank(s) # {}
        /\ \A k \in BadFirst(s) : ~ \A l \in Blank(s) : k < l
    BY DEF Verdict
  <1>3. LineEnds(s) # {} /\ LineEnds(s) \in SUBSET Nat
    BY <1>1, <1>2 DEF Blank, LineEnds
  <1>4. PICK k \in LineEnds(s) : \A l \in LineEnds(s) : k <= l
    BY <1>3, LeastElement
  <1>5. k \in 2 .. Len(s)
    BY <1>1 DEF LineEnds
  <1>6. \A l \in Blank(s) : k < l
    <2> TAKE l \in Blank(s)
    <2>1. l \in Nat /\ l - 2 \in LineEnds(s)
      BY <1>1 DEF Blank, LineEnds
    <2>2. k <= l - 2
      BY <1>4, <2>1
    <2> QED
      BY <1>1, <1>5, <2>1, <2>2
  <1>7. k \notin BadFirst(s)
    BY <1>2, <1>6
  <1> QED
    BY <1>1, <1>4, <1>5, <1>7 DEF BadFirst

\* Request s has arrived, and the child is reading it or about to be woken for it.
InTime(s) ==
  /\ sockfd = "fd" /\ result = "NO_REQUEST"
  /\ pc \in {"recv", "scan"} \/ (pc = "wait" /\ edge)
  /\ Len(s) <= BufSize /\ Verdict(s) = "GOT_REQUEST"
  /\ BeginsWith(received \o inbox, s)

\* And it will be answered, unless writev() finds the client gone.
Replying == pc = "reply" /\ result = "GOT_REQUEST"

\* A sequence and what follows it.
LEMMA BeginsType ==
  ASSUME NEW r \in Seq(Bytes), NEW i \in Seq(Bytes)
  PROVE  /\ r \o i \in Seq(Bytes) /\ BeginsWith(r \o i, r)
         /\ i = <<>> => r \o i = r
  <1>1. Len(r) \in Nat /\ Len(i) \in Nat
    BY LenProperties
  <1>2. /\ r \o i \in Seq(Bytes) /\ Len(r \o i) = Len(r) + Len(i)
        /\ \A k \in 1 .. Len(r) + Len(i) : (r \o i)[k] = IF k <= Len(r) THEN r[k] ELSE i[k - Len(r)]
    BY ConcatProperties
  <1>3. BeginsWith(r \o i, r)
    BY <1>1, <1>2 DEF BeginsWith
  <1> QED
    BY <1>2, <1>3, ConcatEmptySeq

\* More bytes behind it do not change what a sequence begins with.
LEMMA BeginsLonger ==
  ASSUME NEW w \in Seq(Bytes), NEW b \in Seq(Bytes), NEW s \in Seq(Bytes), BeginsWith(w, s)
  PROVE  BeginsWith(w \o b, s)
  <1>1. Len(w) \in Nat /\ Len(b) \in Nat /\ Len(s) \in Nat
    BY LenProperties
  <1>2. /\ Len(w \o b) = Len(w) + Len(b)
        /\ \A k \in 1 .. Len(w) + Len(b) : (w \o b)[k] = IF k <= Len(w) THEN w[k] ELSE b[k - Len(w)]
    BY ConcatProperties
  <1> QED
    BY <1>1, <1>2 DEF BeginsWith

\* What is sent joins the bytes that have arrived, at their end.
LEMMA ArriveBegins ==
  ASSUME JudgeInv, Arrive, NEW s \in Seq(Bytes), BeginsWith(received \o inbox, s)
  PROVE  BeginsWith(received' \o inbox', s)
  <1>1. PICK n \in 1 .. Len(stream) : inbox' = inbox \o SubSeq(stream, 1, n)
    BY DEF Arrive
  <1>2. stream \in Seq(Bytes) /\ inbox \in Seq(Bytes) /\ received \in Seq(Bytes) /\ received' = received
    BY DEF JudgeInv, TypeInv, TypeOK, Arrive, obsVars
  <1>3. n \in 0 .. Len(stream)
    BY <1>2, LenProperties
  <1> DEFINE a == SubSeq(stream, 1, n)
  <1>4. a \in Seq(Bytes)
    BY <1>2, <1>3, Cut
  <1> HIDE DEF a
  <1>5. \A x, y, z \in Seq(Bytes) : (x \o y) \o z = x \o (y \o z)
    BY BytesAssociate
  <1>6. received' \o inbox' = (received \o inbox) \o a
    BY <1>1, <1>2, <1>4, <1>5 DEF a
  <1>7. received \o inbox \in Seq(Bytes)
    BY <1>2, BeginsType
  <1> QED
    BY <1>4, <1>6, <1>7, BeginsLonger

\* recv() moves bytes from the kernel to the buffer.
LEMMA RecvDataBegins ==
  ASSUME JudgeInv, RecvData
  PROVE  received' \o inbox' = received \o inbox
  <1> DEFINE n == IF Len(inbox) < Room THEN Len(inbox) ELSE Room
             batch == SubSeq(inbox, 1, n)
             rest == SubSeq(inbox, n + 1, Len(inbox))
  <1>1. inbox \in Seq(Bytes) /\ received \in Seq(Bytes) /\ Len(inbox) \in Nat
    BY LenProperties DEF JudgeInv, TypeInv, TypeOK
  <1>2. n \in 0 .. Len(inbox)
    <2>1. Room \in Int /\ Room > 0
      BY LenProperties, ReqAssumption DEF JudgeInv, TypeInv, TypeOK, RecvData, Room
    <2> QED
      BY <1>1, <2>1
  <1>3. received' = received \o batch /\ inbox' = rest
    BY DEF RecvData
  <1> HIDE DEF n
  <1>4. batch \in Seq(Bytes) /\ rest \in Seq(Bytes) /\ batch \o rest = inbox
    BY <1>1, <1>2, Cut, CutJoins
  <1> HIDE DEF batch, rest
  <1>5. \A x, y, z \in Seq(Bytes) : (x \o y) \o z = x \o (y \o z)
    BY BytesAssociate
  <1> QED
    BY <1>1, <1>3, <1>4, <1>5

\* While the child asks for more, there is no request in what it has received.
LEMMA AsksForMore ==
  ASSUME JudgeInv, pc = "recv", NEW s \in Seq(Bytes), Verdict(s) = "GOT_REQUEST"
  PROVE  ~ BeginsWith(received, s)
  <1>1. received \in Seq(Bytes)
    BY DEF JudgeInv, TypeInv, TypeOK
  <1>2. Verdict(received) = "NO_REQUEST"
    BY JudgedVerdict DEF PiecesDontMatter, Parsed
  <1> QED
    BY <1>1, <1>2, VerdictOfPrefix

\* A buffer without room holds every request that fits it.
LEMMA FullHolds ==
  ASSUME JudgeInv, Room = 0, NEW w \in Seq(Bytes), NEW s \in Seq(Bytes), Len(s) <= BufSize,
         BeginsWith(w, received), BeginsWith(w, s)
  PROVE  BeginsWith(received, s)
  <1>1. /\ Len(received) \in Nat /\ Len(s) \in Nat
        /\ Len(recvbuf) = Len(received)
    BY LenProperties DEF JudgeInv, Judged, TypeInv, TypeOK
  <1>2. Len(s) <= Len(received)
    BY <1>1, ReqAssumption DEF Room
  <1> QED
    BY <1>1, <1>2 DEF BeginsWith

\* recv() returns nothing, or has no room, only when the request is received: then the
\* parser has seen it, and does not ask for more.
LEMMA NoRequestLeft ==
  ASSUME JudgeInv, pc = "recv", inbox = <<>> \/ Room = 0,
         NEW s \in Seq(Bytes), Len(s) <= BufSize, Verdict(s) = "GOT_REQUEST",
         BeginsWith(received \o inbox, s)
  PROVE  FALSE
  <1>1. received \in Seq(Bytes) /\ inbox \in Seq(Bytes)
    BY DEF JudgeInv, TypeInv, TypeOK
  <1>2. /\ received \o inbox \in Seq(Bytes) /\ BeginsWith(received \o inbox, received)
        /\ inbox = <<>> => received \o inbox = received
    BY <1>1, BeginsType
  <1>3. CASE inbox = <<>>
    BY <1>2, <1>3, AsksForMore
  <1>4. CASE Room = 0
    BY <1>2, <1>4, FullHolds, AsksForMore
  <1> QED
    BY <1>3, <1>4

\* The text of the first line is that of the first bytes received.
LEMMA LineStarts ==
  ASSUME JudgeInv, ScanLine, check_stat = "REQLINE", FollowsNull(Line)
  PROVE  Len(received) > 0 /\ received[1] = "get"
  <1>1. /\ received \in Seq(Bytes) /\ Len(recvbuf) = Len(received) /\ Len(received) \in Nat
        /\ recvbuf \in Seq(Bytes \cup {"NUL"})
        /\ \A k \in linest_idx + 1 .. Len(recvbuf) : recvbuf[k] = received[k]
    BY LenProperties DEF JudgeInv, Judged, TypeInv, TypeOK
  <1>2. linest_idx = 0
    BY DEF JudgeInv, Judged, Undecided, TypeInv, Once, ScanLine
  <1>3. LineEnd \in Int /\ LineEnd <= Len(recvbuf)
    <2>1. TypeOK /\ LineStat = "OK"
      BY DEF JudgeInv, TypeInv, ScanLine
    <2>2. checked_idx \in Nat
      BY <2>1 DEF TypeOK
    <2>3. LineEnd \in Int /\ LineEnd + 2 \in checked_idx + 1 .. Len(recvbuf)
      BY <2>1, LineFacts DEF ReadIdx
    <2> QED
      BY <1>1, <2>2, <2>3
  <1>4. Line = SubSeq(recvbuf, 1, LineEnd)
    BY <1>2 DEF Line
  <1>5. \A k \in 1 .. LineEnd : recvbuf[k] \in Bytes \cup {"NUL"}
    BY <1>1, <1>3, ElementOfSeq
  <1>6. /\ Len(Line) = IF 1 <= LineEnd THEN LineEnd - 1 + 1 ELSE 0
        /\ \A k \in 1 .. LineEnd - 1 + 1 : Line[k] = recvbuf[1 + k - 1]
    <2>1. 1 \in Int
      OBVIOUS
    <2> QED
      BY <1>3, <1>4, <1>5, <2>1, SubSeqProperties
  <1>7. Line[1] = "get" /\ Len(Line) = 1
    BY DEF FollowsNull
  <1>8. LineEnd = 1 /\ recvbuf[1] = "get"
    BY <1>3, <1>6, <1>7
  <1> QED
    BY <1>1, <1>2, <1>3, <1>8

\* What the scanner decides is what the request is, which does not follow the null
\* pointer.
LEMMA ScanRequest ==
  ASSUME JudgeInv, JudgeInv', ScanLine \/ ScanMore \/ ScanBad,
         NEW w \in Seq(Bytes), NEW s \in Seq(Bytes), Verdict(s) = "GOT_REQUEST",
         BeginsWith(w, received), BeginsWith(w, s)
  PROVE  \/ pc' \in {"recv", "scan"} /\ result' = "NO_REQUEST"
         \/ Replying'
  <1>1. received' = received /\ received \in Seq(Bytes) /\ Len(received) \in Nat
    BY LenProperties DEF ScanLine, ScanMore, ScanBad, obsVars, JudgeInv, TypeInv, TypeOK
  <1>2. pc' # "crashed"
    <2> SUFFICES ASSUME pc' = "crashed" PROVE FALSE
      OBVIOUS
    <2>1. ScanLine /\ check_stat = "REQLINE" /\ FollowsNull(Line)
      BY DEF ScanLine, ScanMore, ScanBad, Crashes
    <2>2. Len(received) > 0 /\ received[1] = "get"
      BY <2>1, LineStarts
    <2>3. Len(s) > 0 /\ s[1] = "req" /\ Len(s) \in Nat
      BY RequestsStart, LenProperties
    <2>4. w[1] = received[1] /\ w[1] = s[1]
      BY <1>1, <2>2, <2>3 DEF BeginsWith
    <2> QED
      BY <2>2, <2>3, <2>4
  <1>3. CASE pc' \in {"recv", "scan"}
    BY <1>3 DEF JudgeInv, TypeInv, Once
  <1>4. CASE pc' = "reply"
    <2>1. result' \in {"GOT_REQUEST", "BAD_REQUEST"}
      BY <1>4 DEF ScanLine, ScanMore, ScanBad, ParseLine, Crashes, JudgeInv, TypeInv, TypeOK, CheckStats
    <2>2. Verdict(received) = result'
      BY <1>1, <2>1 DEF JudgeInv, Judged
    <2>3. Verdict(received) # "NO_REQUEST"
      BY <2>1, <2>2
    <2>4. Verdict(received) = Verdict(s)
      BY <1>1, <2>3, OneVerdict
    <2> QED
      BY <1>4, <2>2, <2>4 DEF Replying
  <1>5. pc' \in {"recv", "scan", "reply", "crashed"}
    BY DEF ScanLine, ScanMore, ScanBad, Crashes
  <1> QED
    BY <1>2, <1>3, <1>4, <1>5

\* The scanner does not lose a request that has arrived in time.
LEMMA ScanInTime ==
  ASSUME JudgeInv, JudgeInv', NEW s \in Seq(Bytes), InTime(s), ScanLine \/ ScanMore \/ ScanBad
  PROVE  InTime(s)' \/ Replying'
  <1>1. UNCHANGED <<received, inbox, sockfd>>
    BY DEF ScanLine, ScanMore, ScanBad, kernVars, obsVars
  <1>2. received \in Seq(Bytes) /\ inbox \in Seq(Bytes)
    BY DEF JudgeInv, TypeInv, TypeOK
  <1>3. received \o inbox \in Seq(Bytes) /\ BeginsWith(received \o inbox, received)
    BY <1>2, BeginsType
  <1>4. Verdict(s) = "GOT_REQUEST" /\ BeginsWith(received \o inbox, s)
    BY DEF InTime
  <1>5. CASE pc' \in {"recv", "scan"} /\ result' = "NO_REQUEST"
    <2>1. BeginsWith(received' \o inbox', s)
      BY <1>1, <1>4
    <2> QED
      BY <1>1, <1>5, <2>1 DEF InTime
  <1> QED
    BY <1>3, <1>4, <1>5, ScanRequest

\* Every step leaves the request to be read, or ends with the answer.
LEMMA InTimeStep ==
  ASSUME JudgeInv, JudgeInv', [Next]_vars, NEW s \in Seq(Bytes), InTime(s)
  PROVE  InTime(s)' \/ Replying'
  <1>1. received \in Seq(Bytes) /\ inbox \in Seq(Bytes)
    BY DEF JudgeInv, TypeInv, TypeOK
  <1>2. CASE UNCHANGED vars
    BY <1>2 DEF vars, clientVars, kernVars, parseVars, obsVars, InTime
  <1>3. CASE Arrive
    <2>1. BeginsWith(received' \o inbox', s)
      BY <1>3, ArriveBegins DEF InTime
    <2> QED
      BY <1>3, <2>1 DEF Arrive, InTime, parseVars
  <1>4. CASE Leave
    BY <1>4 DEF Leave, InTime, parseVars, obsVars
  <1>5. CASE Event
    <2>1. pc' = "recv" /\ UNCHANGED <<sockfd, result, received, inbox>>
      BY <1>5 DEF Event, InTime, parseVars, obsVars
    <2>2. BeginsWith(received' \o inbox', s)
      BY <2>1 DEF InTime
    <2> QED
      BY <2>1, <2>2 DEF InTime
  <1>6. CASE RecvData
    <2>1. received' \o inbox' = received \o inbox
      BY <1>6, RecvDataBegins
    <2> QED
      BY <1>6, <2>1 DEF RecvData, InTime
  <1>7. CASE RecvEmpty \/ RecvZero \/ RecvError
    <2>1. pc = "recv" /\ (inbox = <<>> \/ Room = 0)
      BY <1>7 DEF RecvEmpty, RecvZero, RecvError, RecvEnds, InTime
    <2> QED
      BY <2>1, NoRequestLeft DEF InTime
  <1>8. CASE ScanLine \/ ScanMore \/ ScanBad
    BY <1>8, ScanInTime
  <1>9. CASE Reply \/ ReplySigPipe
    BY <1>9 DEF Reply, ReplySigPipe, InTime
  <1> QED
    BY <1>2, <1>3, <1>4, <1>5, <1>6, <1>7, <1>8, <1>9 DEF Next, Client, Child

\* The safety half of CompleteRequestAnswered: a request that has arrived before the
\* child turned away is not overlooked, whatever arrives behind it and however it is
\* cut: until the child is about to answer it, the child is reading or has a wake-up;
\* and the answer is given and the connection closed, unless the client is gone.
\* (ReqStatMach.h:139-199.)  Fairness of the child does the rest.
NotOverlooked ==
  [][/\ \A s \in Seq(Bytes) : InTime(s) => InTime(s)' \/ Replying'
     /\ Replying => \/ Replying'
                    \/ answered' = 1 /\ ~ fd_open'
                    \/ pc' = "crashed" /\ peer = "gone"]_vars

THEOREM RequestsInTimeAnswered ==
  ASSUME \A s \in Streams : OnlyCrLf(s)
  PROVE  Spec => NotOverlooked
  <1>1. ASSUME JudgeInv, [Next]_vars, Replying
        PROVE  \/ Replying'
               \/ answered' = 1 /\ ~ fd_open'
               \/ pc' = "crashed" /\ peer = "gone"
    <2>1. sockfd = "fd" /\ answered = 0
      BY <1>1 DEF JudgeInv, TypeInv, TypeOK, Once, AnsweredIsOver, Replying
    <2>2. CASE Reply
      <3>1. answered' = 1
        BY <1>1, <2>1, <2>2 DEF Reply, Replying
      <3>2. ~ fd_open'
        BY <1>1, <2>1, <2>2 DEF Reply, Replying, DelFd
      <3> QED
        BY <3>1, <3>2
    <2>3. CASE ReplySigPipe
      BY <2>3 DEF ReplySigPipe, Crashes
    <2>4. CASE ~ Reply /\ ~ ReplySigPipe
      BY <1>1, <2>4 DEF Next, Client, Child, Arrive, Leave, Event, RecvData, RecvEmpty, RecvZero,
         RecvError, RecvEnds, ScanLine, ScanMore, ScanBad, Replying, vars, parseVars
    <2> QED
      BY <2>2, <2>3, <2>4
  <1>2. JudgeInv /\ JudgeInv' /\ [Next]_vars
          => [/\ \A s \in Seq(Bytes) : InTime(s) => InTime(s)' \/ Replying'
              /\ Replying => \/ Replying'
                             \/ answered' = 1 /\ ~ fd_open'
                             \/ pc' = "crashed" /\ peer = "gone"]_vars
    BY <1>1, InTimeStep
  <1> QED
    BY <1>2, JudgeInvariant, PTL DEF Spec, NotOverlooked

=============================================================================

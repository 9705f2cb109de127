--------------------------- MODULE TimerListProofs ---------------------------
(***************************************************************************)
(* The list of timers, for any number of timers and times: what the calls of *)
(* SortedTimers return, that the pointers of TimerSortedList are well linked  *)
(* after any of them, and that they implement the sorted list.               *)
(***************************************************************************)
EXTENDS MCTimers, ChatTableProofs, SequenceTheorems, FunctionTheorems, FiniteSetTheorems

-----------------------------------------------------------------------------
(* Sequences with an element more, and an element less.                     *)

LEMMA Concatenated ==
  ASSUME NEW S, NEW a \in Seq(S), NEW b \in Seq(S),
         NEW p \in Nat, p = Len(a), NEW n \in Nat, n = p + Len(b)
  PROVE  /\ a \o b \in Seq(S) /\ Len(a \o b) = n
         /\ \A i \in 1 .. n : (a \o b)[i] = IF i <= p THEN a[i] ELSE b[i - p]
  BY ConcatProperties

LEMMA SubSequence ==
  ASSUME NEW S, NEW l \in Seq(S), NEW m \in 1 .. Len(l) + 1, NEW n \in 0 .. Len(l),
         m <= n + 1
  PROVE  /\ SubSeq(l, m, n) \in Seq(S) /\ Len(SubSeq(l, m, n)) = n - m + 1
         /\ \A i \in 1 .. n - m + 1 : SubSeq(l, m, n)[i] = l[m + i - 1]
  <1>1. Len(l) \in Nat /\ \A i \in 1 .. Len(l) : l[i] \in S
    BY LenProperties, ElementOfSeq
  <1>2. \A i \in m .. n : l[i] \in S
    BY <1>1
  <1>3. m \in Int /\ n \in Int
    BY <1>1
  <1>4. /\ SubSeq(l, m, n) \in Seq(S)
        /\ Len(SubSeq(l, m, n)) = IF m <= n THEN n - m + 1 ELSE 0
        /\ \A i \in 1 .. n - m + 1 : SubSeq(l, m, n)[i] = l[m + i - 1]
    BY <1>2, <1>3, SubSeqProperties
  <1> QED
    BY <1>1, <1>4

LEMMA InsertedAt ==
  ASSUME NEW S, NEW l \in Seq(S), NEW x \in S, NEW k \in 1 .. Len(l) + 1
  PROVE  LET s == SortedList!InsertAt(l, k, x)
         IN  /\ s \in Seq(S) /\ Len(s) = Len(l) + 1
             /\ \A i \in 1 .. Len(l) + 1 :
                  s[i] = IF i < k THEN l[i] ELSE IF i = k THEN x ELSE l[i - 1]
  <1> DEFINE a == SubSeq(l, 1, k - 1)
             b == a \o <<x>>
             c == SubSeq(l, k, Len(l))
             n == Len(l)
             s == b \o c
  <1>1. n \in Nat /\ k \in Nat /\ k - 1 \in 0 .. n /\ 1 \in 1 .. n + 1 /\ n \in 0 .. n
    BY LenProperties
  <1>2. a \in Seq(S) /\ Len(a) = k - 1 /\ \A i \in 1 .. k - 1 : a[i] = l[i]
    BY <1>1, SubSequence
  <1>3. c \in Seq(S) /\ Len(c) = n - k + 1 /\ \A i \in 1 .. n - k + 1 : c[i] = l[k + i - 1]
    BY <1>1, SubSequence
  <1> HIDE DEF a, c, n
  <1>4. b = Append(a, x)
    BY <1>2, AppendIsConcat
  <1> HIDE DEF b
  <1>5. b \in Seq(S) /\ Len(b) = k /\ (\A i \in 1 .. k - 1 : b[i] = a[i]) /\ b[k] = x
    BY <1>1, <1>2, <1>4, AppendProperties
  <1>6. /\ s \in Seq(S) /\ Len(s) = n + 1
        /\ \A i \in 1 .. n + 1 : s[i] = IF i <= k THEN b[i] ELSE c[i - k]
    <2>1. k = Len(b) /\ n + 1 = k + Len(c) /\ n + 1 \in Nat
      BY <1>1, <1>3, <1>5
    <2>2. b \in Seq(S) /\ c \in Seq(S) /\ k \in Nat
      BY <1>1, <1>3, <1>5
    <2> QED
      BY <2>1, <2>2, Concatenated
  <1> HIDE DEF s
  <1>7. ASSUME NEW i \in 1 .. n + 1
        PROVE  s[i] = IF i < k THEN l[i] ELSE IF i = k THEN x ELSE l[i - 1]
    <2>1. CASE i < k
      BY <1>1, <1>2, <1>5, <1>6, <2>1
    <2>2. CASE i = k
      <3>1. s[k] = b[k] /\ ~(k < k)
        BY <1>1, <1>6, <2>2
      <3> QED
        BY <1>5, <2>2, <3>1
    <2>3. CASE i > k
      <3>1. i - k \in 1 .. n - k + 1 /\ k + (i - k) - 1 = i - 1 /\ ~(i <= k) /\ ~(i < k)
        BY <1>1, <2>3
      <3>2. c[i - k] = l[k + (i - k) - 1]
        BY <1>3, <3>1
      <3>3. s[i] = c[i - k]
        BY <1>6, <3>1
      <3>4. c[i - k] = l[i - 1] /\ i # k
        BY <2>3, <3>1, <3>2
      <3> QED
        BY <3>1, <3>3, <3>4
    <2>4. i < k \/ i = k \/ i > k
      BY <1>1
    <2> QED
      BY <2>1, <2>2, <2>3, <2>4
  <1>8. SortedList!InsertAt(l, k, x) = s
    BY DEF SortedList!InsertAt, a, b, c, s
  <1> QED
    BY <1>6, <1>7, <1>8 DEF n

LEMMA RemovedAt ==
  ASSUME NEW S, NEW l \in Seq(S), NEW k \in 1 .. Len(l)
  PROVE  LET s == SortedList!RemoveAt(l, k)
         IN  /\ s \in Seq(S) /\ Len(s) = Len(l) - 1
             /\ \A i \in 1 .. Len(l) - 1 : s[i] = IF i < k THEN l[i] ELSE l[i + 1]
  <1> DEFINE a == SubSeq(l, 1, k - 1)
             c == SubSeq(l, k + 1, Len(l))
             n == Len(l)
  <1>1. /\ n \in Nat /\ k \in Nat /\ k - 1 \in 0 .. n /\ 1 \in 1 .. n + 1 /\ n \in 0 .. n
        /\ k + 1 \in 1 .. n + 1
    BY LenProperties
  <1>2. a \in Seq(S) /\ Len(a) = k - 1 /\ \A i \in 1 .. k - 1 : a[i] = l[i]
    BY <1>1, SubSequence
  <1>3. c \in Seq(S) /\ Len(c) = n - k /\ \A i \in 1 .. n - k : c[i] = l[k + i]
    BY <1>1, SubSequence
  <1> HIDE DEF a, c, n
  <1>4. /\ a \o c \in Seq(S) /\ Len(a \o c) = n - 1
        /\ \A i \in 1 .. n - 1 : (a \o c)[i] = IF i <= k - 1 THEN a[i] ELSE c[i - (k - 1)]
    <2>1. k - 1 \in Nat /\ k - 1 = Len(a) /\ n - 1 = (k - 1) + Len(c) /\ n - 1 \in Nat
      BY <1>1, <1>2, <1>3
    <2> QED
      BY <1>2, <1>3, <2>1, Concatenated
  <1>5. ASSUME NEW i \in 1 .. n - 1
        PROVE  (a \o c)[i] = IF i < k THEN l[i] ELSE l[i + 1]
    <2>1. CASE i < k
      BY <1>1, <1>2, <1>4, <2>1
    <2>2. CASE i >= k
      <3>1. /\ i - (k - 1) \in 1 .. n - k /\ k + (i - (k - 1)) = i + 1
            /\ ~(i <= k - 1) /\ ~(i < k)
        BY <1>1, <2>2
      <3>2. c[i - (k - 1)] = l[k + (i - (k - 1))]
        BY <1>3, <3>1
      <3>3. (a \o c)[i] = c[i - (k - 1)]
        BY <1>4, <3>1
      <3>4. c[i - (k - 1)] = l[i + 1]
        BY <3>1, <3>2
      <3> QED
        BY <3>1, <3>3, <3>4
    <2>3. i < k \/ i >= k
      BY <1>1
    <2> QED
      BY <2>1, <2>2, <2>3
  <1>6. SortedList!RemoveAt(l, k) = a \o c
    BY DEF SortedList!RemoveAt, a, c
  <1> QED
    BY <1>4, <1>5, <1>6 DEF n

-----------------------------------------------------------------------------
(* The operations of SortedTimers.                                          *)

\* Place() is where both loops of the source stop, whether the list is sorted or not.
StopsThere(l, e, k) ==
  /\ k \in 1 .. Len(l) + 1
  /\ k <= Len(l) => l[k].expire >= e
  /\ \A m \in 1 .. k - 1 : ~(l[m].expire >= e)

LEMMA PlaceFacts ==
  ASSUME NEW S, NEW l \in Seq(S), NEW e
  PROVE  StopsThere(l, e, SortedList!Place(l, e))
  <1> DEFINE T == {k \in 1 .. Len(l) + 1 : k = Len(l) + 1 \/ l[k].expire >= e}
             k == SortedList!Place(l, e)
  <1>1. Len(l) \in Nat
    BY LenProperties
  <1>2. T \subseteq Nat /\ Len(l) + 1 \in T
    BY <1>1
  <1>3. \E x \in T : \A y \in T : x <= y
    <2> HIDE DEF T
    <2> QED
      BY <1>2, LeastNat
  <1>4. k \in T /\ \A y \in T : k <= y
    BY <1>3 DEF SortedList!Place, SortedList!Min
  <1> HIDE DEF k
  <1>5. k \in 1 .. Len(l) + 1 /\ (k <= Len(l) => l[k].expire >= e)
    BY <1>1, <1>4
  <1>6. ASSUME NEW m \in 1 .. k - 1, l[m].expire >= e PROVE FALSE
    <2>1. m \in T /\ m < k
      BY <1>1, <1>5, <1>6
    <2> QED
      BY <1>1, <1>4, <1>5, <2>1
  <1> QED
    BY <1>5, <1>6 DEF k, StopsThere

LEMMA OnePlace ==
  ASSUME NEW S, NEW l \in Seq(S), NEW e, NEW j, NEW k,
         StopsThere(l, e, j), StopsThere(l, e, k)
  PROVE  j = k
  <1>1. Len(l) \in Nat
    BY LenProperties
  <1>2. ASSUME NEW i, NEW m, StopsThere(l, e, i), StopsThere(l, e, m), i < m PROVE FALSE
    <2>1. i \in 1 .. m - 1 /\ i <= Len(l)
      BY <1>1, <1>2 DEF StopsThere
    <2> QED
      BY <1>2, <2>1 DEF StopsThere
  <1>3. ~(j < k) /\ ~(k < j)
    BY <1>2
  <1> QED
    BY <1>1, <1>3 DEF StopsThere

LEMMA PositionFacts ==
  ASSUME NEW l, NEW t \in SortedList!Listed(l)
  PROVE  LET k == SortedList!Position(l, t) IN k \in 1 .. Len(l) /\ l[k].timer = t
  <1>1. \E k \in 1 .. Len(l) : l[k].timer = t
    BY DEF SortedList!Listed
  <1> QED
    BY <1>1 DEF SortedList!Position

LEMMA InsertFacts ==
  ASSUME NEW S, NEW l \in Seq(S), NEW x \in S
  PROVE  LET s == SortedList!Insert(l, x)
             k == SortedList!Place(l, x.expire)
         IN  /\ s \in Seq(S) /\ Len(s) = Len(l) + 1
             /\ k \in 1 .. Len(l) + 1
             /\ \A i \in 1 .. Len(l) + 1 :
                  s[i] = IF i < k THEN l[i] ELSE IF i = k THEN x ELSE l[i - 1]
  <1> DEFINE k == SortedList!Place(l, x.expire)
             s == SortedList!InsertAt(l, k, x)
  <1>1. k \in 1 .. Len(l) + 1
    BY PlaceFacts DEF StopsThere
  <1> HIDE DEF k
  <1>2. /\ s \in Seq(S) /\ Len(s) = Len(l) + 1
        /\ \A i \in 1 .. Len(l) + 1 :
             s[i] = IF i < k THEN l[i] ELSE IF i = k THEN x ELSE l[i - 1]
    BY <1>1, InsertedAt
  <1>3. SortedList!Insert(l, x) = s
    BY DEF SortedList!Insert, k
  <1> HIDE DEF s
  <1> QED
    BY <1>1, <1>2, <1>3 DEF k

LEMMA InsertListed ==
  ASSUME NEW S, NEW l \in Seq(S), NEW x \in S
  PROVE  LET s == SortedList!Insert(l, x)
         IN  /\ SortedList!Listed(s) = SortedList!Listed(l) \cup {x.timer}
             /\ SortedList!NoneTwice(l) /\ x.timer \notin SortedList!Listed(l)
                  => SortedList!NoneTwice(s)
  <1> DEFINE s == SortedList!Insert(l, x)
             k == SortedList!Place(l, x.expire)
             n == Len(l)
  <1>1. /\ s \in Seq(S) /\ Len(s) = n + 1 /\ k \in 1 .. n + 1
        /\ \A i \in 1 .. n + 1 : s[i] = IF i < k THEN l[i] ELSE IF i = k THEN x ELSE l[i - 1]
        /\ n \in Nat
    BY InsertFacts, LenProperties
  <1> HIDE DEF s, k, n
  <1>2. ASSUME NEW i \in 1 .. n PROVE \E j \in 1 .. n + 1 : s[j] = l[i]
    <2>1. CASE i < k
      BY <1>1, <2>1
    <2>2. CASE i >= k
      <3>1. i + 1 \in 1 .. n + 1 /\ ~(i + 1 < k) /\ i + 1 # k /\ (i + 1) - 1 = i
        BY <1>1, <2>2
      <3>2. s[i + 1] = l[(i + 1) - 1]
        BY <1>1, <3>1
      <3> QED
        BY <3>1, <3>2
    <2> QED
      BY <1>1, <2>1, <2>2
  <1>3. ASSUME NEW i \in 1 .. n + 1
        PROVE  (i = k /\ s[i] = x) \/ (i # k /\ \E j \in 1 .. n : s[i] = l[j])
    <2>1. CASE i < k
      <3>1. i \in 1 .. n /\ i # k
        BY <1>1, <2>1
      <3> QED
        BY <1>1, <2>1, <3>1
    <2>2. CASE i > k
      <3>1. i - 1 \in 1 .. n /\ ~(i < k) /\ i # k
        BY <1>1, <2>2
      <3> QED
        BY <1>1, <3>1
    <2>3. CASE i = k
      BY <1>1, <2>3
    <2> QED
      BY <1>1, <2>1, <2>2, <2>3
  <1>4. s[k] = x
    BY <1>1
  <1>5. SortedList!Listed(s) = SortedList!Listed(l) \cup {x.timer}
    <2>1. ASSUME NEW t \in SortedList!Listed(s) PROVE t \in SortedList!Listed(l) \cup {x.timer}
      <3>1. PICK i \in 1 .. n + 1 : s[i].timer = t
        BY <1>1 DEF SortedList!Listed
      <3>2. CASE s[i] = x
        BY <3>1, <3>2
      <3>3. CASE \E j \in 1 .. n : s[i] = l[j]
        BY <3>1, <3>3 DEF SortedList!Listed, n
      <3> QED
        BY <1>3, <3>2, <3>3
    <2>2. ASSUME NEW t \in SortedList!Listed(l) PROVE t \in SortedList!Listed(s)
      <3>1. PICK i \in 1 .. n : l[i].timer = t
        BY DEF SortedList!Listed, n
      <3> QED
        BY <1>1, <1>2, <3>1 DEF SortedList!Listed
    <2>3. x.timer \in SortedList!Listed(s)
      BY <1>1, <1>4 DEF SortedList!Listed
    <2> QED
      BY <2>1, <2>2, <2>3
  <1>6. ASSUME SortedList!NoneTwice(l), x.timer \notin SortedList!Listed(l)
        PROVE  SortedList!NoneTwice(s)
    <2> SUFFICES ASSUME NEW i \in 1 .. n + 1, NEW j \in 1 .. n + 1, s[i].timer = s[j].timer
                 PROVE  i = j
      BY <1>1 DEF SortedList!NoneTwice
    <2> DEFINE From(m) == IF m < k THEN m ELSE m - 1
    <2>1. \A m \in 1 .. n + 1 : m # k => From(m) \in 1 .. n /\ s[m] = l[From(m)]
      BY <1>1
    <2>2. \A m \in 1 .. n + 1 : m # k => s[m].timer \in SortedList!Listed(l)
      BY <2>1 DEF SortedList!Listed, n
    <2>3. i = k <=> j = k
      BY <1>4, <1>6, <2>2
    <2>4. ASSUME i # k, j # k PROVE From(i) = From(j)
      <3>1. l[From(i)].timer = l[From(j)].timer /\ From(i) \in 1 .. n /\ From(j) \in 1 .. n
        BY <2>1, <2>4
      <3> HIDE DEF From
      <3> QED
        BY <1>6, <3>1 DEF SortedList!NoneTwice, n
    <2> QED
      BY <1>1, <2>3, <2>4
  <1> QED
    BY <1>5, <1>6 DEF s

LEMMA InsertAscending ==
  ASSUME NEW S, NEW l \in Seq(S), NEW x \in S, \A y \in S : y.expire \in Int,
         SortedList!Ascending(l)
  PROVE  SortedList!Ascending(SortedList!Insert(l, x))
  <1> DEFINE s == SortedList!Insert(l, x)
             k == SortedList!Place(l, x.expire)
             n == Len(l)
  <1>1. /\ s \in Seq(S) /\ Len(s) = n + 1 /\ k \in 1 .. n + 1
        /\ \A i \in 1 .. n + 1 : s[i] = IF i < k THEN l[i] ELSE IF i = k THEN x ELSE l[i - 1]
        /\ n \in Nat
    BY InsertFacts, LenProperties
  <1>2. /\ k <= n => l[k].expire >= x.expire
        /\ \A m \in 1 .. k - 1 : ~(l[m].expire >= x.expire)
    BY PlaceFacts DEF StopsThere
  <1>3. x.expire \in Int /\ \A i \in 1 .. n : l[i].expire \in Int
    BY <1>1, ElementOfSeq
  <1>4. \A i, j \in 1 .. n : i <= j => l[i].expire <= l[j].expire
    BY DEF SortedList!Ascending
  <1> HIDE DEF s, k, n
  <1> DEFINE From(m) == IF m < k THEN m ELSE m - 1
  <1>5. ASSUME NEW i \in 1 .. n + 1
        PROVE  /\ i # k => From(i) \in 1 .. n /\ s[i] = l[From(i)]
               /\ i = k => s[i] = x
    BY <1>1
  <1>6. ASSUME NEW i \in 1 .. n + 1, NEW j \in 1 .. n + 1, i <= j
        PROVE  s[i].expire <= s[j].expire
    <2>1. CASE i # k /\ j # k
      <3>1. From(i) <= From(j)
        BY <1>1, <1>6, <2>1
      <3> HIDE DEF From
      <3> QED
        BY <1>4, <1>5, <2>1, <3>1
    <2>2. CASE i = k /\ j # k
      <3>1. k <= n /\ k <= From(j)
        BY <1>1, <1>6, <2>2
      <3>2. k \in 1 .. n /\ From(j) \in 1 .. n /\ s[i] = x /\ s[j] = l[From(j)]
        BY <1>1, <1>5, <2>2, <3>1
      <3> HIDE DEF From
      <3>3. l[k].expire <= l[From(j)].expire /\ l[k].expire >= x.expire
        BY <1>2, <1>4, <3>1, <3>2
      <3> QED
        BY <1>3, <3>2, <3>3
    <2>3. CASE i # k /\ j = k
      <3>1. i \in 1 .. k - 1 /\ i \in 1 .. n /\ s[i] = l[i] /\ s[j] = x
        BY <1>1, <1>5, <1>6, <2>3
      <3>2. ~(l[i].expire >= x.expire)
        BY <1>2, <3>1
      <3> QED
        BY <1>3, <3>1, <3>2
    <2>4. CASE i = k /\ j = k
      BY <1>3, <1>5, <2>4
    <2> QED
      BY <2>1, <2>2, <2>3, <2>4
  <1>7. SortedList!Ascending(s)
    BY <1>1, <1>6 DEF SortedList!Ascending
  <1> QED
    BY <1>7 DEF s

\* A list of some of the timers of another, in the order they have there.
LEMMA Thinned ==
  ASSUME NEW l, NEW s, Len(l) \in Nat, Len(s) \in Nat,
         NEW f \in [1 .. Len(s) -> 1 .. Len(l)],
         \A i \in 1 .. Len(s) : s[i] = l[f[i]],
         \A i, j \in 1 .. Len(s) : i < j => f[i] < f[j]
  PROVE  /\ SortedList!NoneTwice(l) => SortedList!NoneTwice(s)
         /\ SortedList!Ascending(l) => SortedList!Ascending(s)
  <1>1. ASSUME SortedList!NoneTwice(l), NEW i \in 1 .. Len(s), NEW j \in 1 .. Len(s),
               s[i].timer = s[j].timer
        PROVE  i = j
    <2>1. f[i] = f[j]
      BY <1>1 DEF SortedList!NoneTwice
    <2>2. ~(i < j) /\ ~(j < i)
      BY <2>1
    <2> QED
      BY <2>2
  <1>2. ASSUME SortedList!Ascending(l), NEW i \in 1 .. Len(s), NEW j \in 1 .. Len(s), i <= j
        PROVE  s[i].expire <= s[j].expire
    <2>1. i < j \/ i = j
      BY <1>2
    <2>2. f[i] <= f[j] /\ f[i] \in 1 .. Len(l) /\ f[j] \in 1 .. Len(l)
      BY <2>1
    <2> QED
      BY <1>2, <2>2 DEF SortedList!Ascending
  <1> QED
    BY <1>1, <1>2 DEF SortedList!NoneTwice, SortedList!Ascending

LEMMA WithoutFacts ==
  ASSUME NEW S, NEW l \in Seq(S), NEW t \in SortedList!Listed(l)
  PROVE  LET s == SortedList!Without(l, t)
             k == SortedList!Position(l, t)
         IN  /\ s \in Seq(S) /\ Len(s) = Len(l) - 1
             /\ k \in 1 .. Len(l) /\ l[k].timer = t
             /\ \A i \in 1 .. Len(l) - 1 : s[i] = IF i < k THEN l[i] ELSE l[i + 1]
  <1> DEFINE k == SortedList!Position(l, t)
             s == SortedList!RemoveAt(l, k)
  <1>1. k \in 1 .. Len(l) /\ l[k].timer = t
    BY PositionFacts
  <1> HIDE DEF k
  <1>2. /\ s \in Seq(S) /\ Len(s) = Len(l) - 1
        /\ \A i \in 1 .. Len(l) - 1 : s[i] = IF i < k THEN l[i] ELSE l[i + 1]
    BY <1>1, RemovedAt
  <1>3. SortedList!Without(l, t) = s
    BY DEF SortedList!Without, k
  <1> HIDE DEF s
  <1> QED
    BY <1>1, <1>2, <1>3 DEF k

LEMMA WithoutListed ==
  ASSUME NEW S, NEW l \in Seq(S), NEW t, SortedList!NoneTwice(l)
  PROVE  LET s == SortedList!Without(l, t)
         IN  /\ s \in Seq(S)
             /\ Len(s) = IF t \in SortedList!Listed(l) THEN Len(l) - 1 ELSE Len(l)
             /\ SortedList!Listed(s) = SortedList!Listed(l) \ {t}
             /\ SortedList!NoneTwice(s)
             /\ SortedList!Ascending(l) => SortedList!Ascending(s)
  <1>1. CASE t \notin SortedList!Listed(l)
    BY <1>1 DEF SortedList!Without
  <1>2. CASE t \in SortedList!Listed(l)
    <2> DEFINE s == SortedList!Without(l, t)
               k == SortedList!Position(l, t)
               n == Len(l)
    <2>1. /\ s \in Seq(S) /\ Len(s) = n - 1 /\ k \in 1 .. n /\ l[k].timer = t
          /\ \A i \in 1 .. n - 1 : s[i] = IF i < k THEN l[i] ELSE l[i + 1]
          /\ n \in Nat
      BY <1>2, WithoutFacts, LenProperties
    <2> HIDE DEF s, k
    <2> DEFINE f == [i \in 1 .. n - 1 |-> IF i < k THEN i ELSE i + 1]
    <2>2. /\ f \in [1 .. Len(s) -> 1 .. n]
          /\ \A i \in 1 .. Len(s) : s[i] = l[f[i]] /\ f[i] # k
          /\ \A i, j \in 1 .. Len(s) : i < j => f[i] < f[j]
          /\ Len(s) \in Nat
      BY <2>1
    <2>3. \A j \in 1 .. n : j # k => \E i \in 1 .. n - 1 : s[i] = l[j]
      <3> SUFFICES ASSUME NEW j \in 1 .. n, j # k PROVE \E i \in 1 .. n - 1 : s[i] = l[j]
        OBVIOUS
      <3>1. CASE j < k
        BY <2>1, <3>1
      <3>2. CASE j > k
        <4>1. j - 1 \in 1 .. n - 1 /\ ~(j - 1 < k) /\ (j - 1) + 1 = j
          BY <2>1, <3>2
        <4>2. s[j - 1] = l[(j - 1) + 1]
          BY <2>1, <4>1
        <4> QED
          BY <4>1, <4>2
      <3> QED
        BY <2>1, <3>1, <3>2
    <2> HIDE DEF f
    <2>4. SortedList!NoneTwice(s) /\ (SortedList!Ascending(l) => SortedList!Ascending(s))
      BY <2>1, <2>2, Thinned
    <2>5. SortedList!Listed(s) = SortedList!Listed(l) \ {t}
      <3>1. ASSUME NEW u \in SortedList!Listed(s) PROVE u \in SortedList!Listed(l) /\ u # t
        <4>1. PICK i \in 1 .. Len(s) : s[i].timer = u
          BY DEF SortedList!Listed
        <4>2. f[i] \in 1 .. n /\ l[f[i]].timer = u /\ f[i] # k
          BY <2>2, <4>1
        <4> QED
          BY <2>1, <4>2 DEF SortedList!Listed, SortedList!NoneTwice
      <3>2. ASSUME NEW u \in SortedList!Listed(l), u # t PROVE u \in SortedList!Listed(s)
        <4>1. PICK j \in 1 .. n : l[j].timer = u
          BY DEF SortedList!Listed
        <4>2. PICK i \in 1 .. n - 1 : s[i] = l[j]
          BY <2>1, <2>3, <3>2, <4>1
        <4> QED
          BY <2>1, <4>1, <4>2 DEF SortedList!Listed
      <3> QED
        BY <3>1, <3>2
    <2> QED
      BY <1>2, <2>1, <2>4, <2>5 DEF s
  <1> QED
    BY <1>1, <1>2

\* What is left of a list when the first of it have gone.
LEMMA RestFacts ==
  ASSUME NEW S, NEW l \in Seq(S), NEW k \in 1 .. Len(l) + 1
  PROVE  LET s == SubSeq(l, k, Len(l))
         IN  /\ s \in Seq(S) /\ Len(s) = Len(l) + 1 - k
             /\ \A i \in 1 .. Len(l) + 1 - k : s[i] = l[k + i - 1]
             /\ SortedList!NoneTwice(l) => SortedList!NoneTwice(s)
             /\ SortedList!Ascending(l) => SortedList!Ascending(s)
             /\ SortedList!Listed(s) \subseteq SortedList!Listed(l)
  <1> DEFINE s == SubSeq(l, k, Len(l))
             n == Len(l)
             f == [i \in 1 .. n + 1 - k |-> k + i - 1]
  <1>1. n \in Nat /\ n \in 0 .. n /\ k \in Nat /\ k <= n + 1
    BY LenProperties
  <1>2. /\ s \in Seq(S) /\ Len(s) = n - k + 1
        /\ \A i \in 1 .. n - k + 1 : s[i] = l[k + i - 1]
    BY <1>1, SubSequence
  <1> HIDE DEF s
  <1>3. Len(s) = n + 1 - k /\ Len(s) \in Nat /\ \A i \in 1 .. n + 1 - k : s[i] = l[k + i - 1]
    BY <1>1, <1>2
  <1>4. /\ f \in [1 .. Len(s) -> 1 .. n]
        /\ \A i \in 1 .. Len(s) : s[i] = l[f[i]]
        /\ \A i, j \in 1 .. Len(s) : i < j => f[i] < f[j]
    BY <1>1, <1>3
  <1> HIDE DEF f
  <1>5. /\ SortedList!NoneTwice(l) => SortedList!NoneTwice(s)
        /\ SortedList!Ascending(l) => SortedList!Ascending(s)
    BY <1>1, <1>3, <1>4, Thinned
  <1>6. SortedList!Listed(s) \subseteq SortedList!Listed(l)
    BY <1>4 DEF SortedList!Listed
  <1> QED
    BY <1>2, <1>3, <1>5, <1>6 DEF s

-----------------------------------------------------------------------------
(* The pointers.  c is the timers of a list from its head on.               *)

Cells == Seq(ListTimers)

Nodes(c) == {c[i] : i \in 1 .. Len(c)}

Links(l, c) ==
  /\ c \in Cells
  /\ \A i, j \in 1 .. Len(c) : c[i] = c[j] => i = j
  /\ l.head = IF Len(c) = 0 THEN Null ELSE c[1]
  /\ \A i \in 1 .. Len(c) : /\ l.next[c[i]] = IF i = Len(c) THEN Null ELSE c[i + 1]
                            /\ l.prev[c[i]] = IF i = 1 THEN Null ELSE c[i - 1]

Entries(l, c) == [k \in 1 .. Len(c) |-> [timer |-> c[k], expire |-> l.expire[c[k]]]]

\* What a state of the list amounts to: A are the timers that are allocated.
Represents(l, c, A) ==
  /\ l \in List!List
  /\ Links(l, c)
  /\ Nodes(c) = A
  /\ \A t \in ListTimers \ A : l.prev[t] = Null /\ l.next[t] = Null

LEMMA CellFacts ==
  ASSUME NEW l, NEW c, Links(l, c)
  PROVE  /\ Len(c) \in Nat /\ Cardinality(ListTimers) \in Nat
         /\ Len(c) <= Cardinality(ListTimers)
         /\ \A i \in 1 .. Len(c) : c[i] \in ListTimers /\ c[i] # Null
         /\ Cardinality(Nodes(c)) = Len(c)
  <1>1. Len(c) \in Nat /\ c \in [1 .. Len(c) -> ListTimers]
    BY LenProperties DEF Links, Cells
  <1>2. \A i \in 1 .. Len(c) : c[i] \in ListTimers /\ c[i] # Null
    BY <1>1, ListAssumption DEF ListAssumption
  <1>3. c \in Injection(1 .. Len(c), ListTimers)
    BY <1>1, Fun_IsInj DEF Links
  <1>4. IsFiniteSet(1 .. Len(c)) /\ Cardinality(1 .. Len(c)) = Len(c)
    BY <1>1, FS_Interval
  <1>5. Cardinality(1 .. Len(c)) <= Cardinality(ListTimers)
    BY <1>3, FS_Injection, ListAssumption DEF ListAssumption
  <1>6. Cardinality(ListTimers) \in Nat
    BY FS_CardinalityType, ListAssumption DEF ListAssumption
  <1>7. ExistsBijection(1 .. Len(c), Nodes(c))
    <2>1. c \in [1 .. Len(c) -> Nodes(c)]
      BY <1>1 DEF Nodes
    <2>2. \A t \in Nodes(c) : \E i \in 1 .. Len(c) : c[i] = t
      BY DEF Nodes
    <2>3. \A i, j \in 1 .. Len(c) : c[i] = c[j] => i = j
      BY DEF Links
    <2>4. c \in Bijection(1 .. Len(c), Nodes(c))
      BY <2>1, <2>2, <2>3, Fun_IsBij
    <2> QED
      BY <2>4 DEF ExistsBijection
  <1>8. Cardinality(Nodes(c)) = Len(c)
    BY <1>1, <1>7, FS_CountingElements
  <1> QED
    BY <1>1, <1>2, <1>4, <1>5, <1>6, <1>8

LEMMA SameCardinality == \A S : List!Cardinality(S) = Cardinality(S)
  BY DEF List!Cardinality, Cardinality

\* Walking from the head gives the cells one after the other, and then nothing: the
\* function that does has the equation that defines Walk(), and Walk() can have no
\* other value at the first place where the two would differ.
LEMMA WalkIs ==
  ASSUME NEW l, NEW c, Links(l, c)
  PROVE  /\ DOMAIN List!Walk(l) = 0 .. Cardinality(ListTimers)
         /\ \A n \in 0 .. Cardinality(ListTimers) :
              List!Walk(l)[n] = IF n < Len(c) THEN c[n + 1] ELSE Null
  <1> DEFINE N == Cardinality(ListTimers)
             Steps(g) == g = [n \in 0 .. List!Cardinality(ListTimers) |->
                               IF n = 0 THEN l.head
                               ELSE IF g[n - 1] = Null THEN Null ELSE l.next[g[n - 1]]]
             f == [n \in 0 .. N |-> IF n < Len(c) THEN c[n + 1] ELSE Null]
             w == List!Walk(l)
  <1>0. /\ l.head = IF Len(c) = 0 THEN Null ELSE c[1]
        /\ \A i \in 1 .. Len(c) : l.next[c[i]] = IF i = Len(c) THEN Null ELSE c[i + 1]
    BY DEF Links
  <1>1. /\ Len(c) \in Nat /\ N \in Nat /\ Len(c) <= N
        /\ \A i \in 1 .. Len(c) : c[i] # Null
    BY CellFacts
  <1>2. List!Cardinality(ListTimers) = N
    BY SameCardinality
  <1> HIDE DEF N
  <1>3. Steps(f)
    <2> SUFFICES ASSUME NEW n \in 0 .. N
                 PROVE  f[n] = IF n = 0 THEN l.head
                               ELSE IF f[n - 1] = Null THEN Null ELSE l.next[f[n - 1]]
      BY <1>2
    <2>1. CASE n = 0
      BY <1>0, <1>1, <2>1
    <2>2. CASE n # 0
      <3>1. n - 1 \in 0 .. N /\ (n - 1) + 1 = n /\ n \in Nat
        BY <1>1, <2>2
      <3>2. f[n - 1] = IF n - 1 < Len(c) THEN c[n] ELSE Null
        BY <3>1
      <3>3. f[n] = IF n < Len(c) THEN c[n + 1] ELSE Null
        OBVIOUS
      <3> HIDE DEF f
      <3>4. CASE n <= Len(c)
        <4>1. n \in 1 .. Len(c) /\ n - 1 < Len(c) /\ (n = Len(c) <=> ~(n < Len(c)))
          BY <1>1, <2>2, <3>1, <3>4
        <4>2. f[n - 1] = c[n] /\ c[n] # Null
          BY <1>1, <3>2, <4>1
        <4>3. l.next[c[n]] = IF n = Len(c) THEN Null ELSE c[n + 1]
          BY <1>0, <4>1
        <4> QED
          BY <2>2, <3>3, <4>1, <4>2, <4>3
      <3>5. CASE n > Len(c)
        <4>1. ~(n - 1 < Len(c)) /\ ~(n < Len(c))
          BY <1>1, <3>1, <3>5
        <4> QED
          BY <2>2, <3>2, <3>3, <4>1
      <3> QED
        BY <1>1, <3>1, <3>4, <3>5
    <2> QED
      BY <2>1, <2>2
  <1>4. Steps(w)
    <2>1. w = CHOOSE g : Steps(g)
      BY DEF List!Walk
    <2> HIDE DEF Steps, f, w
    <2> QED
      BY <1>3, <2>1
  <1>5. w = [n \in 0 .. N |-> IF n = 0 THEN l.head
                              ELSE IF w[n - 1] = Null THEN Null ELSE l.next[w[n - 1]]]
    BY <1>2, <1>4
  <1>6. f = [n \in 0 .. N |-> IF n = 0 THEN l.head
                              ELSE IF f[n - 1] = Null THEN Null ELSE l.next[f[n - 1]]]
    BY <1>2, <1>3
  <1>7. ASSUME NEW n \in 0 .. N, w[n] # f[n] PROVE FALSE
    <2> DEFINE D == {m \in 0 .. N : w[m] # f[m]}
    <2>1. PICK m \in D : \A k \in D : m <= k
      <3>1. D \subseteq Nat /\ D # {}
        BY <1>1, <1>7
      <3> HIDE DEF D
      <3> QED
        BY <3>1, LeastNat
    <2> HIDE DEF f, w, D
    <2>2. /\ w[m] = IF m = 0 THEN l.head
                    ELSE IF w[m - 1] = Null THEN Null ELSE l.next[w[m - 1]]
          /\ f[m] = IF m = 0 THEN l.head
                    ELSE IF f[m - 1] = Null THEN Null ELSE l.next[f[m - 1]]
          /\ m \in 0 .. N /\ w[m] # f[m]
      BY <1>5, <1>6, <2>1 DEF D
    <2>3. m # 0
      BY <2>2
    <2>4. m - 1 \in 0 .. N /\ m - 1 \notin D
      BY <1>1, <2>1, <2>2, <2>3
    <2>5. w[m - 1] = f[m - 1]
      BY <2>4 DEF D
    <2> QED
      BY <2>2, <2>5
  <1>8. \A n \in 0 .. N : w[n] = IF n < Len(c) THEN c[n + 1] ELSE Null
    BY <1>7
  <1>9. DOMAIN w = 0 .. N
    <2> HIDE DEF w
    <2> QED
      BY <1>5
  <1> QED
    BY <1>8, <1>9 DEF N

LEMMA ReachedIs ==
  ASSUME NEW l, NEW c, Links(l, c)
  PROVE  List!Reached(l) = Nodes(c)
  <1> DEFINE N == Cardinality(ListTimers)
  <1>1. /\ Len(c) \in Nat /\ N \in Nat /\ Len(c) <= N
        /\ \A i \in 1 .. Len(c) : c[i] # Null
    BY CellFacts
  <1>2. /\ DOMAIN List!Walk(l) = 0 .. N
        /\ \A n \in 0 .. N : List!Walk(l)[n] = IF n < Len(c) THEN c[n + 1] ELSE Null
    BY WalkIs
  <1> HIDE DEF N
  <1>3. ASSUME NEW t \in List!Reached(l) PROVE t \in Nodes(c)
    <2>1. PICK n \in 0 .. N : t = List!Walk(l)[n] /\ t # Null
      BY <1>2 DEF List!Reached
    <2>2. n + 1 \in 1 .. Len(c) /\ t = c[n + 1]
      BY <1>1, <1>2, <2>1
    <2> QED
      BY <2>2 DEF Nodes
  <1>4. ASSUME NEW t \in Nodes(c) PROVE t \in List!Reached(l)
    <2>1. PICK i \in 1 .. Len(c) : t = c[i]
      BY DEF Nodes
    <2>2. i - 1 \in 0 .. N /\ (i - 1) + 1 = i /\ i - 1 < Len(c)
      BY <1>1
    <2>3. List!Walk(l)[i - 1] = t
      BY <1>2, <2>1, <2>2
    <2> QED
      BY <1>1, <1>2, <2>1, <2>2, <2>3 DEF List!Reached
  <1> QED
    BY <1>3, <1>4

LEMMA EntriesFacts ==
  ASSUME NEW l \in List!List, NEW c, Links(l, c)
  PROVE  /\ Entries(l, c) \in Seq(List!Sorted!Entry)
         /\ Len(Entries(l, c)) = Len(c) /\ Len(c) \in Nat
         /\ \A k \in 1 .. Len(c) : /\ Entries(l, c)[k].timer = c[k]
                                  /\ Entries(l, c)[k].expire = l.expire[c[k]]
         /\ SortedList!Listed(Entries(l, c)) = Nodes(c)
         /\ SortedList!NoneTwice(Entries(l, c))
  <1> DEFINE s == Entries(l, c)
  <1>1. Len(c) \in Nat /\ \A i \in 1 .. Len(c) : c[i] \in ListTimers
    BY CellFacts
  <1>2. l.expire \in [ListTimers -> ListTimes]
    BY DEF List!List
  <1>3. s = [k \in 1 .. Len(c) |-> [timer |-> c[k], expire |-> l.expire[c[k]]]]
    BY DEF Entries
  <1>4. \A k \in 1 .. Len(c) : [timer |-> c[k], expire |-> l.expire[c[k]]] \in List!Sorted!Entry
    BY <1>1, <1>2 DEF List!Sorted!Entry
  <1>5. s \in Seq(List!Sorted!Entry) /\ Len(s) = Len(c)
    BY <1>1, <1>3, <1>4
  <1>6. \A k \in 1 .. Len(c) : s[k].timer = c[k] /\ s[k].expire = l.expire[c[k]]
    BY <1>3
  <1> HIDE DEF s
  <1>7. SortedList!Listed(s) = Nodes(c)
    BY <1>5, <1>6 DEF SortedList!Listed, Nodes
  <1>8. SortedList!NoneTwice(s)
    BY <1>5, <1>6 DEF SortedList!NoneTwice, Links
  <1> QED
    BY <1>1, <1>5, <1>6, <1>7, <1>8 DEF s

\* The abstract list is what the pointers hold.
OrderOf(l) ==
  IF l.head = Null THEN <<>>
  ELSE [k \in 1 .. Cardinality(List!Reached(l)) |->
          [timer |-> List!Walk(l)[k - 1], expire |-> l.expire[List!Walk(l)[k - 1]]]]

LEMMA OrderIs ==
  ASSUME NEW l \in List!List, NEW c, Links(l, c)
  PROVE  OrderOf(l) = Entries(l, c)
  <1>1. /\ Len(c) \in Nat /\ Cardinality(ListTimers) \in Nat
        /\ Len(c) <= Cardinality(ListTimers)
        /\ \A i \in 1 .. Len(c) : c[i] # Null
        /\ Cardinality(Nodes(c)) = Len(c)
    BY CellFacts
  <1>2. l.head = IF Len(c) = 0 THEN Null ELSE c[1]
    BY DEF Links
  <1>3. CASE Len(c) = 0
    <2>1. OrderOf(l) = <<>>
      BY <1>2, <1>3 DEF OrderOf
    <2>2. Entries(l, c) \in Seq(List!Sorted!Entry) /\ Len(Entries(l, c)) = 0
      BY <1>3, EntriesFacts
    <2>3. Entries(l, c) = <<>>
      BY <2>2, EmptySeq
    <2> QED
      BY <2>1, <2>3
  <1>4. CASE Len(c) # 0
    <2>1. l.head # Null
      BY <1>1, <1>2, <1>4
    <2>2. ASSUME NEW k \in 1 .. Len(c) PROVE List!Walk(l)[k - 1] = c[k]
      <3>1. k - 1 \in 0 .. Cardinality(ListTimers) /\ k - 1 < Len(c) /\ (k - 1) + 1 = k
        BY <1>1
      <3>2. List!Walk(l)[k - 1] = c[(k - 1) + 1]
        BY <3>1, WalkIs
      <3> QED
        BY <3>1, <3>2
    <2>3. Cardinality(List!Reached(l)) = Len(c)
      BY <1>1, ReachedIs
    <2> QED
      BY <2>1, <2>2, <2>3 DEF OrderOf, Entries
  <1> QED
    BY <1>3, <1>4

\* The loops of AddTimer() and TickOnce() stop at the place of the sorted list.
Stop(l, v) ==
  LET NotBefore(x) == l.expire[x] >= v IN List!StopsAt(l, NotBefore)

LEMMA StopIs ==
  ASSUME NEW l \in List!List, NEW c, Links(l, c), NEW v
  PROVE  /\ Stop(l, v) = SortedList!Place(Entries(l, c), v) - 1
         /\ Stop(l, v) \in 0 .. Len(c)
         /\ List!Walk(l)[Stop(l, v)] = IF Stop(l, v) < Len(c) THEN c[Stop(l, v) + 1] ELSE Null
  <1> DEFINE N == Cardinality(ListTimers)
             w == List!Walk(l)
             At(n) == w[n] = Null \/ l.expire[w[n]] >= v
             First(n) == n \in 0 .. N /\ At(n) /\ \A m \in 0 .. n - 1 : ~ At(m)
             e == Entries(l, c)
             k == SortedList!Place(e, v)
  <1>1. /\ Len(c) \in Nat /\ N \in Nat /\ Len(c) <= N
        /\ \A i \in 1 .. Len(c) : c[i] # Null
    BY CellFacts
  <1>2. DOMAIN w = 0 .. N /\ \A n \in 0 .. N : w[n] = IF n < Len(c) THEN c[n + 1] ELSE Null
    BY WalkIs
  <1>3. /\ e \in Seq(List!Sorted!Entry) /\ Len(e) = Len(c)
        /\ \A i \in 1 .. Len(c) : e[i].expire = l.expire[c[i]]
    BY EntriesFacts
  <1>4. StopsThere(e, v, k)
    BY <1>3, PlaceFacts
  <1>5. Stop(l, v) = CHOOSE n : First(n)
    <2>1. Stop(l, v) = CHOOSE n \in DOMAIN w : At(n) /\ \A m \in 0 .. n - 1 : ~ At(m)
      BY DEF Stop, List!StopsAt
    <2> QED
      BY <1>2, <2>1
  <1> HIDE DEF N, w, e, k
  <1>6. ASSUME NEW n, First(n) PROVE n = k - 1
    <2>1. n \in 0 .. Len(c)
      <3>1. CASE n > Len(c)
        <4>1. Len(c) \in 0 .. n - 1 /\ Len(c) \in 0 .. N /\ ~(Len(c) < Len(c))
          BY <1>1, <1>6, <3>1
        <4>2. w[Len(c)] = Null
          BY <1>2, <4>1
        <4> QED
          BY <1>6, <4>1, <4>2
      <3> QED
        BY <1>1, <1>6, <3>1
    <2>2. n + 1 <= Len(e) => e[n + 1].expire >= v
      <3> SUFFICES ASSUME n + 1 <= Len(e) PROVE e[n + 1].expire >= v
        OBVIOUS
      <3>1. n + 1 \in 1 .. Len(c) /\ n < Len(c)
        BY <1>1, <1>3, <2>1
      <3>2. w[n] = c[n + 1] /\ c[n + 1] # Null
        BY <1>1, <1>2, <1>6, <3>1
      <3> QED
        BY <1>3, <1>6, <3>1, <3>2
    <2>3. ASSUME NEW m \in 1 .. (n + 1) - 1, e[m].expire >= v PROVE FALSE
      <3>1. /\ m - 1 \in 0 .. n - 1 /\ m - 1 \in 0 .. N /\ m - 1 < Len(c) /\ (m - 1) + 1 = m
            /\ m \in 1 .. Len(c)
        BY <1>1, <2>1
      <3>2. w[m - 1] = c[(m - 1) + 1]
        BY <1>2, <3>1
      <3>3. l.expire[w[m - 1]] >= v
        BY <1>3, <2>3, <3>1, <3>2
      <3> QED
        BY <1>6, <3>1, <3>3
    <2>4. StopsThere(e, v, n + 1)
      BY <1>1, <1>3, <2>1, <2>2, <2>3 DEF StopsThere
    <2>5. n + 1 = k
      BY <1>3, <1>4, <2>4, OnePlace
    <2> QED
      BY <1>1, <2>1, <2>5
  <1>7. First(k - 1)
    <2>1. /\ k \in 1 .. Len(c) + 1
          /\ k <= Len(c) => l.expire[c[k]] >= v
          /\ \A m \in 1 .. k - 1 : ~(l.expire[c[m]] >= v)
      BY <1>1, <1>3, <1>4 DEF StopsThere
    <2>2. k - 1 \in 0 .. N /\ (k - 1) + 1 = k
      BY <1>1, <2>1
    <2>3. At(k - 1)
      <3>1. CASE k <= Len(c)
        <4>1. w[k - 1] = c[(k - 1) + 1]
          BY <1>1, <1>2, <2>1, <2>2, <3>1
        <4> QED
          BY <2>1, <2>2, <3>1, <4>1
      <3>2. CASE ~(k <= Len(c))
        BY <1>1, <1>2, <2>1, <2>2, <3>2
      <3> QED
        BY <3>1, <3>2
    <2>4. ASSUME NEW m \in 0 .. (k - 1) - 1 PROVE ~ At(m)
      <3>1. m \in 0 .. N /\ m < Len(c) /\ m + 1 \in 1 .. k - 1 /\ m + 1 \in 1 .. Len(c)
        BY <1>1, <2>1
      <3>2. w[m] = c[m + 1] /\ c[m + 1] # Null
        BY <1>1, <1>2, <3>1
      <3> QED
        BY <2>1, <3>1, <3>2
    <2> QED
      BY <2>2, <2>3, <2>4
  <1>8. Stop(l, v) = k - 1
    <2>1. First(CHOOSE n : First(n))
      <3> HIDE DEF First
      <3> QED
        BY <1>7
    <2> HIDE DEF First
    <2> QED
      BY <1>5, <1>6, <2>1
  <1>9. k \in 1 .. Len(c) + 1
    BY <1>1, <1>3, <1>4 DEF StopsThere
  <1>10. k - 1 \in 0 .. Len(c) /\ k - 1 \in 0 .. N
    BY <1>1, <1>9
  <1>11. w[k - 1] = IF k - 1 < Len(c) THEN c[(k - 1) + 1] ELSE Null
    BY <1>2, <1>10
  <1> QED
    BY <1>8, <1>10, <1>11 DEF k, e, w

-----------------------------------------------------------------------------
(* The operations on the pointers.                                          *)

LEMMA PointerFacts ==
  ASSUME NEW l \in List!List, NEW p \in List!Pointer, NEW to \in List!Pointer
  PROVE  /\ List!SetNext(l, p, to) \in List!List
         /\ List!SetNext(l, p, to).head = l.head
         /\ List!SetNext(l, p, to).expire = l.expire
         /\ List!SetNext(l, p, to).prev = l.prev
         /\ \A t \in ListTimers :
              List!SetNext(l, p, to).next[t] = IF t = p THEN to ELSE l.next[t]
         /\ List!SetPrev(l, p, to) \in List!List
         /\ List!SetPrev(l, p, to).head = l.head
         /\ List!SetPrev(l, p, to).expire = l.expire
         /\ List!SetPrev(l, p, to).next = l.next
         /\ \A t \in ListTimers :
              List!SetPrev(l, p, to).prev[t] = IF t = p THEN to ELSE l.prev[t]
  <1>1. \A t \in ListTimers : t # Null
    BY ListAssumption DEF ListAssumption
  <1>2. CASE p = Null
    BY <1>1, <1>2 DEF List!SetNext, List!SetPrev
  <1>3. CASE p # Null
    <2>1. p \in ListTimers
      BY <1>3 DEF List!Pointer
    <2>2. /\ List!SetNext(l, p, to) = [l EXCEPT !.next[p] = to]
          /\ List!SetPrev(l, p, to) = [l EXCEPT !.prev[p] = to]
      BY <1>3 DEF List!SetNext, List!SetPrev
    <2> QED
      BY <2>1, <2>2 DEF List!List
  <1> QED
    BY <1>2, <1>3

\* The three ends of AddTimer() insert the timer at its place.
Inserted(l, t, p, n, m) ==
  /\ m \in List!List /\ m.expire = l.expire
  /\ m.head = IF p = Null THEN t ELSE l.head
  /\ \A u \in ListTimers :
       /\ m.next[u] = IF u = t THEN n ELSE IF u = p THEN t ELSE l.next[u]
       /\ m.prev[u] = IF u = t THEN p ELSE IF u = n THEN t ELSE l.prev[u]

LEMMA AddTimerFacts ==
  ASSUME NEW l \in List!List, NEW c, Links(l, c), NEW t \in ListTimers \ Nodes(c),
         l.prev[t] = Null, l.next[t] = Null
  PROVE  LET k == SortedList!Place(Entries(l, c), l.expire[t])
         IN  /\ k \in 1 .. Len(c) + 1
             /\ Inserted(l, t, IF k = 1 THEN Null ELSE c[k - 1],
                         IF k = Len(c) + 1 THEN Null ELSE c[k], List!AddTimer(l, t))
  <1> DEFINE n == Stop(l, l.expire[t])
             k == SortedList!Place(Entries(l, c), l.expire[t])
             w == List!Walk(l)
             cur == w[n]
             prev == IF n = 0 THEN l.prev[cur] ELSE w[n - 1]
             m == List!AddTimer(l, t)
             p == IF k = 1 THEN Null ELSE c[k - 1]
             q == IF k = Len(c) + 1 THEN Null ELSE c[k]
  <1>1. /\ Len(c) \in Nat /\ Cardinality(ListTimers) \in Nat
        /\ Len(c) <= Cardinality(ListTimers)
        /\ \A i \in 1 .. Len(c) : c[i] # Null /\ c[i] \in ListTimers
    BY CellFacts
  <1>2. n = k - 1 /\ n \in 0 .. Len(c) /\ cur = IF n < Len(c) THEN c[n + 1] ELSE Null
    BY StopIs
  <1>3. k \in 1 .. Len(c) + 1
    BY PlaceFacts, EntriesFacts DEF StopsThere
  <1>4. m = IF l.head = Null THEN List!AddAsHead(l, t)
            ELSE IF cur # Null THEN List!InsertBefore(l, prev, t, cur)
            ELSE List!AppendAfter(l, prev, t)
    BY DEF List!AddTimer, Stop
  <1>5. l.head = IF Len(c) = 0 THEN Null ELSE c[1]
    BY DEF Links
  <1>6. cur = q
    BY <1>1, <1>2, <1>3
  <1>7. Len(c) # 0 => prev = p
    <2> SUFFICES ASSUME Len(c) # 0 PROVE prev = p
      OBVIOUS
    <2>1. CASE k = 1
      <3>1. n = 0 /\ cur = c[1] /\ 1 \in 1 .. Len(c)
        BY <1>1, <1>2, <2>1
      <3>2. l.prev[c[1]] = Null
        BY <3>1 DEF Links
      <3> QED
        BY <2>1, <3>1, <3>2
    <2>2. CASE k # 1
      <3>1. n # 0 /\ n - 1 \in 0 .. Cardinality(ListTimers) /\ n - 1 < Len(c)
            /\ (n - 1) + 1 = k - 1
        BY <1>1, <1>2, <1>3, <2>2
      <3>2. w[n - 1] = c[(n - 1) + 1]
        BY <3>1, WalkIs
      <3> QED
        BY <2>2, <3>1, <3>2
    <2> QED
      BY <2>1, <2>2
  <1>8. p \in List!Pointer /\ q \in List!Pointer /\ t \in List!Pointer /\ t # Null
        /\ p # t /\ q # t
    <2>1. t # Null /\ \A i \in 1 .. Len(c) : c[i] # t
      BY ListAssumption DEF ListAssumption, Nodes
    <2>2. k # 1 => k - 1 \in 1 .. Len(c)
      BY <1>1, <1>3
    <2>3. k # Len(c) + 1 => k \in 1 .. Len(c)
      BY <1>1, <1>3
    <2> HIDE DEF k
    <2> QED
      BY <1>1, <2>1, <2>2, <2>3 DEF List!Pointer
  <1>9. \A u \in ListTimers : u # Null
    BY ListAssumption DEF ListAssumption
  <1> HIDE DEF n, k, w, cur, prev, m, p, q
  <1>10. Inserted(l, t, p, q, m)
    <2>1. CASE Len(c) = 0
      <3>1. m = [l EXCEPT !.head = t, !.tail = t]
        BY <1>4, <1>5, <2>1 DEF List!AddAsHead
      <3>2. p = Null /\ q = Null
        BY <1>3, <2>1 DEF p, q
      <3> QED
        BY <1>8, <1>9, <3>1, <3>2 DEF Inserted, List!List
    <2>2. CASE Len(c) # 0 /\ cur # Null
      <3> DEFINE a == [l EXCEPT !.head = IF p = Null THEN t ELSE @, !.prev[t] = p, !.next[t] = q]
                 b == List!SetNext(a, p, t)
      <3>1. l.head # Null
        BY <1>1, <1>5, <2>2
      <3>2. m = List!SetPrev(b, q, t)
        BY <1>4, <1>6, <1>7, <2>2, <3>1 DEF List!InsertBefore
      <3>3. /\ a \in List!List /\ a.expire = l.expire
            /\ a.head = IF p = Null THEN t ELSE l.head
            /\ \A u \in ListTimers : /\ a.next[u] = IF u = t THEN q ELSE l.next[u]
                                     /\ a.prev[u] = IF u = t THEN p ELSE l.prev[u]
        BY <1>8 DEF List!List
      <3> HIDE DEF a
      <3>4. /\ b \in List!List /\ b.head = a.head /\ b.expire = a.expire /\ b.prev = a.prev
            /\ \A u \in ListTimers : b.next[u] = IF u = p THEN t ELSE a.next[u]
        BY <1>8, <3>3, PointerFacts
      <3> HIDE DEF b
      <3>5. /\ m \in List!List /\ m.head = b.head /\ m.expire = b.expire /\ m.next = b.next
            /\ \A u \in ListTimers : m.prev[u] = IF u = q THEN t ELSE b.prev[u]
        <4>1. b \in List!List /\ q \in List!Pointer /\ t \in List!Pointer
          BY <1>8, <3>4
        <4>2. /\ List!SetPrev(b, q, t) \in List!List
              /\ List!SetPrev(b, q, t).head = b.head
              /\ List!SetPrev(b, q, t).expire = b.expire
              /\ List!SetPrev(b, q, t).next = b.next
              /\ \A u \in ListTimers :
                   List!SetPrev(b, q, t).prev[u] = IF u = q THEN t ELSE b.prev[u]
          BY <4>1, PointerFacts
        <4> QED
          BY <3>2, <4>2
      <3> QED
        BY <1>8, <3>3, <3>4, <3>5 DEF Inserted
    <2>3. CASE Len(c) # 0 /\ cur = Null
      <3>1. l.head # Null
        BY <1>1, <1>5, <2>3
      <3>2. m = [l EXCEPT !.next[p] = t, !.prev[t] = p, !.next[t] = Null]
        BY <1>4, <1>7, <2>3, <3>1 DEF List!AppendAfter
      <3>3. q = Null /\ p # Null /\ p \in ListTimers
        <4>1. k = Len(c) + 1 /\ k # 1 /\ k - 1 \in 1 .. Len(c)
          BY <1>1, <1>3, <1>6, <2>3 DEF q
        <4> QED
          BY <1>1, <4>1 DEF p, q
      <3> QED
        BY <1>8, <1>9, <3>2, <3>3 DEF Inserted, List!List
    <2> QED
      BY <2>1, <2>2, <2>3
  <1> QED
    BY <1>3, <1>10 DEF k, p, q, m

LEMMA InsertedLinks ==
  ASSUME NEW l \in List!List, NEW c, Links(l, c), NEW t \in ListTimers \ Nodes(c),
         NEW k \in 1 .. Len(c) + 1, NEW m, NEW p, NEW q,
         p = IF k = 1 THEN Null ELSE c[k - 1], q = IF k = Len(c) + 1 THEN Null ELSE c[k],
         Inserted(l, t, p, q, m)
  PROVE  LET d == SortedList!InsertAt(c, k, t)
         IN  Links(m, d) /\ Nodes(d) = Nodes(c) \cup {t}
  <1> DEFINE d == SortedList!InsertAt(c, k, t)
             N == Len(c)
             From(i) == IF i < k THEN i ELSE i - 1
  <1>1. /\ N \in Nat /\ k \in 1 .. N + 1
        /\ \A i \in 1 .. N : c[i] # Null /\ c[i] \in ListTimers /\ c[i] # t
    <2>1. \A i \in 1 .. N : c[i] # t
      BY DEF Nodes
    <2> QED
      BY <2>1, CellFacts
  <1>2. /\ c \in Cells
        /\ \A i, j \in 1 .. N : c[i] = c[j] => i = j
        /\ l.head = IF N = 0 THEN Null ELSE c[1]
        /\ \A i \in 1 .. N : /\ l.next[c[i]] = IF i = N THEN Null ELSE c[i + 1]
                             /\ l.prev[c[i]] = IF i = 1 THEN Null ELSE c[i - 1]
    BY DEF Links
  <1>3. /\ d \in Cells /\ Len(d) = N + 1
        /\ \A i \in 1 .. N + 1 : d[i] = IF i < k THEN c[i] ELSE IF i = k THEN t ELSE c[i - 1]
    BY <1>2, InsertedAt DEF Cells
  <1>4. /\ m.head = IF p = Null THEN t ELSE l.head
        /\ \A u \in ListTimers :
             /\ m.next[u] = IF u = t THEN q ELSE IF u = p THEN t ELSE l.next[u]
             /\ m.prev[u] = IF u = t THEN p ELSE IF u = q THEN t ELSE l.prev[u]
    BY DEF Inserted
  <1>5. /\ k # 1 => k - 1 \in 1 .. N /\ p = c[k - 1] /\ p # Null
        /\ k = 1 => p = Null
        /\ k # N + 1 => k \in 1 .. N /\ q = c[k]
        /\ k = N + 1 => q = Null
    BY <1>1
  <1>6. \A i \in 1 .. N : (c[i] = p <=> i = k - 1) /\ (c[i] = q <=> i = k)
    BY <1>1, <1>2, <1>5
  <1> HIDE DEF d, N
  <1>7. \A i \in 1 .. N + 1 : i # k => From(i) \in 1 .. N /\ d[i] = c[From(i)]
    BY <1>1, <1>3
  <1>8. d[k] = t
    BY <1>1, <1>3
  <1>9. \A i, j \in 1 .. N + 1 : d[i] = d[j] => i = j
    <2> SUFFICES ASSUME NEW i \in 1 .. N + 1, NEW j \in 1 .. N + 1, d[i] = d[j] PROVE i = j
      OBVIOUS
    <2>1. i = k <=> j = k
      BY <1>1, <1>7, <1>8
    <2>2. ASSUME i # k, j # k PROVE i = j
      <3>1. From(i) = From(j)
        <4> HIDE DEF From
        <4> QED
          BY <1>2, <1>7, <2>2
      <3> QED
        BY <1>1, <2>2, <3>1
    <2> QED
      BY <2>1, <2>2
  <1>10. m.head = d[1]
    <2>1. CASE k = 1
      BY <1>4, <1>5, <1>8, <2>1
    <2>2. CASE k # 1
      <3>1. N # 0 /\ 1 < k /\ 1 \in 1 .. N + 1
        BY <1>1, <2>2
      <3> QED
        BY <1>2, <1>3, <1>4, <1>5, <2>2, <3>1
    <2> QED
      BY <2>1, <2>2
  <1>11. ASSUME NEW i \in 1 .. N + 1
         PROVE  m.next[d[i]] = IF i = N + 1 THEN Null ELSE d[i + 1]
    <2>1. CASE i = k
      <3>1. m.next[d[i]] = q
        BY <1>4, <1>8, <2>1
      <3>2. i # N + 1 => /\ i + 1 \in 1 .. N + 1 /\ ~(i + 1 < k) /\ i + 1 # k
                         /\ (i + 1) - 1 = k
        BY <1>1, <2>1
      <3>3. i # N + 1 => d[i + 1] = c[k]
        BY <1>3, <3>2
      <3> QED
        BY <1>5, <2>1, <3>1, <3>3
    <2>2. CASE i = k - 1
      <3>1. i \in 1 .. N /\ i # k /\ i < k /\ i # N + 1 /\ i + 1 = k
        BY <1>1, <2>2
      <3>2. d[i] = c[i] /\ c[i] = p /\ c[i] # t /\ c[i] \in ListTimers
        BY <1>1, <1>3, <1>6, <2>2, <3>1
      <3>3. m.next[c[i]] = t
        BY <1>4, <3>2
      <3> QED
        BY <1>8, <3>1, <3>2, <3>3
    <2>3. CASE i < k - 1
      <3>1. /\ i \in 1 .. N /\ i < k /\ i # N + 1 /\ i # N /\ i + 1 \in 1 .. N + 1
            /\ i + 1 < k /\ i # k - 1
        BY <1>1, <2>3
      <3>2. d[i] = c[i] /\ c[i] # p /\ c[i] # t /\ c[i] \in ListTimers /\ d[i + 1] = c[i + 1]
        BY <1>1, <1>3, <1>6, <3>1
      <3>3. m.next[c[i]] = l.next[c[i]] /\ l.next[c[i]] = c[i + 1]
        BY <1>2, <1>4, <3>1, <3>2
      <3> QED
        BY <3>1, <3>2, <3>3
    <2>4. CASE i > k
      <3>1. /\ i - 1 \in 1 .. N /\ ~(i < k) /\ i # k /\ i - 1 # k - 1
            /\ (i = N + 1 <=> i - 1 = N) /\ (i - 1) + 1 = i
        BY <1>1, <2>4
      <3>2. d[i] = c[i - 1] /\ c[i - 1] # p /\ c[i - 1] # t /\ c[i - 1] \in ListTimers
        BY <1>1, <1>3, <1>6, <3>1
      <3>3. m.next[c[i - 1]] = l.next[c[i - 1]]
        BY <1>4, <3>2
      <3>4. l.next[c[i - 1]] = IF i - 1 = N THEN Null ELSE c[(i - 1) + 1]
        BY <1>2, <3>1
      <3>5. i # N + 1 => /\ i + 1 \in 1 .. N + 1 /\ ~(i + 1 < k) /\ i + 1 # k
                         /\ (i + 1) - 1 = i
        BY <1>1, <2>4
      <3>6. i # N + 1 => d[i + 1] = c[i]
        BY <1>3, <3>5
      <3> QED
        BY <3>1, <3>2, <3>3, <3>4, <3>6
    <2>5. i = k \/ i = k - 1 \/ i < k - 1 \/ i > k
      BY <1>1
    <2> QED
      BY <2>1, <2>2, <2>3, <2>4, <2>5
  <1>12. ASSUME NEW i \in 1 .. N + 1
         PROVE  m.prev[d[i]] = IF i = 1 THEN Null ELSE d[i - 1]
    <2>1. CASE i = k
      <3>1. m.prev[d[i]] = p
        BY <1>4, <1>8, <2>1
      <3>2. i # 1 => i - 1 \in 1 .. N + 1 /\ i - 1 < k
        BY <1>1, <2>1
      <3>3. i # 1 => d[i - 1] = c[k - 1]
        BY <1>3, <2>1, <3>2
      <3> QED
        BY <1>5, <2>1, <3>1, <3>3
    <2>2. CASE i = k + 1
      <3>1. i - 1 \in 1 .. N /\ i - 1 = k /\ ~(i < k) /\ i # k /\ i # 1
        BY <1>1, <2>2
      <3>2. d[i] = c[k] /\ c[k] = q /\ c[k] # t /\ c[k] \in ListTimers
        BY <1>1, <1>3, <1>6, <3>1
      <3>3. m.prev[c[k]] = t
        BY <1>4, <3>2
      <3> QED
        BY <1>8, <3>1, <3>2, <3>3
    <2>3. CASE i < k
      <3>1. i \in 1 .. N /\ i # k /\ (i # 1 => i - 1 \in 1 .. N + 1 /\ i - 1 < k)
        BY <1>1, <2>3
      <3>2. d[i] = c[i] /\ c[i] # q /\ c[i] # t /\ c[i] \in ListTimers
        BY <1>1, <1>3, <1>6, <2>3, <3>1
      <3>3. m.prev[c[i]] = l.prev[c[i]] /\ l.prev[c[i]] = IF i = 1 THEN Null ELSE c[i - 1]
        BY <1>2, <1>4, <3>1, <3>2
      <3>4. i # 1 => d[i - 1] = c[i - 1]
        BY <1>3, <3>1
      <3> QED
        BY <3>2, <3>3, <3>4
    <2>4. CASE i > k + 1
      <3>1. /\ i - 1 \in 1 .. N /\ ~(i < k) /\ i # k /\ i - 1 # k /\ i # 1 /\ i - 1 # 1
            /\ i - 1 \in 1 .. N + 1 /\ ~(i - 1 < k)
        BY <1>1, <2>4
      <3>2. d[i] = c[i - 1] /\ c[i - 1] # q /\ c[i - 1] # t /\ c[i - 1] \in ListTimers
        BY <1>1, <1>3, <1>6, <3>1
      <3>3. m.prev[c[i - 1]] = l.prev[c[i - 1]] /\ l.prev[c[i - 1]] = c[(i - 1) - 1]
        BY <1>2, <1>4, <3>1, <3>2
      <3>4. d[i - 1] = c[(i - 1) - 1]
        BY <1>3, <3>1
      <3> QED
        BY <3>1, <3>2, <3>3, <3>4
    <2>5. i = k \/ i = k + 1 \/ i < k \/ i > k + 1
      BY <1>1
    <2> QED
      BY <2>1, <2>2, <2>3, <2>4, <2>5
  <1>13. Links(m, d)
    <2>1. Len(d) # 0
      BY <1>1, <1>3
    <2> QED
      BY <1>3, <1>9, <1>10, <1>11, <1>12, <2>1 DEF Links
  <1>14. Nodes(d) = Nodes(c) \cup {t}
    <2>1. ASSUME NEW u \in Nodes(d) PROVE u \in Nodes(c) \cup {t}
      <3>1. PICK i \in 1 .. N + 1 : u = d[i]
        BY <1>3 DEF Nodes
      <3>2. i = k \/ u \in Nodes(c)
        <4> HIDE DEF From
        <4> QED
          BY <1>7, <3>1 DEF Nodes, N
      <3> QED
        BY <1>8, <3>1, <3>2
    <2>2. ASSUME NEW u \in Nodes(c) PROVE u \in Nodes(d)
      <3>1. PICK j \in 1 .. N : u = c[j]
        BY DEF Nodes, N
      <3>2. \E i \in 1 .. N + 1 : d[i] = u
        <4>1. CASE j < k
          BY <1>1, <1>3, <3>1, <4>1
        <4>2. CASE j >= k
          <5>1. j + 1 \in 1 .. N + 1 /\ ~(j + 1 < k) /\ j + 1 # k /\ (j + 1) - 1 = j
            BY <1>1, <4>2
          <5>2. d[j + 1] = c[(j + 1) - 1]
            BY <1>3, <5>1
          <5> QED
            BY <3>1, <5>1, <5>2
        <4> QED
          BY <1>1, <4>1, <4>2
      <3> QED
        BY <1>3, <3>2 DEF Nodes
    <2>3. t \in Nodes(d)
      BY <1>1, <1>3, <1>8 DEF Nodes
    <2> QED
      BY <2>1, <2>2, <2>3
  <1> QED
    BY <1>13, <1>14 DEF d

LEMMA RemovedLinks ==
  ASSUME NEW l \in List!List, NEW c, Links(l, c), NEW k \in 1 .. Len(c)
  PROVE  LET d == SortedList!RemoveAt(c, k)
             m == List!SoftDelTimer(l, c[k])
         IN  /\ m \in List!List /\ m.expire = l.expire
             /\ Links(m, d) /\ Nodes(d) = Nodes(c) \ {c[k]}
             /\ \A u \in ListTimers \ Nodes(c) : m.next[u] = l.next[u] /\ m.prev[u] = l.prev[u]
  <1> DEFINE d == SortedList!RemoveAt(c, k)
             m == List!SoftDelTimer(l, c[k])
             N == Len(c)
             p == l.prev[c[k]]
             q == l.next[c[k]]
             From(i) == IF i < k THEN i ELSE i + 1
  <1>1. /\ N \in Nat /\ k \in 1 .. N
        /\ \A i \in 1 .. N : c[i] # Null /\ c[i] \in ListTimers
    BY CellFacts
  <1>2. /\ c \in Cells
        /\ \A i, j \in 1 .. N : c[i] = c[j] => i = j
        /\ l.head = IF N = 0 THEN Null ELSE c[1]
        /\ \A i \in 1 .. N : /\ l.next[c[i]] = IF i = N THEN Null ELSE c[i + 1]
                             /\ l.prev[c[i]] = IF i = 1 THEN Null ELSE c[i - 1]
    BY DEF Links
  <1>3. /\ d \in Cells /\ Len(d) = N - 1
        /\ \A i \in 1 .. N - 1 : d[i] = IF i < k THEN c[i] ELSE c[i + 1]
    BY <1>2, RemovedAt DEF Cells
  <1>4. p = (IF k = 1 THEN Null ELSE c[k - 1]) /\ q = (IF k = N THEN Null ELSE c[k + 1])
    BY <1>1, <1>2
  <1>5. /\ k # 1 => k - 1 \in 1 .. N /\ p = c[k - 1] /\ p # Null
        /\ k = 1 => p = Null
        /\ k # N => k + 1 \in 1 .. N /\ q = c[k + 1]
        /\ k = N => q = Null
        /\ p \in List!Pointer /\ q \in List!Pointer
    <2>1. k # 1 => k - 1 \in 1 .. N
      BY <1>1
    <2>2. k # N => k + 1 \in 1 .. N
      BY <1>1
    <2> HIDE DEF p, q, N
    <2> QED
      BY <1>1, <1>4, <2>1, <2>2 DEF List!Pointer
  <1>6. \A i \in 1 .. N : (c[i] = p <=> i = k - 1) /\ (c[i] = q <=> i = k + 1)
    <2> SUFFICES ASSUME NEW i \in 1 .. N
                 PROVE  (c[i] = p <=> i = k - 1) /\ (c[i] = q <=> i = k + 1)
      OBVIOUS
    <2>1. c[i] # Null
      BY <1>1
    <2>2. k # 1 => (c[i] = c[k - 1] <=> i = k - 1)
      BY <1>2, <1>5
    <2>3. k # N => (c[i] = c[k + 1] <=> i = k + 1)
      BY <1>2, <1>5
    <2>4. (k = 1 => i # k - 1) /\ (k = N => i # k + 1)
      BY <1>1
    <2> HIDE DEF p, q, N
    <2> QED
      BY <1>5, <2>1, <2>2, <2>3, <2>4
  <1>7. /\ m \in List!List /\ m.expire = l.expire
        /\ m.head = IF p = Null THEN q ELSE l.head
        /\ \A u \in ListTimers : /\ m.next[u] = IF u = p THEN q ELSE l.next[u]
                                 /\ m.prev[u] = IF u = q THEN p ELSE l.prev[u]
    <2> DEFINE a == [l EXCEPT !.head = IF p = Null THEN q ELSE @,
                              !.tail = IF q = Null THEN p ELSE @]
               b == List!SetNext(a, p, q)
    <2>1. m = List!SetPrev(b, q, p)
      BY DEF List!SoftDelTimer
    <2> HIDE DEF m, p, q
    <2>2. /\ a \in List!List /\ a.expire = l.expire /\ a.prev = l.prev /\ a.next = l.next
          /\ a.head = IF p = Null THEN q ELSE l.head
      BY <1>5 DEF List!List
    <2> HIDE DEF a
    <2>3. p \in List!Pointer /\ q \in List!Pointer /\ a \in List!List
      BY <1>5, <2>2
    <2>4. /\ b \in List!List /\ b.head = a.head /\ b.expire = a.expire /\ b.prev = a.prev
          /\ \A u \in ListTimers : b.next[u] = IF u = p THEN q ELSE a.next[u]
      BY <2>3, PointerFacts
    <2> HIDE DEF b
    <2>5. b \in List!List
      BY <2>4
    <2>6. /\ List!SetPrev(b, q, p) \in List!List
          /\ List!SetPrev(b, q, p).head = b.head
          /\ List!SetPrev(b, q, p).expire = b.expire
          /\ List!SetPrev(b, q, p).next = b.next
          /\ \A u \in ListTimers :
               List!SetPrev(b, q, p).prev[u] = IF u = q THEN p ELSE b.prev[u]
      BY <2>3, <2>5, PointerFacts
    <2> QED
      BY <2>1, <2>2, <2>4, <2>6
  <1> HIDE DEF d, p, q, N, m
  <1>8. \A i \in 1 .. N - 1 : From(i) \in 1 .. N /\ From(i) # k /\ d[i] = c[From(i)]
    BY <1>1, <1>3
  <1>9. \A i, j \in 1 .. N - 1 : d[i] = d[j] => i = j
    <2> SUFFICES ASSUME NEW i \in 1 .. N - 1, NEW j \in 1 .. N - 1, d[i] = d[j] PROVE i = j
      OBVIOUS
    <2>1. From(i) = From(j)
      <3> HIDE DEF From
      <3> QED
        BY <1>2, <1>8
    <2> QED
      BY <1>1, <2>1
  <1>10. m.head = IF N - 1 = 0 THEN Null ELSE d[1]
    <2>1. CASE k = 1
      <3>1. m.head = q
        BY <1>5, <1>7, <2>1
      <3>2. N # 1 => 1 \in 1 .. N - 1 /\ ~(1 < k) /\ k + 1 = 1 + 1
        BY <1>1, <2>1
      <3>3. N # 1 => d[1] = c[1 + 1]
        BY <1>3, <3>2
      <3>4. N - 1 = 0 <=> N = 1
        BY <1>1
      <3> QED
        BY <1>5, <2>1, <3>1, <3>2, <3>3, <3>4
    <2>2. CASE k # 1
      <3>1. N # 0 /\ 1 < k /\ 1 \in 1 .. N - 1 /\ N - 1 # 0
        BY <1>1, <2>2
      <3>2. d[1] = c[1]
        BY <1>3, <3>1
      <3> QED
        BY <1>2, <1>5, <1>7, <2>2, <3>1, <3>2
    <2> QED
      BY <2>1, <2>2
  <1>11. ASSUME NEW i \in 1 .. N - 1
         PROVE  m.next[d[i]] = IF i = N - 1 THEN Null ELSE d[i + 1]
    <2>1. CASE i = k - 1
      <3>1. /\ i \in 1 .. N /\ i < k /\ i + 1 = k
            /\ (i = N - 1 <=> k = N)
            /\ (k # N => i + 1 \in 1 .. N - 1 /\ ~(i + 1 < k))
        BY <1>1, <2>1
      <3>2. d[i] = c[i] /\ c[i] = p /\ c[i] \in ListTimers
        BY <1>1, <1>3, <1>6, <2>1, <3>1
      <3>3. m.next[d[i]] = q
        BY <1>7, <3>2
      <3>4. k # N => d[i + 1] = c[k + 1]
        BY <1>3, <3>1
      <3> QED
        BY <1>5, <3>1, <3>3, <3>4
    <2>2. CASE i < k - 1
      <3>1. /\ i \in 1 .. N /\ i < k /\ i # N /\ i # N - 1 /\ i + 1 \in 1 .. N - 1
            /\ i + 1 < k /\ i # k - 1
        BY <1>1, <2>2
      <3>2. d[i] = c[i] /\ c[i] # p /\ c[i] \in ListTimers /\ d[i + 1] = c[i + 1]
        BY <1>1, <1>3, <1>6, <3>1
      <3>3. m.next[c[i]] = l.next[c[i]] /\ l.next[c[i]] = c[i + 1]
        BY <1>2, <1>7, <3>1, <3>2
      <3> QED
        BY <3>1, <3>2, <3>3
    <2>3. CASE i >= k
      <3>1. /\ i + 1 \in 1 .. N /\ ~(i < k) /\ i + 1 # k - 1
            /\ (i = N - 1 <=> i + 1 = N)
            /\ (i # N - 1 => i + 1 \in 1 .. N - 1 /\ ~(i + 1 < k))
        BY <1>1, <2>3
      <3>2. d[i] = c[i + 1] /\ c[i + 1] # p /\ c[i + 1] \in ListTimers
        BY <1>1, <1>3, <1>6, <3>1
      <3>3. /\ m.next[c[i + 1]] = l.next[c[i + 1]]
            /\ l.next[c[i + 1]] = IF i + 1 = N THEN Null ELSE c[(i + 1) + 1]
        BY <1>2, <1>7, <3>1, <3>2
      <3>4. i # N - 1 => d[i + 1] = c[(i + 1) + 1]
        BY <1>3, <3>1
      <3> QED
        BY <3>1, <3>2, <3>3, <3>4
    <2>4. i = k - 1 \/ i < k - 1 \/ i >= k
      BY <1>1
    <2> QED
      BY <2>1, <2>2, <2>3, <2>4
  <1>12. ASSUME NEW i \in 1 .. N - 1
         PROVE  m.prev[d[i]] = IF i = 1 THEN Null ELSE d[i - 1]
    <2>1. CASE i = k
      <3>1. /\ i + 1 \in 1 .. N /\ ~(i < k) /\ i + 1 = k + 1
            /\ (i # 1 => i - 1 \in 1 .. N - 1 /\ i - 1 < k)
        BY <1>1, <2>1
      <3>2. d[i] = c[i + 1] /\ c[i + 1] = q /\ c[i + 1] \in ListTimers
        BY <1>1, <1>3, <1>6, <3>1
      <3>3. m.prev[d[i]] = p
        BY <1>7, <3>2
      <3>4. i # 1 => d[i - 1] = c[i - 1]
        BY <1>3, <3>1
      <3> QED
        BY <1>5, <2>1, <3>3, <3>4
    <2>2. CASE i < k
      <3>1. i \in 1 .. N /\ i # k + 1 /\ (i # 1 => i - 1 \in 1 .. N - 1 /\ i - 1 < k)
        BY <1>1, <2>2
      <3>2. d[i] = c[i] /\ c[i] # q /\ c[i] \in ListTimers
        BY <1>1, <1>3, <1>6, <2>2, <3>1
      <3>3. m.prev[c[i]] = l.prev[c[i]] /\ l.prev[c[i]] = IF i = 1 THEN Null ELSE c[i - 1]
        BY <1>2, <1>7, <3>1, <3>2
      <3>4. i # 1 => d[i - 1] = c[i - 1]
        BY <1>3, <3>1
      <3> QED
        BY <3>2, <3>3, <3>4
    <2>3. CASE i > k
      <3>1. /\ i + 1 \in 1 .. N /\ ~(i < k) /\ i + 1 # k + 1 /\ i # 1 /\ i + 1 # 1
            /\ i - 1 \in 1 .. N - 1 /\ ~(i - 1 < k) /\ (i - 1) + 1 = i /\ (i + 1) - 1 = i
        BY <1>1, <2>3
      <3>2. d[i] = c[i + 1] /\ c[i + 1] # q /\ c[i + 1] \in ListTimers
        BY <1>1, <1>3, <1>6, <3>1
      <3>3. /\ m.prev[c[i + 1]] = l.prev[c[i + 1]]
            /\ l.prev[c[i + 1]] = c[(i + 1) - 1]
        BY <1>2, <1>7, <3>1, <3>2
      <3>4. d[i - 1] = c[(i - 1) + 1]
        BY <1>3, <3>1
      <3> QED
        BY <3>1, <3>2, <3>3, <3>4
    <2>4. i = k \/ i < k \/ i > k
      BY <1>1
    <2> QED
      BY <2>1, <2>2, <2>3, <2>4
  <1>13. Links(m, d)
    BY <1>3, <1>9, <1>10, <1>11, <1>12 DEF Links
  <1>14. Nodes(d) = Nodes(c) \ {c[k]}
    <2>1. ASSUME NEW u \in Nodes(d) PROVE u \in Nodes(c) /\ u # c[k]
      <3>1. PICK i \in 1 .. N - 1 : u = d[i]
        BY <1>3 DEF Nodes
      <3>2. PICK j \in 1 .. N : j # k /\ u = c[j]
        BY <1>8, <3>1
      <3> QED
        BY <1>1, <1>2, <3>2 DEF Nodes, N
    <2>2. ASSUME NEW u \in Nodes(c), u # c[k] PROVE u \in Nodes(d)
      <3>1. PICK j \in 1 .. N : u = c[j] /\ j # k
        BY <2>2 DEF Nodes, N
      <3>2. \E i \in 1 .. N - 1 : d[i] = u
        <4>1. CASE j < k
          BY <1>1, <1>3, <3>1, <4>1
        <4>2. CASE j > k
          <5>1. j - 1 \in 1 .. N - 1 /\ ~(j - 1 < k) /\ (j - 1) + 1 = j
            BY <1>1, <4>2
          <5>2. d[j - 1] = c[(j - 1) + 1]
            BY <1>3, <5>1
          <5> QED
            BY <3>1, <5>1, <5>2
        <4> QED
          BY <1>1, <3>1, <4>1, <4>2
      <3> QED
        BY <1>3, <3>2 DEF Nodes
    <2> QED
      BY <2>1, <2>2
  <1>15. ASSUME NEW u \in ListTimers \ Nodes(c)
         PROVE  m.next[u] = l.next[u] /\ m.prev[u] = l.prev[u]
    <2>1. u # Null /\ \A i \in 1 .. N : c[i] # u
      BY ListAssumption DEF ListAssumption, Nodes, N
    <2>2. u # p /\ u # q
      BY <1>5, <2>1
    <2> QED
      BY <1>7, <2>2
  <1> QED
    BY <1>7, <1>13, <1>14, <1>15 DEF d, m

-----------------------------------------------------------------------------
(* The calls.                                                               *)

\* A sequence of entries is told by its timers and their times.
LEMMA EntriesAre ==
  ASSUME NEW l \in List!List, NEW c, Links(l, c), NEW s \in Seq(List!Sorted!Entry),
         Len(s) = Len(c),
         \A k \in 1 .. Len(c) : s[k].timer = c[k] /\ s[k].expire = l.expire[c[k]]
  PROVE  s = Entries(l, c)
  <1> DEFINE e == Entries(l, c)
  <1>1. /\ e \in Seq(List!Sorted!Entry) /\ Len(e) = Len(c) /\ Len(c) \in Nat
        /\ \A k \in 1 .. Len(c) : e[k].timer = c[k] /\ e[k].expire = l.expire[c[k]]
    BY EntriesFacts
  <1> HIDE DEF e
  <1>2. \A k \in 1 .. Len(c) : s[k] \in List!Sorted!Entry /\ e[k] \in List!Sorted!Entry
    BY <1>1, ElementOfSeq
  <1>3. \A k \in 1 .. Len(s) : s[k] = e[k]
    BY <1>1, <1>2 DEF List!Sorted!Entry
  <1>4. s = e
    BY <1>1, <1>3, SeqEqual
  <1> QED
    BY <1>4 DEF e

\* What the links of the timers of a list say is all that it amounts to.
LEMMA Unmoved ==
  ASSUME NEW l \in List!List, NEW c, Links(l, c), NEW m \in List!List, m.head = l.head,
         \A t \in Nodes(c) : /\ m.next[t] = l.next[t] /\ m.prev[t] = l.prev[t]
                             /\ m.expire[t] = l.expire[t]
  PROVE  Links(m, c) /\ Entries(m, c) = Entries(l, c)
  <1>1. \A i \in 1 .. Len(c) : /\ m.next[c[i]] = l.next[c[i]] /\ m.prev[c[i]] = l.prev[c[i]]
                               /\ m.expire[c[i]] = l.expire[c[i]]
    BY DEF Nodes
  <1>2. Links(m, c)
    BY <1>1 DEF Links
  <1> QED
    BY <1>1, <1>2 DEF Entries

LEMMA FreeFacts ==
  ASSUME NEW l \in List!List, NEW c, Links(l, c), NEW S, S \cap Nodes(c) = {}
  PROVE  LET m == List!Free(l, S)
         IN  /\ m \in List!List /\ m.head = l.head /\ Links(m, c)
             /\ Entries(m, c) = Entries(l, c)
             /\ \A t \in ListTimers :
                  /\ m.next[t] = IF t \in S THEN Null ELSE l.next[t]
                  /\ m.prev[t] = IF t \in S THEN Null ELSE l.prev[t]
  <1> DEFINE m == List!Free(l, S)
  <1>1. List!Earliest \in ListTimes
    <2>1. \E x \in ListTimes : \A y \in ListTimes : x <= y
      BY ListAssumption, LeastNat DEF ListAssumption
    <2> QED
      BY <2>1 DEF List!Earliest
  <1>2. /\ m \in List!List /\ m.head = l.head
        /\ \A t \in ListTimers :
             /\ m.next[t] = IF t \in S THEN Null ELSE l.next[t]
             /\ m.prev[t] = IF t \in S THEN Null ELSE l.prev[t]
             /\ m.expire[t] = IF t \in S THEN List!Earliest ELSE l.expire[t]
    BY <1>1 DEF List!Free, List!List, List!Pointer
  <1> HIDE DEF m
  <1>3. \A t \in Nodes(c) : t \in ListTimers /\ t \notin S
    BY CellFacts DEF Nodes
  <1>4. Links(m, c) /\ Entries(m, c) = Entries(l, c)
    BY <1>2, <1>3, Unmoved
  <1> QED
    BY <1>2, <1>4 DEF m

LEMMA Added ==
  ASSUME NEW l, NEW c, NEW A, Represents(l, c, A), NEW t \in ListTimers \ A
  PROVE  LET m == List!AddTimer(l, t)
         IN  \E d : /\ Represents(m, d, A \cup {t})
                    /\ Entries(m, d) = SortedList!Insert(Entries(l, c),
                                         [timer |-> t, expire |-> l.expire[t]])
  <1> DEFINE m == List!AddTimer(l, t)
             e == Entries(l, c)
             x == [timer |-> t, expire |-> l.expire[t]]
             k == SortedList!Place(e, l.expire[t])
             d == SortedList!InsertAt(c, k, t)
             p == IF k = 1 THEN Null ELSE c[k - 1]
             q == IF k = Len(c) + 1 THEN Null ELSE c[k]
             s == SortedList!Insert(e, x)
  <1>1. /\ l \in List!List /\ Links(l, c) /\ Nodes(c) = A
        /\ \A u \in ListTimers \ A : l.prev[u] = Null /\ l.next[u] = Null
    BY DEF Represents
  <1>2. t \in ListTimers \ Nodes(c) /\ l.prev[t] = Null /\ l.next[t] = Null
    BY <1>1
  <1>3. k \in 1 .. Len(c) + 1 /\ Inserted(l, t, p, q, m)
    BY <1>1, <1>2, AddTimerFacts
  <1> HIDE DEF m, e, k, p, q
  <1>4. Links(m, d) /\ Nodes(d) = A \cup {t}
    <2>1. l \in List!List /\ Links(l, c) /\ t \in ListTimers \ Nodes(c)
      BY <1>1, <1>2
    <2>2. Links(m, d) /\ Nodes(d) = Nodes(c) \cup {t}
      BY <1>3, <2>1, InsertedLinks DEF p, q
    <2> QED
      BY <1>1, <2>2
  <1>5. /\ m \in List!List /\ m.expire = l.expire
        /\ \A u \in ListTimers :
             /\ m.next[u] = IF u = t THEN q ELSE IF u = p THEN t ELSE l.next[u]
             /\ m.prev[u] = IF u = t THEN p ELSE IF u = q THEN t ELSE l.prev[u]
    BY <1>3 DEF Inserted
  <1>6. Len(c) \in Nat /\ \A i \in 1 .. Len(c) : c[i] \in A
    BY <1>1, CellFacts DEF Nodes
  <1>7. \A u \in ListTimers \ (A \cup {t}) : u # p /\ u # q /\ u # t
    <2>1. k # 1 => k - 1 \in 1 .. Len(c)
      BY <1>3, <1>6
    <2>2. k # Len(c) + 1 => k \in 1 .. Len(c)
      BY <1>3, <1>6
    <2>3. (p = Null \/ p \in A) /\ (q = Null \/ q \in A)
      BY <1>6, <2>1, <2>2 DEF p, q
    <2> QED
      BY <2>3, ListAssumption DEF ListAssumption
  <1>8. Represents(m, d, A \cup {t})
    BY <1>1, <1>4, <1>5, <1>7 DEF Represents
  <1>9. /\ e \in Seq(List!Sorted!Entry) /\ Len(e) = Len(c)
        /\ \A i \in 1 .. Len(c) : e[i].timer = c[i] /\ e[i].expire = l.expire[c[i]]
    BY <1>1, EntriesFacts DEF e
  <1>10. x \in List!Sorted!Entry /\ x.timer = t /\ x.expire = l.expire[t]
    BY <1>1 DEF List!List, List!Sorted!Entry
  <1>11. /\ s \in Seq(List!Sorted!Entry) /\ Len(s) = Len(c) + 1
         /\ \A i \in 1 .. Len(c) + 1 :
              s[i] = IF i < k THEN e[i] ELSE IF i = k THEN x ELSE e[i - 1]
    <2>1. SortedList!Place(e, x.expire) = k
      BY <1>10 DEF k
    <2> HIDE DEF x
    <2>2. /\ s \in Seq(List!Sorted!Entry) /\ Len(s) = Len(e) + 1
          /\ \A i \in 1 .. Len(e) + 1 :
               s[i] = IF i < SortedList!Place(e, x.expire) THEN e[i]
                      ELSE IF i = SortedList!Place(e, x.expire) THEN x ELSE e[i - 1]
      <3>1. e \in Seq(List!Sorted!Entry) /\ x \in List!Sorted!Entry
        BY <1>9, <1>10
      <3> QED
        BY <3>1, InsertFacts
    <2> HIDE DEF s
    <2> QED
      BY <1>9, <2>1, <2>2
  <1>12. /\ d \in Cells /\ Len(d) = Len(c) + 1
         /\ \A i \in 1 .. Len(c) + 1 : d[i] = IF i < k THEN c[i] ELSE IF i = k THEN t ELSE c[i - 1]
    BY <1>1, <1>3, InsertedAt DEF Cells, Links
  <1> HIDE DEF s, d, x
  <1>13. ASSUME NEW i \in 1 .. Len(d) PROVE s[i].timer = d[i] /\ s[i].expire = m.expire[d[i]]
    <2>0. i \in 1 .. Len(c) + 1
      BY <1>12
    <2>1. CASE i < k
      <3>1. i \in 1 .. Len(c)
        BY <1>3, <1>6, <2>0, <2>1
      <3> QED
        BY <1>5, <1>9, <1>11, <1>12, <2>0, <2>1, <3>1
    <2>2. CASE i = k
      <3>1. ~(k < k)
        BY <1>3
      <3>2. s[i] = x /\ d[i] = t
        BY <1>11, <1>12, <2>0, <2>2, <3>1
      <3> QED
        BY <1>5, <1>10, <3>2
    <2>3. CASE i > k
      <3>1. i - 1 \in 1 .. Len(c) /\ ~(i < k) /\ i # k
        BY <1>3, <1>6, <2>0, <2>3
      <3>2. s[i] = e[i - 1] /\ d[i] = c[i - 1]
        BY <1>11, <1>12, <2>0, <3>1
      <3> QED
        BY <1>5, <1>9, <3>1, <3>2
    <2>4. i < k \/ i = k \/ i > k
      BY <1>3, <1>6, <2>0
    <2> QED
      BY <2>1, <2>2, <2>3, <2>4
  <1>14. s = Entries(m, d)
    BY <1>4, <1>5, <1>11, <1>12, <1>13, EntriesAre
  <1> QED
    BY <1>8, <1>14 DEF s, m, x, e

LEMMA Unlinked ==
  ASSUME NEW l, NEW c, NEW A, Represents(l, c, A), NEW t \in A
  PROVE  LET m == List!SoftDelTimer(l, t)
         IN  \E d : /\ m \in List!List /\ Links(m, d) /\ Nodes(d) = A \ {t}
                    /\ \A u \in ListTimers \ A : m.prev[u] = Null /\ m.next[u] = Null
                    /\ Entries(m, d) = SortedList!Without(Entries(l, c), t)
  <1> DEFINE m == List!SoftDelTimer(l, t)
             e == Entries(l, c)
             k == SortedList!Position(e, t)
             d == SortedList!RemoveAt(c, k)
             s == SortedList!Without(e, t)
  <1>1. /\ l \in List!List /\ Links(l, c) /\ Nodes(c) = A
        /\ \A u \in ListTimers \ A : l.prev[u] = Null /\ l.next[u] = Null
    BY DEF Represents
  <1>2. /\ e \in Seq(List!Sorted!Entry) /\ Len(e) = Len(c) /\ Len(c) \in Nat
        /\ \A i \in 1 .. Len(c) : e[i].timer = c[i] /\ e[i].expire = l.expire[c[i]]
        /\ SortedList!Listed(e) = A
    BY <1>1, EntriesFacts
  <1> HIDE DEF e, m
  <1>3. /\ s \in Seq(List!Sorted!Entry) /\ Len(s) = Len(c) - 1
        /\ k \in 1 .. Len(c) /\ e[k].timer = t
        /\ \A i \in 1 .. Len(c) - 1 : s[i] = IF i < k THEN e[i] ELSE e[i + 1]
    BY <1>2, WithoutFacts
  <1> HIDE DEF k, s
  <1>4. c[k] = t
    BY <1>2, <1>3
  <1>5. /\ m \in List!List /\ m.expire = l.expire /\ Links(m, d) /\ Nodes(d) = A \ {t}
        /\ \A u \in ListTimers \ A : m.next[u] = l.next[u] /\ m.prev[u] = l.prev[u]
    BY <1>1, <1>3, <1>4, RemovedLinks DEF m
  <1>6. /\ Len(d) = Len(c) - 1
        /\ \A i \in 1 .. Len(c) - 1 : d[i] = IF i < k THEN c[i] ELSE c[i + 1]
    BY <1>1, <1>3, RemovedAt DEF Cells, Links
  <1> HIDE DEF d
  <1>7. ASSUME NEW i \in 1 .. Len(d) PROVE s[i].timer = d[i] /\ s[i].expire = m.expire[d[i]]
    <2>1. i \in 1 .. Len(c) - 1 /\ i \in 1 .. Len(c) /\ i + 1 \in 1 .. Len(c)
      BY <1>2, <1>6
    <2>2. (s[i] = e[i] /\ d[i] = c[i]) \/ (s[i] = e[i + 1] /\ d[i] = c[i + 1])
      BY <1>3, <1>6, <2>1
    <2> QED
      BY <1>2, <1>5, <2>1, <2>2
  <1>8. Entries(m, d) = s
    BY <1>3, <1>5, <1>6, <1>7, EntriesAre
  <1>9. \A u \in ListTimers \ A : m.prev[u] = Null /\ m.next[u] = Null
    BY <1>1, <1>5
  <1> QED
    BY <1>5, <1>8, <1>9 DEF m, s, e

LEMMA Rest ==
  ASSUME NEW l, NEW c, NEW A, Represents(l, c, A), NEW k \in 1 .. Len(c) + 1,
         NEW h, h = IF k = Len(c) + 1 THEN Null ELSE c[k]
  PROVE  LET m == List!Pop(l, h)
             d == SubSeq(c, k, Len(c))
         IN  /\ m \in List!List /\ Links(m, d)
             /\ Nodes(d) = A \ {c[i] : i \in 1 .. k - 1}
             /\ \A u \in ListTimers \ A : m.prev[u] = Null /\ m.next[u] = Null
             /\ Entries(m, d) = SubSeq(Entries(l, c), k, Len(Entries(l, c)))
  <1> DEFINE m == List!Pop(l, h)
             d == SubSeq(c, k, Len(c))
             e == Entries(l, c)
             s == SubSeq(e, k, Len(e))
             N == Len(c)
  <1>1. /\ l \in List!List /\ Links(l, c) /\ Nodes(c) = A
        /\ \A u \in ListTimers \ A : l.prev[u] = Null /\ l.next[u] = Null
    BY DEF Represents
  <1>2. /\ N \in Nat /\ k \in 1 .. N + 1 /\ k \in Nat /\ N \in 0 .. N
        /\ \A i \in 1 .. N : c[i] # Null /\ c[i] \in ListTimers
    BY <1>1, CellFacts
  <1>3. /\ c \in Cells
        /\ \A i, j \in 1 .. N : c[i] = c[j] => i = j
        /\ \A i \in 1 .. N : /\ l.next[c[i]] = IF i = N THEN Null ELSE c[i + 1]
                             /\ l.prev[c[i]] = IF i = 1 THEN Null ELSE c[i - 1]
    BY <1>1 DEF Links
  <1>4. /\ k # N + 1 => k \in 1 .. N /\ h = c[k] /\ h \in ListTimers
        /\ k = N + 1 => h = Null
        /\ h \in List!Pointer
    <2>1. k # N + 1 => k \in 1 .. N
      BY <1>2
    <2> HIDE DEF N
    <2> QED
      BY <1>2, <2>1 DEF List!Pointer, N
  <1>5. /\ m \in List!List /\ m.expire = l.expire /\ m.head = h /\ m.next = l.next
        /\ \A u \in ListTimers : m.prev[u] = IF u = h THEN Null ELSE l.prev[u]
    <2> DEFINE a == [l EXCEPT !.head = h]
    <2>1. /\ a \in List!List /\ a.head = h /\ a.expire = l.expire
          /\ a.next = l.next /\ a.prev = l.prev
      BY <1>1, <1>4 DEF List!List
    <2>2. m = List!SetPrev(a, h, Null)
      BY DEF List!Pop
    <2> HIDE DEF m, a
    <2>3. a \in List!List /\ h \in List!Pointer /\ Null \in List!Pointer
      BY <1>4, <2>1 DEF List!Pointer
    <2>4. /\ List!SetPrev(a, h, Null) \in List!List
          /\ List!SetPrev(a, h, Null).head = a.head
          /\ List!SetPrev(a, h, Null).expire = a.expire
          /\ List!SetPrev(a, h, Null).next = a.next
          /\ \A u \in ListTimers :
               List!SetPrev(a, h, Null).prev[u] = IF u = h THEN Null ELSE a.prev[u]
      BY <2>3, PointerFacts
    <2> QED
      BY <2>1, <2>2, <2>4
  <1>6. /\ d \in Cells /\ Len(d) = N - k + 1
        /\ \A i \in 1 .. N - k + 1 : d[i] = c[k + i - 1]
    BY <1>2, <1>3, SubSequence DEF Cells
  <1>7. /\ e \in Seq(List!Sorted!Entry) /\ Len(e) = N
        /\ \A i \in 1 .. N : e[i].timer = c[i] /\ e[i].expire = l.expire[c[i]]
    BY <1>1, EntriesFacts
  <1> HIDE DEF e
  <1>8. /\ s \in Seq(List!Sorted!Entry) /\ Len(s) = N - k + 1
        /\ \A i \in 1 .. N - k + 1 : s[i] = e[k + i - 1]
    <2>1. k \in 1 .. Len(e) + 1 /\ Len(e) \in 0 .. Len(e) /\ k <= Len(e) + 1
      BY <1>2, <1>7
    <2>2. /\ s \in Seq(List!Sorted!Entry) /\ Len(s) = Len(e) - k + 1
          /\ \A i \in 1 .. Len(e) - k + 1 : s[i] = e[k + i - 1]
      BY <1>7, <2>1, SubSequence
    <2> HIDE DEF s
    <2> QED
      BY <1>7, <2>2
  <1> HIDE DEF m, d, s, N
  <1> DEFINE From(i) == k + i - 1
  <1>9. \A i \in 1 .. N - k + 1 : From(i) \in k .. N /\ From(i) \in 1 .. N
    BY <1>2
  <1>10. \A i, j \in 1 .. N - k + 1 : d[i] = d[j] => i = j
    <2> SUFFICES ASSUME NEW i \in 1 .. N - k + 1, NEW j \in 1 .. N - k + 1, d[i] = d[j]
                 PROVE  i = j
      OBVIOUS
    <2>1. From(i) = From(j)
      <3>1. d[i] = c[From(i)] /\ d[j] = c[From(j)]
        BY <1>6
      <3> HIDE DEF From
      <3> QED
        BY <1>3, <1>9, <3>1
    <2> QED
      BY <1>2, <2>1
  <1>11. m.head = IF N - k + 1 = 0 THEN Null ELSE d[1]
    <2>1. CASE k = N + 1
      BY <1>2, <1>4, <1>5, <2>1
    <2>2. CASE k # N + 1
      <3>1. 1 \in 1 .. N - k + 1 /\ k + 1 - 1 = k /\ N - k + 1 # 0
        BY <1>2, <2>2
      <3>2. d[1] = c[k + 1 - 1]
        BY <1>6, <3>1
      <3> QED
        BY <1>4, <1>5, <2>2, <3>1, <3>2
    <2> QED
      BY <2>1, <2>2
  <1>12. ASSUME NEW i \in 1 .. N - k + 1
         PROVE  m.next[d[i]] = IF i = N - k + 1 THEN Null ELSE d[i + 1]
    <2>1. /\ k + i - 1 \in 1 .. N /\ (k + i - 1 = N <=> i = N - k + 1)
          /\ (i # N - k + 1 => i + 1 \in 1 .. N - k + 1 /\ k + (i + 1) - 1 = (k + i - 1) + 1)
      BY <1>2
    <2>2. d[i] = c[k + i - 1]
      BY <1>6
    <2>3. i # N - k + 1 => d[i + 1] = c[(k + i - 1) + 1]
      <3> SUFFICES ASSUME i # N - k + 1 PROVE d[i + 1] = c[(k + i - 1) + 1]
        OBVIOUS
      <3>1. d[i + 1] = c[k + (i + 1) - 1]
        BY <1>6, <2>1
      <3> QED
        BY <2>1, <3>1
    <2>4. l.next[c[k + i - 1]] = IF k + i - 1 = N THEN Null ELSE c[(k + i - 1) + 1]
      BY <1>3, <2>1
    <2> QED
      BY <1>5, <2>1, <2>2, <2>3, <2>4
  <1>13. ASSUME NEW i \in 1 .. N - k + 1
         PROVE  m.prev[d[i]] = IF i = 1 THEN Null ELSE d[i - 1]
    <2>1. /\ k + i - 1 \in 1 .. N /\ k # N + 1 /\ (i = 1 <=> k + i - 1 = k)
          /\ (i # 1 => /\ i - 1 \in 1 .. N - k + 1 /\ k + i - 1 # 1
                       /\ k + (i - 1) - 1 = (k + i - 1) - 1)
      BY <1>2
    <2>2. d[i] = c[k + i - 1] /\ d[i] \in ListTimers
      BY <1>2, <1>6, <2>1
    <2>3. d[i] = h <=> i = 1
      BY <1>3, <1>4, <2>1, <2>2
    <2>4. CASE i = 1
      BY <1>5, <2>2, <2>3, <2>4
    <2>5. CASE i # 1
      <3>1. m.prev[d[i]] = l.prev[c[k + i - 1]]
        BY <1>5, <2>2, <2>3, <2>5
      <3>2. l.prev[c[k + i - 1]] = c[(k + i - 1) - 1]
        BY <1>3, <2>1, <2>5
      <3>3. d[i - 1] = c[k + (i - 1) - 1]
        BY <1>6, <2>1, <2>5
      <3> QED
        BY <2>1, <2>5, <3>1, <3>2, <3>3
    <2> QED
      BY <2>4, <2>5
  <1>14. Links(m, d)
    BY <1>6, <1>10, <1>11, <1>12, <1>13 DEF Links
  <1>15. Nodes(d) = A \ {c[i] : i \in 1 .. k - 1}
    <2>1. ASSUME NEW u \in Nodes(d) PROVE u \in A \ {c[i] : i \in 1 .. k - 1}
      <3>1. PICK i \in 1 .. N - k + 1 : u = d[i]
        BY <1>6 DEF Nodes
      <3>2. PICK j \in 1 .. N : j \in k .. N /\ u = c[j]
        BY <1>6, <1>9, <3>1
      <3>3. ASSUME NEW x \in 1 .. k - 1 PROVE c[x] # u
        <4>1. x \in 1 .. N /\ x # j
          BY <1>2, <3>2
        <4> QED
          BY <1>3, <3>2, <4>1
      <3>4. u \in A
        BY <1>1, <3>2 DEF Nodes, N
      <3> QED
        BY <3>3, <3>4
    <2>2. ASSUME NEW u \in A, u \notin {c[i] : i \in 1 .. k - 1} PROVE u \in Nodes(d)
      <3>1. PICK j \in 1 .. N : u = c[j]
        BY <1>1 DEF Nodes, N
      <3>2. j \notin 1 .. k - 1
        BY <2>2, <3>1
      <3>3. j - k + 1 \in 1 .. N - k + 1 /\ k + (j - k + 1) - 1 = j
        BY <1>2, <3>2
      <3>4. d[j - k + 1] = c[k + (j - k + 1) - 1]
        BY <1>6, <3>3
      <3>5. d[j - k + 1] = u
        BY <3>1, <3>3, <3>4
      <3> QED
        BY <1>6, <3>3, <3>5 DEF Nodes
    <2> QED
      BY <2>1, <2>2
  <1>16. ASSUME NEW u \in ListTimers \ A PROVE m.prev[u] = Null /\ m.next[u] = Null
    BY <1>1, <1>5
  <1>17. Entries(m, d) = s
    <2>1. ASSUME NEW i \in 1 .. Len(d) PROVE s[i].timer = d[i] /\ s[i].expire = m.expire[d[i]]
      <3>1. i \in 1 .. N - k + 1 /\ k + i - 1 \in 1 .. N
        BY <1>6, <1>9
      <3>2. s[i] = e[k + i - 1] /\ d[i] = c[k + i - 1]
        BY <1>6, <1>8, <3>1
      <3> QED
        BY <1>5, <1>7, <3>1, <3>2
    <2>2. m \in List!List /\ s \in Seq(List!Sorted!Entry)
      BY <1>5, <1>8
    <2>3. Len(s) = Len(d)
      BY <1>6, <1>8
    <2> QED
      BY ONLY <1>14, <2>1, <2>2, <2>3, EntriesAre
  <1> QED
    BY <1>5, <1>14, <1>15, <1>16, <1>17 DEF m, d, s, e

-----------------------------------------------------------------------------
(* The steps.                                                               *)

\* The list as the sorted list that it stands for, before a call and after it.
LEMMA Ordered ==
  ASSUME NEW c, Represents(list, c, allocated)
  PROVE  List!Order = Entries(list, c)
  <1>1. list \in List!List /\ Links(list, c)
    BY DEF Represents
  <1>2. OrderOf(list) = Entries(list, c)
    BY <1>1, OrderIs
  <1>3. List!Order = OrderOf(list)
    BY DEF List!Order, OrderOf, List!Cardinality, Cardinality
  <1> QED
    BY <1>2, <1>3

LEMMA OrderedNext ==
  ASSUME NEW d, Represents(list', d, allocated')
  PROVE  List!Order' = Entries(list', d)
  <1>1. list' \in List!List /\ Links(list', d)
    BY DEF Represents
  <1>2. OrderOf(list') = Entries(list', d)
    BY <1>1, OrderIs
  <1>3. List!Order' = OrderOf(list')
    BY DEF List!Order, OrderOf, List!Walk, List!Reached, List!Cardinality, Cardinality
  <1> QED
    BY <1>2, <1>3

\* The list of the module that specifies the list, and the one the server uses, have
\* the same operations.
LEMMA SameOperations ==
  /\ \A l, x : List!Sorted!Insert(l, x) = SortedList!Insert(l, x)
  /\ \A l, t : List!Sorted!Without(l, t) = SortedList!Without(l, t)
  /\ \A l : List!Sorted!Listed(l) = SortedList!Listed(l)
  /\ \A l, v : List!Sorted!Place(l, v) = SortedList!Place(l, v)
  <1>1. \A l, v : List!Sorted!Place(l, v) = SortedList!Place(l, v)
    BY DEF List!Sorted!Place, SortedList!Place, List!Sorted!Min, SortedList!Min
  <1>2. \A l : List!Sorted!Listed(l) = SortedList!Listed(l)
    BY DEF List!Sorted!Listed, SortedList!Listed
  <1>3. \A l, t : List!Sorted!Position(l, t) = SortedList!Position(l, t)
    BY DEF List!Sorted!Position, SortedList!Position
  <1>4. \A l, k, x : List!Sorted!InsertAt(l, k, x) = SortedList!InsertAt(l, k, x)
    BY DEF List!Sorted!InsertAt, SortedList!InsertAt
  <1>5. \A l, k : List!Sorted!RemoveAt(l, k) = SortedList!RemoveAt(l, k)
    BY DEF List!Sorted!RemoveAt, SortedList!RemoveAt
  <1>6. \A l, x : List!Sorted!Insert(l, x) = SortedList!Insert(l, x)
    BY <1>1, <1>4 DEF List!Sorted!Insert, SortedList!Insert
  <1>7. \A l, t : List!Sorted!Without(l, t) = SortedList!Without(l, t)
    BY <1>2, <1>3, <1>5 DEF List!Sorted!Without, SortedList!Without
  <1> QED
    BY <1>1, <1>2, <1>6, <1>7

LEMMA EmptyRepresents ==
  ASSUME NEW l \in List!List, l.head = Null,
         \A t \in ListTimers : l.prev[t] = Null /\ l.next[t] = Null
  PROVE  Represents(l, <<>>, {}) /\ Entries(l, <<>>) = <<>>
  <1>1. <<>> \in Cells /\ Len(<<>>) = 0
    BY DEF Cells
  <1>2. Links(l, <<>>) /\ Nodes(<<>>) = {}
    BY <1>1 DEF Links, Nodes
  <1>3. Entries(l, <<>>) \in Seq(List!Sorted!Entry) /\ Len(Entries(l, <<>>)) = 0
    BY <1>1, <1>2, EntriesFacts
  <1>4. Entries(l, <<>>) = <<>>
    BY <1>3, EmptySeq
  <1> QED
    BY <1>2, <1>4 DEF Represents

\* What a call makes of the list, and that the sorted list makes the same of it.
Step(d, Abstract) ==
  Represents(list', d, allocated') /\ fired' \in Seq(ListTimers) /\ Abstract

LEMMA NewStep ==
  ASSUME NEW c, Represents(list, c, allocated), NEW t \in ListTimers, NEW e \in ListTimes,
         List!New(t, e)
  PROVE  \E d : Step(d, List!Sorted!Add(t, e))
  <1> DEFINE l == [list EXCEPT !.expire[t] = e]
             x == [timer |-> t, expire |-> e]
  <1>1. /\ list \in List!List /\ Links(list, c) /\ Nodes(c) = allocated
        /\ \A u \in ListTimers \ allocated : list.prev[u] = Null /\ list.next[u] = Null
    BY DEF Represents
  <1>2. /\ t \notin allocated /\ allocated' = allocated \cup {t}
        /\ list' = List!AddTimer(l, t) /\ fired' = <<>>
    BY DEF List!New
  <1>3. /\ l \in List!List /\ l.head = list.head /\ l.next = list.next /\ l.prev = list.prev
        /\ l.expire[t] = e
        /\ \A u \in ListTimers : u # t => l.expire[u] = list.expire[u]
    BY <1>1 DEF List!List
  <1> HIDE DEF l
  <1>4. \A u \in Nodes(c) : u \in ListTimers /\ u # t
    BY <1>1, <1>2, CellFacts DEF Nodes
  <1>5. Links(l, c) /\ Entries(l, c) = Entries(list, c)
    BY <1>1, <1>3, <1>4, Unmoved
  <1>6. Represents(l, c, allocated)
    BY <1>1, <1>3, <1>5 DEF Represents
  <1>7. t \in ListTimers \ allocated
    BY <1>2
  <1>8. \E d : /\ Represents(List!AddTimer(l, t), d, allocated \cup {t})
               /\ Entries(List!AddTimer(l, t), d)
                    = SortedList!Insert(Entries(l, c), [timer |-> t, expire |-> l.expire[t]])
    BY <1>6, <1>7, Added
  <1>9. PICK d : /\ Represents(list', d, allocated')
                 /\ Entries(list', d) = SortedList!Insert(Entries(list, c), x)
    BY <1>2, <1>3, <1>5, <1>8
  <1>10. List!Order = Entries(list, c) /\ List!Order' = Entries(list', d)
    BY <1>9, Ordered, OrderedNext
  <1>11. t \notin SortedList!Listed(Entries(list, c))
    BY <1>1, <1>2, EntriesFacts
  <1>12. List!Sorted!Add(t, e)
    BY <1>2, <1>9, <1>10, <1>11, SameOperations DEF List!Sorted!Add
  <1>13. fired' \in Seq(ListTimers)
    BY <1>2
  <1> QED
    BY <1>9, <1>12, <1>13 DEF Step

LEMMA DelStep ==
  ASSUME NEW c, Represents(list, c, allocated), NEW t \in ListTimers, List!DelTimer(t)
  PROVE  \E d : Step(d, List!Sorted!Del(t))
  <1>1. /\ list \in List!List /\ Links(list, c) /\ Nodes(c) = allocated
        /\ \A u \in ListTimers \ allocated : list.prev[u] = Null /\ list.next[u] = Null
    BY DEF Represents
  <1>2. List!Found(list, t) <=> t \in allocated
    BY <1>1, ReachedIs DEF List!Found
  <1>3. List!Order = Entries(list, c) /\ SortedList!Listed(Entries(list, c)) = allocated
    BY <1>1, Ordered, EntriesFacts
  <1>4. fired' = <<>> /\ fired' \in Seq(ListTimers)
    BY DEF List!DelTimer
  <1>5. CASE t \notin allocated
    <2>1. list' = list /\ allocated' = allocated
      BY <1>2, <1>5 DEF List!DelTimer
    <2>2. Represents(list', c, allocated')
      BY <2>1
    <2>3. List!Order' = Entries(list, c)
      BY <2>1, <2>2, OrderedNext
    <2>4. SortedList!Without(Entries(list, c), t) = Entries(list, c)
      BY <1>3, <1>5 DEF SortedList!Without
    <2>5. List!Sorted!Del(t)
      BY <1>3, <1>4, <2>3, <2>4, SameOperations DEF List!Sorted!Del
    <2> QED
      BY <1>4, <2>2, <2>5 DEF Step
  <1>6. CASE t \in allocated
    <2> DEFINE m == List!SoftDelTimer(list, t)
    <2>1. list' = List!Free(m, {t}) /\ allocated' = allocated \ {t}
      BY <1>2, <1>6 DEF List!DelTimer
    <2>2. \E d : /\ m \in List!List /\ Links(m, d) /\ Nodes(d) = allocated \ {t}
                 /\ \A u \in ListTimers \ allocated : m.prev[u] = Null /\ m.next[u] = Null
                 /\ Entries(m, d) = SortedList!Without(Entries(list, c), t)
      BY <1>6, Unlinked
    <2> HIDE DEF m
    <2>3. PICK d : /\ m \in List!List /\ Links(m, d) /\ Nodes(d) = allocated \ {t}
                   /\ \A u \in ListTimers \ allocated : m.prev[u] = Null /\ m.next[u] = Null
                   /\ Entries(m, d) = SortedList!Without(Entries(list, c), t)
      BY <2>2
    <2>4. {t} \cap Nodes(d) = {}
      BY <2>3
    <2>5. /\ list' \in List!List /\ Links(list', d) /\ Entries(list', d) = Entries(m, d)
          /\ \A u \in ListTimers : /\ list'.next[u] = IF u \in {t} THEN Null ELSE m.next[u]
                                   /\ list'.prev[u] = IF u \in {t} THEN Null ELSE m.prev[u]
      BY <2>1, <2>3, <2>4, FreeFacts
    <2>6. Represents(list', d, allocated')
      BY <2>1, <2>3, <2>5 DEF Represents
    <2>7. List!Order' = Entries(m, d)
      BY <2>5, <2>6, OrderedNext
    <2>8. List!Sorted!Del(t)
      BY <1>3, <1>4, <2>3, <2>7, SameOperations DEF List!Sorted!Del
    <2> QED
      BY <1>4, <2>6, <2>8 DEF Step
  <1> QED
    BY <1>5, <1>6

LEMMA ChgStep ==
  ASSUME NEW c, Represents(list, c, allocated), NEW t \in ListTimers, NEW e \in ListTimes,
         List!ChgTimer(t, e)
  PROVE  \E d : Step(d, List!Sorted!Chg(t, e))
  <1> DEFINE x == [timer |-> t, expire |-> e]
  <1>1. /\ list \in List!List /\ Links(list, c) /\ Nodes(c) = allocated
        /\ \A u \in ListTimers \ allocated : list.prev[u] = Null /\ list.next[u] = Null
    BY DEF Represents
  <1>2. List!Found(list, t) <=> t \in allocated
    BY <1>1, ReachedIs DEF List!Found
  <1>3. List!Order = Entries(list, c) /\ SortedList!Listed(Entries(list, c)) = allocated
    BY <1>1, Ordered, EntriesFacts
  <1>4. fired' = <<>> /\ fired' \in Seq(ListTimers) /\ allocated' = allocated
    BY DEF List!ChgTimer
  <1>5. CASE t \notin allocated
    <2>1. list' = list
      BY <1>2, <1>5 DEF List!ChgTimer
    <2>2. Represents(list', c, allocated')
      BY <1>4, <2>1
    <2>3. List!Order' = Entries(list, c)
      BY <2>1, <2>2, OrderedNext
    <2>4. List!Sorted!Chg(t, e)
      BY <1>3, <1>4, <1>5, <2>3, SameOperations DEF List!Sorted!Chg
    <2> QED
      BY <1>4, <2>2, <2>4 DEF Step
  <1>6. CASE t \in allocated
    <2> DEFINE m == List!SoftDelTimer(list, t)
               l == [m EXCEPT !.expire[t] = e, !.prev[t] = Null, !.next[t] = Null]
    <2>1. list' = List!AddTimer(l, t)
      BY <1>2, <1>6 DEF List!ChgTimer
    <2>2. \E b : /\ m \in List!List /\ Links(m, b) /\ Nodes(b) = allocated \ {t}
                 /\ \A u \in ListTimers \ allocated : m.prev[u] = Null /\ m.next[u] = Null
                 /\ Entries(m, b) = SortedList!Without(Entries(list, c), t)
      BY <1>6, Unlinked
    <2> HIDE DEF m
    <2>3. PICK b : /\ m \in List!List /\ Links(m, b) /\ Nodes(b) = allocated \ {t}
                   /\ \A u \in ListTimers \ allocated : m.prev[u] = Null /\ m.next[u] = Null
                   /\ Entries(m, b) = SortedList!Without(Entries(list, c), t)
      BY <2>2
    <2>4. /\ l \in List!List /\ l.head = m.head /\ l.expire[t] = e
          /\ l.prev[t] = Null /\ l.next[t] = Null
          /\ \A u \in ListTimers : u # t => /\ l.expire[u] = m.expire[u]
                                            /\ l.prev[u] = m.prev[u] /\ l.next[u] = m.next[u]
      BY <2>3 DEF List!List, List!Pointer
    <2> HIDE DEF l
    <2>5. \A u \in Nodes(b) : u \in ListTimers /\ u # t
      BY <2>3, CellFacts DEF Nodes
    <2>6. Links(l, b) /\ Entries(l, b) = Entries(m, b)
      BY <2>3, <2>4, <2>5, Unmoved
    <2>7. Represents(l, b, allocated \ {t})
      BY <2>3, <2>4, <2>6 DEF Represents
    <2>8. t \in ListTimers \ (allocated \ {t}) /\ (allocated \ {t}) \cup {t} = allocated
      BY <1>6
    <2>9. \E d : /\ Represents(List!AddTimer(l, t), d, (allocated \ {t}) \cup {t})
                 /\ Entries(List!AddTimer(l, t), d)
                      = SortedList!Insert(Entries(l, b), [timer |-> t, expire |-> l.expire[t]])
      BY <2>7, <2>8, Added
    <2>10. PICK d : /\ Represents(list', d, allocated')
                    /\ Entries(list', d) = SortedList!Insert(Entries(l, b), x)
      BY <1>4, <2>1, <2>4, <2>8, <2>9
    <2>11. List!Order' = SortedList!Insert(SortedList!Without(Entries(list, c), t), x)
      BY <2>3, <2>6, <2>10, OrderedNext
    <2>12. List!Sorted!Chg(t, e)
      BY <1>3, <1>4, <1>6, <2>11, SameOperations DEF List!Sorted!Chg
    <2> QED
      BY <1>4, <2>10, <2>12 DEF Step
  <1> QED
    BY <1>5, <1>6

LEMMA TickStep ==
  ASSUME NEW c, Represents(list, c, allocated), NEW now \in ListTimes, List!TickOnce(now)
  PROVE  \E d : Step(d, List!Sorted!TickOnce(now))
  <1> DEFINE e == Entries(list, c)
             n == Stop(list, now)
             k == SortedList!Place(e, now)
             N == Len(c)
             w == List!Walk(list)
             h == w[n]
             d == SubSeq(c, k, N)
             m == List!Pop(list, h)
             gone == {c[i] : i \in 1 .. k - 1}
             x == SubSeq(e, 1, k - 1)
  <1>1. /\ list \in List!List /\ Links(list, c) /\ Nodes(c) = allocated
        /\ \A u \in ListTimers \ allocated : list.prev[u] = Null /\ list.next[u] = Null
    BY DEF Represents
  <1>2. /\ N \in Nat /\ Cardinality(ListTimers) \in Nat /\ N <= Cardinality(ListTimers)
        /\ \A i \in 1 .. N : c[i] \in ListTimers
    BY <1>1, CellFacts
  <1>3. /\ e \in Seq(List!Sorted!Entry) /\ Len(e) = N
        /\ \A i \in 1 .. N : e[i].timer = c[i]
    BY <1>1, EntriesFacts
  <1>4. n = k - 1 /\ n \in 0 .. N /\ h = IF n < N THEN c[n + 1] ELSE Null
    BY <1>1, StopIs
  <1>5. \A i \in 0 .. Cardinality(ListTimers) : w[i] = IF i < N THEN c[i + 1] ELSE Null
    BY <1>1, WalkIs
  <1>6. /\ list' = IF n = 0 THEN list
                   ELSE List!Free(m, {w[j] : j \in 0 .. n - 1})
        /\ allocated' = allocated \ {w[j] : j \in 0 .. n - 1}
        /\ fired' = [j \in 1 .. n |-> w[j - 1]]
    BY DEF List!TickOnce, List!Popped, List!Handled, Stop
  <1>7. k \in 1 .. N + 1 /\ k \in Int
    <2>1. StopsThere(e, now, k)
      BY <1>3, PlaceFacts
    <2> HIDE DEF k, e, N
    <2> QED
      BY <1>2, <1>3, <2>1 DEF StopsThere
  <1>8. List!Order = e
    BY Ordered
  <1> HIDE DEF e, n, k, w, N
  <1>9. ASSUME NEW j \in 1 .. n PROVE w[j - 1] = c[j] /\ c[j] \in ListTimers
    <2>1. j - 1 \in 0 .. Cardinality(ListTimers) /\ j - 1 < N /\ (j - 1) + 1 = j /\ j \in 1 .. N
      BY <1>2, <1>4
    <2>2. w[j - 1] = c[(j - 1) + 1]
      BY <1>5, <2>1
    <2> QED
      BY <1>2, <2>1, <2>2
  <1>10. {w[j] : j \in 0 .. n - 1} = gone
    <2>1. ASSUME NEW j \in 0 .. n - 1 PROVE w[j] \in gone
      <3>1. j + 1 \in 1 .. n /\ (j + 1) - 1 = j /\ j + 1 \in 1 .. k - 1
        BY <1>4, <1>7
      <3>2. w[(j + 1) - 1] = c[j + 1]
        BY <1>9, <3>1
      <3> QED
        BY <3>1, <3>2
    <2>2. ASSUME NEW i \in 1 .. k - 1 PROVE c[i] \in {w[j] : j \in 0 .. n - 1}
      <3>1. i \in 1 .. n /\ i - 1 \in 0 .. n - 1
        BY <1>4, <1>7
      <3>2. w[i - 1] = c[i]
        BY <1>9, <3>1
      <3> QED
        BY <3>1, <3>2
    <2> QED
      BY <2>1, <2>2
  <1>11. fired' = [j \in 1 .. n |-> c[j]] /\ fired' \in Seq(ListTimers)
    <2>1. fired' = [j \in 1 .. n |-> c[j]]
      BY <1>6, <1>9
    <2>2. n \in Nat /\ \A j \in 1 .. n : c[j] \in ListTimers
      BY <1>4, <1>9
    <2> QED
      BY <2>1, <2>2
  <1>12. /\ Len(x) = n
         /\ \A i \in 1 .. n : x[i] = e[i]
    <2>1. 1 \in 1 .. Len(e) + 1 /\ k - 1 \in 0 .. Len(e) /\ 1 <= (k - 1) + 1
      BY <1>2, <1>3, <1>7
    <2>2. /\ Len(x) = (k - 1) - 1 + 1
          /\ \A i \in 1 .. (k - 1) - 1 + 1 : x[i] = e[1 + i - 1]
      BY <1>3, <2>1, SubSequence
    <2>3. (k - 1) - 1 + 1 = n
      BY <1>4, <1>7
    <2>4. \A i \in 1 .. n : 1 + i - 1 = i
      OBVIOUS
    <2> HIDE DEF x
    <2> QED
      BY <2>2, <2>3, <2>4
  <1>13. fired' = [i \in 1 .. Len(x) |-> x[i].timer]
    <2>1. \A i \in 1 .. n : i \in 1 .. N
      BY <1>2, <1>4
    <2>2. \A i \in 1 .. n : x[i].timer = c[i]
      BY <1>3, <1>12, <2>1
    <2> HIDE DEF x
    <2> QED
      BY <1>11, <1>12, <2>2
  <1>14. /\ m \in List!List /\ Links(m, d) /\ Nodes(d) = allocated \ gone
         /\ \A u \in ListTimers \ allocated : m.prev[u] = Null /\ m.next[u] = Null
         /\ Entries(m, d) = SubSeq(e, k, Len(e))
    <2>1. h = IF k = Len(c) + 1 THEN Null ELSE c[k]
      <3>1. (n < N <=> k # N + 1) /\ n + 1 = k
        BY <1>2, <1>4, <1>7
      <3> QED
        BY <1>4, <3>1 DEF N
    <2>2. k \in 1 .. Len(c) + 1
      BY <1>7 DEF N
    <2> HIDE DEF h
    <2> QED
      BY <2>1, <2>2, Rest DEF N, e
  <1>15. gone \subseteq allocated /\ gone \cap Nodes(d) = {}
    <2>1. \A i \in 1 .. k - 1 : i \in 1 .. N
      BY <1>2, <1>7
    <2>2. gone \subseteq allocated
      BY <1>1, <2>1 DEF Nodes, N
    <2> QED
      BY <1>14, <2>2
  <1> HIDE DEF x, m, h, d, gone
  <1>16. Represents(list', d, allocated') /\ Entries(list', d) = SubSeq(e, k, Len(e))
    <2>1. CASE n # 0
      <3>1. list' = List!Free(m, gone) /\ allocated' = allocated \ gone
        BY <1>6, <1>10, <2>1
      <3> DEFINE f == List!Free(m, gone)
      <3>2. m \in List!List /\ Links(m, d) /\ gone \cap Nodes(d) = {}
        BY <1>14, <1>15
      <3>3. /\ f \in List!List /\ Links(f, d) /\ Entries(f, d) = Entries(m, d)
            /\ \A u \in ListTimers : /\ f.next[u] = IF u \in gone THEN Null ELSE m.next[u]
                                     /\ f.prev[u] = IF u \in gone THEN Null ELSE m.prev[u]
        BY <3>2, FreeFacts
      <3>4. list' = f
        BY <3>1
      <3> HIDE DEF f
      <3>5. \A u \in ListTimers \ (allocated \ gone) : f.prev[u] = Null /\ f.next[u] = Null
        BY <1>14, <3>3
      <3>6. Represents(f, d, allocated \ gone)
        BY <1>14, <3>3, <3>5 DEF Represents
      <3> QED
        BY <1>14, <3>1, <3>3, <3>4, <3>6
    <2>2. CASE n = 0
      <3>1. k = 1 /\ gone = {}
        BY <1>4, <1>7, <2>2 DEF gone
      <3>2. list' = list /\ allocated' = allocated
        BY <1>6, <1>10, <2>2, <3>1
      <3>3. SubSeq(c, 1, Len(c)) = c /\ SubSeq(e, 1, Len(e)) = e
        <4>1. c \in Seq(ListTimers)
          BY <1>1 DEF Links, Cells
        <4> QED
          BY <1>3, <4>1, SubSeqFull
      <3> QED
        BY <3>1, <3>2, <3>3 DEF d, N, e
    <2> QED
      BY <2>1, <2>2
  <1>17. List!Order' = SubSeq(e, k, Len(e))
    BY <1>16, OrderedNext
  <1>18. List!Sorted!TickOnce(now)
    BY <1>8, <1>13, <1>17, SameOperations
    DEF List!Sorted!TickOnce, List!Sorted!Running, List!Sorted!Expired, x, k
  <1> QED
    BY <1>11, <1>16, <1>18 DEF Step

LEMMA DestroyStep ==
  ASSUME NEW c, Represents(list, c, allocated), List!Destroy
  PROVE  \E d : Step(d, List!Sorted!Clear)
  <1> DEFINE m == List!Free(list, allocated)
  <1>1. /\ list \in List!List /\ Links(list, c) /\ Nodes(c) = allocated
        /\ \A u \in ListTimers \ allocated : list.prev[u] = Null /\ list.next[u] = Null
    BY DEF Represents
  <1>2. List!Reached(list) = allocated
    BY <1>1, ReachedIs
  <1>3. /\ list' = [m EXCEPT !.head = Null, !.tail = Null]
        /\ allocated' = {} /\ fired' = <<>>
    BY <1>2 DEF List!Destroy
  <1>4. /\ list' \in List!List /\ list'.head = Null
        /\ \A u \in ListTimers : list'.prev[u] = Null /\ list'.next[u] = Null
    <2>1. List!Earliest \in ListTimes
      <3>1. \E x \in ListTimes : \A y \in ListTimes : x <= y
        BY ListAssumption, LeastNat DEF ListAssumption
      <3> QED
        BY <3>1 DEF List!Earliest
    <2>2. /\ m \in List!List
          /\ \A u \in ListTimers :
               /\ m.next[u] = IF u \in allocated THEN Null ELSE list.next[u]
               /\ m.prev[u] = IF u \in allocated THEN Null ELSE list.prev[u]
      BY <1>1, <2>1 DEF List!Free, List!List, List!Pointer
    <2> HIDE DEF m
    <2> QED
      BY <1>1, <1>3, <2>2 DEF List!List, List!Pointer
  <1>5. Represents(list', <<>>, allocated') /\ Entries(list', <<>>) = <<>>
    BY <1>3, <1>4, EmptyRepresents
  <1>6. List!Order' = <<>>
    BY <1>5, OrderedNext
  <1>7. List!Sorted!Clear
    BY <1>3, <1>6 DEF List!Sorted!Clear
  <1>8. fired' \in Seq(ListTimers)
    BY <1>3
  <1> QED
    BY <1>5, <1>7, <1>8 DEF Step

LEMMA ListStep ==
  ASSUME NEW c, Represents(list, c, allocated), List!Next
  PROVE  \E d : Step(d, List!Sorted!Next)
  <1>1. ASSUME NEW t \in ListTimers, NEW e \in ListTimes, List!New(t, e)
        PROVE  \E d : Step(d, List!Sorted!Next)
    BY <1>1, NewStep DEF Step, List!Sorted!Next
  <1>2. ASSUME NEW t \in ListTimers, NEW e \in ListTimes, List!ChgTimer(t, e)
        PROVE  \E d : Step(d, List!Sorted!Next)
    BY <1>2, ChgStep DEF Step, List!Sorted!Next
  <1>3. ASSUME NEW t \in ListTimers, List!DelTimer(t)
        PROVE  \E d : Step(d, List!Sorted!Next)
    BY <1>3, DelStep DEF Step, List!Sorted!Next
  <1>4. ASSUME NEW now \in ListTimes, List!TickOnce(now)
        PROVE  \E d : Step(d, List!Sorted!Next)
    BY <1>4, TickStep DEF Step, List!Sorted!Next
  <1>5. CASE List!Destroy
    BY <1>5, DestroyStep DEF Step, List!Sorted!Next
  <1> QED
    BY <1>1, <1>2, <1>3, <1>4, <1>5 DEF List!Next

-----------------------------------------------------------------------------
(* The theorems.                                                            *)

\* The inductive invariant: the pointers are those of some sequence of timers.
ListInv ==
  /\ fired \in Seq(ListTimers)
  /\ \E c : Represents(list, c, allocated)

LEMMA ListInvInit == TimersInit => ListInv
  <1> SUFFICES ASSUME TimersInit PROVE ListInv
    OBVIOUS
  <1>1. list = List!EmptyList /\ allocated = {} /\ fired = <<>>
    BY DEF TimersInit, List!Init
  <1>2. List!Earliest \in ListTimes
    <2>1. \E x \in ListTimes : \A y \in ListTimes : x <= y
      BY ListAssumption, LeastNat DEF ListAssumption
    <2> QED
      BY <2>1 DEF List!Earliest
  <1>3. /\ list \in List!List /\ list.head = Null
        /\ \A t \in ListTimers : list.prev[t] = Null /\ list.next[t] = Null
    BY <1>1, <1>2 DEF List!EmptyList, List!List, List!Pointer
  <1>4. Represents(list, <<>>, allocated)
    BY <1>1, <1>3, EmptyRepresents
  <1> QED
    BY <1>1, <1>4 DEF ListInv

LEMMA ListInvNext == ListInv /\ [TimersNext]_allVars => ListInv'
  <1> SUFFICES ASSUME ListInv, [TimersNext]_allVars PROVE ListInv'
    OBVIOUS
  <1>1. CASE List!Next
    BY <1>1, ListStep DEF ListInv, Step
  <1>2. CASE UNCHANGED listVars
    BY <1>2 DEF ListInv, listVars
  <1> QED
    BY <1>1, <1>2 DEF TimersNext, ListRuns, ChatRuns, allVars

LEMMA ListAlways == TimersSpec => []ListInv
  BY ListInvInit, ListInvNext, PTL DEF TimersSpec

\* After any calls in any order the pointers are well linked, however many timers
\* there are.  (client_timer_list.h:57-187.)
THEOREM PointersWellLinked == TimersSpec => []WellLinked
  <1>1. ListInv => WellLinked
    <2> SUFFICES ASSUME ListInv PROVE List!WellLinked
      BY DEF WellLinked
    <2>1. PICK c : Represents(list, c, allocated)
      BY DEF ListInv
    <2>2. list \in List!List /\ Links(list, c) /\ Nodes(c) = allocated
      BY <2>1 DEF Represents
    <2>3. List!Reached(list) = allocated
      BY <2>2, ReachedIs
    <2>4. /\ Len(c) \in Nat /\ Cardinality(ListTimers) \in Nat
          /\ Len(c) <= Cardinality(ListTimers)
          /\ \A i \in 1 .. Len(c) : c[i] \in ListTimers /\ c[i] # Null
      BY <2>2, CellFacts
    <2>5. List!Walk(list)[List!Cardinality(ListTimers)] = Null
      <3>1. Cardinality(ListTimers) \in 0 .. Cardinality(ListTimers)
            /\ ~(Cardinality(ListTimers) < Len(c))
        BY <2>4
      <3>2. List!Walk(list)[Cardinality(ListTimers)] = Null
        BY <2>2, <3>1, WalkIs
      <3> QED
        BY <3>2, SameCardinality
    <2>6. /\ list.head = IF Len(c) = 0 THEN Null ELSE c[1]
          /\ \A i \in 1 .. Len(c) :
               /\ list.next[c[i]] = IF i = Len(c) THEN Null ELSE c[i + 1]
               /\ list.prev[c[i]] = IF i = 1 THEN Null ELSE c[i - 1]
      BY <2>2 DEF Links
    <2>7. list.head # Null => list.prev[list.head] = Null
      <3>1. Len(c) # 0 => 1 \in 1 .. Len(c)
        BY <2>4
      <3> QED
        BY <2>6, <3>1
    <2>8. ASSUME NEW t \in allocated, list.next[t] # Null PROVE list.prev[list.next[t]] = t
      <3>1. PICK i \in 1 .. Len(c) : t = c[i]
        BY <2>2 DEF Nodes
      <3>2. i # Len(c) /\ list.next[t] = c[i + 1]
        BY <2>6, <2>8, <3>1
      <3>3. i + 1 \in 1 .. Len(c) /\ i + 1 # 1 /\ (i + 1) - 1 = i
        BY <2>4, <3>2
      <3>4. list.prev[c[i + 1]] = c[(i + 1) - 1]
        BY <2>6, <3>3
      <3> QED
        BY <3>1, <3>2, <3>3, <3>4
    <2> QED
      BY <2>3, <2>5, <2>7, <2>8 DEF List!WellLinked
  <1> QED
    BY <1>1, ListAlways, PTL

\* The pointers implement the sorted list: every call does to the list that the
\* pointers stand for what the operation of SortedTimers does, handlers included, and
\* a call that changes nothing there is a stutter.  (client_timer_list.h:40-187.)
THEOREM PointersSorted == TimersSpec => IsSortedList
  <1>1. TimersInit => List!Sorted!Init
    <2> SUFFICES ASSUME TimersInit PROVE List!Sorted!Init
      OBVIOUS
    <2>1. list = List!EmptyList /\ fired = <<>>
      BY DEF TimersInit, List!Init
    <2>2. List!Order = <<>>
      BY <2>1 DEF List!Order, List!EmptyList
    <2> QED
      BY <2>1, <2>2 DEF List!Sorted!Init
  <1>2. ListInv /\ [TimersNext]_allVars => [List!Sorted!Next]_<<List!Order, fired>>
    <2> SUFFICES ASSUME ListInv, [TimersNext]_allVars
                 PROVE  [List!Sorted!Next]_<<List!Order, fired>>
      OBVIOUS
    <2>1. CASE List!Next
      BY <2>1, ListStep DEF ListInv, Step
    <2>2. CASE UNCHANGED listVars
      BY <2>2 DEF listVars, List!Order, List!Walk, List!Reached
    <2> QED
      BY <2>1, <2>2 DEF TimersNext, ListRuns, ChatRuns, allVars
  <1> QED
    BY <1>1, <1>2, ListAlways, PTL DEF TimersSpec, IsSortedList, List!IsSortedList, List!Sorted!Spec

LEMMA OrderFacts ==
  ASSUME ListInv
  PROVE  List!Order \in Seq(List!Sorted!Entry) /\ SortedList!NoneTwice(List!Order)
  <1>1. PICK c : Represents(list, c, allocated)
    BY DEF ListInv
  <1>2. list \in List!List /\ Links(list, c)
    BY <1>1 DEF Represents
  <1> QED
    BY <1>1, <1>2, Ordered, EntriesFacts

\* Whatever was added, deleted, changed or had expired, the timers come in the order
\* of their expiry, which the loop of TickOnce() relies on to stop at the first that
\* has not expired, and none comes twice.  (client_timer_list.h:80-98, 160-187.)
OrderSorted == SortedList!Ascending(List!Order) /\ SortedList!NoneTwice(List!Order)

LEMMA AscendingNext ==
  ASSUME ListInv, SortedList!Ascending(List!Order), List!Sorted!Next
  PROVE  SortedList!Ascending(List!Order')
  <1> DEFINE l == List!Order
             E == List!Sorted!Entry
  <1>1. l \in Seq(E) /\ SortedList!NoneTwice(l)
    BY OrderFacts
  <1>2. \A y \in E : y.expire \in Int
    <2>1. \A y \in E : y.expire \in ListTimes
      BY DEF List!Sorted!Entry
    <2>2. \A n \in ListTimes : n \in Int
      BY ListAssumption DEF ListAssumption
    <2> QED
      BY <2>1, <2>2
  <1>3. \A t \in ListTimers, e \in ListTimes :
          /\ [timer |-> t, expire |-> e] \in E
          /\ [timer |-> t, expire |-> e].timer = t
    BY DEF List!Sorted!Entry
  <1>4. \A t : SortedList!Without(l, t) \in Seq(E)
               /\ SortedList!Ascending(SortedList!Without(l, t))
    BY <1>1, WithoutListed
  <1>5. ASSUME NEW t \in ListTimers, NEW e \in ListTimes, List!Sorted!Add(t, e)
        PROVE  SortedList!Ascending(List!Order')
    <2>1. List!Order' = SortedList!Insert(l, [timer |-> t, expire |-> e])
      BY <1>5, SameOperations DEF List!Sorted!Add
    <2> HIDE DEF E, l
    <2>2. l \in Seq(E) /\ [timer |-> t, expire |-> e] \in E /\ SortedList!Ascending(l)
      BY <1>1, <1>3 DEF l
    <2>3. SortedList!Ascending(SortedList!Insert(l, [timer |-> t, expire |-> e]))
      BY <1>2, <2>2, InsertAscending
    <2> QED
      BY <2>1, <2>3
  <1>6. ASSUME NEW t \in ListTimers, NEW e \in ListTimes, List!Sorted!Chg(t, e)
        PROVE  SortedList!Ascending(List!Order')
    <2> DEFINE w == SortedList!Without(l, t)
    <2>1. List!Order' = l \/ List!Order' = SortedList!Insert(w, [timer |-> t, expire |-> e])
      BY <1>6, SameOperations DEF List!Sorted!Chg
    <2>2. w \in Seq(E) /\ [timer |-> t, expire |-> e] \in E /\ SortedList!Ascending(w)
      BY <1>3, <1>4
    <2> HIDE DEF E, l, w
    <2>3. SortedList!Ascending(SortedList!Insert(w, [timer |-> t, expire |-> e]))
      BY <1>2, <2>2, InsertAscending
    <2> QED
      BY <2>1, <2>3 DEF l
  <1>7. ASSUME NEW t \in ListTimers, List!Sorted!Del(t)
        PROVE  SortedList!Ascending(List!Order')
    BY <1>4, <1>7, SameOperations DEF List!Sorted!Del
  <1>8. ASSUME NEW now \in ListTimes, List!Sorted!TickOnce(now)
        PROVE  SortedList!Ascending(List!Order')
    <2> DEFINE k == SortedList!Place(l, now)
    <2>1. List!Order' = SubSeq(l, k, Len(l))
      BY <1>8, SameOperations DEF List!Sorted!TickOnce, List!Sorted!Running
    <2>2. k \in 1 .. Len(l) + 1
      BY <1>1, PlaceFacts DEF StopsThere
    <2> HIDE DEF E, l, k
    <2>3. SortedList!Ascending(l) => SortedList!Ascending(SubSeq(l, k, Len(l)))
      BY <1>1, <2>2, RestFacts
    <2> QED
      BY <2>1, <2>3 DEF l
  <1>9. CASE List!Sorted!Clear
    BY <1>9 DEF List!Sorted!Clear, SortedList!Ascending
  <1> QED
    BY <1>5, <1>6, <1>7, <1>8, <1>9 DEF List!Sorted!Next

\* The pointer list is sorted through every sequence of calls.  (client_timer_list.h:
\* 80-98, 160-187.)
THEOREM OrderStaysSorted == TimersSpec => []OrderSorted
  <1> DEFINE Inv == ListInv /\ SortedList!Ascending(List!Order)
  <1>1. TimersInit => Inv
    <2> SUFFICES ASSUME TimersInit PROVE SortedList!Ascending(List!Order)
      BY ListInvInit
    <2>1. List!Order = <<>>
      BY DEF TimersInit, List!Init, List!Order, List!EmptyList
    <2> QED
      BY <2>1 DEF SortedList!Ascending
  <1>2. Inv /\ [TimersNext]_allVars => Inv'
    <2> SUFFICES ASSUME Inv, [TimersNext]_allVars PROVE SortedList!Ascending(List!Order)'
      BY ListInvNext
    <2>1. CASE List!Next
      <3>1. List!Sorted!Next
        BY <2>1, ListStep DEF ListInv, Step
      <3>2. SortedList!Ascending(List!Order')
        BY <3>1, AscendingNext
      <3> QED
        BY <3>2 DEF SortedList!Ascending
    <2>2. CASE UNCHANGED listVars
      <3>1. List!Order' = List!Order
        BY <2>2 DEF listVars, List!Order, List!Walk, List!Reached
      <3> QED
        BY <3>1 DEF SortedList!Ascending
    <2> QED
      BY <2>1, <2>2 DEF TimersNext, ListRuns, ChatRuns, allVars
  <1>3. Inv => OrderSorted
    BY OrderFacts DEF OrderSorted
  <1> QED
    BY <1>1, <1>2, <1>3, PTL DEF TimersSpec

LEMMA ListTypes == ListInv => List!TypeOK
  <1> SUFFICES ASSUME ListInv PROVE List!TypeOK
    OBVIOUS
  <1>1. PICK c : Represents(list, c, allocated)
    BY DEF ListInv
  <1>2. list \in List!List /\ Links(list, c) /\ Nodes(c) = allocated
    BY <1>1 DEF Represents
  <1>3. allocated \subseteq ListTimers
    BY <1>2, CellFacts DEF Nodes
  <1> QED
    BY <1>2, <1>3 DEF ListInv, List!TypeOK

=============================================================================

--------------------------- MODULE TimerSortedList ---------------------------
(***************************************************************************)
(* class TimerSortedList of client_timer_list.h as it is written: a doubly  *)
(* linked list of ClientTimers in memory, linked and unlinked by hand.  A   *)
(* timer is an address; which address new returns is malloc's business, so  *)
(* a pointer the caller kept may name a timer that was freed, or another     *)
(* that got its address.  The owner is one thread: a call is one step.       *)
(***************************************************************************)
EXTENDS Integers, Sequences, FiniteSets

CONSTANTS
  Timers,   \* addresses a ClientTimer may have
  Times,    \* values of t_expire_, and of the current time
  Null      \* nullptr

VARIABLES
  list,        \* head_, tail_, and the three fields of every ClientTimer
  allocated,   \* the addresses that are a ClientTimer now
  fired        \* the timers whose handlers the last call called

vars == <<list, allocated, fired>>

Pointer == Timers \cup {Null}
List == [head : Pointer, tail : Pointer, prev : [Timers -> Pointer],
         next : [Timers -> Pointer], expire : [Timers -> Times]]

TypeOK == list \in List /\ allocated \subseteq Timers /\ fired \in Seq(Timers)

-----------------------------------------------------------------------------
(* Walking.  Walk(l)[n] is cur after n times cur = cur->next_.              *)

Walk(l) ==
  LET cur[n \in 0 .. Cardinality(Timers)] ==
        IF n = 0 THEN l.head
        ELSE IF cur[n - 1] = Null THEN Null ELSE l.next[cur[n - 1]]
  IN  cur

\* Where a while loop over cur stops: at the first timer with property Stop, or
\* at the end of the list.
StopsAt(l, Stop(_)) ==
  LET At(n) == Walk(l)[n] = Null \/ Stop(Walk(l)[n])
  IN  CHOOSE n \in DOMAIN Walk(l) : At(n) /\ \A m \in 0 .. n - 1 : ~ At(m)

Reached(l) == {Walk(l)[n] : n \in DOMAIN Walk(l)} \ {Null}

\* An assignment through a pointer; l unchanged where the code tests for null.
SetNext(l, p, to) == IF p = Null THEN l ELSE [l EXCEPT !.next[p] = to]
SetPrev(l, p, to) == IF p = Null THEN l ELSE [l EXCEPT !.prev[p] = to]

-----------------------------------------------------------------------------
(* The operations on the list.                                              *)

\* AddTimer() has three ends: an empty list; the insertion before cur, the first
\* timer that does not expire earlier; the end of the list.
AddAsHead(l, t) == [l EXCEPT !.head = t, !.tail = t]

InsertBefore(l, prev, t, cur) ==
  SetPrev(SetNext([l EXCEPT !.head = IF prev = Null THEN t ELSE @,
                            !.prev[t] = prev, !.next[t] = cur], prev, t), cur, t)

AppendAfter(l, prev, t) ==
  [l EXCEPT !.next[prev] = t, !.prev[t] = prev, !.next[t] = Null]

AddTimer(l, t) ==
  LET NotEarlier(c) == l.expire[c] >= l.expire[t]
      n    == StopsAt(l, NotEarlier)
      cur  == Walk(l)[n]
      prev == IF n = 0 THEN l.prev[cur] ELSE Walk(l)[n - 1]
  IN  IF l.head = Null THEN AddAsHead(l, t)
      ELSE IF cur # Null THEN InsertBefore(l, prev, t, cur)
      ELSE AppendAfter(l, prev, t)

\* Whether SoftDelTimer() finds a timer is a comparison of pointers.
Found(l, t) == t \in Reached(l)

BugSoftDelTimer(l, t) ==
  LET prev == l.prev[t]
      next == l.next[t]
  IN  SetPrev(SetNext([l EXCEPT !.head = IF prev = Null THEN next ELSE @],
                      prev, next), next, Null)

SoftDelTimer(l, t) ==
  LET prev == l.prev[t]
      next == l.next[t]
  IN  SetPrev(SetNext([l EXCEPT !.head = IF prev = Null THEN next ELSE @,
                                !.tail = IF next = Null THEN prev ELSE @],
                      prev, next), next, prev)

-----------------------------------------------------------------------------
(* The calls.                                                               *)

Earliest == CHOOSE e \in Times : \A f \in Times : e <= f

\* delete.  Nothing reads a freed timer (WellLinked), and new initialises its
\* pointers: what is left in the memory is reset, to tell fewer states apart.
Free(l, S) ==
  [l EXCEPT !.prev   = [t \in Timers |-> IF t \in S THEN Null ELSE @[t]],
            !.next   = [t \in Timers |-> IF t \in S THEN Null ELSE @[t]],
            !.expire = [t \in Timers |-> IF t \in S THEN Earliest ELSE @[t]]]

EmptyList ==
  [head |-> Null, tail |-> Null, prev |-> [t \in Timers |-> Null],
   next |-> [t \in Timers |-> Null], expire |-> [t \in Timers |-> Earliest]]

Init == list = EmptyList /\ allocated = {} /\ fired = <<>>

\* new ClientTimer, t_expire_ = e, AddTimer().
New(t, e) ==
  /\ t \notin allocated
  /\ allocated' = allocated \cup {t}
  /\ list' = AddTimer([list EXCEPT !.expire[t] = e], t)
  /\ fired' = <<>>

\* DelTimer(t): the pointer may be stale, it is compared before it is followed.
DelTimer(t) ==
  /\ list' = IF Found(list, t) THEN Free(SoftDelTimer(list, t), {t}) ELSE list
  /\ allocated' = IF Found(list, t) THEN allocated \ {t} ELSE allocated
  /\ fired' = <<>>

BugChgTimer(t, e) ==
  /\ list' = IF Found(list, t) THEN [list EXCEPT !.expire[t] = e] ELSE list
  /\ UNCHANGED allocated
  /\ fired' = <<>>

ChgTimer(t, e) ==
  /\ list' = IF Found(list, t)
             THEN AddTimer([SoftDelTimer(list, t) EXCEPT
                              !.expire[t] = e, !.prev[t] = Null, !.next[t] = Null], t)
             ELSE list
  /\ UNCHANGED allocated
  /\ fired' = <<>>

\* TickOnce(now): the loop pops the head while it has expired.  The deletes free
\* the popped timers; head_ and its back pointer are all the list keeps.
Popped(l, now) == LET Runs(c) == l.expire[c] >= now IN StopsAt(l, Runs)

BugHandled(l, k) == Walk(l)[k]

\* The k-th timer popped is the one whose handler is called.
Handled(l, k) == Walk(l)[k - 1]

Pop(l, head) == SetPrev([l EXCEPT !.head = head], head, Null)

TickOnce(now) ==
  LET n    == Popped(list, now)
      gone == {Walk(list)[k] : k \in 0 .. n - 1}
  IN  /\ list' = IF n = 0 THEN list ELSE Free(Pop(list, Walk(list)[n]), gone)
      /\ allocated' = allocated \ gone
      /\ fired' = [k \in 1 .. n |-> Handled(list, k)]

\* The destructor frees from head_ to the end; the next list starts empty.
Destroy ==
  /\ list' = [Free(list, Reached(list)) EXCEPT !.head = Null, !.tail = Null]
  /\ allocated' = allocated \ Reached(list)
  /\ fired' = <<>>

Next ==
  \/ \E t \in Timers, e \in Times : New(t, e) \/ ChgTimer(t, e)
  \/ \E t \in Timers : DelTimer(t)
  \/ \E now \in Times : TickOnce(now)
  \/ Destroy

Spec == Init /\ [][Next]_vars

-----------------------------------------------------------------------------
(* Properties.                                                              *)

\* After any sequence of calls the list is well linked in both directions and
\* holds exactly the timers that are allocated: none is leaked, none is freed and
\* still linked, and the walk ends.  (client_timer_list.h:57-187.)
WellLinked ==
  /\ Reached(list) = allocated
  /\ Walk(list)[Cardinality(Timers)] = Null
  /\ list.head # Null => list.prev[list.head] = Null
  /\ \A t \in allocated : list.next[t] # Null => list.prev[list.next[t]] = t

\* Pointers implement the sorted list: whatever was added, deleted, changed or
\* had expired, in whatever order.  (client_timer_list.h:40-55.)
Order ==
  IF list.head = Null THEN <<>>
  ELSE [k \in 1 .. Cardinality(Reached(list)) |->
          [timer |-> Walk(list)[k - 1], expire |-> list.expire[Walk(list)[k - 1]]]]

Sorted == INSTANCE SortedTimers WITH list <- Order

IsSortedList == Sorted!Spec

=============================================================================

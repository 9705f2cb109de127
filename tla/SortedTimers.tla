----------------------------- MODULE SortedTimers -----------------------------
(***************************************************************************)
(* What a list of timers promises the chat server: the timers in ascending *)
(* order of expiry, each at most once, and a tick that takes off exactly    *)
(* those that have expired, calling their handlers in that order.           *)
(***************************************************************************)
EXTENDS Integers, Sequences, SequencesExt

CONSTANTS
  Timers,   \* the timers there may be
  Times     \* the times they may expire at

VARIABLES
  list,     \* the timers that run, as records [timer, expire]
  fired     \* the timers whose handlers the last operation called

Entry == [timer : Timers, expire : Times]

Listed(l) == {l[k].timer : k \in 1 .. Len(l)}

\* Where the walk from the head stops that passes the timers expiring before e.
Place(l, e) == Min({k \in 1 .. Len(l) + 1 : k = Len(l) + 1 \/ l[k].expire >= e})

\* Among timers that expire together the newest comes first.
Insert(l, x) == InsertAt(l, Place(l, x.expire), x)

Position(l, t) == CHOOSE k \in 1 .. Len(l) : l[k].timer = t

Without(l, t) == IF t \in Listed(l) THEN RemoveAt(l, Position(l, t)) ELSE l

\* A timer has expired when its time is before the current one.
Expired(l, now) == SubSeq(l, 1, Place(l, now) - 1)
Running(l, now) == SubSeq(l, Place(l, now), Len(l))

TypeOK == list \in Seq(Entry) /\ fired \in Seq(Timers)

Init == list = <<>> /\ fired = <<>>

Add(t, e) ==
  /\ t \notin Listed(list)
  /\ list' = Insert(list, [timer |-> t, expire |-> e])
  /\ fired' = <<>>

Del(t) == list' = Without(list, t) /\ fired' = <<>>

\* Changing a timer that does not run is not an error and starts nothing.
Chg(t, e) ==
  /\ list' = IF t \in Listed(list)
             THEN Insert(Without(list, t), [timer |-> t, expire |-> e])
             ELSE list
  /\ fired' = <<>>

TickOnce(now) ==
  /\ list' = Running(list, now)
  /\ fired' = [k \in 1 .. Len(Expired(list, now)) |-> Expired(list, now)[k].timer]

Clear == list' = <<>> /\ fired' = <<>>

Next ==
  \/ \E t \in Timers, e \in Times : Add(t, e) \/ Chg(t, e)
  \/ \E t \in Timers : Del(t)
  \/ \E now \in Times : TickOnce(now)
  \/ Clear

Spec == Init /\ [][Next]_<<list, fired>>

\* The order of the list, and that no timer is in it twice.
Ascending(l) == \A j, k \in 1 .. Len(l) : j <= k => l[j].expire <= l[k].expire
NoneTwice(l) == \A j, k \in 1 .. Len(l) : l[j].timer = l[k].timer => j = k

=============================================================================

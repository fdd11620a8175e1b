------------------------------ MODULE TimerList ------------------------------
(***************************************************************************)
(* sort_timer_lst (timer/timer.cpp) as it is programmed: a doubly linked   *)
(* list of timers.  Only the main thread works on it, so that each member  *)
(* function is one step, and so is each turn of the loop of tick.  It is   *)
(* shown to implement TimerQueue.                                          *)
(***************************************************************************)
EXTENDS Integers, Sequences, FiniteSets

CONSTANTS
    Timers,     \* the util_timer objects
    NULL,       \* no timer
    Slots,      \* what a timer is set to: 3
    MaxBack     \* bound on the slots by which the clock is put back

ASSUME TimerListAssumption ==
    IsFiniteSet(Timers) /\ NULL \notin Timers /\ Slots \in Nat \ {0} /\ MaxBack \in Nat

VARIABLES
    head, tail,     \* the ends of the list
    next, prev,     \* the links of each timer
    heap,           \* the timers that were created and not deleted
    expire,         \* of each timer: the slots left, 0 when there is none
    back            \* slots by which the clock has been put back

links == <<head, tail, next, prev>>
vars == <<links, heap, expire, back>>

Init ==
    /\ head = NULL /\ tail = NULL
    /\ next = [t \in Timers |-> NULL] /\ prev = [t \in Timers |-> NULL]
    /\ heap = {}
    /\ expire = [t \in Timers |-> 0]
    /\ back = 0

\* The pointer of x is set to y; there is none of NULL.
Point(pointers, x, y) == IF x = NULL THEN pointers ELSE [pointers EXCEPT ![x] = y]

Expires(t) == expire' = [expire EXCEPT ![t] = Slots]

-----------------------------------------------------------------------------
\* The private add_timer, from lst_head on, which expires no later than t:
\* Place[p] is where prev stops when it starts at p.
AddBehind(nxt, prv, lst_head, t) ==
    LET Place[p \in Timers] ==
            IF nxt[p] = NULL \/ expire'[t] < expire'[nxt[p]] THEN p ELSE Place[nxt[p]]
        p == Place[lst_head]
    IN  /\ next' = Point(Point(nxt, t, nxt[p]), p, t)
        /\ prev' = Point(Point(prv, nxt[p], t), t, p)
        /\ tail' = IF nxt[p] = NULL THEN t ELSE tail

\* new util_timer, and add_timer.
AddFirst(t) ==
    /\ head = NULL
    /\ head' = t /\ tail' = t
    /\ UNCHANGED <<next, prev>>

\* MUTANT: of two timers that expire together the later one comes first.
AddFrontEqual(t) ==
    /\ head # NULL
    /\ expire'[t] <= expire'[head]
    /\ head' = t
    /\ next' = Point(next, t, head)
    /\ prev' = Point(prev, head, t)
    /\ UNCHANGED tail

AddFront(t) ==
    /\ head # NULL
    /\ expire'[t] < expire'[head]
    /\ head' = t
    /\ next' = Point(next, t, head)
    /\ prev' = Point(prev, head, t)
    /\ UNCHANGED tail

add_timer(t) ==
    /\ t \notin heap
    /\ heap' = heap \cup {t}
    /\ Expires(t)
    /\ \/ AddFirst(t)
       \/ AddFront(t)
       \/ /\ head # NULL
          /\ ~(expire'[t] < expire'[head])
          /\ AddBehind(next, prev, head, t)
          /\ UNCHANGED head
    /\ UNCHANGED back

\* MUTANT: the head moves on, and its successor still points back at it.
AdjustHead(t) ==
    /\ t = head
    /\ head' = next[t]
    /\ AddBehind(Point(next, t, NULL), prev, next[t], t)

\* adjust_timer: taken out, and put in again further on.
MoveHead(t) ==
    /\ t = head
    /\ head' = next[t]
    /\ AddBehind(Point(next, t, NULL), Point(prev, next[t], NULL), next[t], t)

MoveInner(t) ==
    /\ t # head
    /\ AddBehind(Point(next, prev[t], next[t]), Point(prev, next[t], prev[t]), next[t], t)
    /\ UNCHANGED head

adjust_timer(t) ==
    /\ t \in heap
    /\ Expires(t)
    /\ \/ /\ next[t] # NULL => expire'[t] < expire'[next[t]]
          /\ UNCHANGED links
       \/ /\ next[t] # NULL /\ ~(expire'[t] < expire'[next[t]])
          /\ MoveHead(t) \/ MoveInner(t)
    /\ UNCHANGED <<heap, back>>

\* delete: the object is gone, and a new one begins with NULL links.
Delete(nxt, prv, t) ==
    /\ next' = Point(nxt, t, NULL)
    /\ prev' = Point(prv, t, NULL)
    /\ heap' = heap \ {t}
    /\ expire' = [expire EXCEPT ![t] = 0]

\* del_timer: the only one, the head, the tail, or one between two others.
del_timer(t) ==
    /\ t \in heap
    /\ \/ /\ t = head /\ t = tail
          /\ head' = NULL /\ tail' = NULL
          /\ Delete(next, prev, t)
       \/ /\ t = head /\ t # tail
          /\ head' = next[t]
          /\ Delete(next, Point(prev, next[t], NULL), t)
          /\ UNCHANGED tail
       \/ /\ t # head /\ t = tail
          /\ tail' = prev[t]
          /\ Delete(Point(next, prev[t], NULL), prev, t)
          /\ UNCHANGED head
       \/ /\ t # head /\ t # tail
          /\ Delete(Point(next, prev[t], next[t]), Point(prev, next[t], prev[t]), t)
          /\ UNCHANGED <<head, tail>>
    /\ UNCHANGED back

\* One turn of tick, behind the call of cb_func; tail stays behind when the
\* last timer goes.
tick(t) ==
    /\ t = head /\ t # NULL
    /\ expire[t] = 0
    /\ head' = next[t]
    /\ Delete(next, Point(prev, next[t], NULL), t)
    /\ UNCHANGED <<tail, back>>

\* A TIMESLOT passes; the timers that have expired are all the same.
Clock ==
    /\ expire' = [t \in Timers |-> IF expire[t] > 0 THEN expire[t] - 1 ELSE 0]
    /\ UNCHANGED <<links, heap, back>>

\* time() is the time of the day, which may be put back.
ClockBack ==
    /\ back < MaxBack
    /\ back' = back + 1
    /\ expire' = [t \in Timers |-> IF t \in heap THEN expire[t] + 1 ELSE 0]
    /\ UNCHANGED <<links, heap>>

Next ==
    \/ \E t \in Timers : add_timer(t) \/ adjust_timer(t) \/ del_timer(t) \/ tick(t)
    \/ Clock
    \/ ClockBack

Spec == Init /\ [][Next]_vars

-----------------------------------------------------------------------------
\* The list from head on.
Chain ==
    LET From[t \in Timers] == <<t>> \o IF next[t] = NULL THEN <<>> ELSE From[next[t]]
    IN  IF head = NULL THEN <<>> ELSE From[head]

Queue == INSTANCE TimerQueue WITH m_timer_lst <- Chain

\* The links lead through every timer that exists, forwards and backwards,
\* and through none that was deleted; tail is the last (timer.cpp:75).
Linked ==
    LET n == Len(Chain) IN
    /\ heap = {Chain[i] : i \in 1..n} /\ Cardinality(heap) = n
    /\ n > 0 => tail = Chain[n] /\ prev[head] = NULL
    /\ \A i \in 1..(n - 1) : prev[Chain[i + 1]] = Chain[i]

\* Every operation on the pointers does to the queue of timers what the
\* server counts on.
ImplementsQueue == Queue!QueueSpec
=============================================================================

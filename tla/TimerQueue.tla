------------------------------ MODULE TimerQueue ------------------------------
(***************************************************************************)
(* What sort_timer_lst (timer/timer.cpp) promises to the server: the       *)
(* timers stand in a queue, the next to expire in front, and each          *)
(* operation moves at most one of them.  TimerList, the list of pointers,  *)
(* implements this; Connections uses it.  Time is counted in TIMESLOTs,    *)
(* and expire is what is left of it for each timer.                        *)
(***************************************************************************)
EXTENDS Integers, Sequences

CONSTANTS
    Timers,     \* the util_timer objects
    Slots,      \* what a timer is set to: 3
    MaxBack     \* bound on the slots by which the clock is put back

ASSUME TimerQueueAssumption == Slots \in Nat \ {0} /\ MaxBack \in Nat

VARIABLES
    m_timer_lst,    \* the timers, as they stand in the list
    expire,         \* of each: the slots left, 0 when there is none
    back            \* slots by which the clock has been put back

queueVars == <<m_timer_lst, expire, back>>

Listed == {m_timer_lst[i] : i \in DOMAIN m_timer_lst}

QueueInit ==
    /\ m_timer_lst = <<>>
    /\ expire = [t \in Timers |-> 0]
    /\ back = 0

-----------------------------------------------------------------------------
\* t may stand right behind place k of q.
Fits(q, e, k, t) == k < Len(q) => e[t] < e[q[k + 1]]

\* Where the private add_timer stops when it starts at place i: behind the
\* first place that fits.
Behind(q, e, i, t) ==
    {k \in i..Len(q) : Fits(q, e, k, t) /\ \A h \in i..(k - 1) : ~Fits(q, e, h, t)}

\* Where the public one puts t: in front (place 0), or as above.
Places(q, e, t) ==
    IF q = <<>> \/ e[t] < e[q[1]] THEN {0} ELSE Behind(q, e, 1, t)

Inserted(q, k, t) == SubSeq(q, 1, k) \o <<t>> \o SubSeq(q, k + 1, Len(q))

Deleted(q, k) == SubSeq(q, 1, k - 1) \o SubSeq(q, k + 1, Len(q))

-----------------------------------------------------------------------------
Restarted(t) == expire' = [expire EXCEPT ![t] = Slots]

add_timer(t) ==
    /\ t \notin Listed
    /\ Restarted(t)
    /\ \E k \in Places(m_timer_lst, expire', t) : m_timer_lst' = Inserted(m_timer_lst, k, t)
    /\ UNCHANGED back

\* A timer is moved only towards the end, and only if it does not fit where it is.
adjust_timer(t) ==
    /\ Restarted(t)
    /\ \E i \in DOMAIN m_timer_lst :
           /\ m_timer_lst[i] = t
           /\ \/ /\ Fits(m_timer_lst, expire', i, t)
                 /\ UNCHANGED m_timer_lst
              \/ /\ ~Fits(m_timer_lst, expire', i, t)
                 /\ \E k \in Behind(Deleted(m_timer_lst, i), expire', i, t) :
                        m_timer_lst' = Inserted(Deleted(m_timer_lst, i), k, t)
    /\ UNCHANGED back

del_timer(t) ==
    /\ \E i \in DOMAIN m_timer_lst :
           m_timer_lst[i] = t /\ m_timer_lst' = Deleted(m_timer_lst, i)
    /\ expire' = [expire EXCEPT ![t] = 0]
    /\ UNCHANGED back

\* One turn of tick: the first timer has expired.
tick(t) ==
    /\ m_timer_lst # <<>>
    /\ t = Head(m_timer_lst) /\ expire[t] = 0
    /\ m_timer_lst' = Tail(m_timer_lst)
    /\ UNCHANGED <<expire, back>>

\* A TIMESLOT passes; the timers that have expired are all the same.
PassTime ==
    /\ expire' = [t \in Timers |-> IF expire[t] > 0 THEN expire[t] - 1 ELSE 0]
    /\ UNCHANGED <<m_timer_lst, back>>

\* The timers go by time(), the time of the day, which may be put back.
PutBack ==
    /\ back < MaxBack
    /\ back' = back + 1
    /\ expire' = [t \in Timers |-> IF t \in Listed THEN expire[t] + 1 ELSE 0]
    /\ UNCHANGED m_timer_lst

QueueNext ==
    \/ \E t \in Timers : add_timer(t) \/ adjust_timer(t) \/ del_timer(t) \/ tick(t)
    \/ PassTime
    \/ PutBack

QueueSpec == QueueInit /\ [][QueueNext]_queueVars

-----------------------------------------------------------------------------
\* As long as the clock is not put back, the timers stand in the order in
\* which they expire: tick, which stops at the first that has not, misses none.
InOrder ==
    back = 0 =>
        \A i, j \in DOMAIN m_timer_lst :
            i <= j => expire[m_timer_lst[i]] <= expire[m_timer_lst[j]]

\* No timer is in the list twice: tick would delete it twice.
ListedOnce ==
    \A i, j \in DOMAIN m_timer_lst : m_timer_lst[i] = m_timer_lst[j] => i = j
=============================================================================

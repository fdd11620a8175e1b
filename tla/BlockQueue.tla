----------------------------- MODULE BlockQueue -----------------------------
(***************************************************************************)
(* block_queue: a circular buffer under a mutex, with a condition variable *)
(* on which its consumer, the log's flush thread, waits for items.  Each   *)
(* operation is one critical section; pop is several when it waits.        *)
(* (clear, front, back and pop with a timeout are called by nobody.)       *)
(***************************************************************************)
EXTENDS Integers, Sequences

CONSTANTS
    Items,
    NoItem,     \* what a place holds before the first push into it
    MaxSize     \* m_max_size

ASSUME QueueAssumption == MaxSize \in Nat \ {0} /\ NoItem \notin Items

VARIABLES m_array, m_size, m_front, m_back,
          waiting      \* the consumer waits on m_cond

queueVars == <<m_array, m_size, m_front, m_back, waiting>>

QueueInit ==
    /\ m_array = [i \in 0 .. MaxSize - 1 |-> NoItem]
    /\ m_size = 0
    /\ m_front = -1 /\ m_back = -1
    /\ waiting = FALSE

fullLate == m_size > MaxSize
full == m_size >= MaxSize

PushQuietly(x) ==               \* without the broadcast
    /\ ~ full
    /\ m_back' = (m_back + 1) % MaxSize
    /\ m_array' = [m_array EXCEPT ![m_back'] = x]
    /\ m_size' = m_size + 1
    /\ UNCHANGED <<m_front, waiting>>
push(x) ==
    /\ ~ full
    /\ m_back' = (m_back + 1) % MaxSize
    /\ m_array' = [m_array EXCEPT ![m_back'] = x]
    /\ m_size' = m_size + 1
    /\ waiting' = FALSE
    /\ UNCHANGED m_front

\* push returns false: it wakes the consumer all the same.
PushRefused == /\ full
               /\ waiting' = FALSE
               /\ UNCHANGED <<m_array, m_size, m_front, m_back>>

PopWait == /\ ~ waiting /\ m_size <= 0
           /\ waiting' = TRUE
           /\ UNCHANGED <<m_array, m_size, m_front, m_back>>

\* pthread_cond_wait may return without a broadcast.
WakeSpuriously == /\ waiting
                  /\ waiting' = FALSE
                  /\ UNCHANGED <<m_array, m_size, m_front, m_back>>

PopPlace == (m_front + 1) % MaxSize
Popped == m_array[PopPlace]
pop == /\ ~ waiting /\ m_size > 0
       /\ m_front' = PopPlace
       /\ m_size' = m_size - 1
       /\ UNCHANGED <<m_array, m_back, waiting>>

\* The items in the order in which they were pushed.
Queue == [i \in 1 .. m_size |-> m_array[(m_front + i) % MaxSize]]

QueueTypeOK ==
    /\ m_array \in [0 .. MaxSize - 1 -> Items \cup {NoItem}]
    /\ m_size \in 0 .. MaxSize
    /\ m_front \in -1 .. MaxSize - 1 /\ m_back \in -1 .. MaxSize - 1
    /\ waiting \in BOOLEAN
=============================================================================

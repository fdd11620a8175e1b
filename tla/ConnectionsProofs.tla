------------------------- MODULE ConnectionsProofs --------------------------
(***************************************************************************)
(* Proofs about TimerQueue and Connections, for every number of timers,    *)
(* clients and descriptors.  Of TimerQueue: what insertion and deletion do *)
(* to a queue, that no timer is listed twice, and that the queue is in the *)
(* order of expiry as long as the clock is not put back.  Of Connections:  *)
(* that the main thread uses the queue as TimerQueue specifies it, types,  *)
(* and to whom descriptors, timers, events and answers belong.             *)
(***************************************************************************)
EXTENDS Connections, SequenceTheorems, FiniteSetTheorems, TLAPS

-----------------------------------------------------------------------------
(* The queue of timers *)

QueueTypeOK ==
    /\ m_timer_lst \in Seq(Timers)
    /\ expire \in [Timers -> Nat]
    /\ back \in Nat

Elements(q) == {q[i] : i \in DOMAIN q}

-----------------------------------------------------------------------------
(* Queues *)

\* What stands where after an insertion behind place k.
LEMMA InsertedProperties ==
    ASSUME NEW S, NEW q \in Seq(S), NEW k \in 0 .. Len(q), NEW t \in S
    PROVE  /\ Inserted(q, k, t) \in Seq(S)
           /\ Len(Inserted(q, k, t)) = Len(q) + 1
           /\ \A i \in 1 .. k : Inserted(q, k, t)[i] = q[i]
           /\ Inserted(q, k, t)[k + 1] = t
           /\ \A i \in k + 1 .. Len(q) : Inserted(q, k, t)[i + 1] = q[i]
<1>0. Len(q) \in Nat /\ k \in Int /\ \A i \in 1 .. Len(q) : q[i] \in S
  BY LenProperties, ElementOfSeq
<1> DEFINE front == SubSeq(q, 1, k)
           rear == SubSeq(q, k + 1, Len(q))
<1>1. /\ front \in Seq(S) /\ Len(front) = k
      /\ \A i \in 1 .. k : front[i] = q[i]
  <2>1. \A i \in 1 .. k : q[i] \in S
    BY <1>0
  <2>2. /\ front \in Seq(S)
        /\ Len(front) = IF 1 <= k THEN k - 1 + 1 ELSE 0
        /\ \A i \in 1 .. k - 1 + 1 : front[i] = q[1 + i - 1]
    BY <1>0, <2>1, SubSeqProperties
  <2> HIDE DEF front
  <2> QED
    BY <1>0, <2>2
<1>2. /\ rear \in Seq(S) /\ Len(rear) = Len(q) - k
      /\ \A i \in 1 .. Len(q) - k : rear[i] = q[k + i]
  <2>1. \A i \in k + 1 .. Len(q) : q[i] \in S
    BY <1>0
  <2>2. /\ rear \in Seq(S)
        /\ Len(rear) = IF k + 1 <= Len(q) THEN Len(q) - (k + 1) + 1 ELSE 0
        /\ \A i \in 1 .. Len(q) - (k + 1) + 1 : rear[i] = q[k + 1 + i - 1]
    BY <1>0, <2>1, SubSeqProperties
  <2> HIDE DEF rear
  <2> QED
    BY <1>0, <2>2
<1> HIDE DEF front, rear
<1>3. /\ <<t>> \in Seq(S) /\ Len(<<t>>) = 1 /\ <<t>>[1] = t
  OBVIOUS
<1> DEFINE upto == front \o <<t>>
<1>4. /\ upto \in Seq(S) /\ Len(upto) = k + 1
      /\ \A i \in 1 .. k : upto[i] = q[i]
      /\ upto[k + 1] = t
  <2>1. /\ upto \in Seq(S)
        /\ Len(upto) = Len(front) + Len(<<t>>)
        /\ \A i \in 1 .. Len(front) + Len(<<t>>) :
              upto[i] = IF i <= Len(front) THEN front[i] ELSE <<t>>[i - Len(front)]
    BY <1>1, <1>3, ConcatProperties
  <2> HIDE DEF upto
  <2>2. Len(upto) = k + 1 /\ \A i \in 1 .. k : upto[i] = q[i]
    BY <1>0, <1>1, <1>3, <2>1
  <2>3. upto[k + 1] = <<t>>[1]
    <3>1. k + 1 \in 1 .. Len(front) + Len(<<t>>) /\ ~ (k + 1 <= Len(front))
      BY <1>0, <1>1, <1>3
    <3>2. k + 1 - Len(front) = 1
      BY <1>0, <1>1
    <3> QED
      BY <2>1, <3>1, <3>2
  <2> QED
    BY <1>3, <2>1, <2>2, <2>3
<1> HIDE DEF upto
<1> DEFINE r == upto \o rear
<1>5. /\ r \in Seq(S)
      /\ Len(r) = Len(upto) + Len(rear)
      /\ \A i \in 1 .. Len(upto) + Len(rear) :
            r[i] = IF i <= Len(upto) THEN upto[i] ELSE rear[i - Len(upto)]
  BY <1>2, <1>4, ConcatProperties
<1>6. Inserted(q, k, t) = r
  BY DEF Inserted, r, upto, front, rear
<1> HIDE DEF r
<1>7. Len(r) = Len(q) + 1
  BY <1>0, <1>2, <1>4, <1>5
<1>8. \A i \in 1 .. k : r[i] = q[i]
  BY <1>0, <1>2, <1>4, <1>5, SMTT(20)
<1>9. r[k + 1] = t
  BY <1>0, <1>2, <1>4, <1>5, SMTT(20)
<1>10. \A i \in k + 1 .. Len(q) : r[i + 1] = q[i]
  <2> TAKE i \in k + 1 .. Len(q)
  <2>0. /\ i + 1 \in 1 .. Len(upto) + Len(rear) /\ ~ (i + 1 <= Len(upto))
        /\ i + 1 - Len(upto) = i - k
    BY <1>0, <1>2, <1>4
  <2>1. r[i + 1] = rear[i - k]
    BY <2>0, <1>5
  <2>2. i - k \in 1 .. Len(q) - k /\ k + (i - k) = i
    BY <1>0
  <2>3. rear[i - k] = q[k + (i - k)]
    BY <1>2, <2>2
  <2> QED
    BY <2>1, <2>2, <2>3
<1> QED
  BY <1>5, <1>6, <1>7, <1>8, <1>9, <1>10

\* ... and after the deletion of place k.
LEMMA DeletedProperties ==
    ASSUME NEW S, NEW q \in Seq(S), NEW k \in 1 .. Len(q)
    PROVE  /\ Deleted(q, k) \in Seq(S)
           /\ Len(Deleted(q, k)) = Len(q) - 1
           /\ \A i \in 1 .. k - 1 : Deleted(q, k)[i] = q[i]
           /\ \A i \in k .. Len(q) - 1 : Deleted(q, k)[i] = q[i + 1]
<1>0. Len(q) \in Nat /\ k \in Int /\ \A i \in 1 .. Len(q) : q[i] \in S
  BY LenProperties, ElementOfSeq
<1> DEFINE front == SubSeq(q, 1, k - 1)
           rear == SubSeq(q, k + 1, Len(q))
<1>1. /\ front \in Seq(S) /\ Len(front) = k - 1
      /\ \A i \in 1 .. k - 1 : front[i] = q[i]
  <2>1. \A i \in 1 .. k - 1 : q[i] \in S
    BY <1>0
  <2>2. /\ front \in Seq(S)
        /\ Len(front) = IF 1 <= k - 1 THEN k - 1 - 1 + 1 ELSE 0
        /\ \A i \in 1 .. k - 1 - 1 + 1 : front[i] = q[1 + i - 1]
    BY <1>0, <2>1, SubSeqProperties
  <2> HIDE DEF front
  <2> QED
    BY <1>0, <2>2
<1>2. /\ rear \in Seq(S) /\ Len(rear) = Len(q) - k
      /\ \A i \in 1 .. Len(q) - k : rear[i] = q[k + i]
  <2>1. \A i \in k + 1 .. Len(q) : q[i] \in S
    BY <1>0
  <2>2. /\ rear \in Seq(S)
        /\ Len(rear) = IF k + 1 <= Len(q) THEN Len(q) - (k + 1) + 1 ELSE 0
        /\ \A i \in 1 .. Len(q) - (k + 1) + 1 : rear[i] = q[k + 1 + i - 1]
    BY <1>0, <2>1, SubSeqProperties
  <2> HIDE DEF rear
  <2> QED
    BY <1>0, <2>2
<1> HIDE DEF front, rear
<1> DEFINE r == front \o rear
<1>3. /\ r \in Seq(S)
      /\ Len(r) = Len(front) + Len(rear)
      /\ \A i \in 1 .. Len(front) + Len(rear) :
            r[i] = IF i <= Len(front) THEN front[i] ELSE rear[i - Len(front)]
  BY <1>1, <1>2, ConcatProperties
<1>4. Deleted(q, k) = r
  BY DEF Deleted, r, front, rear
<1> HIDE DEF r
<1>5. \A i \in 1 .. k - 1 : r[i] = q[i]
  BY <1>0, <1>1, <1>2, <1>3
<1>6. \A i \in k .. Len(q) - 1 : r[i] = q[i + 1]
  <2> TAKE i \in k .. Len(q) - 1
  <2>1. r[i] = rear[i - (k - 1)]
    BY <1>0, <1>1, <1>2, <1>3, SMTT(20)
  <2>2. i - (k - 1) \in 1 .. Len(q) - k /\ k + (i - (k - 1)) = i + 1
    BY <1>0
  <2>3. rear[i - (k - 1)] = q[k + (i - (k - 1))]
    BY <1>2, <2>2
  <2> QED
    BY <2>1, <2>2, <2>3
<1>7. Len(r) = Len(q) - 1
  BY <1>0, <1>1, <1>2, <1>3
<1> QED
  BY <1>3, <1>4, <1>5, <1>6, <1>7

Once(q) == \A i, j \in DOMAIN q : q[i] = q[j] => i = j

\* An insertion adds one timer, and does not repeat one if it was not there.
LEMMA InsertedElements ==
    ASSUME NEW S, NEW q \in Seq(S), NEW k \in 0 .. Len(q), NEW t \in S
    PROVE  /\ Elements(Inserted(q, k, t)) = Elements(q) \cup {t}
           /\ Once(q) /\ t \notin Elements(q) => Once(Inserted(q, k, t))
<1> DEFINE r == Inserted(q, k, t)
           from(i) == IF i <= k THEN i ELSE i - 1
<1> HIDE DEF r
<1>p. /\ r \in Seq(S) /\ Len(r) = Len(q) + 1
      /\ \A i \in 1 .. k : r[i] = q[i]
      /\ r[k + 1] = t
      /\ \A i \in k + 1 .. Len(q) : r[i + 1] = q[i]
  <2>1. Inserted(q, k, t) \in Seq(S) /\ Len(Inserted(q, k, t)) = Len(q) + 1
    BY InsertedProperties
  <2>3. \A i \in 1 .. k : Inserted(q, k, t)[i] = q[i]
    BY InsertedProperties
  <2>4. Inserted(q, k, t)[k + 1] = t
    BY InsertedProperties
  <2>5. \A i \in k + 1 .. Len(q) : Inserted(q, k, t)[i + 1] = q[i]
    BY InsertedProperties
  <2>2. r = Inserted(q, k, t)
    BY DEF r
  <2> QED
    BY <2>1, <2>2, <2>3, <2>4, <2>5
<1>0. /\ Len(q) \in Nat /\ k \in Int /\ DOMAIN q = 1 .. Len(q)
      /\ DOMAIN r = 1 .. Len(q) + 1
  BY <1>p, LenProperties
<1>1. r[k + 1] = t /\ k + 1 \in DOMAIN r
  BY <1>0, <1>p
<1>2. \A i \in DOMAIN r \ {k + 1} : from(i) \in DOMAIN q /\ r[i] = q[from(i)]
  <2> SUFFICES ASSUME NEW i \in DOMAIN r \ {k + 1}
               PROVE  from(i) \in DOMAIN q /\ r[i] = q[from(i)]
    OBVIOUS
  <2>1. CASE i <= k
    <3>1. i \in 1 .. k /\ from(i) = i
      BY <2>1, <1>0
    <3> QED
      BY <3>1, <1>0, <1>p
  <2>2. CASE ~ (i <= k)
    <3>1. i - 1 \in k + 1 .. Len(q) /\ from(i) = i - 1 /\ i - 1 + 1 = i
      BY <2>2, <1>0
    <3>2. r[i - 1 + 1] = q[i - 1]
      BY <3>1, <1>p
    <3> QED
      BY <3>1, <3>2, <1>0
  <2> QED
    BY <2>1, <2>2
<1>3. \A j \in DOMAIN q : \E i \in DOMAIN r : r[i] = q[j]
  <2> TAKE j \in DOMAIN q
  <2>1. CASE j <= k
    <3>1. j \in 1 .. k
      BY <2>1, <1>0
    <3>2. r[j] = q[j] /\ j \in DOMAIN r
      BY <3>1, <1>0, <1>p
    <3> QED
      BY <3>2
  <2>2. CASE ~ (j <= k)
    <3>1. j \in k + 1 .. Len(q)
      BY <2>2, <1>0
    <3>2. r[j + 1] = q[j] /\ j + 1 \in DOMAIN r
      BY <3>1, <1>0, <1>p
    <3> QED
      BY <3>2
  <2> QED
    BY <2>1, <2>2
<1>4. \A i, j \in DOMAIN r \ {k + 1} : from(i) = from(j) => i = j
  <2> SUFFICES ASSUME NEW i \in DOMAIN r \ {k + 1}, NEW j \in DOMAIN r \ {k + 1},
                      from(i) = from(j)
               PROVE  i = j
    OBVIOUS
  <2>1. i \in Int /\ j \in Int /\ i # k + 1 /\ j # k + 1
    BY <1>0
  <2> QED
    BY <1>0, <2>1
<1> HIDE DEF from
<1>5. Elements(r) = Elements(q) \cup {t}
  <2>1. Elements(r) \subseteq Elements(q) \cup {t}
    BY <1>1, <1>2 DEF Elements
  <2>2. Elements(q) \cup {t} \subseteq Elements(r)
    BY <1>1, <1>3 DEF Elements
  <2> QED
    BY <2>1, <2>2
<1>6. Once(q) /\ t \notin Elements(q) => Once(r)
  <2> SUFFICES ASSUME Once(q), t \notin Elements(q),
                      NEW i \in DOMAIN r, NEW j \in DOMAIN r, r[i] = r[j]
               PROVE  i = j
    BY DEF Once
  <2>1. CASE i = k + 1 \/ j = k + 1
    BY <2>1, <1>1, <1>2 DEF Elements
  <2>2. CASE i # k + 1 /\ j # k + 1
    BY <2>2, <1>2, <1>4 DEF Once
  <2> QED
    BY <2>1, <2>2
<1> QED
  BY <1>5, <1>6 DEF r

\* A deletion takes one timer out of a queue that has it once.
LEMMA DeletedElements ==
    ASSUME NEW S, NEW q \in Seq(S), NEW k \in 1 .. Len(q), Once(q)
    PROVE  /\ Elements(Deleted(q, k)) = Elements(q) \ {q[k]}
           /\ Once(Deleted(q, k))
<1> DEFINE r == Deleted(q, k)
           from(i) == IF i < k THEN i ELSE i + 1
<1>p. /\ r \in Seq(S) /\ Len(r) = Len(q) - 1
      /\ \A i \in 1 .. k - 1 : r[i] = q[i]
      /\ \A i \in k .. Len(q) - 1 : r[i] = q[i + 1]
  BY DeletedProperties
<1> HIDE DEF r
<1>0. /\ Len(q) \in Nat /\ k \in Int /\ DOMAIN q = 1 .. Len(q)
      /\ DOMAIN r = 1 .. Len(q) - 1
  BY <1>p, LenProperties
<1>1. \A i \in DOMAIN r : from(i) \in DOMAIN q \ {k} /\ r[i] = q[from(i)]
  <2> SUFFICES ASSUME NEW i \in DOMAIN r
               PROVE  from(i) \in DOMAIN q \ {k} /\ r[i] = q[from(i)]
    OBVIOUS
  <2>1. CASE i < k
    <3>1. i \in 1 .. k - 1 /\ from(i) = i /\ i # k
      BY <2>1, <1>0
    <3> QED
      BY <3>1, <1>0, <1>p
  <2>2. CASE ~ (i < k)
    <3>1. i \in k .. Len(q) - 1 /\ from(i) = i + 1 /\ i + 1 # k /\ i + 1 \in 1 .. Len(q)
      BY <2>2, <1>0
    <3>2. r[i] = q[i + 1]
      BY <3>1, <1>p
    <3> QED
      BY <3>1, <3>2, <1>0
  <2> QED
    BY <2>1, <2>2
<1>2. \A j \in DOMAIN q \ {k} : \E i \in DOMAIN r : r[i] = q[j]
  <2> TAKE j \in DOMAIN q \ {k}
  <2>1. CASE j < k
    <3>1. j \in 1 .. k - 1
      BY <2>1, <1>0
    <3>2. r[j] = q[j] /\ j \in DOMAIN r
      BY <3>1, <1>0, <1>p
    <3> QED
      BY <3>2
  <2>2. CASE ~ (j < k)
    <3>1. j - 1 \in k .. Len(q) - 1 /\ j - 1 + 1 = j
      BY <2>2, <1>0
    <3>2. r[j - 1] = q[j - 1 + 1] /\ j - 1 \in DOMAIN r
      BY <3>1, <1>0, <1>p
    <3> QED
      BY <3>1, <3>2
  <2> QED
    BY <2>1, <2>2
<1>3. \A i, j \in DOMAIN r : from(i) = from(j) => i = j
  <2> SUFFICES ASSUME NEW i \in DOMAIN r, NEW j \in DOMAIN r, from(i) = from(j)
               PROVE  i = j
    OBVIOUS
  <2>1. i \in Int /\ j \in Int
    BY <1>0
  <2> QED
    BY <1>0, <2>1
<1> HIDE DEF from
<1>4. Elements(r) = Elements(q) \ {q[k]}
  <2>1. Elements(r) \subseteq Elements(q) \ {q[k]}
    BY <1>0, <1>1 DEF Elements, Once
  <2>2. Elements(q) \ {q[k]} \subseteq Elements(r)
    BY <1>0, <1>2 DEF Elements
  <2> QED
    BY <2>1, <2>2
<1>5. Once(r)
  BY <1>1, <1>3 DEF Once
<1> QED
  BY <1>4, <1>5 DEF r

-----------------------------------------------------------------------------
(* What each operation does to the timers listed *)

LEMMA BehindRange ==
    ASSUME NEW q, NEW e, NEW i \in Nat, NEW t, NEW k \in Behind(q, e, i, t)
    PROVE  k \in i .. Len(q) /\ Fits(q, e, k, t)
  BY DEF Behind

LEMMA PlacesRange ==
    ASSUME NEW S, NEW q \in Seq(S), NEW e, NEW t, NEW k \in Places(q, e, t)
    PROVE  /\ k \in 0 .. Len(q)
           /\ q = <<>> \/ Fits(q, e, k, t)
<1>0. Len(q) \in Nat
  BY LenProperties
<1>1. CASE q = <<>> \/ e[t] < e[q[1]]
  BY <1>0, <1>1 DEF Places, Fits
<1>2. CASE ~ (q = <<>> \/ e[t] < e[q[1]])
  <2>1. k \in Behind(q, e, 1, t)
    BY <1>2 DEF Places
  <2>2. k \in 1 .. Len(q) /\ Fits(q, e, k, t)
    BY <2>1, BehindRange
  <2> QED
    BY <1>0, <2>2
<1> QED
  BY <1>1, <1>2

LEMMA AddStep ==
    ASSUME QueueTypeOK, ListedOnce, NEW t \in Timers, add_timer(t)
    PROVE  QueueTypeOK' /\ ListedOnce' /\ Listed' = Listed \cup {t}
<1>0. /\ m_timer_lst \in Seq(Timers) /\ Once(m_timer_lst)
      /\ t \notin Elements(m_timer_lst)
  BY DEF QueueTypeOK, ListedOnce, Once, Elements, add_timer, Listed
<1>1. PICK k \in Places(m_timer_lst, expire', t) : m_timer_lst' = Inserted(m_timer_lst, k, t)
  BY DEF add_timer
<1>2. k \in 0 .. Len(m_timer_lst)
  BY <1>0, PlacesRange
<1>3. Inserted(m_timer_lst, k, t) \in Seq(Timers)
  BY <1>0, <1>2, InsertedProperties
<1>4. /\ Elements(Inserted(m_timer_lst, k, t)) = Elements(m_timer_lst) \cup {t}
      /\ Once(Inserted(m_timer_lst, k, t))
  BY <1>0, <1>2, InsertedElements
<1>5. expire' \in [Timers -> Nat] /\ back' \in Nat
  BY TimerQueueAssumption DEF QueueTypeOK, add_timer, Restarted
<1>6. QueueTypeOK'
  BY <1>1, <1>3, <1>5 DEF QueueTypeOK
<1>7. ListedOnce'
  BY <1>1, <1>4 DEF ListedOnce, Once
<1>8. Listed' = Listed \cup {t}
  BY <1>1, <1>4 DEF Listed, Elements
<1> QED
  BY <1>6, <1>7, <1>8

LEMMA AdjustStep ==
    ASSUME QueueTypeOK, ListedOnce, NEW t \in Timers, adjust_timer(t)
    PROVE  QueueTypeOK' /\ ListedOnce' /\ Listed' = Listed /\ t \in Listed
<1>0. m_timer_lst \in Seq(Timers) /\ Once(m_timer_lst)
  BY DEF QueueTypeOK, ListedOnce, Once
<1>1. expire' \in [Timers -> Nat] /\ back' \in Nat
  BY TimerQueueAssumption DEF QueueTypeOK, adjust_timer, Restarted
<1>2. PICK i \in DOMAIN m_timer_lst :
         /\ m_timer_lst[i] = t
         /\ \/ UNCHANGED m_timer_lst
            \/ \E k \in Behind(Deleted(m_timer_lst, i), expire', i, t) :
                   m_timer_lst' = Inserted(Deleted(m_timer_lst, i), k, t)
  BY DEF adjust_timer
<1>3. i \in 1 .. Len(m_timer_lst) /\ Len(m_timer_lst) \in Nat
  BY <1>0, LenProperties
<1>4. t \in Listed
  BY <1>2 DEF Listed
<1>5. CASE UNCHANGED m_timer_lst
  BY <1>0, <1>1, <1>4, <1>5 DEF QueueTypeOK, ListedOnce, Listed
<1>6. CASE \E k \in Behind(Deleted(m_timer_lst, i), expire', i, t) :
               m_timer_lst' = Inserted(Deleted(m_timer_lst, i), k, t)
  <2> DEFINE q == Deleted(m_timer_lst, i)
  <2>1. PICK k \in Behind(q, expire', i, t) : m_timer_lst' = Inserted(q, k, t)
    BY <1>6
  <2>2. q \in Seq(Timers)
    BY <1>0, <1>3, DeletedProperties
  <2>3. Elements(q) = Elements(m_timer_lst) \ {m_timer_lst[i]} /\ Once(q)
    BY <1>0, <1>3, DeletedElements
  <2> HIDE DEF q
  <2>4. k \in i .. Len(q)
    BY <1>3, <2>1, BehindRange
  <2>5. k \in 0 .. Len(q)
    BY <1>3, <2>2, <2>4, LenProperties
  <2>6. Inserted(q, k, t) \in Seq(Timers)
    BY <2>2, <2>5, InsertedProperties
  <2>7. /\ Elements(Inserted(q, k, t)) = Elements(q) \cup {t}
        /\ Once(Inserted(q, k, t))
    BY <1>2, <2>2, <2>3, <2>5, InsertedElements
  <2>8. QueueTypeOK'
    BY <1>1, <2>1, <2>6 DEF QueueTypeOK
  <2>9. ListedOnce'
    BY <2>1, <2>7 DEF ListedOnce, Once
  <2>10. Listed' = Listed
    <3>1. Elements(q) \cup {t} = Elements(m_timer_lst)
      BY <1>2, <1>4, <2>3 DEF Listed, Elements
    <3>2. Elements(m_timer_lst') = Elements(m_timer_lst)
      BY <2>1, <2>7, <3>1
    <3> QED
      BY <3>2 DEF Listed, Elements
  <2> QED
    BY <1>4, <2>8, <2>9, <2>10
<1> QED
  BY <1>2, <1>5, <1>6

LEMMA DelStep ==
    ASSUME QueueTypeOK, ListedOnce, NEW t \in Timers, del_timer(t)
    PROVE  QueueTypeOK' /\ ListedOnce' /\ Listed' = Listed \ {t} /\ t \in Listed
<1>0. m_timer_lst \in Seq(Timers) /\ Once(m_timer_lst)
  BY DEF QueueTypeOK, ListedOnce, Once
<1>1. expire' \in [Timers -> Nat] /\ back' \in Nat
  BY DEF QueueTypeOK, del_timer
<1>2. PICK i \in DOMAIN m_timer_lst :
         m_timer_lst[i] = t /\ m_timer_lst' = Deleted(m_timer_lst, i)
  BY DEF del_timer
<1>3. i \in 1 .. Len(m_timer_lst)
  BY <1>0, LenProperties
<1>4. Deleted(m_timer_lst, i) \in Seq(Timers)
  BY <1>0, <1>3, DeletedProperties
<1>5. /\ Elements(Deleted(m_timer_lst, i)) = Elements(m_timer_lst) \ {t}
      /\ Once(Deleted(m_timer_lst, i))
  BY <1>0, <1>2, <1>3, DeletedElements
<1>6. QueueTypeOK'
  BY <1>1, <1>2, <1>4 DEF QueueTypeOK
<1>7. ListedOnce'
  BY <1>2, <1>5 DEF ListedOnce, Once
<1>8. Listed' = Listed \ {t} /\ t \in Listed
  BY <1>2, <1>5 DEF Listed, Elements
<1> QED
  BY <1>6, <1>7, <1>8

LEMMA TickStep ==
    ASSUME QueueTypeOK, ListedOnce, NEW t \in Timers, tick(t)
    PROVE  QueueTypeOK' /\ ListedOnce' /\ Listed' = Listed \ {t} /\ t \in Listed
<1>0. /\ m_timer_lst \in Seq(Timers) /\ m_timer_lst # <<>>
      /\ Len(m_timer_lst) \in Nat /\ DOMAIN m_timer_lst = 1 .. Len(m_timer_lst)
  BY LenProperties DEF QueueTypeOK, tick
<1>1. 1 \in DOMAIN m_timer_lst /\ m_timer_lst[1] = t
  BY <1>0, EmptySeq DEF tick
<1>2. /\ m_timer_lst' \in Seq(Timers)
      /\ DOMAIN m_timer_lst' = 1 .. Len(m_timer_lst) - 1
      /\ \A i \in 1 .. Len(m_timer_lst) - 1 : m_timer_lst'[i] = m_timer_lst[i + 1]
  BY <1>0 DEF tick
<1>3. QueueTypeOK'
  BY <1>2 DEF QueueTypeOK, tick
<1>4. ListedOnce'
  <2> SUFFICES ASSUME NEW i \in DOMAIN m_timer_lst', NEW j \in DOMAIN m_timer_lst',
                      m_timer_lst'[i] = m_timer_lst'[j]
               PROVE  i = j
    BY DEF ListedOnce
  <2>1. i \in 1 .. Len(m_timer_lst) - 1 /\ j \in 1 .. Len(m_timer_lst) - 1
    BY <1>2
  <2>2. m_timer_lst[i + 1] = m_timer_lst[j + 1]
    BY <1>2, <2>1
  <2>3. i + 1 \in DOMAIN m_timer_lst /\ j + 1 \in DOMAIN m_timer_lst
    BY <1>0, <2>1
  <2>4. i + 1 = j + 1
    BY <2>2, <2>3 DEF ListedOnce
  <2> QED
    BY <1>0, <2>1, <2>4
<1>5. Listed' = Listed \ {t}
  <2>1. ASSUME NEW i \in DOMAIN m_timer_lst' PROVE m_timer_lst'[i] \in Listed \ {t}
    <3>1. i + 1 \in DOMAIN m_timer_lst /\ i + 1 # 1
      BY <1>0, <1>2
    <3>2. m_timer_lst'[i] = m_timer_lst[i + 1]
      BY <1>2
    <3>3. m_timer_lst[i + 1] # m_timer_lst[1]
      BY <1>1, <3>1 DEF ListedOnce
    <3> QED
      BY <1>1, <3>1, <3>2, <3>3 DEF Listed
  <2>2. ASSUME NEW s \in Listed \ {t} PROVE s \in Listed'
    <3>1. PICK i \in 1 .. Len(m_timer_lst) : m_timer_lst[i] = s
      BY <1>0, <2>2 DEF Listed
    <3>2. i - 1 \in 1 .. Len(m_timer_lst) - 1 /\ i - 1 + 1 = i
      BY <1>0, <1>1, <2>2, <3>1
    <3>3. m_timer_lst'[i - 1] = s
      BY <1>2, <3>1, <3>2
    <3> QED
      BY <1>2, <3>2, <3>3 DEF Listed
  <2>3. Listed' \subseteq Listed \ {t}
    BY <2>1 DEF Listed
  <2> QED
    BY <2>2, <2>3
<1> QED
  BY <1>1, <1>3, <1>4, <1>5 DEF Listed

LEMMA ClockStep ==
    ASSUME QueueTypeOK, ListedOnce, PassTime \/ PutBack
    PROVE  QueueTypeOK' /\ ListedOnce' /\ Listed' = Listed
<1>1. m_timer_lst' = m_timer_lst /\ back' \in Nat
  BY DEF PassTime, PutBack, QueueTypeOK
<1>2. expire' \in [Timers -> Nat]
  <2>1. \A t \in Timers : expire[t] \in Nat
    BY DEF QueueTypeOK
  <2> QED
    BY <2>1 DEF PassTime, PutBack
<1> QED
  BY <1>1, <1>2 DEF QueueTypeOK, ListedOnce, Listed

QueueIInv == QueueTypeOK /\ ListedOnce

LEMMA QueueIInvStep ==
    ASSUME QueueIInv, [QueueNext]_queueVars
    PROVE  QueueIInv'
<1>1. CASE \E t \in Timers : add_timer(t) \/ adjust_timer(t) \/ del_timer(t) \/ tick(t)
  BY <1>1, AddStep, AdjustStep, DelStep, TickStep DEF QueueIInv
<1>2. CASE PassTime \/ PutBack
  BY <1>2, ClockStep DEF QueueIInv
<1>3. CASE UNCHANGED queueVars
  BY <1>3 DEF queueVars, QueueIInv, QueueTypeOK, ListedOnce
<1> QED
  BY <1>1, <1>2, <1>3 DEF QueueNext

LEMMA QueueInitIInv == QueueInit => QueueIInv
  BY TimerQueueAssumption DEF QueueInit, QueueIInv, QueueTypeOK, ListedOnce

\* No timer is ever in the list twice.
THEOREM ListedOnceHolds == QueueSpec => []ListedOnce
<1>1. QueueIInv => ListedOnce
  BY DEF QueueIInv
<1> QED
  BY <1>1, QueueInitIInv, QueueIInvStep, PTL DEF QueueSpec

\* The types of the queue.
THEOREM QueueTypeOKHolds == QueueSpec => []QueueTypeOK
<1>1. QueueIInv => QueueTypeOK
  BY DEF QueueIInv
<1> QED
  BY <1>1, QueueInitIInv, QueueIInvStep, PTL DEF QueueSpec

-----------------------------------------------------------------------------
(* The order of expiry *)

Sorted(q, e) == \A i, j \in DOMAIN q : i <= j => e[q[i]] <= e[q[j]]

\* While the clock is not put back no timer is set further than Slots ahead,
\* so that one that starts anew belongs at the very end.
WithinSlots == back = 0 => \A t \in Timers : expire[t] <= Slots

LEMMA DeletedSorted ==
    ASSUME NEW S, NEW q \in Seq(S), NEW e \in [S -> Nat], NEW k \in 1 .. Len(q), Sorted(q, e)
    PROVE  Sorted(Deleted(q, k), e)
<1> DEFINE r == Deleted(q, k)
           from(i) == IF i < k THEN i ELSE i + 1
<1>0. Len(q) \in Nat /\ k \in Int /\ DOMAIN q = 1 .. Len(q)
  BY LenProperties
<1>1. /\ r \in Seq(S) /\ Len(r) = Len(q) - 1
      /\ \A i \in 1 .. k - 1 : r[i] = q[i]
      /\ \A i \in k .. Len(q) - 1 : r[i] = q[i + 1]
  BY DeletedProperties
<1> HIDE DEF r
<1>2. DOMAIN r = 1 .. Len(q) - 1
  BY <1>0, <1>1, LenProperties
<1>3. ASSUME NEW i \in DOMAIN r PROVE from(i) \in DOMAIN q /\ r[i] = q[from(i)]
  <2>1. CASE i < k
    <3>1. i \in 1 .. k - 1 /\ from(i) = i
      BY <2>1, <1>0, <1>2
    <3> QED
      BY <3>1, <1>0, <1>1
  <2>2. CASE ~ (i < k)
    <3>1. i \in k .. Len(q) - 1 /\ from(i) = i + 1 /\ i + 1 \in 1 .. Len(q)
      BY <2>2, <1>0, <1>2
    <3> QED
      BY <3>1, <1>0, <1>1
  <2> QED
    BY <2>1, <2>2
<1>4. ASSUME NEW i \in DOMAIN r, NEW j \in DOMAIN r, i <= j
      PROVE  e[r[i]] <= e[r[j]]
  <2>1. i \in Int /\ j \in Int
    BY <1>0, <1>2
  <2>2. from(i) <= from(j)
    BY <1>0, <1>4, <2>1
  <2>3. e[q[from(i)]] <= e[q[from(j)]]
    <3> HIDE DEF from
    <3> QED
      BY <1>3, <2>2 DEF Sorted
  <2> QED
    BY <1>3, <2>3
<1> QED
  BY <1>4 DEF Sorted, r

\* The place of a timer that expires no earlier than the others is the last.
LEMMA LastPlace ==
    ASSUME NEW q \in Seq(Timers), NEW e \in [Timers -> Nat], NEW t \in Timers,
           NEW k \in 0 .. Len(q), Fits(q, e, k, t),
           \A s \in Timers : e[s] <= e[t]
    PROVE  k = Len(q)
<1>0. Len(q) \in Nat /\ DOMAIN q = 1 .. Len(q)
  BY LenProperties
<1>1. ASSUME k < Len(q) PROVE FALSE
  <2>1. k + 1 \in 1 .. Len(q)
    BY <1>0, <1>1
  <2>2. q[k + 1] \in Timers
    BY <2>1, ElementOfSeq
  <2>3. e[t] < e[q[k + 1]]
    BY <1>1 DEF Fits
  <2>4. e[q[k + 1]] <= e[t] /\ e[t] \in Nat /\ e[q[k + 1]] \in Nat
    BY <2>2
  <2> QED
    BY <2>3, <2>4
<1>2. k \in Int /\ Len(q) \in Int /\ k <= Len(q) /\ ~ (k < Len(q))
  BY <1>0, <1>1
<1> QED
  BY ONLY <1>2

LEMMA InsertedSorted ==
    ASSUME NEW q \in Seq(Timers), NEW e \in [Timers -> Nat], NEW t \in Timers,
           NEW k \in 0 .. Len(q), Fits(q, e, k, t),
           \A s \in Timers : e[s] <= e[t], Sorted(q, e)
    PROVE  Sorted(Inserted(q, k, t), e)
<1> DEFINE r == Inserted(q, k, t)
<1>0. Len(q) \in Nat /\ DOMAIN q = 1 .. Len(q) /\ k = Len(q)
  BY LenProperties, LastPlace
<1>1. r \in Seq(Timers) /\ Len(r) = Len(q) + 1
  BY InsertedProperties
<1>2. \A i \in 1 .. k : r[i] = q[i]
  BY InsertedProperties
<1>3. r[k + 1] = t
  BY InsertedProperties
<1> HIDE DEF r
<1>4. DOMAIN r = 1 .. Len(q) + 1
  BY <1>0, <1>1, LenProperties
<1>5. ASSUME NEW i \in DOMAIN r, NEW j \in DOMAIN r, i <= j
      PROVE  e[r[i]] <= e[r[j]]
  <2>0. i \in 1 .. Len(r) /\ r[i] \in Timers
    BY <1>1, ElementOfSeq, LenProperties
  <2>1. CASE j = k + 1
    BY <1>3, <2>0, <2>1
  <2>2. CASE j # k + 1
    <3>1. i \in 1 .. k /\ j \in 1 .. k
      BY <1>0, <1>4, <1>5, <2>2
    <3>2. e[q[i]] <= e[q[j]]
      BY <1>0, <1>5, <3>1 DEF Sorted
    <3> QED
      BY <1>2, <3>1, <3>2
  <2> QED
    BY <2>1, <2>2
<1> QED
  BY <1>5 DEF Sorted, r

\* Setting the time of a timer that is not in a queue leaves it in order.
LEMMA SortedElsewhere ==
    ASSUME NEW q \in Seq(Timers), NEW e \in [Timers -> Nat], NEW t \in Timers, NEW n,
           t \notin Elements(q), Sorted(q, e)
    PROVE  Sorted(q, [e EXCEPT ![t] = n])
<1>1. \A i \in DOMAIN q : q[i] # t /\ q[i] \in Timers
  BY LenProperties, ElementOfSeq DEF Elements
<1> QED
  BY <1>1 DEF Sorted

OrderIInv == QueueIInv /\ InOrder /\ WithinSlots

LEMMA RestartedLatest ==
    ASSUME QueueTypeOK, WithinSlots, back = 0, NEW t \in Timers, Restarted(t)
    PROVE  /\ expire' \in [Timers -> Nat]
           /\ expire'[t] = Slots
           /\ \A s \in Timers : expire'[s] <= Slots
<1>1. Slots \in Nat /\ expire \in [Timers -> Nat]
  BY TimerQueueAssumption DEF QueueTypeOK
<1>2. expire' = [expire EXCEPT ![t] = Slots]
  BY DEF Restarted
<1>3. \A s \in Timers : expire[s] <= Slots
  BY DEF WithinSlots
<1> QED
  BY <1>1, <1>2, <1>3

LEMMA AddOrder ==
    ASSUME OrderIInv, NEW t \in Timers, add_timer(t)
    PROVE  InOrder' /\ WithinSlots'
<1>0. QueueTypeOK /\ ListedOnce /\ back' = back
  BY DEF OrderIInv, QueueIInv, add_timer
<1> SUFFICES ASSUME back = 0
             PROVE  Sorted(m_timer_lst', expire') /\ \A s \in Timers : expire'[s] <= Slots
  BY <1>0 DEF InOrder, WithinSlots, Sorted
<1>1. /\ expire' \in [Timers -> Nat] /\ expire'[t] = Slots
      /\ \A s \in Timers : expire'[s] <= Slots
  BY <1>0, RestartedLatest DEF OrderIInv, add_timer
<1>2. PICK k \in Places(m_timer_lst, expire', t) : m_timer_lst' = Inserted(m_timer_lst, k, t)
  BY DEF add_timer
<1>3. m_timer_lst \in Seq(Timers)
  BY <1>0 DEF QueueTypeOK
<1>4. k \in 0 .. Len(m_timer_lst) /\ Fits(m_timer_lst, expire', k, t)
  <2>1. k \in 0 .. Len(m_timer_lst) /\ (m_timer_lst = <<>> \/ Fits(m_timer_lst, expire', k, t))
    BY <1>3, PlacesRange
  <2>2. m_timer_lst = <<>> => Fits(m_timer_lst, expire', k, t)
    BY <2>1 DEF Fits
  <2> QED
    BY <2>1, <2>2
<1>5. Sorted(m_timer_lst, expire')
  <2>1. t \notin Elements(m_timer_lst)
    BY DEF add_timer, Listed, Elements
  <2>2. Sorted(m_timer_lst, expire)
    BY DEF OrderIInv, InOrder, Sorted
  <2>3. expire \in [Timers -> Nat] /\ expire' = [expire EXCEPT ![t] = Slots]
    BY <1>0 DEF QueueTypeOK, add_timer, Restarted
  <2>4. Sorted(m_timer_lst, [expire EXCEPT ![t] = Slots])
    BY <1>3, <2>1, <2>2, <2>3, SortedElsewhere
  <2> QED
    BY <2>3, <2>4
<1>6. \A s \in Timers : expire'[s] <= expire'[t]
  BY <1>1
<1>7. Sorted(Inserted(m_timer_lst, k, t), expire')
  BY <1>1, <1>3, <1>4, <1>5, <1>6, InsertedSorted
<1> QED
  BY <1>1, <1>2, <1>7

LEMMA AdjustOrder ==
    ASSUME OrderIInv, NEW t \in Timers, adjust_timer(t)
    PROVE  InOrder' /\ WithinSlots'
<1>0. QueueTypeOK /\ ListedOnce /\ back' = back
  BY DEF OrderIInv, QueueIInv, adjust_timer
<1> SUFFICES ASSUME back = 0
             PROVE  Sorted(m_timer_lst', expire') /\ \A s \in Timers : expire'[s] <= Slots
  BY <1>0 DEF InOrder, WithinSlots, Sorted
<1>1. /\ expire' \in [Timers -> Nat] /\ expire'[t] = Slots
      /\ \A s \in Timers : expire'[s] <= Slots
  BY <1>0, RestartedLatest DEF OrderIInv, adjust_timer
<1>2. \A s \in Timers : expire'[s] <= expire'[t]
  BY <1>1
<1>3. m_timer_lst \in Seq(Timers) /\ Sorted(m_timer_lst, expire) /\ Once(m_timer_lst)
  BY <1>0 DEF QueueTypeOK, OrderIInv, InOrder, Sorted, ListedOnce, Once
<1>4. expire \in [Timers -> Nat] /\ expire' = [expire EXCEPT ![t] = Slots]
  BY <1>0 DEF QueueTypeOK, adjust_timer, Restarted
<1>5. PICK i \in DOMAIN m_timer_lst :
         /\ m_timer_lst[i] = t
         /\ \/ Fits(m_timer_lst, expire', i, t) /\ UNCHANGED m_timer_lst
            \/ \E k \in Behind(Deleted(m_timer_lst, i), expire', i, t) :
                   m_timer_lst' = Inserted(Deleted(m_timer_lst, i), k, t)
  BY DEF adjust_timer
<1>6. /\ i \in 1 .. Len(m_timer_lst) /\ Len(m_timer_lst) \in Nat
      /\ DOMAIN m_timer_lst = 1 .. Len(m_timer_lst)
  BY <1>3, LenProperties
<1>7. CASE Fits(m_timer_lst, expire', i, t) /\ UNCHANGED m_timer_lst
  <2>1. i = Len(m_timer_lst)
    BY <1>1, <1>2, <1>3, <1>6, <1>7, LastPlace
  <2>2. ASSUME NEW g \in DOMAIN m_timer_lst, NEW h \in DOMAIN m_timer_lst, g <= h
        PROVE  expire'[m_timer_lst[g]] <= expire'[m_timer_lst[h]]
    <3>0. m_timer_lst[g] \in Timers /\ m_timer_lst[h] \in Timers
      BY <1>3, <1>6, ElementOfSeq
    <3>1. CASE h = i
      BY <1>2, <1>5, <3>0, <3>1
    <3>2. CASE h # i
      <4>1. g # i
        BY <1>6, <2>1, <2>2, <3>2
      <4>2. m_timer_lst[g] # t /\ m_timer_lst[h] # t
        BY <1>3, <1>5, <3>2, <4>1 DEF Once
      <4>3. expire[m_timer_lst[g]] <= expire[m_timer_lst[h]]
        BY <1>3, <2>2 DEF Sorted
      <4> QED
        BY <1>4, <3>0, <4>2, <4>3
    <3> QED
      BY <3>1, <3>2
  <2>3. Sorted(m_timer_lst, expire')
    BY <2>2 DEF Sorted
  <2> QED
    BY <1>1, <1>7, <2>3
<1>8. CASE \E k \in Behind(Deleted(m_timer_lst, i), expire', i, t) :
               m_timer_lst' = Inserted(Deleted(m_timer_lst, i), k, t)
  <2> DEFINE q == Deleted(m_timer_lst, i)
  <2>1. PICK k \in Behind(q, expire', i, t) : m_timer_lst' = Inserted(q, k, t)
    BY <1>8
  <2>2. q \in Seq(Timers)
    BY <1>3, <1>6, DeletedProperties
  <2>3. Elements(q) = Elements(m_timer_lst) \ {m_timer_lst[i]}
    BY <1>3, <1>6, DeletedElements
  <2>4. Sorted(q, expire)
    BY <1>3, <1>4, <1>6, DeletedSorted
  <2> HIDE DEF q
  <2>5. k \in i .. Len(q) /\ Fits(q, expire', k, t)
    BY <1>6, <2>1, BehindRange
  <2>6. k \in 0 .. Len(q)
    BY <1>6, <2>2, <2>5, LenProperties
  <2>7. Sorted(q, expire')
    <3>1. t \notin Elements(q)
      BY <1>5, <2>3
    <3>2. Sorted(q, [expire EXCEPT ![t] = Slots])
      BY <1>4, <2>2, <2>4, <3>1, SortedElsewhere
    <3> QED
      BY <1>4, <3>2
  <2>8. Sorted(Inserted(q, k, t), expire')
    BY <1>1, <1>2, <2>2, <2>5, <2>6, <2>7, InsertedSorted
  <2> QED
    BY <1>1, <2>1, <2>8
<1> QED
  BY <1>5, <1>7, <1>8

LEMMA DelOrder ==
    ASSUME OrderIInv, NEW t \in Timers, del_timer(t)
    PROVE  InOrder' /\ WithinSlots'
<1>0. QueueTypeOK /\ ListedOnce /\ back' = back
  BY DEF OrderIInv, QueueIInv, del_timer
<1> SUFFICES ASSUME back = 0
             PROVE  Sorted(m_timer_lst', expire') /\ \A s \in Timers : expire'[s] <= Slots
  BY <1>0 DEF InOrder, WithinSlots, Sorted
<1>1. m_timer_lst \in Seq(Timers) /\ Sorted(m_timer_lst, expire) /\ Once(m_timer_lst)
  BY <1>0 DEF QueueTypeOK, OrderIInv, InOrder, Sorted, ListedOnce, Once
<1>2. expire \in [Timers -> Nat] /\ expire' = [expire EXCEPT ![t] = 0]
  BY <1>0 DEF QueueTypeOK, del_timer
<1>3. PICK i \in DOMAIN m_timer_lst :
         m_timer_lst[i] = t /\ m_timer_lst' = Deleted(m_timer_lst, i)
  BY DEF del_timer
<1>4. i \in 1 .. Len(m_timer_lst)
  BY <1>1, LenProperties
<1> DEFINE q == Deleted(m_timer_lst, i)
<1>5. q \in Seq(Timers)
  BY <1>1, <1>4, DeletedProperties
<1>6. Elements(q) = Elements(m_timer_lst) \ {m_timer_lst[i]}
  BY <1>1, <1>4, DeletedElements
<1>7. Sorted(q, expire)
  BY <1>1, <1>2, <1>4, DeletedSorted
<1> HIDE DEF q
<1>8. t \notin Elements(q)
  BY <1>3, <1>6
<1>9. Sorted(q, [expire EXCEPT ![t] = 0])
  BY <1>2, <1>5, <1>7, <1>8, SortedElsewhere
<1>10. \A s \in Timers : expire'[s] <= Slots
  <2>1. \A s \in Timers : expire[s] <= Slots
    BY DEF OrderIInv, WithinSlots
  <2> QED
    BY <1>2, <2>1, TimerQueueAssumption
<1> QED
  BY <1>2, <1>3, <1>9, <1>10 DEF q

LEMMA TickOrder ==
    ASSUME OrderIInv, NEW t \in Timers, tick(t)
    PROVE  InOrder' /\ WithinSlots'
<1>0. /\ m_timer_lst \in Seq(Timers) /\ m_timer_lst # <<>>
      /\ Len(m_timer_lst) \in Nat /\ DOMAIN m_timer_lst = 1 .. Len(m_timer_lst)
      /\ UNCHANGED <<expire, back>>
  BY LenProperties DEF OrderIInv, QueueIInv, QueueTypeOK, tick
<1> SUFFICES ASSUME back = 0
             PROVE  Sorted(m_timer_lst', expire)
  BY <1>0 DEF OrderIInv, InOrder, WithinSlots, Sorted
<1>1. /\ DOMAIN m_timer_lst' = 1 .. Len(m_timer_lst) - 1
      /\ \A i \in 1 .. Len(m_timer_lst) - 1 : m_timer_lst'[i] = m_timer_lst[i + 1]
  BY <1>0 DEF tick
<1>2. ASSUME NEW i \in DOMAIN m_timer_lst', NEW j \in DOMAIN m_timer_lst', i <= j
      PROVE  expire[m_timer_lst'[i]] <= expire[m_timer_lst'[j]]
  <2>1. i + 1 \in DOMAIN m_timer_lst /\ j + 1 \in DOMAIN m_timer_lst /\ i + 1 <= j + 1
    BY <1>0, <1>1, <1>2
  <2>2. expire[m_timer_lst[i + 1]] <= expire[m_timer_lst[j + 1]]
    BY <2>1 DEF OrderIInv, InOrder
  <2> QED
    BY <1>1, <2>2
<1> QED
  BY <1>2 DEF Sorted

LEMMA ClockOrder ==
    ASSUME OrderIInv, PassTime \/ PutBack
    PROVE  InOrder' /\ WithinSlots'
<1>0. QueueTypeOK /\ ListedOnce
  BY DEF OrderIInv, QueueIInv
<1>1. CASE PutBack
  <2>1. back' # 0
    BY <1>0, <1>1 DEF PutBack, QueueTypeOK
  <2> QED
    BY <2>1 DEF InOrder, WithinSlots
<1>2. CASE PassTime
  <2>0. /\ m_timer_lst' = m_timer_lst /\ back' = back
        /\ expire' = [t \in Timers |-> IF expire[t] > 0 THEN expire[t] - 1 ELSE 0]
    BY <1>2 DEF PassTime
  <2> SUFFICES ASSUME back = 0
               PROVE  Sorted(m_timer_lst, expire') /\ \A s \in Timers : expire'[s] <= Slots
    BY <2>0 DEF InOrder, WithinSlots, Sorted
  <2>1. expire \in [Timers -> Nat] /\ m_timer_lst \in Seq(Timers)
    BY <1>0 DEF QueueTypeOK
  <2>2. \A s \in Timers : expire'[s] <= Slots
    <3>1. \A s \in Timers : expire[s] <= Slots
      BY DEF OrderIInv, WithinSlots
    <3> QED
      BY <2>0, <2>1, <3>1, TimerQueueAssumption
  <2>3. ASSUME NEW i \in DOMAIN m_timer_lst, NEW j \in DOMAIN m_timer_lst, i <= j
        PROVE  expire'[m_timer_lst[i]] <= expire'[m_timer_lst[j]]
    <3>1. m_timer_lst[i] \in Timers /\ m_timer_lst[j] \in Timers
      BY <2>1, LenProperties, ElementOfSeq
    <3>2. expire[m_timer_lst[i]] <= expire[m_timer_lst[j]]
      BY <2>3 DEF OrderIInv, InOrder
    <3>3. expire[m_timer_lst[i]] \in Nat /\ expire[m_timer_lst[j]] \in Nat
      BY <2>1, <3>1
    <3> QED
      BY <2>0, <3>1, <3>2, <3>3
  <2> QED
    BY <2>2, <2>3 DEF Sorted
<1> QED
  BY <1>1, <1>2

\* As long as the clock is not put back the queue is in the order of expiry.
THEOREM InOrderHolds == QueueSpec => []InOrder
<1>1. QueueInit => OrderIInv
  <2>1. QueueInit => InOrder
    BY DEF QueueInit, InOrder
  <2>2. QueueInit => WithinSlots
    <3>1. Slots \in Nat /\ 0 <= Slots
      BY TimerQueueAssumption
    <3>2. QueueInit => \A t \in Timers : expire[t] = 0
      BY DEF QueueInit
    <3> QED
      BY <3>1, <3>2 DEF WithinSlots
  <2> QED
    BY <2>1, <2>2, QueueInitIInv DEF OrderIInv
<1>2. OrderIInv /\ [QueueNext]_queueVars => OrderIInv'
  <2> SUFFICES ASSUME OrderIInv, [QueueNext]_queueVars PROVE OrderIInv'
    OBVIOUS
  <2>1. QueueIInv'
    BY QueueIInvStep DEF OrderIInv
  <2>2. InOrder' /\ WithinSlots'
    <3>1. CASE \E t \in Timers : add_timer(t) \/ adjust_timer(t) \/ del_timer(t) \/ tick(t)
      BY <3>1, AddOrder, AdjustOrder, DelOrder, TickOrder
    <3>2. CASE PassTime \/ PutBack
      BY <3>2, ClockOrder
    <3>3. CASE UNCHANGED queueVars
      BY <3>3 DEF queueVars, OrderIInv, InOrder, WithinSlots
    <3> QED
      BY <3>1, <3>2, <3>3 DEF QueueNext
  <2> QED
    BY <2>1, <2>2 DEF OrderIInv
<1>3. OrderIInv => InOrder
  BY DEF OrderIInv
<1> QED
  BY <1>1, <1>2, <1>3, PTL DEF QueueSpec

-----------------------------------------------------------------------------
(* Connections *)

\* The part of TypeOK that the operations of the queue answer for.
QueuePart ==
    /\ m_timer_lst \in Seq(Clients)
    /\ expire \in [Clients -> 0..Slots]
    /\ back = 0

LEMMA QueuePartTyped == ASSUME QueuePart PROVE QueueTypeOK
<1>1. expire \in [Timers -> Nat]
  BY TimerQueueAssumption DEF QueuePart, Clients
<1> QED
  BY <1>1 DEF QueuePart, QueueTypeOK, Clients

\* What a step does to the queue: nothing, or one operation.
LEMMA QueuePartStep ==
    ASSUME QueuePart, ListedOnce,
           \/ UNCHANGED queueVars
           \/ PassTime
           \/ \E t \in Clients : add_timer(t) \/ adjust_timer(t) \/ del_timer(t) \/ tick(t)
    PROVE  QueuePart' /\ ListedOnce'
<1>0. Slots \in Nat /\ QueueTypeOK
  BY TimerQueueAssumption, QueuePartTyped
<1>1. CASE UNCHANGED queueVars
  BY <1>1 DEF QueuePart, ListedOnce, queueVars
<1>2. CASE PassTime
  <2>1. QueueTypeOK' /\ ListedOnce'
    BY <1>0, <1>2, ClockStep
  <2>2. expire' \in [Clients -> 0..Slots]
    BY <1>0, <1>2 DEF PassTime, QueuePart, Clients
  <2> QED
    BY <1>2, <2>1, <2>2 DEF PassTime, QueuePart, QueueTypeOK, Clients
<1>3. CASE \E t \in Clients : add_timer(t) \/ adjust_timer(t) \/ del_timer(t) \/ tick(t)
  <2>1. PICK t \in Clients : add_timer(t) \/ adjust_timer(t) \/ del_timer(t) \/ tick(t)
    BY <1>3
  <2>2. QueueTypeOK' /\ ListedOnce'
    BY <1>0, <2>1, AddStep, AdjustStep, DelStep, TickStep DEF Clients
  <2>3. expire' \in [Clients -> 0..Slots] /\ back' = 0
    BY <1>0, <2>1 DEF QueuePart, add_timer, adjust_timer, del_timer, tick, Restarted
  <2> QED
    BY <2>2, <2>3 DEF QueuePart, QueueTypeOK, Clients
<1> QED
  BY <1>1, <1>2, <1>3

\* Only a timer that exists is adjusted or deleted.
LEMMA AdjustedIsClient ==
    ASSUME QueuePart, NEW t, adjust_timer(t) \/ del_timer(t)
    PROVE  t \in Clients
<1>1. PICK i \in DOMAIN m_timer_lst : m_timer_lst[i] = t
  BY DEF adjust_timer, del_timer
<1> QED
  BY <1>1, LenProperties, ElementOfSeq DEF QueuePart

\* Each step of the server is one operation of the queue, or none.
QueueOperation ==
    \/ UNCHANGED queueVars
    \/ PassTime
    \/ \E t \in Clients : add_timer(t) \/ adjust_timer(t) \/ del_timer(t) \/ tick(t)

LEMMA StepsOfQueue ==
    ASSUME QueuePart, [Next]_vars
    PROVE  QueueOperation
<1>1. CASE MainStep
  <2>1. CASE EpollWait \/ Signal \/ EndBatch \/ Accept \/ AcceptNone \/ TickEnd
    BY <2>1 DEF EpollWait, Signal, EndBatch, Accept, AcceptNone, TickEnd,
                timerVars, QueueOperation
  <2>2. ASSUME NEW c \in Clients, AcceptBusy(c) PROVE QueueOperation
    BY <2>2 DEF AcceptBusy, timerVars, QueueOperation
  <2>3. ASSUME NEW c \in Clients, NEW f \in Fds, AcceptOne(c, f) PROVE QueueOperation
    BY <2>3 DEF AcceptOne, QueueOperation
  <2>4. ASSUME NEW f \in Fds, Adjust(f) PROVE QueueOperation
    BY <2>4, AdjustedIsClient DEF Adjust, QueueOperation
  <2>5. ASSUME NEW f \in Fds, Read(f) PROVE QueueOperation
    BY <2>4, <2>5 DEF Read
  <2>6. ASSUME NEW f \in Fds, WriteAll(f) PROVE QueueOperation
    BY <2>4, <2>6 DEF WriteAll
  <2>7. ASSUME NEW f \in Fds, NEW n \in 1..Parts, WriteSome(f, n) PROVE QueueOperation
    BY <2>4, <2>7 DEF WriteSome
  <2>8. ASSUME NEW f \in Fds, ReadForever(f) \/ DropReset(f) \/ DropRead(f) \/ DropWritten(f)
        PROVE  QueueOperation
    BY <2>8 DEF ReadForever, DropReset, DropRead, DropWritten, Drop, timerVars, QueueOperation
  <2>9. CASE Deal
    BY <2>9, AdjustedIsClient DEF Deal, QueueOperation
  <2>10. ASSUME NEW t \in Clients, TickOne(t) PROVE QueueOperation
    BY <2>10 DEF TickOne, QueueOperation
  <2> QED
    BY <1>1, <2>1, <2>2, <2>3, <2>5, <2>6, <2>7, <2>8, <2>9, <2>10 DEF MainStep
<1>2. ASSUME NEW c \in Clients, WorkerStep(c) PROVE QueueOperation
  BY <1>2 DEF WorkerStep, NoRequest, Parse, CloseFile, Respond, Refuse, Unset, Decrement,
              Arm, OpenFile, timerVars, QueueOperation
<1>3. ASSUME NEW c \in Clients,
             Connect(c) \/ Request(c) \/ \E how \in {"fin", "reset"} : HangUp(c, how)
      PROVE  QueueOperation
  BY <1>3 DEF Connect, Request, HangUp, timerVars, QueueOperation
<1>4. CASE Clock
  BY <1>4 DEF Clock, QueueOperation
<1>5. CASE UNCHANGED vars
  BY <1>5 DEF vars, timerVars, QueueOperation
<1> QED
  BY <1>1, <1>2, <1>3, <1>4, <1>5 DEF Next

QueueKept == QueuePart /\ ListedOnce

LEMMA QueueKeptStep ==
    ASSUME QueueKept, [Next]_vars
    PROVE  QueueKept'
<1>1. QueueOperation
  BY StepsOfQueue DEF QueueKept
<1> QED
  BY <1>1, QueuePartStep DEF QueueKept, QueueOperation

LEMMA QueueKeptInit == Init => QueueKept
<1> SUFFICES ASSUME Init PROVE QueueKept
  OBVIOUS
<1>1. 0 \in 0..Slots
  BY TimerQueueAssumption
<1> QED
  BY <1>1 DEF Init, QueueInit, QueueKept, QueuePart, ListedOnce, Clients

\* The server works its queue of timers as TimerQueue has it.
THEOREM ConnectionsImplementQueue == Spec => QueueSpec
<1>1. Init => QueueInit
  BY DEF Init
<1>2. QueueKept /\ [Next]_vars => [QueueNext]_queueVars
  <2> SUFFICES ASSUME QueueKept, [Next]_vars PROVE [QueueNext]_queueVars
    OBVIOUS
  <2>1. QueueOperation
    BY StepsOfQueue DEF QueueKept
  <2> QED
    BY <2>1 DEF QueueOperation, QueueNext, Clients
<1>3. QueueKept /\ [Next]_vars => QueueKept'
  BY QueueKeptStep
<1> QED
  BY <1>1, <1>2, <1>3, QueueKeptInit, PTL DEF Spec, QueueSpec

-----------------------------------------------------------------------------
(* OpenIsTimed *)

\* A slot of users_timer has the timer of the last connection on its number.
TimersPlaced ==
    \A f \in Fds : timer[f] \in Clients =>
        fd[timer[f]] = f /\ timer[f] \in came \ backlog

\* No timer is listed for a client that has not been accepted.
ListedAccepted == Listed \subseteq came \ backlog

Core == OpenIsTimed /\ TimersPlaced /\ ListedAccepted

\* The arrays are indexed by descriptor and by client.
Shape ==
    /\ descriptor \in [Fds -> Clients \cup {Free, File}]
    /\ timer \in [Fds -> Clients \cup {NULL}]
    /\ fd \in [Clients -> Fds \cup {0}]
    /\ events \in [Fds \cup {Listen} -> {"none", "in", "out", "hup"}]
    /\ came \subseteq Clients /\ backlog \subseteq came

\* A step that accepts no connection, and takes no timer out of the list.
Quiet ==
    /\ UNCHANGED <<came, timer, fd>>
    /\ backlog' \subseteq backlog
    /\ Listed' = Listed
    /\ descriptor' \in [Fds -> Clients \cup {Free, File}]
    /\ \A f \in Fds : descriptor'[f] \in Clients => descriptor'[f] = descriptor[f]

LEMMA Closed ==
    ASSUME NEW f, Close(f), Shape
    PROVE  /\ descriptor' \in [Fds -> Clients \cup {Free, File}]
           /\ \A g \in Fds : descriptor'[g] \in Clients => g # f /\ descriptor'[g] = descriptor[g]
  BY ConnectionsAssumption DEF Close, Shape, Clients

LEMMA ListedSame == ASSUME UNCHANGED m_timer_lst PROVE Listed' = Listed
  BY DEF Listed

LEMMA QuietCore ==
    ASSUME Shape, Core, Quiet
    PROVE  Core'
<1>1. OpenIsTimed'
  BY DEF Core, Quiet, OpenIsTimed
<1>2. TimersPlaced'
  BY DEF Core, Quiet, TimersPlaced
<1>3. ListedAccepted'
  BY DEF Core, Quiet, ListedAccepted
<1> QED
  BY <1>1, <1>2, <1>3 DEF Core

LEMMA DropQuiet == ASSUME Shape, NEW f \in Fds, Drop(f) PROVE Quiet
<1>1. UNCHANGED <<came, backlog, timer, fd, m_timer_lst>>
  BY DEF Drop, connectVars, timerVars, queueVars, jobVars
<1>2. UNCHANGED descriptor \/ Close(f)
  BY DEF Drop, kernelVars
<1> QED
  BY <1>1, <1>2, Closed, ListedSame DEF Quiet, Shape

LEMMA AdjustQuiet ==
    ASSUME Shape, QueueKept, NEW f \in Fds, Adjust(f),
           UNCHANGED <<came, backlog, fd, descriptor>>
    PROVE  Quiet
<1>1. adjust_timer(timer[f]) /\ UNCHANGED timer
  BY DEF Adjust
<1>2. timer[f] \in Timers
  BY <1>1, AdjustedIsClient DEF QueueKept, Clients
<1>3. Listed' = Listed
  BY <1>1, <1>2, AdjustStep, QueuePartTyped DEF QueueKept
<1> QED
  BY <1>1, <1>3 DEF Quiet, Shape

LEMMA MainQuiet ==
    ASSUME Shape, QueueKept,
           \/ EpollWait \/ Signal \/ EndBatch \/ Accept \/ AcceptNone \/ TickEnd
           \/ \E c \in Clients : AcceptBusy(c)
           \/ \E f \in Fds : \/ Read(f) \/ ReadForever(f) \/ DropReset(f) \/ DropRead(f)
                             \/ WriteAll(f) \/ DropWritten(f)
                             \/ \E n \in 1..Parts : WriteSome(f, n)
    PROVE  Quiet
<1>1. CASE EpollWait \/ Signal \/ EndBatch \/ Accept \/ AcceptNone \/ TickEnd
  <2>1. UNCHANGED <<came, backlog, timer, fd, m_timer_lst, descriptor>>
    BY <1>1 DEF EpollWait, Signal, EndBatch, Accept, AcceptNone, TickEnd, clientVars,
                connectVars, kernelVars, timerVars, queueVars, jobVars
  <2> QED
    BY <2>1, ListedSame DEF Quiet, Shape
<1>2. ASSUME NEW c \in Clients, AcceptBusy(c) PROVE Quiet
  <2>1. UNCHANGED <<came, timer, fd, m_timer_lst, descriptor>> /\ backlog' \subseteq backlog
    BY <1>2 DEF AcceptBusy, kernelVars, timerVars, queueVars, jobVars
  <2> QED
    BY <2>1, ListedSame DEF Quiet, Shape
<1>3. ASSUME NEW f \in Fds, Read(f) PROVE Quiet
  BY <1>3, AdjustQuiet DEF Read
<1>4. ASSUME NEW f \in Fds, WriteAll(f) PROVE Quiet
  BY <1>4, AdjustQuiet DEF WriteAll, clientVars, connectVars, jobVars
<1>5. ASSUME NEW f \in Fds, NEW n \in 1..Parts, WriteSome(f, n) PROVE Quiet
  BY <1>5, AdjustQuiet DEF WriteSome, clientVars, connectVars, jobVars
<1>6. ASSUME NEW f \in Fds, DropReset(f) \/ DropRead(f) \/ DropWritten(f) PROVE Quiet
  BY <1>6, DropQuiet DEF DropReset, DropRead, DropWritten
<1>7. ASSUME NEW f \in Fds, ReadForever(f) PROVE Quiet
  <2>1. UNCHANGED <<came, backlog, timer, fd, m_timer_lst, descriptor>>
    BY <1>7 DEF ReadForever, clientVars, connectVars, kernelVars, timerVars, queueVars, jobVars
  <2> QED
    BY <2>1, ListedSame DEF Quiet, Shape
<1> QED
  BY <1>1, <1>2, <1>3, <1>4, <1>5, <1>6, <1>7

LEMMA WorkerQuiet ==
    ASSUME Shape, NEW c \in Clients, WorkerStep(c)
    PROVE  Quiet
<1>1. UNCHANGED <<came, backlog, timer, fd, m_timer_lst>>
  BY DEF WorkerStep, NoRequest, Parse, CloseFile, Respond, Refuse, Unset, Decrement, Arm,
         OpenFile, clientVars, connectVars, timerVars, queueVars
<1>2. /\ descriptor' \in [Fds -> Clients \cup {Free, File}]
      /\ \A f \in Fds : descriptor'[f] \in Clients => descriptor'[f] = descriptor[f]
  <2>1. CASE CloseFile(c)
    BY <2>1, Closed DEF CloseFile
  <2>2. CASE Refuse(c)
    <3>1. UNCHANGED descriptor \/ Close(fd[c])
      BY <2>2 DEF Refuse, kernelVars
    <3> QED
      BY <3>1, Closed DEF Shape
  <2>3. ASSUME NEW f \in Fds, OpenFile(c, f)
        PROVE  <1>2!1 /\ <1>2!2
    BY <2>3, ConnectionsAssumption DEF OpenFile, Shape, Clients
  <2>4. CASE NoRequest(c) \/ Parse(c) \/ Respond(c) \/ Unset(c) \/ Decrement(c) \/ Arm(c)
    BY <2>4 DEF NoRequest, Parse, Respond, Unset, Decrement, Arm, kernelVars, Shape
  <2> QED
    BY <2>1, <2>2, <2>3, <2>4 DEF WorkerStep
<1> QED
  BY <1>1, <1>2, ListedSame DEF Quiet

LEMMA OthersQuiet ==
    ASSUME Shape, QueueKept,
           \/ \E c \in Clients : Request(c) \/ \E how \in {"fin", "reset"} : HangUp(c, how)
           \/ Clock
           \/ UNCHANGED vars
    PROVE  Quiet
<1>1. UNCHANGED <<came, backlog, timer, fd, descriptor, m_timer_lst>>
  BY DEF Request, HangUp, Clock, PassTime, vars, clientVars, connectVars, kernelVars,
         timerVars, queueVars, jobVars
<1> QED
  BY <1>1, ListedSame DEF Quiet, Shape

LEMMA ConnectCore ==
    ASSUME Shape, Core, NEW c \in Clients, Connect(c)
    PROVE  Core'
<1>1. /\ UNCHANGED <<timer, fd, descriptor, m_timer_lst>>
      /\ c \notin came /\ came' = came \cup {c} /\ backlog' = backlog \cup {c}
  BY DEF Connect, kernelVars, timerVars, queueVars, jobVars
<1>2. Listed' = Listed
  BY <1>1, ListedSame
<1>3. OpenIsTimed'
  BY <1>1, <1>2 DEF Core, OpenIsTimed
<1>4. TimersPlaced'
  BY <1>1 DEF Core, TimersPlaced
<1>5. ListedAccepted'
  BY <1>1, <1>2 DEF Core, ListedAccepted
<1> QED
  BY <1>3, <1>4, <1>5 DEF Core

LEMMA AcceptCore ==
    ASSUME Shape, QueueKept, Core, NEW c \in Clients, NEW f \in Fds, AcceptOne(c, f)
    PROVE  Core'
<1>1. /\ c \in backlog /\ backlog' = backlog \ {c} /\ came' = came
      /\ descriptor' = [descriptor EXCEPT ![f] = c]
      /\ timer' = [timer EXCEPT ![f] = c]
      /\ fd' = [fd EXCEPT ![c] = f]
      /\ add_timer(c)
  BY DEF AcceptOne
<1>2. Listed' = Listed \cup {c}
  BY <1>1, AddStep, QueuePartTyped DEF QueueKept, Clients
<1>3. c \notin Listed /\ c \in came
  BY <1>1 DEF Core, ListedAccepted, Shape
<1>4. OpenIsTimed'
  BY <1>1, <1>2 DEF Core, OpenIsTimed, Shape
<1>5. TimersPlaced'
  <2>1. \A g \in Fds : timer[g] # c
    BY <1>1 DEF Core, TimersPlaced
  <2> QED
    BY <1>1, <1>3, <2>1 DEF Core, TimersPlaced, Shape
<1>6. ListedAccepted'
  BY <1>1, <1>2, <1>3 DEF Core, ListedAccepted
<1> QED
  BY <1>4, <1>5, <1>6 DEF Core

\* The timer that is deleted is of no open connection but the one that is closed.
LEMMA DealCore ==
    ASSUME Shape, QueueKept, Core, sockfd \in Fds, Deal
    PROVE  Core'
<1>1. /\ Close(sockfd) /\ del_timer(timer[sockfd])
      /\ UNCHANGED <<came, backlog, timer, fd>>
  BY DEF Deal, connectVars, jobVars
<1>2. timer[sockfd] \in Clients
  BY <1>1, AdjustedIsClient DEF QueueKept
<1>3. Listed' = Listed \ {timer[sockfd]}
  BY <1>1, <1>2, DelStep, QueuePartTyped DEF QueueKept, Clients
<1>4. \A g \in Fds : descriptor'[g] \in Clients => g # sockfd /\ descriptor'[g] = descriptor[g]
  BY <1>1, Closed
<1>5. ASSUME NEW g \in Fds, descriptor'[g] \in Clients
      PROVE  timer[g] = descriptor'[g] /\ timer[g] \in Listed'
  <2>1. timer[g] = descriptor[g] /\ timer[g] \in Listed /\ g # sockfd /\ descriptor'[g] = descriptor[g]
    BY <1>4, <1>5 DEF Core, OpenIsTimed
  <2>2. timer[g] # timer[sockfd]
    <3>1. fd[timer[g]] = g
      BY <1>5, <2>1 DEF Core, TimersPlaced
    <3>2. ASSUME timer[g] = timer[sockfd] PROVE FALSE
      <4>1. g = fd[timer[sockfd]]
        BY <3>1, <3>2
      <4>2. fd[timer[sockfd]] = sockfd
        BY <1>2 DEF Core, TimersPlaced
      <4> QED
        BY <2>1, <4>1, <4>2
    <3> QED
      BY <3>2
  <2> QED
    BY <1>3, <2>1, <2>2
<1>6. OpenIsTimed'
  BY <1>1, <1>5 DEF OpenIsTimed
<1>7. TimersPlaced'
  BY <1>1 DEF Core, TimersPlaced
<1>8. ListedAccepted'
  BY <1>1, <1>3 DEF Core, ListedAccepted
<1> QED
  BY <1>6, <1>7, <1>8 DEF Core

LEMMA TickCore ==
    ASSUME Shape, QueueKept, Core, NEW t \in Clients, TickOne(t)
    PROVE  Core'
<1>1. tick(t) /\ Close(fd[t]) /\ UNCHANGED <<came, backlog, timer, fd>>
  BY DEF TickOne, connectVars, jobVars
<1>2. Listed' = Listed \ {t}
  BY <1>1, TickStep, QueuePartTyped DEF QueueKept, Clients
<1>3. \A g \in Fds : descriptor'[g] \in Clients => g # fd[t] /\ descriptor'[g] = descriptor[g]
  BY <1>1, Closed
<1>4. OpenIsTimed'
  <2> SUFFICES ASSUME NEW g \in Fds, descriptor'[g] \in Clients
               PROVE  timer[g] = descriptor'[g] /\ timer[g] \in Listed'
    BY <1>1 DEF OpenIsTimed
  <2>1. timer[g] = descriptor[g] /\ timer[g] \in Listed /\ g # fd[t] /\ descriptor'[g] = descriptor[g]
    BY <1>3 DEF Core, OpenIsTimed
  <2>2. fd[timer[g]] = g
    BY <2>1 DEF Core, TimersPlaced
  <2> QED
    BY <1>2, <2>1, <2>2
<1>5. TimersPlaced'
  BY <1>1 DEF Core, TimersPlaced
<1>6. ListedAccepted'
  BY <1>1, <1>2 DEF Core, ListedAccepted
<1> QED
  BY <1>4, <1>5, <1>6 DEF Core

LEMMA CoreStep ==
    ASSUME Shape, QueueKept, Core, loop = "deal" => sockfd \in Fds, [Next]_vars
    PROVE  Core'
<1>1. ASSUME NEW c \in Clients, NEW f \in Fds, AcceptOne(c, f) PROVE Core'
  BY <1>1, AcceptCore
<1>2. ASSUME NEW c \in Clients, Connect(c) PROVE Core'
  BY <1>2, ConnectCore
<1>3. ASSUME NEW t \in Clients, TickOne(t) PROVE Core'
  BY <1>3, TickCore
<1>4. ASSUME NEW c \in Clients, WorkerStep(c) PROVE Core'
  BY <1>4, WorkerQuiet, QuietCore
<1>5. CASE Deal
  BY <1>5, DealCore DEF Deal
<1>6. CASE MainStep
  BY <1>1, <1>3, <1>5, <1>6, MainQuiet, QuietCore DEF MainStep
<1>7. CASE \/ \E c \in Clients : Request(c) \/ \E how \in {"fin", "reset"} : HangUp(c, how)
           \/ Clock \/ UNCHANGED vars
  BY <1>7, OthersQuiet, QuietCore
<1> QED
  BY <1>2, <1>4, <1>6, <1>7 DEF Next

-----------------------------------------------------------------------------
(* TimerAlive *)

\* Nothing is left of a batch when it ends, and of an event that is dealt
\* with by closing nothing is left but the closing.
EventsTimed ==
    /\ TimerAlive
    /\ loop \in {"epoll", "tick"} => \A f \in Fds : events[f] = "none"
    /\ loop = "deal" => sockfd \in Fds /\ events[sockfd] = "none"

\* A step that leaves the timers alone, brings no events, and does not end a batch.
Calm ==
    /\ UNCHANGED timer
    /\ Listed \subseteq Listed'
    /\ \A f \in Fds : events'[f] # "none" => events[f] # "none"
    /\ \/ UNCHANGED <<loop, sockfd>>
       \/ loop' \in {"batch", "accept", "stuck"}

LEMMA CalmEvents ==
    ASSUME Shape, EventsTimed, Calm
    PROVE  EventsTimed'
<1>1. TimerAlive'
  BY DEF EventsTimed, Calm, TimerAlive
<1>2. loop' \in {"epoll", "tick"} => \A f \in Fds : events'[f] = "none"
  BY DEF EventsTimed, Calm
<1>3. loop' = "deal" => sockfd' \in Fds /\ events'[sockfd'] = "none"
  BY DEF EventsTimed, Calm
<1> QED
  BY <1>1, <1>2, <1>3 DEF EventsTimed

LEMMA EpollWaitEvents ==
    ASSUME Shape, Core, EpollWait
    PROVE  EventsTimed'
<1>1. /\ loop' = "batch" /\ UNCHANGED <<timer, m_timer_lst>>
      /\ \A f \in Fds : events'[f] = IF f = Listen THEN (IF edge THEN "in" ELSE "none") ELSE Ready(f)
  BY DEF EpollWait, timerVars, queueVars
<1>2. ASSUME NEW f \in Fds, events'[f] # "none" PROVE timer[f] \in Listed
  <2>1. f # Listen
    BY DEF Fds, Listen
  <2>2. Ready(f) # "none"
    BY <1>1, <1>2, <2>1
  <2>3. descriptor[f] \in Clients
    BY <2>2 DEF Ready
  <2> QED
    BY <2>3 DEF Core, OpenIsTimed
<1> QED
  BY <1>1, <1>2, ListedSame DEF EventsTimed, TimerAlive

LEMMA DropEvents ==
    ASSUME Shape, EventsTimed, NEW f \in Fds, events[f] # "none", Drop(f)
    PROVE  EventsTimed'
<1>1. /\ loop = "batch" /\ loop' = "deal" /\ sockfd' = f
      /\ events' = [events EXCEPT ![f] = "none"]
      /\ UNCHANGED <<timer, m_timer_lst>>
  BY DEF Drop, Handled, timerVars, queueVars
<1>2. TimerAlive'
  BY <1>1, ListedSame DEF EventsTimed, TimerAlive, Shape
<1>3. events'[f] = "none"
  BY <1>1 DEF Shape
<1> QED
  BY <1>1, <1>2, <1>3 DEF EventsTimed

LEMMA DealEvents ==
    ASSUME Shape, QueueKept, Core, EventsTimed, Deal
    PROVE  EventsTimed'
<1>1. /\ del_timer(timer[sockfd]) /\ loop' = "batch" /\ loop = "deal"
      /\ UNCHANGED <<timer, events>>
  BY DEF Deal
<1>2. timer[sockfd] \in Clients /\ sockfd \in Fds
  BY <1>1, AdjustedIsClient DEF QueueKept, EventsTimed
<1>3. Listed' = Listed \ {timer[sockfd]}
  BY <1>1, <1>2, DelStep, QueuePartTyped DEF QueueKept, Clients
<1>4. ASSUME NEW g \in Fds, events[g] # "none" PROVE timer[g] \in Listed'
  <2>1. timer[g] \in Listed /\ g # sockfd
    BY <1>1, <1>4 DEF EventsTimed, TimerAlive
  <2>2. timer[g] # timer[sockfd]
    BY <1>2, <2>1 DEF Core, TimersPlaced
  <2> QED
    BY <1>3, <2>1, <2>2
<1> QED
  BY <1>1, <1>4 DEF EventsTimed, TimerAlive

LEMMA AcceptEvents ==
    ASSUME Shape, QueueKept, EventsTimed, NEW c \in Clients, NEW f \in Fds, AcceptOne(c, f)
    PROVE  EventsTimed'
<1>1. /\ loop = "accept" /\ UNCHANGED <<events, loop, sockfd>>
      /\ timer' = [timer EXCEPT ![f] = c] /\ add_timer(c)
  BY DEF AcceptOne, loopVars
<1>2. Listed' = Listed \cup {c}
  BY <1>1, AddStep, QueuePartTyped DEF QueueKept, Clients
<1>3. TimerAlive'
  BY <1>1, <1>2 DEF EventsTimed, TimerAlive, Shape
<1> QED
  BY <1>1, <1>3 DEF EventsTimed

LEMMA TickEvents ==
    ASSUME Shape, EventsTimed, TickEnd \/ EndBatch \/ \E t \in Clients : TickOne(t)
    PROVE  EventsTimed'
<1>1. /\ UNCHANGED events /\ loop' \in {"tick", "epoll"}
      /\ \A f \in Fds : events[f] = "none"
  BY DEF TickEnd, EndBatch, TickOne, loopVars, EventsTimed, Shape
<1> QED
  BY <1>1 DEF EventsTimed, TimerAlive

LEMMA MainCalm ==
    ASSUME Shape, QueueKept,
           \/ Signal \/ Accept \/ AcceptNone
           \/ \E c \in Clients : AcceptBusy(c)
           \/ \E f \in Fds : \/ Read(f) \/ ReadForever(f) \/ WriteAll(f)
                             \/ \E n \in 1..Parts : WriteSome(f, n)
    PROVE  Calm
<1>1. UNCHANGED timer /\ Listed' = Listed
  <2>1. Quiet
    BY MainQuiet
  <2> QED
    BY <2>1 DEF Quiet
<1>2. CASE Signal \/ Accept \/ AcceptNone \/ \E c \in Clients : AcceptBusy(c)
  <2>1. \A f \in Fds : events'[f] # "none" => events[f] # "none"
    BY <1>2 DEF Signal, Accept, AcceptNone, AcceptBusy, loopVars, Shape
  <2>2. UNCHANGED <<loop, sockfd>> \/ loop' \in {"batch", "accept", "stuck"}
    BY <1>2 DEF Signal, Accept, AcceptNone, AcceptBusy, loopVars
  <2> QED
    BY <1>1, <2>1, <2>2 DEF Calm
<1>3. ASSUME NEW f \in Fds, ReadForever(f) PROVE Calm
  BY <1>1, <1>3 DEF ReadForever, Calm
<1>4. ASSUME NEW f \in Fds,
             Read(f) \/ WriteAll(f) \/ \E n \in 1..Parts : WriteSome(f, n)
      PROVE Calm
  <2>1. Handled(f) /\ UNCHANGED <<loop, sockfd>>
    BY <1>4 DEF Read, WriteAll, WriteSome
  <2> QED
    BY <1>1, <2>1 DEF Handled, Calm, Shape
<1> QED
  BY <1>2, <1>3, <1>4

LEMMA OthersCalm ==
    ASSUME Shape, QueueKept,
           \/ \E c \in Clients : WorkerStep(c) \/ Connect(c) \/ Request(c)
           \/ \E c \in Clients : \E how \in {"fin", "reset"} : HangUp(c, how)
           \/ Clock
           \/ UNCHANGED vars
    PROVE  Calm
<1>1. UNCHANGED <<timer, m_timer_lst, events, loop, sockfd>>
  <2>1. ASSUME NEW c \in Clients, WorkerStep(c)
        PROVE  UNCHANGED <<timer, m_timer_lst, events, loop, sockfd>>
    BY <2>1 DEF WorkerStep, NoRequest, Parse, CloseFile, Respond, Refuse, Unset, Decrement,
                Arm, OpenFile, loopVars, timerVars, queueVars
  <2> QED
    BY <2>1 DEF Connect, Request, HangUp, Clock, PassTime, vars, loopVars, timerVars, queueVars
<1> QED
  BY <1>1, ListedSame DEF Calm

LEMMA EventsStep ==
    ASSUME Shape, QueueKept, Core, EventsTimed, [Next]_vars
    PROVE  EventsTimed'
<1>1. ASSUME NEW f \in Fds, DropReset(f) \/ DropRead(f) \/ DropWritten(f) PROVE EventsTimed'
  BY <1>1, DropEvents DEF DropReset, DropRead, DropWritten
<1>2. CASE MainStep
  BY <1>1, <1>2, EpollWaitEvents, DealEvents, AcceptEvents, TickEvents, MainCalm, CalmEvents
     DEF MainStep
<1>3. CASE \/ \E c \in Clients : WorkerStep(c) \/ Connect(c) \/ Request(c)
           \/ \E c \in Clients : \E how \in {"fin", "reset"} : HangUp(c, how)
           \/ Clock
           \/ UNCHANGED vars
  BY <1>3, OthersCalm, CalmEvents
<1> QED
  BY <1>2, <1>3 DEF Next

-----------------------------------------------------------------------------
(* TypeOK *)

LEMMA ModfdTypes ==
    ASSUME TypeOK, NEW f, NEW ev \in {"in", "out"}
    PROVE  modfd(f, ev) \in [Fds -> {"none", "in", "out"}]
  BY DEF TypeOK, modfd

ClosedTyped ==
    /\ descriptor' \in [Fds -> Clients \cup {Free, File}]
    /\ armed' \in [Fds -> {"none", "in", "out"}]
    /\ unread' \in [Clients -> BOOLEAN]
    /\ hung' \in [Clients -> {"no", "fin", "reset"}]

LEMMA ClosedTypes ==
    ASSUME TypeOK, NEW f, Close(f)
    PROVE  ClosedTyped
<1>1. descriptor' \in [Fds -> Clients \cup {Free, File}]
  BY DEF TypeOK, Close
<1>2. armed' \in [Fds -> {"none", "in", "out"}]
  BY DEF TypeOK, Close
<1>3. unread' \in [Clients -> BOOLEAN]
  BY DEF TypeOK, Close
<1>4. hung' \in [Clients -> {"no", "fin", "reset"}]
  BY DEF TypeOK, Close
<1> QED
  BY <1>1, <1>2, <1>3, <1>4 DEF ClosedTyped

\* What Drop leaves to its callers to say.
Dropped ==
    /\ ClosedTyped
    /\ UNCHANGED <<connectVars, alarm, m_inpool, timerVars, jobVars>>
    /\ events' \in [Fds \cup {Listen} -> {"none", "in", "out", "hup"}]
    /\ loop' = "deal" /\ sockfd' \in Fds
    /\ m_user_count' \in Int
    /\ m_sockfd' \in [Fds -> Fds \cup {-1}]
    /\ m_read_buf' \in [Fds -> {"none", "allocated", "freed"}]
    /\ mishaps' \subseteq {"refused", "early", "lost"}

LEMMA DropTypes ==
    ASSUME TypeOK, NEW f \in Fds, Drop(f)
    PROVE  Dropped
<1>1. UNCHANGED <<descriptor, armed, unread, hung>> \/ Close(f)
  BY DEF Drop, kernelVars
<1>2. ClosedTyped
  BY <1>1, ClosedTypes DEF ClosedTyped, TypeOK
<1>3. Mishap(f) \subseteq {"refused", "early", "lost"}
  BY DEF Mishap
<1>4. mishaps' \subseteq {"refused", "early", "lost"}
  BY <1>3 DEF Drop, TypeOK
<1>5. m_user_count' \in Int
  <2>1. m_user_count \in Int /\ m_user_count' \in {m_user_count, m_user_count - 1}
    BY DEF Drop, TypeOK
  <2> QED
    BY <2>1
<1>8. m_sockfd' \in [Fds -> Fds \cup {-1}]
  <2>1. m_sockfd' \in {m_sockfd, [m_sockfd EXCEPT ![f] = -1]}
    BY DEF Drop
  <2> QED
    BY <2>1 DEF TypeOK
<1>6. events' \in [Fds \cup {Listen} -> {"none", "in", "out", "hup"}]
  BY DEF Drop, Handled, TypeOK
<1>7. m_read_buf' \in [Fds -> {"none", "allocated", "freed"}]
  BY DEF Drop, TypeOK
<1> QED
  BY <1>2, <1>4, <1>5, <1>6, <1>7, <1>8 DEF Drop, Dropped

LEMMA TypeOKStep ==
    ASSUME TypeOK, ListedOnce, [Next]_vars
    PROVE  TypeOK'
<1>0. QueuePart'
  <2>1. QueueKept
    BY DEF TypeOK, QueueKept, QueuePart
  <2> QED
    BY <2>1, QueueKeptStep DEF QueueKept
<1>1. ASSUME EpollWait PROVE TypeOK'
  BY <1>0, <1>1
     DEF TypeOK, QueuePart, EpollWait, Ready, clientVars, connectVars, kernelVars, loopVars,
              bufferVars, userVars, timerVars, jobVars
<1>2. ASSUME Signal PROVE TypeOK'
  BY <1>0, <1>2
     DEF TypeOK, QueuePart, Signal, clientVars, connectVars, kernelVars, loopVars,
              bufferVars, userVars, timerVars, jobVars
<1>3. ASSUME EndBatch PROVE TypeOK'
  BY <1>0, <1>3
     DEF TypeOK, QueuePart, EndBatch, clientVars, connectVars, kernelVars, loopVars,
              bufferVars, userVars, timerVars, jobVars
<1>4. ASSUME Accept PROVE TypeOK'
  BY <1>0, <1>4
     DEF TypeOK, QueuePart, Accept, clientVars, connectVars, kernelVars, loopVars,
              bufferVars, userVars, timerVars, jobVars
<1>5. ASSUME AcceptNone PROVE TypeOK'
  BY <1>0, <1>5
     DEF TypeOK, QueuePart, AcceptNone, clientVars, connectVars, kernelVars, loopVars,
              bufferVars, userVars, timerVars, jobVars
<1>6. ASSUME TickEnd PROVE TypeOK'
  BY <1>0, <1>6
     DEF TypeOK, QueuePart, TickEnd, clientVars, connectVars, kernelVars, loopVars,
              bufferVars, userVars, timerVars, jobVars
<1>7. ASSUME NEW c \in Clients, AcceptBusy(c) PROVE TypeOK'
  BY <1>0, <1>7
     DEF TypeOK, QueuePart, AcceptBusy, clientVars, connectVars, kernelVars, loopVars,
              bufferVars, userVars, timerVars, jobVars
<1>8. ASSUME NEW c \in Clients, NEW f \in Fds, AcceptOne(c, f) PROVE TypeOK'
  <2>1. /\ descriptor' \in [Fds -> Clients \cup {Free, File}]
        /\ armed' \in [Fds -> {"none", "in", "out"}]
    BY <1>8 DEF AcceptOne, TypeOK
  <2>2. /\ m_user_count' \in Int
        /\ m_sockfd' \in [Fds -> Fds \cup {-1}]
        /\ m_inpool' \in [Fds -> BOOLEAN]
        /\ m_read_buf' \in [Fds -> {"none", "allocated", "freed"}]
    BY <1>8 DEF AcceptOne, TypeOK
  <2>3. /\ m_read_idx' \in [Fds -> 0..1]
        /\ bytes_to_send' \in [Fds -> 0..Parts]
        /\ asker' \in [Fds -> Clients \cup {NULL}]
    BY <1>8, ConnectionsAssumption DEF AcceptOne, TypeOK
  <2>4. /\ timer' \in [Fds -> Clients \cup {NULL}]
        /\ fd' \in [Clients -> Fds \cup {0}]
        /\ backlog' \subseteq came
    BY <1>8 DEF AcceptOne, TypeOK
  <2> QED
    BY <1>0, <1>8, <2>1, <2>2, <2>3, <2>4 DEF TypeOK, QueuePart, AcceptOne,
       clientVars, connectVars, kernelVars, loopVars,
              bufferVars, userVars, timerVars, jobVars
<1>9. ASSUME NEW f \in Fds, Read(f) PROVE TypeOK'
  <2>1. armed' \in [Fds -> {"none", "in", "out"}]
    BY <1>9, ModfdTypes DEF Read
  <2>2. /\ events' \in [Fds \cup {Listen} -> {"none", "in", "out", "hup"}]
        /\ unread' \in [Clients -> BOOLEAN]
        /\ m_inpool' \in [Fds -> BOOLEAN]
    BY <1>9 DEF Read, Handled, TypeOK
  <2>3. /\ m_read_idx' \in [Fds -> 0..1]
        /\ job' \in [Clients -> {"none", "pool", "busy", "file", "closed", "count", "arm"}]
    BY <1>9 DEF Read, TypeOK
  <2> QED
    BY <1>0, <1>9, <2>1, <2>2, <2>3 DEF TypeOK, QueuePart, Read, Adjust,
       clientVars, connectVars, kernelVars, loopVars,
              bufferVars, userVars, timerVars, jobVars
<1>10. ASSUME NEW f \in Fds, ReadForever(f) PROVE TypeOK'
  BY <1>0, <1>10
     DEF TypeOK, QueuePart, ReadForever, clientVars, connectVars, kernelVars, loopVars,
              bufferVars, userVars, timerVars, jobVars
<1>11. ASSUME NEW f \in Fds, DropReset(f) PROVE TypeOK'
  <2>1. Dropped
    BY <1>11, DropTypes DEF DropReset
  <2>2. m_read_idx' \in [Fds -> 0..1] /\ asker' \in [Fds -> Clients \cup {NULL}]
    BY <1>11 DEF DropReset, TypeOK
  <2>3. bytes_to_send' \in [Fds -> 0..Parts]
    BY <1>11, ConnectionsAssumption DEF DropReset, TypeOK
  <2> QED
    BY <1>0, <2>1, <2>2, <2>3
       DEF TypeOK, QueuePart, Dropped, ClosedTyped, connectVars, timerVars, jobVars
<1>12. ASSUME NEW f \in Fds, DropRead(f) PROVE TypeOK'
  <2>1. Dropped
    BY <1>12, DropTypes DEF DropRead
  <2>2. m_read_idx' \in [Fds -> 0..1] /\ asker' \in [Fds -> Clients \cup {NULL}]
    BY <1>12 DEF DropRead, TypeOK
  <2>3. bytes_to_send' \in [Fds -> 0..Parts]
    BY <1>12, ConnectionsAssumption DEF DropRead, TypeOK
  <2> QED
    BY <1>0, <2>1, <2>2, <2>3
       DEF TypeOK, QueuePart, Dropped, ClosedTyped, connectVars, timerVars, jobVars
<1>13. ASSUME NEW f \in Fds, DropWritten(f) PROVE TypeOK'
  <2>1. Dropped
    BY <1>13, DropTypes DEF DropWritten
  <2>2. m_read_idx' \in [Fds -> 0..1] /\ asker' \in [Fds -> Clients \cup {NULL}]
    BY <1>13 DEF DropWritten, TypeOK
  <2>3. bytes_to_send' \in [Fds -> 0..Parts]
    BY <1>13, ConnectionsAssumption DEF DropWritten, TypeOK
  <2> QED
    BY <1>0, <2>1, <2>2, <2>3
       DEF TypeOK, QueuePart, Dropped, ClosedTyped, connectVars, timerVars, jobVars
<1>14. ASSUME NEW f \in Fds, WriteAll(f) PROVE TypeOK'
  <2>1. armed' \in [Fds -> {"none", "in", "out"}]
    BY <1>14, ModfdTypes DEF WriteAll
  <2>2. events' \in [Fds \cup {Listen} -> {"none", "in", "out", "hup"}]
    BY <1>14 DEF WriteAll, Handled, TypeOK
  <2>3. /\ m_inpool' \in [Fds -> BOOLEAN]
        /\ m_read_idx' \in [Fds -> 0..1]
        /\ bytes_to_send' \in [Fds -> 0..Parts]
        /\ asker' \in [Fds -> Clients \cup {NULL}]
    BY <1>14, ConnectionsAssumption DEF WriteAll, Reset, TypeOK
  <2> QED
    BY <1>0, <1>14, <2>1, <2>2, <2>3 DEF TypeOK, QueuePart, WriteAll, Adjust,
       clientVars, connectVars, kernelVars, loopVars,
              bufferVars, userVars, timerVars, jobVars
<1>15. ASSUME NEW f \in Fds, NEW n \in 1..Parts, WriteSome(f, n) PROVE TypeOK'
  <2>1. armed' \in [Fds -> {"none", "in", "out"}]
    BY <1>15, ModfdTypes DEF WriteSome
  <2>2. /\ events' \in [Fds \cup {Listen} -> {"none", "in", "out", "hup"}]
        /\ m_inpool' \in [Fds -> BOOLEAN]
    BY <1>15 DEF WriteSome, Handled, TypeOK
  <2>3. bytes_to_send' \in [Fds -> 0..Parts]
    BY <1>15, ConnectionsAssumption DEF WriteSome, TypeOK
  <2> QED
    BY <1>0, <1>15, <2>1, <2>2, <2>3 DEF TypeOK, QueuePart, WriteSome, Adjust,
       clientVars, connectVars, kernelVars, loopVars,
              bufferVars, userVars, timerVars, jobVars
<1>16. ASSUME Deal PROVE TypeOK'
  <2>1. ClosedTyped
    BY <1>16, ClosedTypes DEF Deal
  <2>2. Mishap(sockfd) \subseteq {"refused", "early", "lost"}
    BY DEF Mishap
  <2>3. mishaps' \subseteq {"refused", "early", "lost"}
    BY <1>16, <2>2 DEF Deal, TypeOK
  <2>4. m_user_count \in Int /\ m_user_count' = m_user_count - 1
    BY <1>16 DEF Deal, TypeOK
  <2>5. m_user_count' \in Int
    BY <2>4
  <2> QED
    BY <1>0, <1>16, <2>1, <2>3, <2>5 DEF TypeOK, QueuePart, ClosedTyped, Deal,
       clientVars, connectVars, kernelVars, loopVars,
              bufferVars, userVars, timerVars, jobVars
<1>17. ASSUME NEW c \in Clients, TickOne(c) PROVE TypeOK'
  <2>1. ClosedTyped
    BY <1>17, ClosedTypes DEF TickOne
  <2>2. Mishap(fd[c]) \subseteq {"refused", "early", "lost"}
    BY DEF Mishap
  <2>3. mishaps' \subseteq {"refused", "early", "lost"}
    BY <1>17, <2>2 DEF TickOne, TypeOK
  <2>4. m_user_count \in Int /\ m_user_count' = m_user_count - 1
    BY <1>17 DEF TickOne, TypeOK
  <2>5. m_user_count' \in Int
    BY <2>4
  <2> QED
    BY <1>0, <1>17, <2>1, <2>3, <2>5 DEF TypeOK, QueuePart, ClosedTyped, TickOne,
       clientVars, connectVars, kernelVars, loopVars,
              bufferVars, userVars, timerVars, jobVars
<1>18. ASSUME NEW c \in Clients, NoRequest(c) PROVE TypeOK'
  BY <1>0, <1>18, ModfdTypes
     DEF TypeOK, QueuePart, NoRequest, Goto, clientVars, connectVars, kernelVars, loopVars,
              bufferVars, userVars, timerVars, jobVars
<1>19. ASSUME NEW c \in Clients, Parse(c) PROVE TypeOK'
  BY <1>0, <1>19, ModfdTypes
     DEF TypeOK, QueuePart, Parse, Goto, clientVars, connectVars, kernelVars, loopVars,
              bufferVars, userVars, timerVars, jobVars
<1>20. ASSUME NEW c \in Clients, Arm(c) PROVE TypeOK'
  BY <1>0, <1>20, ModfdTypes
     DEF TypeOK, QueuePart, Arm, Goto, clientVars, connectVars, kernelVars, loopVars,
              bufferVars, userVars, timerVars, jobVars
<1>21. ASSUME NEW c \in Clients, NEW f \in Fds, OpenFile(c, f) PROVE TypeOK'
  BY <1>0, <1>21
     DEF TypeOK, QueuePart, OpenFile, Goto, clientVars, connectVars, kernelVars, loopVars,
              bufferVars, userVars, timerVars, jobVars
<1>22. ASSUME NEW c \in Clients, CloseFile(c) PROVE TypeOK'
  BY <1>0, <1>22, ClosedTypes
     DEF TypeOK, QueuePart, CloseFile, Goto, ClosedTyped, clientVars, connectVars, kernelVars, loopVars,
              bufferVars, userVars, timerVars, jobVars
<1>23. ASSUME NEW c \in Clients, Respond(c) PROVE TypeOK'
  <2>1. bytes_to_send' \in [Fds -> 0..Parts] /\ asker' \in [Fds -> Clients \cup {NULL}]
    <3>1. Parts \in 0..Parts
      BY ConnectionsAssumption
    <3> QED
      BY <1>23, <3>1 DEF Respond, TypeOK
  <2>2. job' \in [Clients -> {"none", "pool", "busy", "file", "closed", "count", "arm"}]
    BY <1>23 DEF Respond, Goto, TypeOK
  <2> QED
    BY <1>0, <1>23, <2>1, <2>2 DEF TypeOK, QueuePart, Respond,
       clientVars, connectVars, kernelVars, loopVars,
              bufferVars, userVars, timerVars, jobVars
<1>24. ASSUME NEW c \in Clients, Refuse(c) PROVE TypeOK'
  <2>1. UNCHANGED <<descriptor, armed, unread, hung>> \/ Close(fd[c])
    BY <1>24 DEF Refuse, kernelVars
  <2>2. ClosedTyped
    BY <2>1, ClosedTypes, SMTT(20) DEF ClosedTyped, TypeOK
  <2>3. /\ job' \in [Clients -> {"none", "pool", "busy", "file", "closed", "count", "arm"}]
        /\ mishaps' \subseteq {"refused", "early", "lost"}
        /\ m_read_buf' \in [Fds -> {"none", "allocated", "freed"}]
    BY <1>24 DEF Refuse, Goto, TypeOK
  <2> QED
    BY <1>0, <1>24, <2>2, <2>3 DEF TypeOK, QueuePart, ClosedTyped, Refuse,
       clientVars, connectVars, kernelVars, loopVars,
              bufferVars, userVars, timerVars, jobVars
<1>25. ASSUME NEW c \in Clients, Unset(c) PROVE TypeOK'
  BY <1>0, <1>25
     DEF TypeOK, QueuePart, Unset, Goto, clientVars, connectVars, kernelVars, loopVars,
              bufferVars, userVars, timerVars, jobVars
<1>26. ASSUME NEW c \in Clients, Decrement(c) PROVE TypeOK'
  BY <1>0, <1>26
     DEF TypeOK, QueuePart, Decrement, Goto, clientVars, connectVars, kernelVars, loopVars,
              bufferVars, userVars, timerVars, jobVars
<1>27. ASSUME NEW c \in Clients, Connect(c) PROVE TypeOK'
  BY <1>0, <1>27
     DEF TypeOK, QueuePart, Connect, clientVars, connectVars, kernelVars, loopVars,
              bufferVars, userVars, timerVars, jobVars
<1>28. ASSUME NEW c \in Clients, Request(c) PROVE TypeOK'
  <2>1. requests' \in 0..MaxRequests
    BY <1>28, ConnectionsAssumption DEF Request, TypeOK
  <2>2. unread' \in [Clients -> BOOLEAN]
    BY <1>28 DEF Request, TypeOK
  <2> QED
    BY <1>0, <1>28, <2>1, <2>2 DEF TypeOK, QueuePart, Request,
       clientVars, connectVars, kernelVars, loopVars,
              bufferVars, userVars, timerVars, jobVars
<1>29. ASSUME NEW c \in Clients, NEW how \in {"fin", "reset"}, HangUp(c, how) PROVE TypeOK'
  BY <1>0, <1>29
     DEF TypeOK, QueuePart, HangUp, clientVars, connectVars, kernelVars, loopVars,
              bufferVars, userVars, timerVars, jobVars
<1>30. ASSUME Clock PROVE TypeOK'
  BY <1>0, <1>30
     DEF TypeOK, QueuePart, Clock, clientVars, connectVars, kernelVars, loopVars,
              bufferVars, userVars, timerVars, jobVars
<1>31. ASSUME UNCHANGED vars PROVE TypeOK'
  BY <1>0, <1>31
     DEF TypeOK, QueuePart, vars, clientVars, connectVars, kernelVars, loopVars,
              bufferVars, userVars, timerVars, jobVars
<1> QED
  BY <1>1, <1>2, <1>3, <1>4, <1>5, <1>6, <1>7, <1>8, <1>9, <1>10,
     <1>11, <1>12, <1>13, <1>14, <1>15, <1>16, <1>17, <1>18, <1>19, <1>20,
     <1>21, <1>22, <1>23, <1>24, <1>25, <1>26, <1>27, <1>28, <1>29, <1>30,
     <1>31
     DEF Next, MainStep, WorkerStep

-----------------------------------------------------------------------------
(* UsersNotOverstated *)

OpenFds == {f \in Fds : descriptor[f] \in Clients}

\* A file whose descriptor was closed under the worker: its user was counted
\* down for it, and the worker will close whatever has the number then.
LostFile == IF file # 0 /\ descriptor[file] # File THEN 1 ELSE 0

UsersBound == "refused" \notin mishaps => m_user_count + LostFile <= Cardinality(OpenFds)

RefusedNoted == \A c \in Clients : job[c] \in {"closed", "count"} => "refused" \in mishaps

CountTyped ==
    /\ Shape
    /\ file \in Fds \cup {0} /\ m_user_count \in Int
    /\ job \in [Clients -> {"none", "pool", "busy", "file", "closed", "count", "arm"}]

LEMMA OpenFdsFinite == IsFiniteSet(OpenFds) /\ Cardinality(OpenFds) \in Nat
<1>1. IsFiniteSet(Fds)
  BY ConnectionsAssumption, FS_Interval DEF Fds
<1>2. OpenFds \subseteq Fds
  BY DEF OpenFds
<1> QED
  BY <1>1, <1>2, FS_Subset, FS_CardinalityType

\* Closing a number and counting one user less keeps the bound.
LEMMA CloseCounted ==
    ASSUME CountTyped, UsersBound, NEW f, Close(f), m_user_count' = m_user_count - 1,
           file' = file, "refused" \in mishaps => "refused" \in mishaps'
    PROVE  UsersBound'
<1>1. descriptor' = [descriptor EXCEPT ![f] = Free] /\ Free \notin Clients /\ File \notin Clients
      /\ Free # File
  BY ConnectionsAssumption DEF Close, Clients
<1>2. OpenFds' = OpenFds \ {f}
  BY <1>1 DEF OpenFds, CountTyped, Shape
<1>3. Cardinality(OpenFds \ {f}) = IF f \in OpenFds THEN Cardinality(OpenFds) - 1 ELSE Cardinality(OpenFds)
  BY OpenFdsFinite, FS_RemoveElement
<1>4. LostFile \in 0..1 /\ LostFile' \in 0..1
  BY DEF LostFile
<1>5. ASSUME f \in OpenFds PROVE LostFile' <= LostFile
  <2>1. descriptor[f] # File /\ f \in Fds
    BY <1>1, <1>5 DEF OpenFds
  <2>2. CASE file = f
    BY <1>4, <2>1, <2>2 DEF LostFile, Fds
  <2>3. CASE file # f
    <3>1. file # 0 => descriptor'[file] = descriptor[file]
      BY <1>1, <2>3 DEF CountTyped, Shape
    <3> QED
      BY <1>4, <3>1 DEF LostFile
  <2> QED
    BY <2>2, <2>3
<1>6. ASSUME "refused" \notin mishaps'
      PROVE  m_user_count' + LostFile' <= Cardinality(OpenFds')
  <2>1. m_user_count + LostFile <= Cardinality(OpenFds) /\ m_user_count \in Int
    BY <1>6 DEF UsersBound, CountTyped
  <2>2. Cardinality(OpenFds) \in Nat
    BY OpenFdsFinite
  <2> QED
    BY <1>2, <1>3, <1>4, <1>5, <2>1, <2>2
<1> QED
  BY <1>6 DEF UsersBound

\* A step that leaves alone what is counted.
Uncounted ==
    /\ UNCHANGED <<descriptor, m_user_count, file>>
    /\ "refused" \in mishaps => "refused" \in mishaps'

LEMMA UncountedBound == ASSUME UsersBound, Uncounted PROVE UsersBound'
<1>1. OpenFds' = OpenFds /\ LostFile' = LostFile
  BY DEF Uncounted, OpenFds, LostFile
<1> QED
  BY <1>1 DEF Uncounted, UsersBound

LEMMA AcceptCounted ==
    ASSUME CountTyped, UsersBound, NEW c \in Clients, NEW f \in Fds, AcceptOne(c, f)
    PROVE  UsersBound'
<1>1. /\ descriptor' = [descriptor EXCEPT ![f] = c] /\ descriptor[f] = Free
      /\ m_user_count' = m_user_count + 1
      /\ UNCHANGED <<file, mishaps>>
      /\ Free \notin Clients /\ File \notin Clients /\ Free # File
  BY ConnectionsAssumption DEF AcceptOne, Lowest, FreeFds, Clients
<1>2. OpenFds' = OpenFds \cup {f} /\ f \notin OpenFds
  BY <1>1 DEF OpenFds, CountTyped, Shape
<1>3. Cardinality(OpenFds \cup {f}) = Cardinality(OpenFds) + 1
  BY <1>2, OpenFdsFinite, FS_AddElement
<1>4. LostFile' = LostFile
  <2>1. CASE file = f
    BY <1>1, <2>1 DEF LostFile, CountTyped, Shape, Fds
  <2>2. CASE file # f
    <3>1. file # 0 => descriptor'[file] = descriptor[file]
      BY <1>1, <2>2 DEF CountTyped, Shape
    <3> QED
      BY <1>1, <3>1 DEF LostFile
  <2> QED
    BY <2>1, <2>2
<1>5. LostFile \in 0..1 /\ Cardinality(OpenFds) \in Nat /\ m_user_count \in Int
  BY OpenFdsFinite DEF LostFile, CountTyped
<1>6. ASSUME "refused" \notin mishaps'
      PROVE  m_user_count' + LostFile' <= Cardinality(OpenFds')
  <2>1. m_user_count + LostFile <= Cardinality(OpenFds)
    BY <1>1, <1>6 DEF UsersBound
  <2> QED
    BY <1>1, <1>2, <1>3, <1>4, <1>5, <2>1
<1> QED
  BY <1>6 DEF UsersBound

LEMMA OpenFileCounted ==
    ASSUME CountTyped, UsersBound, NEW c \in Clients, NEW f \in Fds, OpenFile(c, f)
    PROVE  UsersBound'
<1>1. /\ descriptor' = [descriptor EXCEPT ![f] = File] /\ descriptor[f] = Free
      /\ file = 0 /\ file' = f
      /\ UNCHANGED <<m_user_count, mishaps>>
      /\ Free \notin Clients /\ File \notin Clients
  BY ConnectionsAssumption DEF OpenFile, Lowest, FreeFds, Clients
<1>2. OpenFds' = OpenFds
  BY <1>1 DEF OpenFds, CountTyped, Shape
<1>3. LostFile = 0 /\ LostFile' = 0
  BY <1>1 DEF LostFile, CountTyped, Shape
<1> QED
  BY <1>1, <1>2, <1>3 DEF UsersBound

\* The worker closes its file, or what has the number instead.
LEMMA CloseFileCounted ==
    ASSUME CountTyped, UsersBound, NEW c \in Clients, CloseFile(c)
    PROVE  UsersBound'
<1>1. /\ descriptor' = [descriptor EXCEPT ![file] = Free] /\ file' = 0
      /\ UNCHANGED <<m_user_count, mishaps>>
      /\ Free \notin Clients /\ File \notin Clients
  BY ConnectionsAssumption DEF CloseFile, Close, Clients
<1>2. OpenFds' = OpenFds \ {file}
  BY <1>1 DEF OpenFds, CountTyped, Shape
<1>3. Cardinality(OpenFds \ {file}) =
         IF file \in OpenFds THEN Cardinality(OpenFds) - 1 ELSE Cardinality(OpenFds)
  BY OpenFdsFinite, FS_RemoveElement
<1>4. LostFile' = 0 /\ LostFile \in 0..1 /\ (file \in OpenFds => LostFile = 1)
  BY <1>1 DEF LostFile, OpenFds, Fds
<1>5. Cardinality(OpenFds) \in Nat /\ m_user_count \in Int
  BY OpenFdsFinite DEF CountTyped
<1>6. ASSUME "refused" \notin mishaps'
      PROVE  m_user_count' + LostFile' <= Cardinality(OpenFds')
  <2>1. m_user_count + LostFile <= Cardinality(OpenFds)
    BY <1>1, <1>6 DEF UsersBound
  <2> QED
    BY <1>1, <1>2, <1>3, <1>4, <1>5, <2>1
<1> QED
  BY <1>6 DEF UsersBound

LEMMA DropCounted ==
    ASSUME CountTyped, UsersBound, NEW f \in Fds, Drop(f)
    PROVE  UsersBound'
<1>1. file' = file
  BY DEF Drop, jobVars
<1>2. CASE m_sockfd[f] = -1
  BY <1>1, <1>2, UncountedBound DEF Drop, kernelVars, Uncounted
<1>3. CASE m_sockfd[f] # -1
  <2>1. Close(f) /\ m_user_count' = m_user_count - 1
    BY <1>3 DEF Drop
  <2>2. "refused" \in mishaps => "refused" \in mishaps'
    BY <1>3 DEF Drop
  <2> QED
    BY <1>1, <2>1, <2>2, CloseCounted
<1> QED
  BY <1>2, <1>3

LEMMA MainCounted ==
    ASSUME CountTyped, UsersBound, MainStep
    PROVE  UsersBound'
<1>1. CASE EpollWait \/ Signal \/ EndBatch \/ Accept \/ AcceptNone \/ TickEnd
  BY <1>1, UncountedBound DEF EpollWait, Signal, EndBatch, Accept, AcceptNone, TickEnd,
     kernelVars, jobVars, Uncounted
<1>2. ASSUME NEW c \in Clients, AcceptBusy(c) PROVE UsersBound'
  BY <1>2, UncountedBound DEF AcceptBusy, kernelVars, jobVars, Uncounted
<1>3. ASSUME NEW f \in Fds,
             Read(f) \/ ReadForever(f) \/ WriteAll(f) \/ \E n \in 1..Parts : WriteSome(f, n)
      PROVE  UsersBound'
  BY <1>3, UncountedBound DEF Read, ReadForever, WriteAll, WriteSome,
     kernelVars, jobVars, Uncounted
<1>4. ASSUME NEW f \in Fds, DropReset(f) \/ DropRead(f) \/ DropWritten(f) PROVE UsersBound'
  BY <1>4, DropCounted DEF DropReset, DropRead, DropWritten
<1>5. CASE Deal
  BY <1>5, CloseCounted DEF Deal, jobVars
<1>6. ASSUME NEW t \in Clients, TickOne(t) PROVE UsersBound'
  BY <1>6, CloseCounted DEF TickOne, jobVars
<1> QED
  BY <1>1, <1>2, <1>3, <1>4, <1>5, <1>6, AcceptCounted DEF MainStep

LEMMA WorkerCounted ==
    ASSUME CountTyped, UsersBound, RefusedNoted, NEW c \in Clients, WorkerStep(c)
    PROVE  UsersBound'
<1>1. CASE NoRequest(c) \/ Parse(c) \/ Respond(c) \/ Unset(c) \/ Arm(c)
  BY <1>1, UncountedBound DEF NoRequest, Parse, Respond, Unset, Arm, kernelVars, Uncounted
<1>2. CASE Refuse(c)
  <2>1. "refused" \in mishaps' \/ Uncounted
    BY <1>2 DEF Refuse, kernelVars, Uncounted
  <2> QED
    BY <2>1, UncountedBound DEF UsersBound
<1>3. CASE Decrement(c)
  BY <1>3 DEF Decrement, RefusedNoted, UsersBound
<1> QED
  BY <1>1, <1>2, <1>3, OpenFileCounted, CloseFileCounted DEF WorkerStep

LEMMA OthersCounted ==
    ASSUME UsersBound,
           \/ \E c \in Clients : Connect(c) \/ Request(c)
           \/ \E c \in Clients : \E how \in {"fin", "reset"} : HangUp(c, how)
           \/ Clock
           \/ UNCHANGED vars
    PROVE  UsersBound'
  BY UncountedBound DEF Connect, Request, HangUp, Clock, vars, kernelVars, jobVars, Uncounted

LEMMA RefusedNotedStep ==
    ASSUME CountTyped, RefusedNoted, [Next]_vars
    PROVE  RefusedNoted'
<1>1. ASSUME UNCHANGED job, "refused" \in mishaps => "refused" \in mishaps'
      PROVE  RefusedNoted'
  BY <1>1 DEF RefusedNoted
<1>2. CASE MainStep
  <2>1. ASSUME NEW f \in Fds, Drop(f) PROVE RefusedNoted'
    <3>1. UNCHANGED job
      BY <2>1 DEF Drop, jobVars
    <3>2. "refused" \in mishaps => "refused" \in mishaps'
      BY <2>1 DEF Drop
    <3> QED
      BY <1>1, <3>1, <3>2
  <2>2. ASSUME NEW f \in Fds, Read(f) PROVE RefusedNoted'
    <3>1. \A c \in Clients : job'[c] = job[c] \/ job'[c] = "pool"
      BY <2>2 DEF Read, CountTyped
    <3> QED
      BY <2>2, <3>1 DEF Read, RefusedNoted
  <2>3. CASE Deal \/ \E t \in Clients : TickOne(t)
    BY <1>1, <2>3 DEF Deal, TickOne, jobVars
  <2>4. CASE EpollWait \/ Signal \/ EndBatch \/ Accept \/ AcceptNone \/ TickEnd
    BY <1>1, <2>4 DEF EpollWait, Signal, EndBatch, Accept, AcceptNone, TickEnd, jobVars
  <2>5. ASSUME NEW c \in Clients, AcceptBusy(c) PROVE RefusedNoted'
    BY <1>1, <2>5 DEF AcceptBusy, jobVars
  <2>6. ASSUME NEW c \in Clients, NEW f \in Fds, AcceptOne(c, f) PROVE RefusedNoted'
    BY <1>1, <2>6 DEF AcceptOne
  <2>7. ASSUME NEW f \in Fds, ReadForever(f) \/ WriteAll(f) \/ \E n \in 1..Parts : WriteSome(f, n)
        PROVE  RefusedNoted'
    BY <1>1, <2>7 DEF ReadForever, WriteAll, WriteSome, jobVars
  <2> QED
    BY <1>2, <2>1, <2>2, <2>3, <2>4, <2>5, <2>6, <2>7
       DEF MainStep, DropReset, DropRead, DropWritten
<1>3. ASSUME NEW c \in Clients, WorkerStep(c) PROVE RefusedNoted'
  <2>1. /\ \A d \in Clients : d # c => job'[d] = job[d]
        /\ \/ job'[c] \notin {"closed", "count"}
           \/ "refused" \in mishaps'
           \/ job[c] \in {"closed", "count"}
    <3>1. CASE NoRequest(c) \/ Parse(c) \/ Respond(c) \/ Decrement(c) \/ Arm(c) \/ CloseFile(c)
               \/ \E f \in Fds : OpenFile(c, f)
      BY <3>1 DEF NoRequest, Parse, Respond, Decrement, Arm, CloseFile, OpenFile, Goto, CountTyped
    <3>2. CASE Refuse(c)
      BY <3>2 DEF Refuse, Goto, CountTyped
    <3>3. CASE Unset(c)
      BY <3>3 DEF Unset, Goto, CountTyped
    <3> QED
      BY <1>3, <3>1, <3>2, <3>3 DEF WorkerStep
  <2>2. "refused" \in mishaps => "refused" \in mishaps'
    BY <1>3 DEF WorkerStep, NoRequest, Parse, CloseFile, Respond, Refuse, Unset, Decrement,
                Arm, OpenFile
  <2> QED
    BY <2>1, <2>2 DEF RefusedNoted
<1>4. CASE \/ \E c \in Clients : Connect(c) \/ Request(c)
           \/ \E c \in Clients : \E how \in {"fin", "reset"} : HangUp(c, how)
           \/ Clock
           \/ UNCHANGED vars
  BY <1>1, <1>4 DEF Connect, Request, HangUp, Clock, vars, jobVars
<1> QED
  BY <1>2, <1>3, <1>4 DEF Next

-----------------------------------------------------------------------------
(* The theorems *)

\* What all of them rest on.
IInv ==
    /\ TypeOK
    /\ ListedOnce
    /\ Core
    /\ EventsTimed
    /\ UsersBound
    /\ RefusedNoted

LEMMA TypeOKParts == ASSUME TypeOK, ListedOnce PROVE Shape /\ QueueKept /\ CountTyped
<1>1. Shape
  BY DEF TypeOK, Shape
<1>2. QueueKept
  BY DEF TypeOK, QueueKept, QueuePart
<1> QED
  BY <1>1, <1>2 DEF TypeOK, CountTyped

LEMMA InitIInv == Init => IInv
<1> SUFFICES ASSUME Init PROVE IInv
  OBVIOUS
<1>1. MaxRequests \in Nat /\ Parts \in Nat /\ Slots \in Nat /\ NULL \notin Clients
      /\ Free \notin Clients /\ File \notin Clients
  BY ConnectionsAssumption, TimerQueueAssumption DEF Clients
<1>2. QueueKept
  BY QueueKeptInit
<1>3. TypeOK
  <2>1. 0 \in 0..1 /\ 0 \in 0..MaxRequests /\ 0 \in 0..Parts /\ 0 \in Int
    BY <1>1
  <2>2. /\ requests \in 0..MaxRequests
        /\ m_read_idx \in [Fds -> 0..1]
        /\ bytes_to_send \in [Fds -> 0..Parts]
        /\ m_user_count \in Int
        /\ seen \in [Clients -> Int]
    BY <2>1 DEF Init
  <2>3. /\ m_sockfd \in [Fds -> Fds \cup {-1}]
        /\ fd \in [Clients -> Fds \cup {0}]
        /\ sockfd \in Fds \cup {0} /\ file \in Fds \cup {0}
    BY DEF Init
  <2> QED
    BY <1>2, <2>2, <2>3 DEF Init, TypeOK, QueueKept, QueuePart
<1>4. Listed = {}
  BY DEF Init, QueueInit, Listed
<1>5. Core
  BY <1>1, <1>4 DEF Init, Core, OpenIsTimed, TimersPlaced, ListedAccepted
<1>6. EventsTimed
  BY DEF Init, EventsTimed, TimerAlive
<1>7. UsersBound
  <2>1. OpenFds = {} /\ LostFile = 0
    BY <1>1 DEF Init, OpenFds, LostFile
  <2>2. Cardinality({}) = 0
    BY FS_EmptySet
  <2> QED
    BY <2>1, <2>2 DEF Init, UsersBound
<1>8. RefusedNoted
  BY DEF Init, RefusedNoted
<1> QED
  BY <1>2, <1>3, <1>5, <1>6, <1>7, <1>8 DEF IInv, QueueKept

LEMMA StepIInv == IInv /\ [Next]_vars => IInv'
<1> SUFFICES ASSUME IInv, [Next]_vars PROVE IInv'
  OBVIOUS
<1>0. Shape /\ QueueKept /\ CountTyped
  BY TypeOKParts DEF IInv
<1>1. TypeOK'
  BY TypeOKStep DEF IInv
<1>2. ListedOnce'
  BY <1>0, QueueKeptStep DEF QueueKept
<1>3. Core'
  BY <1>0, CoreStep DEF IInv, EventsTimed
<1>4. EventsTimed'
  BY <1>0, EventsStep DEF IInv
<1>5. UsersBound'
  <2>1. CASE MainStep
    BY <1>0, <2>1, MainCounted DEF IInv
  <2>2. ASSUME NEW c \in Clients, WorkerStep(c) PROVE UsersBound'
    BY <1>0, <2>2, WorkerCounted DEF IInv
  <2> QED
    BY <2>1, <2>2, OthersCounted DEF IInv, Next
<1>6. RefusedNoted'
  BY <1>0, RefusedNotedStep DEF IInv
<1> QED
  BY <1>1, <1>2, <1>3, <1>4, <1>5, <1>6 DEF IInv

\* Every variable keeps to its type, however the threads interleave.
THEOREM TypeCorrect == Spec => []TypeOK
<1>1. IInv => TypeOK
  BY DEF IInv
<1> QED
  BY <1>1, InitIInv, StepIInv, PTL DEF Spec

\* Every open connection has its own timer in the list.
THEOREM OpenAlwaysTimed == Spec => []OpenIsTimed
<1>1. IInv => OpenIsTimed
  BY DEF IInv, Core
<1> QED
  BY <1>1, InitIInv, StepIInv, PTL DEF Spec

\* The event loop never follows the pointer of a timer that is deleted.
THEOREM TimerAlwaysAlive == Spec => []TimerAlive
<1>1. IInv => TimerAlive
  BY DEF IInv, EventsTimed
<1> QED
  BY <1>1, InitIInv, StepIInv, PTL DEF Spec

\* The count of users is never above the connections that are open, as long
\* as no worker closes one.
THEOREM UsersNeverOverstated == Spec => []UsersNotOverstated
<1>1. IInv => UsersNotOverstated
  <2> SUFFICES ASSUME IInv, "refused" \notin mishaps
               PROVE  m_user_count <= Cardinality(OpenFds)
    BY DEF UsersNotOverstated, OpenFds
  <2>1. m_user_count + LostFile <= Cardinality(OpenFds) /\ m_user_count \in Int
    BY DEF IInv, UsersBound, TypeOK
  <2>2. LostFile \in 0..1 /\ Cardinality(OpenFds) \in Nat
    BY OpenFdsFinite DEF LostFile
  <2> QED
    BY <2>1, <2>2
<1> QED
  BY <1>1, InitIInv, StepIInv, PTL DEF Spec

-----------------------------------------------------------------------------
(* TimersOwn and EventsCurrent *)

\* No worker has closed a connection or lost its file.
Spared == mishaps \cap {"refused", "lost"} = {}

\* A number that somebody works with stands for what he takes it for.
FileIsOpen == file # 0 => descriptor[file] = File
SlotsOwned ==
    \A f \in Fds : descriptor[f] \in Clients => m_sockfd[f] = f /\ m_read_buf[f] = "allocated"
EventsOfOpen == \A f \in Fds : events[f] # "none" => descriptor[f] \in Clients
DealtIsClosed == loop = "deal" => descriptor[sockfd] \notin Clients
ListedIsOpen ==
    \A c \in Listed :
        /\ fd[c] \in Fds
        /\ descriptor[fd[c]] = c \/ (loop = "deal" /\ timer[sockfd] = c)

Owned ==
    /\ FileIsOpen
    /\ SlotsOwned
    /\ EventsOfOpen
    /\ DealtIsClosed
    /\ ListedIsOpen

\* A step that opens and closes nothing, and brings no events.
Still ==
    /\ UNCHANGED <<descriptor, file, m_sockfd, m_read_buf, fd, timer>>
    /\ Listed' = Listed
    /\ \A f \in Fds : events'[f] # "none" => events[f] # "none"
    /\ \/ UNCHANGED <<loop, sockfd>>
       \/ loop # "deal" /\ loop' # "deal"

LEMMA StillOwned == ASSUME Owned, Still PROVE Owned'
<1>1. FileIsOpen' /\ SlotsOwned'
  BY DEF Owned, Still, FileIsOpen, SlotsOwned
<1>2. EventsOfOpen'
  BY DEF Owned, Still, EventsOfOpen
<1>3. DealtIsClosed' /\ ListedIsOpen'
  BY DEF Owned, Still, DealtIsClosed, ListedIsOpen
<1> QED
  BY <1>1, <1>2, <1>3 DEF Owned

LEMMA MainStill ==
    ASSUME Shape, QueueKept,
           \/ Signal \/ EndBatch \/ Accept \/ AcceptNone \/ TickEnd
           \/ \E c \in Clients : AcceptBusy(c)
           \/ \E f \in Fds : \/ Read(f) \/ ReadForever(f) \/ WriteAll(f)
                             \/ \E n \in 1..Parts : WriteSome(f, n)
    PROVE  Still
<1>1. UNCHANGED <<timer, fd>> /\ Listed' = Listed
  BY MainQuiet DEF Quiet
<1>2. CASE \/ Signal \/ EndBatch \/ Accept \/ AcceptNone \/ TickEnd
           \/ \E c \in Clients : AcceptBusy(c)
  <2>1. UNCHANGED <<descriptor, file, m_sockfd, m_read_buf>>
    BY <1>2 DEF Signal, EndBatch, Accept, AcceptNone, TickEnd, AcceptBusy, kernelVars,
                userVars, bufferVars, jobVars
  <2>2. \A f \in Fds : events'[f] # "none" => events[f] # "none"
    BY <1>2 DEF Signal, EndBatch, Accept, AcceptNone, TickEnd, AcceptBusy, loopVars, Shape
  <2>3. UNCHANGED <<loop, sockfd>> \/ (loop # "deal" /\ loop' # "deal")
    BY <1>2 DEF Signal, EndBatch, Accept, AcceptNone, TickEnd, AcceptBusy, loopVars
  <2> QED
    BY <1>1, <2>1, <2>2, <2>3 DEF Still
<1>3. ASSUME NEW f \in Fds,
             Read(f) \/ WriteAll(f) \/ \E n \in 1..Parts : WriteSome(f, n)
      PROVE  Still
  <2>1. UNCHANGED <<descriptor, file, m_sockfd, m_read_buf, loop, sockfd>>
    BY <1>3 DEF Read, WriteAll, WriteSome, jobVars
  <2>2. Handled(f)
    BY <1>3 DEF Read, WriteAll, WriteSome
  <2> QED
    BY <1>1, <2>1, <2>2 DEF Handled, Still, Shape
<1>4. ASSUME NEW f \in Fds, ReadForever(f) PROVE Still
  BY <1>1, <1>4 DEF ReadForever, kernelVars, userVars, bufferVars, jobVars, Still
<1> QED
  BY <1>2, <1>3, <1>4

LEMMA OthersStill ==
    ASSUME \/ \E c \in Clients : \/ NoRequest(c) \/ Parse(c) \/ Respond(c) \/ Arm(c)
                                 \/ Connect(c) \/ Request(c)
           \/ \E c \in Clients : \E how \in {"fin", "reset"} : HangUp(c, how)
           \/ Clock
           \/ UNCHANGED vars
    PROVE  Still
<1>1. UNCHANGED <<m_timer_lst, events, loop, sockfd, timer>>
  BY DEF NoRequest, Parse, Respond, Arm, Connect, Request, HangUp, Clock, PassTime, vars,
         loopVars, timerVars, queueVars
<1>2. UNCHANGED <<descriptor, file, m_sockfd, m_read_buf, fd>>
  BY DEF NoRequest, Parse, Respond, Arm, Connect, Request, HangUp, Clock, vars,
         kernelVars, userVars, bufferVars, jobVars
<1> QED
  BY <1>1, <1>2, ListedSame DEF Still

\* What happens to the numbers.
LEMMA Freed ==
    ASSUME Shape, NEW f, Close(f)
    PROVE  /\ f \in Fds => descriptor'[f] = Free
           /\ \A g \in Fds \ {f} : descriptor'[g] = descriptor[g]
           /\ Free \notin Clients /\ File \notin Clients /\ Free # File
  BY ConnectionsAssumption DEF Close, Shape, Clients

LEMMA EpollWaitOwned == ASSUME Owned, EpollWait PROVE Owned'
<1>1. /\ UNCHANGED <<descriptor, file, m_sockfd, m_read_buf, fd, timer, m_timer_lst>>
      /\ loop = "epoll" /\ loop' = "batch"
  BY DEF EpollWait, userVars, bufferVars, timerVars, queueVars, jobVars
<1>2. FileIsOpen' /\ SlotsOwned'
  BY <1>1 DEF Owned, FileIsOpen, SlotsOwned
<1>3. EventsOfOpen'
  <2> SUFFICES ASSUME NEW f \in Fds, events'[f] # "none" PROVE descriptor[f] \in Clients
    BY <1>1 DEF EventsOfOpen
  <2>1. f # Listen
    BY DEF Fds, Listen
  <2>2. events'[f] = Ready(f)
    BY <2>1 DEF EpollWait
  <2> QED
    BY <2>2 DEF Ready
<1>4. DealtIsClosed' /\ ListedIsOpen'
  BY <1>1, ListedSame DEF Owned, DealtIsClosed, ListedIsOpen
<1> QED
  BY <1>2, <1>3, <1>4 DEF Owned

LEMMA AcceptOwned ==
    ASSUME TypeOK, QueueKept, Core, Owned, NEW c \in Clients, NEW f \in Fds, AcceptOne(c, f)
    PROVE  Owned'
<1>1. /\ loop = "accept" /\ c \in backlog /\ descriptor[f] = Free
      /\ descriptor' = [descriptor EXCEPT ![f] = c]
      /\ m_sockfd' = [m_sockfd EXCEPT ![f] = f]
      /\ m_read_buf' = [m_read_buf EXCEPT ![f] = "allocated"]
      /\ fd' = [fd EXCEPT ![c] = f]
      /\ add_timer(c)
      /\ UNCHANGED <<events, loop, file>>
  BY DEF AcceptOne, Lowest, FreeFds, loopVars
<1>2. Free \notin Clients /\ File \notin Clients /\ Free # File
  BY ConnectionsAssumption DEF Clients
<1>3. Listed' = Listed \cup {c} /\ c \notin Listed
  BY <1>1, AddStep, QueuePartTyped DEF QueueKept, Clients, Core, ListedAccepted
<1>4. FileIsOpen'
  BY <1>1, <1>2 DEF Owned, FileIsOpen, TypeOK
<1>5. SlotsOwned'
  <2>1. ASSUME NEW g \in Fds, g # f, descriptor'[g] \in Clients
        PROVE  m_sockfd'[g] = g /\ m_read_buf'[g] = "allocated"
    BY <1>1, <2>1 DEF Owned, SlotsOwned, TypeOK
  <2>2. m_sockfd'[f] = f /\ m_read_buf'[f] = "allocated"
    BY <1>1 DEF TypeOK
  <2> QED
    BY <2>1, <2>2 DEF SlotsOwned
<1>6. EventsOfOpen'
  BY <1>1, <1>2 DEF Owned, EventsOfOpen, TypeOK
<1>7. DealtIsClosed'
  BY <1>1 DEF DealtIsClosed
<1>8. ListedIsOpen'
  <2>1. ASSUME NEW d \in Listed, d # c PROVE fd'[d] \in Fds /\ descriptor'[fd'[d]] = d
    <3>1. fd[d] \in Fds /\ descriptor[fd[d]] = d
      BY <1>1 DEF Owned, ListedIsOpen
    <3>2. d \in Clients
      BY DEF Core, ListedAccepted, TypeOK
    <3>3. fd'[d] = fd[d] /\ fd[d] # f
      BY <1>1, <1>2, <2>1, <3>1, <3>2 DEF TypeOK
    <3> QED
      BY <1>1, <3>1, <3>3 DEF TypeOK
  <2>2. fd'[c] = f /\ descriptor'[f] = c
    BY <1>1 DEF TypeOK
  <2> QED
    BY <1>3, <2>1, <2>2 DEF ListedIsOpen
<1> QED
  BY <1>4, <1>5, <1>6, <1>7, <1>8 DEF Owned

\* The timer of the connection that is dropped waits for deal_timer.
LEMMA DropOwned ==
    ASSUME TypeOK, Core, Owned, NEW f \in Fds, events[f] # "none", Drop(f)
    PROVE  Owned' /\ Close(f) /\ mishaps' = mishaps \cup Mishap(f)
<1>1. descriptor[f] \in Clients /\ m_sockfd[f] = f /\ f # -1
  BY DEF Owned, EventsOfOpen, SlotsOwned, Fds
<1>2. /\ Close(f) /\ m_sockfd' = [m_sockfd EXCEPT ![f] = -1]
      /\ mishaps' = mishaps \cup Mishap(f)
      /\ m_read_buf' = [m_read_buf EXCEPT ![f] = "freed"]
      /\ events' = [events EXCEPT ![f] = "none"]
      /\ loop = "batch" /\ loop' = "deal" /\ sockfd' = f
      /\ UNCHANGED <<timer, m_timer_lst, fd, file>>
  BY <1>1 DEF Drop, Handled, timerVars, queueVars, jobVars
<1>3. /\ descriptor'[f] = Free
      /\ \A g \in Fds \ {f} : descriptor'[g] = descriptor[g]
      /\ Free \notin Clients /\ File \notin Clients
  BY <1>2, Freed, TypeOKParts DEF TypeOK, Shape
<1>4. FileIsOpen'
  <2>1. file # 0 => file \in Fds \ {f}
    BY <1>1, <1>3 DEF Owned, FileIsOpen, TypeOK
  <2> QED
    BY <1>2, <1>3, <2>1 DEF Owned, FileIsOpen
<1>5. SlotsOwned'
  BY <1>2, <1>3 DEF Owned, SlotsOwned, TypeOK
<1>6. EventsOfOpen'
  BY <1>2, <1>3 DEF Owned, EventsOfOpen, TypeOK
<1>7. DealtIsClosed'
  BY <1>2, <1>3 DEF DealtIsClosed
<1>8. ListedIsOpen'
  <2> SUFFICES ASSUME NEW d \in Listed
               PROVE  fd[d] \in Fds /\ (descriptor'[fd[d]] = d \/ timer[f] = d)
    BY <1>2, ListedSame DEF ListedIsOpen
  <2>1. fd[d] \in Fds /\ descriptor[fd[d]] = d
    BY <1>2 DEF Owned, ListedIsOpen
  <2>2. timer[f] = descriptor[f]
    BY <1>1 DEF Core, OpenIsTimed
  <2> QED
    BY <1>3, <2>1, <2>2
<1> QED
  BY <1>2, <1>4, <1>5, <1>6, <1>7, <1>8 DEF Owned

LEMMA DealOwned ==
    ASSUME TypeOK, QueueKept, EventsTimed, Owned, Spared', Deal
    PROVE  Owned'
<1>1. /\ Close(sockfd) /\ del_timer(timer[sockfd])
      /\ loop = "deal" /\ loop' = "batch"
      /\ mishaps' = mishaps \cup Mishap(sockfd)
      /\ UNCHANGED <<timer, fd, file, events, m_sockfd, m_read_buf>>
  BY DEF Deal, userVars, bufferVars, jobVars
<1>2. sockfd \in Fds /\ events[sockfd] = "none" /\ descriptor[sockfd] \notin Clients
  BY <1>1 DEF EventsTimed, Owned, DealtIsClosed
<1>3. descriptor[sockfd] # File
  BY <1>1 DEF Mishap, Spared
<1>4. /\ descriptor'[sockfd] = Free
      /\ \A g \in Fds \ {sockfd} : descriptor'[g] = descriptor[g]
      /\ Free \notin Clients
  BY <1>1, <1>2, Freed DEF TypeOK, Shape
<1>5. Listed' = Listed \ {timer[sockfd]}
  BY <1>1, AdjustedIsClient, DelStep, QueuePartTyped DEF QueueKept, Clients
<1>6. FileIsOpen'
  <2>1. file # 0 => file \in Fds \ {sockfd}
    BY <1>3 DEF Owned, FileIsOpen, TypeOK
  <2> QED
    BY <1>1, <1>4, <2>1 DEF Owned, FileIsOpen
<1>7. SlotsOwned'
  BY <1>1, <1>4 DEF Owned, SlotsOwned
<1>8. EventsOfOpen'
  BY <1>1, <1>2, <1>4 DEF Owned, EventsOfOpen
<1>9. DealtIsClosed'
  BY <1>1 DEF DealtIsClosed
<1>10. ListedIsOpen'
  <2> SUFFICES ASSUME NEW d \in Listed, d # timer[sockfd]
               PROVE  fd[d] \in Fds /\ descriptor'[fd[d]] = d
    BY <1>1, <1>5 DEF ListedIsOpen
  <2>1. fd[d] \in Fds /\ descriptor[fd[d]] = d
    BY DEF Owned, ListedIsOpen
  <2>2. d \in Clients
    BY ElementOfSeq, LenProperties DEF QueueKept, QueuePart, Listed
  <2> QED
    BY <1>2, <1>4, <2>1, <2>2
<1> QED
  BY <1>6, <1>7, <1>8, <1>9, <1>10 DEF Owned

LEMMA TickOwned ==
    ASSUME TypeOK, QueueKept, EventsTimed, Core, Owned, NEW t \in Clients, TickOne(t)
    PROVE  Owned'
<1>1. /\ Close(fd[t]) /\ tick(t) /\ loop = "tick" /\ loop' = "tick"
      /\ UNCHANGED <<timer, fd, file, events, m_sockfd, m_read_buf>>
  BY DEF TickOne, loopVars, userVars, bufferVars, jobVars
<1>2. t \in Listed /\ Listed' = Listed \ {t}
  <2>1. t \in Listed
    BY <1>1, LenProperties DEF tick, Listed, QueueKept, QueuePart
  <2> QED
    BY <1>1, <2>1, TickStep, QueuePartTyped DEF QueueKept, Clients
<1>3. fd[t] \in Fds /\ descriptor[fd[t]] = t
  BY <1>1, <1>2 DEF Owned, ListedIsOpen
<1>4. /\ descriptor'[fd[t]] = Free
      /\ \A g \in Fds \ {fd[t]} : descriptor'[g] = descriptor[g]
      /\ Free \notin Clients /\ File \notin Clients
  BY <1>1, <1>3, Freed DEF TypeOK, Shape
<1>5. FileIsOpen'
  <2>1. file # 0 => file \in Fds \ {fd[t]}
    BY <1>3, <1>4 DEF Owned, FileIsOpen, TypeOK
  <2> QED
    BY <1>1, <1>4, <2>1 DEF Owned, FileIsOpen
<1>6. SlotsOwned'
  BY <1>1, <1>4 DEF Owned, SlotsOwned
<1>7. EventsOfOpen'
  BY <1>1 DEF EventsTimed, EventsOfOpen
<1>8. DealtIsClosed'
  BY <1>1 DEF DealtIsClosed
<1>9. ListedIsOpen'
  <2> SUFFICES ASSUME NEW d \in Listed, d # t
               PROVE  fd[d] \in Fds /\ descriptor'[fd[d]] = d
    BY <1>1, <1>2 DEF ListedIsOpen
  <2>1. fd[d] \in Fds /\ descriptor[fd[d]] = d
    BY <1>1 DEF Owned, ListedIsOpen
  <2> QED
    BY <1>3, <1>4, <2>1
<1> QED
  BY <1>5, <1>6, <1>7, <1>8, <1>9 DEF Owned

LEMMA OpenFileOwned ==
    ASSUME TypeOK, QueueKept, Owned, NEW c \in Clients, NEW f \in Fds, OpenFile(c, f)
    PROVE  Owned'
<1>1. /\ descriptor[f] = Free /\ descriptor' = [descriptor EXCEPT ![f] = File] /\ file' = f
      /\ UNCHANGED <<timer, m_timer_lst, fd, events, loop, sockfd, m_sockfd, m_read_buf>>
  BY DEF OpenFile, Lowest, FreeFds, loopVars, userVars, bufferVars, timerVars, queueVars
<1>2. /\ descriptor'[f] = File
      /\ \A g \in Fds \ {f} : descriptor'[g] = descriptor[g]
      /\ Free \notin Clients /\ File \notin Clients
  BY <1>1, ConnectionsAssumption DEF TypeOK, Clients
<1>3. FileIsOpen'
  BY <1>1, <1>2 DEF FileIsOpen
<1>4. SlotsOwned'
  BY <1>1, <1>2 DEF Owned, SlotsOwned
<1>5. EventsOfOpen'
  BY <1>1, <1>2 DEF Owned, EventsOfOpen
<1>6. DealtIsClosed'
  <2>1. CASE sockfd \in Fds
    BY <1>1, <1>2, <2>1 DEF Owned, DealtIsClosed
  <2>2. CASE sockfd \notin Fds
    BY <1>1, <2>2 DEF Owned, DealtIsClosed, TypeOK
  <2> QED
    BY <2>1, <2>2
<1>7. ListedIsOpen'
  <2> SUFFICES ASSUME NEW d \in Listed
               PROVE  fd[d] \in Fds /\ (descriptor'[fd[d]] = d \/ (loop = "deal" /\ timer[sockfd] = d))
    BY <1>1, ListedSame DEF ListedIsOpen
  <2>1. fd[d] \in Fds /\ (descriptor[fd[d]] = d \/ (loop = "deal" /\ timer[sockfd] = d))
    BY DEF Owned, ListedIsOpen
  <2>2. d \in Clients
    BY ElementOfSeq, LenProperties DEF QueueKept, QueuePart, Listed
  <2> QED
    BY <1>1, <1>2, <2>1, <2>2
<1> QED
  BY <1>3, <1>4, <1>5, <1>6, <1>7 DEF Owned

\* The worker closes its own file, and no connection.
LEMMA CloseFileOwned ==
    ASSUME TypeOK, QueueKept, EventsTimed, Owned, NEW c \in Clients, CloseFile(c)
    PROVE  Owned'
<1>1. /\ Close(file) /\ file' = 0
      /\ UNCHANGED <<timer, m_timer_lst, fd, events, loop, sockfd, m_sockfd, m_read_buf>>
  BY DEF CloseFile, loopVars, userVars, bufferVars, timerVars, queueVars
<1>2. /\ \A g \in Fds : descriptor[g] \in Clients => descriptor'[g] = descriptor[g]
      /\ \A g \in Fds : descriptor'[g] \in Clients => descriptor'[g] = descriptor[g]
  <2>1. /\ \A g \in Fds \ {file} : descriptor'[g] = descriptor[g]
        /\ file \in Fds => descriptor'[file] = Free
        /\ Free \notin Clients /\ File \notin Clients
    BY <1>1, Freed DEF TypeOK, Shape
  <2>2. file \in Fds => descriptor[file] = File
    BY DEF Owned, FileIsOpen, Fds
  <2> QED
    BY <2>1, <2>2
<1>3. FileIsOpen'
  BY <1>1 DEF FileIsOpen
<1>4. SlotsOwned'
  BY <1>1, <1>2 DEF Owned, SlotsOwned
<1>5. EventsOfOpen'
  BY <1>1, <1>2 DEF Owned, EventsOfOpen
<1>6. DealtIsClosed'
  BY <1>1, <1>2 DEF Owned, DealtIsClosed, EventsTimed
<1>7. ListedIsOpen'
  <2> SUFFICES ASSUME NEW d \in Listed
               PROVE  fd[d] \in Fds /\ (descriptor'[fd[d]] = d \/ (loop = "deal" /\ timer[sockfd] = d))
    BY <1>1, ListedSame DEF ListedIsOpen
  <2>1. fd[d] \in Fds /\ (descriptor[fd[d]] = d \/ (loop = "deal" /\ timer[sockfd] = d))
    BY DEF Owned, ListedIsOpen
  <2>2. d \in Clients
    BY ElementOfSeq, LenProperties DEF QueueKept, QueuePart, Listed
  <2> QED
    BY <1>1, <1>2, <2>1, <2>2
<1> QED
  BY <1>3, <1>4, <1>5, <1>6, <1>7 DEF Owned

\* close_conn does nothing to a connection that it finds closed.
LEMMA RefuseOwned ==
    ASSUME TypeOK, Owned, Spared', NEW c \in Clients, Refuse(c)
    PROVE  Owned' /\ m_sockfd[fd[c]] = -1 /\ UNCHANGED <<descriptor, armed, mishaps, asker, events>>
<1>1. m_sockfd[fd[c]] = -1
  BY DEF Refuse, Spared
<1>2. /\ m_read_buf' = [m_read_buf EXCEPT ![fd[c]] = "freed"]
      /\ UNCHANGED <<timer, m_timer_lst, fd, events, loop, sockfd, m_sockfd, file>>
      /\ UNCHANGED <<descriptor, armed, mishaps, asker>>
  BY <1>1 DEF Refuse, kernelVars, loopVars, timerVars, queueVars
<1>3. SlotsOwned'
  <2> SUFFICES ASSUME NEW g \in Fds, descriptor[g] \in Clients
               PROVE  m_sockfd[g] = g /\ m_read_buf'[g] = "allocated"
    BY <1>2 DEF SlotsOwned
  <2>1. m_sockfd[g] = g /\ m_read_buf[g] = "allocated" /\ g # -1
    BY DEF Owned, SlotsOwned, Fds
  <2> QED
    BY <1>1, <1>2, <2>1 DEF TypeOK
<1>4. FileIsOpen' /\ EventsOfOpen' /\ DealtIsClosed'
  BY <1>2 DEF Owned, FileIsOpen, EventsOfOpen, DealtIsClosed
<1>5. ListedIsOpen'
  BY <1>2, ListedSame DEF Owned, ListedIsOpen
<1> QED
  BY <1>1, <1>2, <1>3, <1>4, <1>5 DEF Owned

\* A mishap is not forgotten.
LEMMA MishapsKept == ASSUME [Next]_vars PROVE mishaps \subseteq mishaps'
<1>1. CASE MainStep
  BY <1>1 DEF MainStep, EpollWait, Signal, EndBatch, Accept, AcceptNone, AcceptBusy, AcceptOne,
              Read, ReadForever, DropReset, DropRead, Drop, WriteAll, DropWritten, WriteSome,
              Deal, TickEnd, TickOne
<1>2. ASSUME NEW c \in Clients, WorkerStep(c) PROVE mishaps \subseteq mishaps'
  BY <1>2 DEF WorkerStep, NoRequest, Parse, CloseFile, Respond, Refuse, Unset, Decrement, Arm,
              OpenFile
<1>3. CASE \/ \E c \in Clients : Connect(c) \/ Request(c)
           \/ \E c \in Clients : \E how \in {"fin", "reset"} : HangUp(c, how)
           \/ Clock
           \/ UNCHANGED vars
  BY <1>3 DEF Connect, Request, HangUp, Clock, vars
<1> QED
  BY <1>1, <1>2, <1>3 DEF Next

OwnedInv == Spared => Owned

LEMMA OwnedStep ==
    ASSUME IInv, OwnedInv, [Next]_vars
    PROVE  OwnedInv'
<1> SUFFICES ASSUME Spared' PROVE Owned'
  BY DEF OwnedInv
<1>1. Owned /\ "refused" \notin mishaps
  BY MishapsKept DEF OwnedInv, Spared
<1>2. Shape /\ QueueKept /\ TypeOK /\ Core /\ EventsTimed /\ RefusedNoted
  BY TypeOKParts DEF IInv
<1>3. ASSUME NEW f \in Fds, DropReset(f) \/ DropRead(f) \/ DropWritten(f) PROVE Owned'
  BY <1>1, <1>2, <1>3, DropOwned DEF DropReset, DropRead, DropWritten
<1>4. CASE MainStep
  BY <1>1, <1>2, <1>3, <1>4, MainStill, StillOwned, EpollWaitOwned, AcceptOwned, DealOwned,
     TickOwned DEF MainStep
<1>5. ASSUME NEW c \in Clients, WorkerStep(c) PROVE Owned'
  <2>1. ~Unset(c) /\ ~Decrement(c)
    BY <1>1, <1>2 DEF Unset, Decrement, RefusedNoted
  <2> QED
    BY <1>1, <1>2, <1>5, <2>1, OthersStill, StillOwned, CloseFileOwned, OpenFileOwned,
       RefuseOwned DEF WorkerStep
<1>6. CASE \/ \E c \in Clients : Connect(c) \/ Request(c)
           \/ \E c \in Clients : \E how \in {"fin", "reset"} : HangUp(c, how)
           \/ Clock
           \/ UNCHANGED vars
  BY <1>1, <1>6, OthersStill, StillOwned
<1> QED
  BY <1>4, <1>5, <1>6 DEF Next

LEMMA InitOwned == Init => OwnedInv
<1> SUFFICES ASSUME Init PROVE Owned
  BY DEF OwnedInv
<1>1. Listed = {} /\ Free \notin Clients
  BY ConnectionsAssumption DEF Init, QueueInit, Listed, Clients
<1> QED
  BY <1>1 DEF Init, Owned, FileIsOpen, SlotsOwned, EventsOfOpen, DealtIsClosed, ListedIsOpen

-----------------------------------------------------------------------------
(* AnswersOwn *)

\* The kernel holds an interest in connections only.
ArmedIsOpen == \A f \in Fds : armed[f] # "none" => descriptor[f] \in Clients

\* Writability is asked for when the slot has the answer for its connection.
AnswerIsOwn ==
    \A f \in Fds : armed[f] = "out" \/ events[f] = "out" => asker[f] = descriptor[f]

\* A worker's connection is open, and nothing is to be written to it.
Working(c) ==
    /\ fd[c] \in Fds /\ descriptor[fd[c]] = c
    /\ armed[fd[c]] # "out" /\ events[fd[c]] # "out"
    /\ job[c] = "arm" => asker[fd[c]] = c
JobsOwn == \A c \in Clients : job[c] # "none" => Working(c)

Answered == AnswerIsOwn /\ JobsOwn
AnsweredInv == ArmedIsOpen /\ (mishaps = {} => Answered)

LEMMA InitAnswered == Init => AnsweredInv
  BY DEF Init, AnsweredInv, ArmedIsOpen, Answered, AnswerIsOwn, JobsOwn

\* modfd changes nothing but the interest in a connection.
LEMMA Modfd ==
    ASSUME TypeOK, NEW f, NEW ev, armed' = modfd(f, ev)
    PROVE  /\ \A g \in Fds \ {f} : armed'[g] = armed[g]
           /\ f \in Fds => \/ armed'[f] = armed[f]
                           \/ armed'[f] = ev /\ descriptor[f] \in Clients
           /\ f \in Fds /\ m_sockfd[f] # -1 /\ descriptor[f] \in Clients => armed'[f] = ev
  BY DEF modfd, TypeOK

LEMMA ModfdArmed ==
    ASSUME TypeOK, ArmedIsOpen, UNCHANGED descriptor, NEW f, NEW ev, armed' = modfd(f, ev)
    PROVE  ArmedIsOpen'
  BY Modfd DEF ArmedIsOpen

LEMMA CloseArmed ==
    ASSUME TypeOK, ArmedIsOpen, NEW f, Close(f)
    PROVE  ArmedIsOpen' /\ \A g \in Fds : armed'[g] = IF g = f THEN "none" ELSE armed[g]
<1>1. \A g \in Fds : armed'[g] = IF g = f THEN "none" ELSE armed[g]
  BY DEF Close, TypeOK
<1>2. \A g \in Fds \ {f} : descriptor'[g] = descriptor[g]
  BY Freed DEF TypeOK, Shape
<1> QED
  BY <1>1, <1>2 DEF ArmedIsOpen

LEMMA ArmedStep ==
    ASSUME TypeOK, ArmedIsOpen, [Next]_vars
    PROVE  ArmedIsOpen'
<1>1. ASSUME UNCHANGED <<descriptor, armed>> PROVE ArmedIsOpen'
  BY <1>1 DEF ArmedIsOpen
<1>2. CASE MainStep
  <2>1. CASE EpollWait
    BY <2>1 DEF EpollWait, ArmedIsOpen
  <2>2. CASE \/ Signal \/ EndBatch \/ Accept \/ AcceptNone \/ TickEnd
             \/ \E c \in Clients : AcceptBusy(c)
             \/ \E f \in Fds : ReadForever(f)
    BY <1>1, <2>2 DEF Signal, EndBatch, Accept, AcceptNone, TickEnd, AcceptBusy, ReadForever, kernelVars
  <2>3. ASSUME NEW c \in Clients, NEW f \in Fds, AcceptOne(c, f) PROVE ArmedIsOpen'
    BY <2>3 DEF AcceptOne, ArmedIsOpen, TypeOK
  <2>4. ASSUME NEW f \in Fds, Read(f) \/ WriteAll(f) \/ \E n \in 1..Parts : WriteSome(f, n)
        PROVE  ArmedIsOpen'
    BY <2>4, ModfdArmed DEF Read, WriteAll, WriteSome
  <2>5. ASSUME NEW f \in Fds, Drop(f) PROVE ArmedIsOpen'
    BY <1>1, <2>5, CloseArmed DEF Drop, kernelVars
  <2>6. CASE Deal \/ \E t \in Clients : TickOne(t)
    BY <2>6, CloseArmed DEF Deal, TickOne
  <2> QED
    BY <1>2, <2>1, <2>2, <2>3, <2>4, <2>5, <2>6 DEF MainStep, DropReset, DropRead, DropWritten
<1>3. ASSUME NEW c \in Clients, WorkerStep(c) PROVE ArmedIsOpen'
  <2>1. CASE Parse(c) \/ Respond(c) \/ Unset(c) \/ Decrement(c)
    BY <1>1, <2>1 DEF Parse, Respond, Unset, Decrement, kernelVars
  <2>2. CASE NoRequest(c) \/ Arm(c)
    BY <2>2, ModfdArmed DEF NoRequest, Arm
  <2>3. CASE CloseFile(c) \/ Refuse(c)
    BY <1>1, <2>3, CloseArmed DEF CloseFile, Refuse, kernelVars
  <2>4. ASSUME NEW f \in Fds, OpenFile(c, f) PROVE ArmedIsOpen'
    <3>1. armed[f] = "none"
      BY <2>4, ConnectionsAssumption DEF OpenFile, Lowest, FreeFds, ArmedIsOpen, Clients
    <3> QED
      BY <2>4, <3>1 DEF OpenFile, ArmedIsOpen, TypeOK
  <2> QED
    BY <1>3, <2>1, <2>2, <2>3, <2>4 DEF WorkerStep
<1>4. CASE \/ \E c \in Clients : Connect(c) \/ Request(c)
           \/ \E c \in Clients : \E how \in {"fin", "reset"} : HangUp(c, how)
           \/ Clock
           \/ UNCHANGED vars
  BY <1>1, <1>4 DEF Connect, Request, HangUp, Clock, vars, kernelVars
<1> QED
  BY <1>2, <1>3, <1>4 DEF Next

\* Nothing is asked for, answered or given to a worker.
Idle ==
    /\ UNCHANGED <<descriptor, asker, fd, job>>
    /\ \A f \in Fds : armed'[f] = "out" => armed[f] = "out"
    /\ \A f \in Fds : events'[f] = "out" => events[f] = "out" \/ armed[f] = "out"

LEMMA IdleAnswered == ASSUME Answered, Idle PROVE Answered'
<1>1. AnswerIsOwn'
  BY DEF Answered, Idle, AnswerIsOwn
<1>2. ASSUME NEW c \in Clients, job'[c] # "none" PROVE Working(c)'
  <2>1. Working(c)
    BY <1>2 DEF Answered, Idle, JobsOwn
  <2> QED
    BY <2>1 DEF Idle, Working
<1> QED
  BY <1>1, <1>2 DEF Answered, JobsOwn

LEMMA MainIdle ==
    ASSUME TypeOK,
           \/ EpollWait \/ Signal \/ EndBatch \/ Accept \/ AcceptNone \/ TickEnd
           \/ \E c \in Clients : AcceptBusy(c)
           \/ \E f \in Fds : ReadForever(f)
    PROVE  Idle
<1>1. UNCHANGED <<descriptor, asker, fd, job>>
  BY DEF EpollWait, Signal, EndBatch, Accept, AcceptNone, TickEnd, AcceptBusy, ReadForever,
         kernelVars, userVars, bufferVars, jobVars
<1>2. CASE EpollWait
  <2>1. \A f \in Fds : events'[f] = Ready(f)
    BY <1>2 DEF EpollWait, Fds, Listen
  <2>2. \A f \in Fds : Ready(f) = "out" => armed[f] = "out"
    BY DEF Ready
  <2> QED
    BY <1>1, <1>2, <2>1, <2>2 DEF EpollWait, Idle
<1>3. CASE \/ Signal \/ EndBatch \/ Accept \/ AcceptNone \/ TickEnd
           \/ \E c \in Clients : AcceptBusy(c)
           \/ \E f \in Fds : ReadForever(f)
  <2>1. armed' = armed /\ \A f \in Fds : events'[f] = "out" => events[f] = "out"
    BY <1>3 DEF Signal, EndBatch, Accept, AcceptNone, TickEnd, AcceptBusy, ReadForever,
                loopVars, kernelVars, TypeOK
  <2> QED
    BY <1>1, <2>1 DEF Idle
<1> QED
  BY <1>2, <1>3

LEMMA OthersIdle ==
    ASSUME \/ \E c \in Clients : Connect(c) \/ Request(c)
           \/ \E c \in Clients : \E how \in {"fin", "reset"} : HangUp(c, how)
           \/ Clock
           \/ UNCHANGED vars
    PROVE  Idle
  BY DEF Connect, Request, HangUp, Clock, vars, loopVars, kernelVars, userVars, bufferVars,
         jobVars, Idle

\* No worker has the connection that is closed.
LEMMA CloseAnswered ==
    ASSUME TypeOK, ArmedIsOpen, Answered, NEW f \in Fds, Close(f),
           UNCHANGED <<asker, fd>>, events'[f] # "out",
           \A g \in Fds : events'[g] = "out" => events[g] = "out",
           \A c \in Clients : job'[c] # "none" =>
               job[c] # "none" /\ fd[c] # f /\ (job'[c] = "arm" => job[c] = "arm")
    PROVE  Answered'
<1>1. \A g \in Fds : armed'[g] = IF g = f THEN "none" ELSE armed[g]
  BY CloseArmed
<1>2. \A g \in Fds \ {f} : descriptor'[g] = descriptor[g]
  BY Freed DEF TypeOK, Shape
<1>3. AnswerIsOwn'
  BY <1>1, <1>2 DEF Answered, AnswerIsOwn
<1>4. ASSUME NEW c \in Clients, job'[c] # "none" PROVE Working(c)'
  <2>1. Working(c) /\ fd[c] # f /\ (job'[c] = "arm" => job[c] = "arm")
    BY <1>4 DEF Answered, JobsOwn
  <2> QED
    BY <1>1, <1>2, <2>1 DEF Working
<1> QED
  BY <1>3, <1>4 DEF Answered, JobsOwn

\* To close it would be a mishap.
LEMMA NobodyWorks ==
    ASSUME Answered, NEW f \in Fds, Mishap(f) = {}, NEW c \in Clients, job[c] # "none"
    PROVE  fd[c] # f
  BY DEF Answered, JobsOwn, Working, Mishap

LEMMA DropAnswered ==
    ASSUME TypeOK, Core, ArmedIsOpen, Owned, Answered, mishaps' = {}, NEW f \in Fds,
           events[f] # "none", Drop(f), UNCHANGED asker
    PROVE  Answered'
<1>1. Close(f) /\ Mishap(f) = {}
  BY DropOwned
<1>2. events' = [events EXCEPT ![f] = "none"] /\ UNCHANGED <<fd, job>>
  BY DEF Drop, Handled, jobVars
<1> QED
  BY <1>1, <1>2, NobodyWorks, CloseAnswered DEF TypeOK

LEMMA DealAnswered ==
    ASSUME TypeOK, EventsTimed, ArmedIsOpen, Answered, mishaps' = {}, Deal
    PROVE  Answered'
<1>1. Close(sockfd) /\ Mishap(sockfd) = {} /\ UNCHANGED <<asker, fd, job, events>>
  BY DEF Deal, userVars, bufferVars, jobVars
<1>2. sockfd \in Fds /\ events[sockfd] = "none"
  BY DEF Deal, EventsTimed
<1> QED
  BY <1>1, <1>2, NobodyWorks, CloseAnswered

LEMMA TickAnswered ==
    ASSUME TypeOK, QueueKept, EventsTimed, ArmedIsOpen, Owned, Answered, mishaps' = {},
           NEW t \in Clients, TickOne(t)
    PROVE  Answered'
<1>1. /\ Close(fd[t]) /\ Mishap(fd[t]) = {} /\ UNCHANGED <<asker, fd, job, events>>
      /\ loop = "tick" /\ tick(t)
  BY DEF TickOne, userVars, bufferVars, loopVars, jobVars
<1>2. fd[t] \in Fds
  <2>1. t \in Listed
    BY <1>1, LenProperties DEF tick, Listed, QueueKept, QueuePart
  <2> QED
    BY <2>1 DEF Owned, ListedIsOpen
<1>3. events[fd[t]] = "none"
  BY <1>1, <1>2 DEF EventsTimed
<1> QED
  BY <1>1, <1>2, <1>3, NobodyWorks, CloseAnswered

LEMMA AcceptAnswered ==
    ASSUME TypeOK, Core, ArmedIsOpen, Owned, Answered, NEW c \in Clients, NEW f \in Fds,
           AcceptOne(c, f)
    PROVE  Answered'
<1>1. /\ c \in backlog /\ descriptor[f] = Free
      /\ descriptor' = [descriptor EXCEPT ![f] = c]
      /\ armed' = [armed EXCEPT ![f] = "in"]
      /\ asker' = [asker EXCEPT ![f] = NULL]
      /\ fd' = [fd EXCEPT ![c] = f]
      /\ UNCHANGED <<events, job>>
      /\ Free \notin Clients
  BY ConnectionsAssumption DEF AcceptOne, Lowest, FreeFds, loopVars, Clients
<1>2. events[f] = "none"
  BY <1>1 DEF Owned, EventsOfOpen
<1>3. AnswerIsOwn'
  BY <1>1, <1>2 DEF Answered, AnswerIsOwn, TypeOK
<1>4. ASSUME NEW d \in Clients, job[d] # "none" PROVE Working(d)'
  <2>1. Working(d)
    BY <1>4 DEF Answered, JobsOwn
  <2>2. d # c
    <3>1. timer[fd[d]] = d /\ d \in Listed
      BY <2>1 DEF Working, Core, OpenIsTimed
    <3> QED
      BY <1>1, <3>1 DEF Core, ListedAccepted
  <2>3. fd'[d] = fd[d] /\ fd[d] # f
    BY <1>1, <2>1, <2>2 DEF Working, TypeOK
  <2> QED
    BY <1>1, <2>1, <2>3 DEF Working, TypeOK
<1> QED
  BY <1>1, <1>3, <1>4 DEF Answered, JobsOwn

\* What is read is armed for reading, and then given to a worker.
LEMMA ReadAnswered ==
    ASSUME TypeOK, Core, Owned, Answered, NEW f \in Fds, Read(f)
    PROVE  Answered'
<1> DEFINE c == descriptor[f]
<1>1. /\ c \in Clients /\ m_sockfd[f] # -1
      /\ events' = [events EXCEPT ![f] = "none"]
      /\ armed' = modfd(f, "in")
      /\ job' = IF m_inpool[f] THEN job ELSE [job EXCEPT ![c] = "pool"]
      /\ UNCHANGED <<descriptor, asker, fd>>
  BY DEF Read, Handled
<1>2. fd[c] = f
  BY <1>1 DEF Core, OpenIsTimed, TimersPlaced
<1>3. /\ armed'[f] = "in" /\ events'[f] = "none"
      /\ \A g \in Fds \ {f} : armed'[g] = armed[g] /\ events'[g] = events[g]
  BY <1>1, Modfd DEF TypeOK
<1>4. AnswerIsOwn'
  BY <1>1, <1>3 DEF Answered, AnswerIsOwn
<1>5. ASSUME NEW d \in Clients, job'[d] # "none" PROVE Working(d)'
  <2>1. job'[d] = job[d] \/ (d = c /\ job'[d] = "pool")
    BY <1>1 DEF TypeOK
  <2>2. CASE job'[d] = job[d]
    <3>1. Working(d)
      BY <1>5, <2>2 DEF Answered, JobsOwn
    <3> QED
      BY <1>1, <1>3, <2>2, <3>1 DEF Working
  <2>3. CASE d = c /\ job'[d] = "pool"
    BY <1>1, <1>2, <1>3, <2>3 DEF Working
  <2> QED
    BY <2>1, <2>2, <2>3
<1> QED
  BY <1>4, <1>5 DEF Answered, JobsOwn

\* No worker has a connection that is written to.
LEMMA WriteAnswered ==
    ASSUME TypeOK, Owned, Answered, NEW f \in Fds,
           WriteAll(f) \/ \E n \in 1..Parts : WriteSome(f, n)
    PROVE  Answered'
<1>1. /\ events[f] = "out" /\ events' = [events EXCEPT ![f] = "none"]
      /\ UNCHANGED <<descriptor, fd, job>>
      /\ \/ armed' = modfd(f, "in") /\ asker' = [asker EXCEPT ![f] = NULL]
         \/ armed' = modfd(f, "out") /\ asker' = asker
  BY DEF WriteAll, WriteSome, Writable, Handled, Reset, jobVars
<1>2. descriptor[f] \in Clients /\ m_sockfd[f] = f /\ f # -1
  BY <1>1 DEF Owned, EventsOfOpen, SlotsOwned, Fds
<1>3. /\ events'[f] = "none"
      /\ \A g \in Fds \ {f} : armed'[g] = armed[g] /\ events'[g] = events[g] /\ asker'[g] = asker[g]
      /\ armed'[f] = "in" \/ (armed'[f] = "out" /\ asker'[f] = asker[f])
  BY <1>1, <1>2, Modfd DEF TypeOK
<1>4. asker[f] = descriptor[f]
  BY <1>1 DEF Answered, AnswerIsOwn
<1>5. AnswerIsOwn'
  BY <1>1, <1>3, <1>4 DEF Answered, AnswerIsOwn
<1>6. ASSUME NEW d \in Clients, job[d] # "none" PROVE Working(d)'
  <2>1. Working(d) /\ fd[d] # f
    BY <1>1, <1>6 DEF Answered, JobsOwn, Working
  <2> QED
    BY <1>1, <1>3, <2>1 DEF Working
<1> QED
  BY <1>1, <1>5, <1>6 DEF Answered, JobsOwn

\* The workers

LEMMA OthersKeepWorking ==
    ASSUME Answered, NEW c \in Clients, UNCHANGED <<descriptor, fd, events>>,
           NEW d \in Clients, d # c, job'[d] = job[d], job[d] # "none",
           job[c] # "none",
           \A g \in Fds \ {fd[c]} : armed'[g] = armed[g] /\ asker'[g] = asker[g]
    PROVE  Working(d)'
<1>1. Working(c) /\ Working(d)
  BY DEF Answered, JobsOwn
<1> QED
  BY <1>1 DEF Working

LEMMA NoRequestAnswered ==
    ASSUME TypeOK, Answered, NEW c \in Clients, NoRequest(c)
    PROVE  Answered'
<1>1. /\ job[c] = "pool" /\ armed' = modfd(fd[c], "in") /\ job' = [job EXCEPT ![c] = "none"]
      /\ UNCHANGED <<descriptor, asker, fd, events>>
  BY DEF NoRequest, Goto, userVars, bufferVars, loopVars
<1>2. Working(c)
  BY <1>1 DEF Answered, JobsOwn
<1>3. /\ \A g \in Fds \ {fd[c]} : armed'[g] = armed[g]
      /\ armed'[fd[c]] # "out"
  BY <1>1, <1>2, Modfd DEF Working
<1>4. AnswerIsOwn'
  BY <1>1, <1>3 DEF Answered, AnswerIsOwn
<1>5. ASSUME NEW d \in Clients, job'[d] # "none" PROVE Working(d)'
  BY <1>1, <1>3, <1>5, OthersKeepWorking, ZenonT(20) DEF TypeOK
<1> QED
  BY <1>4, <1>5 DEF Answered, JobsOwn

LEMMA RespondAnswered ==
    ASSUME TypeOK, Answered, NEW c \in Clients, Respond(c)
    PROVE  Answered'
<1>1. /\ job[c] = "busy" /\ asker' = [asker EXCEPT ![fd[c]] = c]
      /\ job' = [job EXCEPT ![c] = "arm"]
      /\ UNCHANGED <<descriptor, armed, fd, events>>
  BY DEF Respond, Goto, kernelVars, loopVars
<1>2. Working(c)
  BY <1>1 DEF Answered, JobsOwn
<1>3. asker'[fd[c]] = c /\ \A g \in Fds \ {fd[c]} : asker'[g] = asker[g]
  BY <1>1, <1>2 DEF Working, TypeOK
<1>4. AnswerIsOwn'
  BY <1>1, <1>2, <1>3 DEF Answered, AnswerIsOwn, Working
<1>5. ASSUME NEW d \in Clients, job'[d] # "none" PROVE Working(d)'
  <2>1. CASE d = c
    BY <1>1, <1>2, <1>3, <2>1 DEF Working
  <2>2. CASE d # c
    BY <1>1, <1>3, <1>5, <2>2, OthersKeepWorking DEF TypeOK
  <2> QED
    BY <2>1, <2>2
<1> QED
  BY <1>4, <1>5 DEF Answered, JobsOwn

LEMMA ArmAnswered ==
    ASSUME TypeOK, Answered, NEW c \in Clients, Arm(c)
    PROVE  Answered'
<1>1. /\ job[c] = "arm" /\ armed' = modfd(fd[c], "out") /\ job' = [job EXCEPT ![c] = "none"]
      /\ UNCHANGED <<descriptor, asker, fd, events>>
  BY DEF Arm, Goto, userVars, bufferVars, loopVars
<1>2. Working(c) /\ asker[fd[c]] = c
  BY <1>1 DEF Answered, JobsOwn, Working
<1>3. \A g \in Fds \ {fd[c]} : armed'[g] = armed[g]
  BY <1>1, Modfd
<1>4. AnswerIsOwn'
  BY <1>1, <1>2, <1>3 DEF Answered, AnswerIsOwn, Working
<1>5. ASSUME NEW d \in Clients, job'[d] # "none" PROVE Working(d)'
  BY <1>1, <1>3, <1>5, OthersKeepWorking, ZenonT(20) DEF TypeOK
<1> QED
  BY <1>4, <1>5 DEF Answered, JobsOwn

\* The number that a file is given is of no connection, and has no interest.
LEMMA OpenFileAnswered ==
    ASSUME TypeOK, ArmedIsOpen, Owned, Answered, NEW c \in Clients, NEW f \in Fds, OpenFile(c, f)
    PROVE  Answered'
<1>1. /\ job[c] = "busy" /\ descriptor[f] = Free
      /\ descriptor' = [descriptor EXCEPT ![f] = File]
      /\ job' = [job EXCEPT ![c] = "file"]
      /\ UNCHANGED <<armed, asker, fd, events>>
      /\ Free \notin Clients
  BY ConnectionsAssumption
     DEF OpenFile, Lowest, FreeFds, Goto, userVars, bufferVars, loopVars, Clients
<1>2. armed[f] = "none" /\ events[f] = "none"
  BY <1>1 DEF ArmedIsOpen, Owned, EventsOfOpen
<1>3. AnswerIsOwn'
  BY <1>1, <1>2 DEF Answered, AnswerIsOwn, TypeOK
<1>4. ASSUME NEW d \in Clients, job'[d] # "none" PROVE Working(d)'
  <2>1. Working(d) /\ fd[d] # f /\ (job'[d] = "arm" => job[d] = "arm")
    BY <1>1, <1>4 DEF Answered, JobsOwn, Working, TypeOK
  <2> QED
    BY <1>1, <2>1 DEF Working, TypeOK
<1> QED
  BY <1>3, <1>4 DEF Answered, JobsOwn

LEMMA CloseFileAnswered ==
    ASSUME TypeOK, ArmedIsOpen, Owned, Answered, NEW c \in Clients, CloseFile(c)
    PROVE  Answered'
<1>1. /\ job[c] = "file" /\ Close(file) /\ job' = [job EXCEPT ![c] = "busy"]
      /\ UNCHANGED <<asker, fd, events>>
      /\ File \notin Clients
  BY ConnectionsAssumption DEF CloseFile, Goto, userVars, bufferVars, loopVars, Clients
<1>2. \A d \in Clients : job'[d] # "none" =>
          job[d] # "none" /\ (job'[d] = "arm" => job[d] = "arm")
  BY <1>1 DEF TypeOK
<1>3. CASE file \in Fds
  <2>1. descriptor[file] = File
    BY <1>3 DEF Owned, FileIsOpen, Fds
  <2>2. events[file] = "none"
    BY <1>1, <1>3, <2>1 DEF Owned, EventsOfOpen
  <2>3. \A d \in Clients : job[d] # "none" => fd[d] # file
    BY <1>1, <2>1 DEF Answered, JobsOwn, Working
  <2> QED
    BY <1>1, <1>2, <1>3, <2>2, <2>3, CloseAnswered
<1>4. CASE file \notin Fds
  <2>1. \A g \in Fds : descriptor'[g] = descriptor[g] /\ armed'[g] = armed[g]
    BY <1>1, <1>4 DEF Close, TypeOK
  <2>2. AnswerIsOwn'
    BY <1>1, <2>1 DEF Answered, AnswerIsOwn
  <2>3. ASSUME NEW d \in Clients, job'[d] # "none" PROVE Working(d)'
    <3>1. Working(d) /\ (job'[d] = "arm" => job[d] = "arm")
      BY <1>2, <2>3 DEF Answered, JobsOwn
    <3> QED
      BY <1>1, <2>1, <3>1 DEF Working
  <2> QED
    BY <2>2, <2>3 DEF Answered, JobsOwn
<1> QED
  BY <1>3, <1>4

LEMMA ParseAnswered ==
    ASSUME TypeOK, Answered, NEW c \in Clients, Parse(c)
    PROVE  Answered'
<1>1. /\ job[c] = "pool" /\ job' = [job EXCEPT ![c] = "busy"]
      /\ UNCHANGED <<descriptor, armed, asker, fd, events>>
  BY DEF Parse, Goto, kernelVars, userVars, bufferVars, loopVars
<1>2. AnswerIsOwn'
  BY <1>1 DEF Answered, AnswerIsOwn
<1>3. ASSUME NEW d \in Clients, job'[d] # "none" PROVE Working(d)'
  <2>1. Working(d) /\ (job'[d] = "arm" => job[d] = "arm")
    BY <1>1, <1>3 DEF Answered, JobsOwn, TypeOK
  <2> QED
    BY <1>1, <2>1 DEF Working
<1> QED
  BY <1>2, <1>3 DEF Answered, JobsOwn

\* A worker would refuse an open connection, which is a mishap.
LEMMA NoRefusal ==
    ASSUME Owned, Answered, mishaps' = {}, NEW c \in Clients, Refuse(c)
    PROVE  FALSE
<1>1. m_sockfd[fd[c]] = -1 /\ job[c] # "none"
  BY DEF Refuse
<1>2. fd[c] \in Fds /\ descriptor[fd[c]] = c
  BY <1>1 DEF Answered, JobsOwn, Working
<1> QED
  BY <1>1, <1>2 DEF Owned, SlotsOwned, Fds

LEMMA AnsweredStep ==
    ASSUME IInv, OwnedInv, AnsweredInv, [Next]_vars
    PROVE  AnsweredInv'
<1>1. TypeOK /\ QueueKept /\ Core /\ EventsTimed /\ RefusedNoted /\ ArmedIsOpen
  BY TypeOKParts DEF IInv, AnsweredInv
<1>2. ArmedIsOpen'
  BY <1>1, ArmedStep
<1>3. SUFFICES ASSUME mishaps' = {} PROVE Answered'
  BY <1>2 DEF AnsweredInv
<1>4. mishaps = {}
  BY <1>3, MishapsKept
<1>5. Owned /\ Answered
  BY <1>4 DEF OwnedInv, Spared, AnsweredInv
<1>6. CASE MainStep
  <2>1. ASSUME NEW f \in Fds, DropReset(f) \/ DropRead(f) \/ DropWritten(f) PROVE Answered'
    BY <1>1, <1>3, <1>5, <2>1, DropAnswered DEF DropReset, DropRead, DropWritten
  <2> QED
    BY <1>1, <1>3, <1>5, <1>6, <2>1, MainIdle, IdleAnswered, DealAnswered, TickAnswered,
       AcceptAnswered, ReadAnswered, WriteAnswered DEF MainStep
<1>7. ASSUME NEW c \in Clients, WorkerStep(c) PROVE Answered'
  <2>1. ~Unset(c) /\ ~Decrement(c) /\ ~Refuse(c)
    BY <1>1, <1>3, <1>4, <1>5, NoRefusal DEF Unset, Decrement, RefusedNoted
  <2> QED
    BY <1>1, <1>5, <1>7, <2>1, NoRequestAnswered, ParseAnswered, RespondAnswered, ArmAnswered,
       OpenFileAnswered, CloseFileAnswered DEF WorkerStep
<1>8. CASE \/ \E c \in Clients : Connect(c) \/ Request(c)
           \/ \E c \in Clients : \E how \in {"fin", "reset"} : HangUp(c, how)
           \/ Clock
           \/ UNCHANGED vars
  BY <1>5, <1>8, OthersIdle, IdleAnswered
<1> QED
  BY <1>6, <1>7, <1>8 DEF Next

\* A timer that will expire is of the connection on its descriptor.
THEOREM TimersAlwaysOwn == Spec => []TimersOwn
<1>1. IInv /\ OwnedInv => TimersOwn
  BY DEF OwnedInv, Spared, Owned, ListedIsOpen, TimersOwn
<1>2. Init => OwnedInv
  BY InitOwned
<1>3. IInv /\ OwnedInv /\ [Next]_vars => OwnedInv'
  BY OwnedStep
<1> QED
  BY <1>1, <1>2, <1>3, InitIInv, StepIInv, PTL DEF Spec

\* An event in the batch is of a connection that is open.
THEOREM EventsAlwaysCurrent == Spec => []EventsCurrent
<1>1. IInv /\ OwnedInv => EventsCurrent
  BY DEF OwnedInv, Spared, Owned, EventsOfOpen, SlotsOwned, EventsCurrent
<1>2. Init => OwnedInv
  BY InitOwned
<1>3. IInv /\ OwnedInv /\ [Next]_vars => OwnedInv'
  BY OwnedStep
<1> QED
  BY <1>1, <1>2, <1>3, InitIInv, StepIInv, PTL DEF Spec

\* Until there is a mishap, a client is sent the answer to its own request.
THEOREM AnswersAlwaysOwn == Spec => []AnswersOwn
<1>1. OwnedInv /\ AnsweredInv => AnswersOwn
  BY DEF AnsweredInv, Answered, AnswerIsOwn, AnswersOwn
<1>2. Init => OwnedInv /\ AnsweredInv
  BY InitOwned, InitAnswered
<1>3. IInv /\ OwnedInv /\ AnsweredInv /\ [Next]_vars => OwnedInv' /\ AnsweredInv'
  BY OwnedStep, AnsweredStep
<1> QED
  BY <1>1, <1>2, <1>3, InitIInv, StepIInv, PTL DEF Spec
=============================================================================

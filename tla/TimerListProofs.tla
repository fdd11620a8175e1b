--------------------------- MODULE TimerListProofs ---------------------------
(***************************************************************************)
(* Proofs about TimerList, for any number of timers: the links of          *)
(* sort_timer_lst always lead through the timers that exist, forwards and  *)
(* backwards, and every operation on the pointers does to the list what    *)
(* TimerQueue, which Connections is built on, says it does.                *)
(*                                                                         *)
(* The pointers are related to the queue they stand for (Represents), not  *)
(* to Chain: what Chain and the loop of the private add_timer compute by   *)
(* following the pointers is found from the queue (ChainIs, StopFromIs).   *)
(* Most lemmas are about pointers and queues given as parameters, so that  *)
(* they apply to those before a step, after it, and in the middle of it.   *)
(***************************************************************************)
EXTENDS TimerList, SequenceTheorems, FiniteSetTheorems, WellFoundedInduction, TLAPS

-----------------------------------------------------------------------------
(* Sequences *)

\* What stands where after an insertion behind place k.
LEMMA InsertedProperties ==
    ASSUME NEW S, NEW q \in Seq(S), NEW k \in 0 .. Len(q), NEW t \in S
    PROVE  /\ Queue!Inserted(q, k, t) \in Seq(S)
           /\ Len(Queue!Inserted(q, k, t)) = Len(q) + 1
           /\ \A i \in 1 .. k : Queue!Inserted(q, k, t)[i] = q[i]
           /\ Queue!Inserted(q, k, t)[k + 1] = t
           /\ \A i \in k + 1 .. Len(q) : Queue!Inserted(q, k, t)[i + 1] = q[i]
<1>0. Len(q) \in Nat /\ k \in Int /\ \A i \in 1 .. Len(q) : q[i] \in S
  BY LenProperties, ElementOfSeq
<1> DEFINE front == SubSeq(q, 1, k)
           rear == SubSeq(q, k + 1, Len(q))
<1>1. /\ front \in Seq(S) /\ Len(front) = k
      /\ \A i \in 1 .. k : front[i] = q[i]
  <2>1. \A i \in 1 .. k : q[i] \in S
    BY <1>0
  <2>2. /\ front \in Seq(S)
        /\ Len(front) = IF 1 <= k THEN k - 1 + 1 ELSE 0
        /\ \A i \in 1 .. k - 1 + 1 : front[i] = q[1 + i - 1]
    BY <1>0, <2>1, SubSeqProperties
  <2> HIDE DEF front
  <2> QED
    BY <1>0, <2>2
<1>2. /\ rear \in Seq(S) /\ Len(rear) = Len(q) - k
      /\ \A i \in 1 .. Len(q) - k : rear[i] = q[k + i]
  <2>1. \A i \in k + 1 .. Len(q) : q[i] \in S
    BY <1>0
  <2>2. /\ rear \in Seq(S)
        /\ Len(rear) = IF k + 1 <= Len(q) THEN Len(q) - (k + 1) + 1 ELSE 0
        /\ \A i \in 1 .. Len(q) - (k + 1) + 1 : rear[i] = q[k + 1 + i - 1]
    BY <1>0, <2>1, SubSeqProperties
  <2> HIDE DEF rear
  <2> QED
    BY <1>0, <2>2
<1> HIDE DEF front, rear
<1>3. /\ <<t>> \in Seq(S) /\ Len(<<t>>) = 1 /\ <<t>>[1] = t
  OBVIOUS
<1> DEFINE upto == front \o <<t>>
<1>4. /\ upto \in Seq(S) /\ Len(upto) = k + 1
      /\ \A i \in 1 .. k : upto[i] = q[i]
      /\ upto[k + 1] = t
  <2>1. /\ upto \in Seq(S)
        /\ Len(upto) = Len(front) + Len(<<t>>)
        /\ \A i \in 1 .. Len(front) + Len(<<t>>) :
              upto[i] = IF i <= Len(front) THEN front[i] ELSE <<t>>[i - Len(front)]
    BY <1>1, <1>3, ConcatProperties
  <2> HIDE DEF upto
  <2>2. Len(upto) = k + 1 /\ \A i \in 1 .. k : upto[i] = q[i]
    BY <1>0, <1>1, <1>3, <2>1
  <2>3. upto[k + 1] = <<t>>[1]
    <3>1. k + 1 \in 1 .. Len(front) + Len(<<t>>) /\ ~ (k + 1 <= Len(front))
      BY <1>0, <1>1, <1>3
    <3>2. k + 1 - Len(front) = 1
      BY <1>0, <1>1
    <3> QED
      BY <2>1, <3>1, <3>2
  <2> QED
    BY <1>3, <2>1, <2>2, <2>3
<1> HIDE DEF upto
<1> DEFINE r == upto \o rear
<1>5. /\ r \in Seq(S)
      /\ Len(r) = Len(upto) + Len(rear)
      /\ \A i \in 1 .. Len(upto) + Len(rear) :
            r[i] = IF i <= Len(upto) THEN upto[i] ELSE rear[i - Len(upto)]
  BY <1>2, <1>4, ConcatProperties
<1>6. Queue!Inserted(q, k, t) = r
  BY DEF Queue!Inserted, r, upto, front, rear
<1> HIDE DEF r
<1>7. Len(r) = Len(q) + 1
  BY <1>0, <1>2, <1>4, <1>5
<1>8. \A i \in 1 .. k : r[i] = q[i]
  BY <1>0, <1>2, <1>4, <1>5, SMTT(20)
<1>9. r[k + 1] = t
  BY <1>0, <1>2, <1>4, <1>5, SMTT(20)
<1>10. \A i \in k + 1 .. Len(q) : r[i + 1] = q[i]
  <2> TAKE i \in k + 1 .. Len(q)
  <2>0. /\ i + 1 \in 1 .. Len(upto) + Len(rear) /\ ~ (i + 1 <= Len(upto))
        /\ i + 1 - Len(upto) = i - k
    BY <1>0, <1>2, <1>4
  <2>1. r[i + 1] = rear[i - k]
    BY <2>0, <1>5
  <2>2. i - k \in 1 .. Len(q) - k /\ k + (i - k) = i
    BY <1>0
  <2>3. rear[i - k] = q[k + (i - k)]
    BY <1>2, <2>2
  <2> QED
    BY <2>1, <2>2, <2>3
<1> QED
  BY <1>5, <1>6, <1>7, <1>8, <1>9, <1>10

\* ... and after the deletion of place k.
LEMMA DeletedProperties ==
    ASSUME NEW S, NEW q \in Seq(S), NEW k \in 1 .. Len(q)
    PROVE  /\ Queue!Deleted(q, k) \in Seq(S)
           /\ Len(Queue!Deleted(q, k)) = Len(q) - 1
           /\ \A i \in 1 .. k - 1 : Queue!Deleted(q, k)[i] = q[i]
           /\ \A i \in k .. Len(q) - 1 : Queue!Deleted(q, k)[i] = q[i + 1]
<1>0. Len(q) \in Nat /\ k \in Int /\ \A i \in 1 .. Len(q) : q[i] \in S
  BY LenProperties, ElementOfSeq
<1> DEFINE front == SubSeq(q, 1, k - 1)
           rear == SubSeq(q, k + 1, Len(q))
<1>1. /\ front \in Seq(S) /\ Len(front) = k - 1
      /\ \A i \in 1 .. k - 1 : front[i] = q[i]
  <2>1. \A i \in 1 .. k - 1 : q[i] \in S
    BY <1>0
  <2>2. /\ front \in Seq(S)
        /\ Len(front) = IF 1 <= k - 1 THEN k - 1 - 1 + 1 ELSE 0
        /\ \A i \in 1 .. k - 1 - 1 + 1 : front[i] = q[1 + i - 1]
    BY <1>0, <2>1, SubSeqProperties
  <2> HIDE DEF front
  <2> QED
    BY <1>0, <2>2
<1>2. /\ rear \in Seq(S) /\ Len(rear) = Len(q) - k
      /\ \A i \in 1 .. Len(q) - k : rear[i] = q[k + i]
  <2>1. \A i \in k + 1 .. Len(q) : q[i] \in S
    BY <1>0
  <2>2. /\ rear \in Seq(S)
        /\ Len(rear) = IF k + 1 <= Len(q) THEN Len(q) - (k + 1) + 1 ELSE 0
        /\ \A i \in 1 .. Len(q) - (k + 1) + 1 : rear[i] = q[k + 1 + i - 1]
    BY <1>0, <2>1, SubSeqProperties
  <2> HIDE DEF rear
  <2> QED
    BY <1>0, <2>2
<1> HIDE DEF front, rear
<1> DEFINE r == front \o rear
<1>3. /\ r \in Seq(S)
      /\ Len(r) = Len(front) + Len(rear)
      /\ \A i \in 1 .. Len(front) + Len(rear) :
            r[i] = IF i <= Len(front) THEN front[i] ELSE rear[i - Len(front)]
  BY <1>1, <1>2, ConcatProperties
<1>4. Queue!Deleted(q, k) = r
  BY DEF Queue!Deleted, r, front, rear
<1> HIDE DEF r
<1>5. \A i \in 1 .. k - 1 : r[i] = q[i]
  BY <1>0, <1>1, <1>2, <1>3
<1>6. \A i \in k .. Len(q) - 1 : r[i] = q[i + 1]
  <2> TAKE i \in k .. Len(q) - 1
  <2>1. r[i] = rear[i - (k - 1)]
    BY <1>0, <1>1, <1>2, <1>3
  <2>2. i - (k - 1) \in 1 .. Len(q) - k /\ k + (i - (k - 1)) = i + 1
    BY <1>0
  <2>3. rear[i - (k - 1)] = q[k + (i - (k - 1))]
    BY <1>2, <2>2
  <2> QED
    BY <2>1, <2>2, <2>3
<1>7. Len(r) = Len(q) - 1
  BY <1>0, <1>1, <1>2, <1>3
<1> QED
  BY <1>3, <1>4, <1>5, <1>6, <1>7


-----------------------------------------------------------------------------
(* Pointers *)

\* Chain, of any pointers.
ChainFrom(nxt, h) ==
    LET From[t \in Timers] == <<t>> \o IF nxt[t] = NULL THEN <<>> ELSE From[nxt[t]]
    IN  IF h = NULL THEN <<>> ELSE From[h]

\* The pointers nxt and prv lead through the timers of q.
Linking(nxt, prv, q) ==
    /\ nxt \in [Timers -> Timers \cup {NULL}] /\ prv \in [Timers -> Timers \cup {NULL}]
    /\ q \in Seq(Timers)
    /\ \A i, j \in 1 .. Len(q) : q[i] = q[j] => i = j
    /\ \A i \in 1 .. Len(q) : nxt[q[i]] = IF i = Len(q) THEN NULL ELSE q[i + 1]
    /\ \A i \in 1 .. Len(q) : prv[q[i]] = IF i = 1 THEN NULL ELSE q[i - 1]

\* t is a timer of q.
In(q, t) == \E i \in 1 .. Len(q) : q[i] = t

\* Taking place k out of the list.
LEMMA TakenOut ==
    ASSUME NEW nxt, NEW prv, NEW q, Linking(nxt, prv, q), NEW k \in 1 .. Len(q),
           NEW n2 \in [Timers -> Timers \cup {NULL}], NEW p2 \in [Timers -> Timers \cup {NULL}],
           \A s \in Timers : s # q[k] =>
               /\ n2[s] = IF s = prv[q[k]] THEN nxt[q[k]] ELSE nxt[s]
               /\ p2[s] = IF s = nxt[q[k]] THEN prv[q[k]] ELSE prv[s]
    PROVE  Linking(n2, p2, Queue!Deleted(q, k)) /\ ~ In(Queue!Deleted(q, k), q[k])
<1> DEFINE r == Queue!Deleted(q, k)
<1>1. /\ q \in Seq(Timers) /\ Len(q) \in Nat /\ k \in Nat /\ NULL \notin Timers
      /\ \A i \in 1 .. Len(q) : q[i] \in Timers
  BY TimerListAssumption DEF Linking
<1>2. /\ r \in Seq(Timers) /\ Len(r) = Len(q) - 1
      /\ \A i \in 1 .. k - 1 : r[i] = q[i]
      /\ \A i \in k .. Len(q) - 1 : r[i] = q[i + 1]
  BY <1>1, DeletedProperties
<1> HIDE DEF r
<1> DEFINE at(i) == IF i < k THEN i ELSE i + 1
<1>3. \A i \in 1 .. Len(r) : at(i) \in 1 .. Len(q) /\ at(i) # k /\ r[i] = q[at(i)]
  BY <1>1, <1>2
<1>a. \A i \in 1 .. Len(r) : (i < k => at(i) = i) /\ (i >= k => at(i) = i + 1)
  BY <1>1, <1>2
<1> HIDE DEF at
<1>b. \A i, j \in 1 .. Len(q) : q[i] = q[j] => i = j
  BY DEF Linking
<1>c. /\ \A i \in 1 .. Len(q) : nxt[q[i]] = IF i = Len(q) THEN NULL ELSE q[i + 1]
      /\ \A i \in 1 .. Len(q) : prv[q[i]] = IF i = 1 THEN NULL ELSE q[i - 1]
  BY DEF Linking
<1>4. \A i, j \in 1 .. Len(r) : r[i] = r[j] => i = j
  <2> SUFFICES ASSUME NEW i \in 1 .. Len(r), NEW j \in 1 .. Len(r), r[i] = r[j] PROVE i = j
    OBVIOUS
  <2>1. at(i) = at(j)
    BY <1>3, <1>b
  <2> QED
    BY <1>1, <1>2, <1>a, <2>1
<1>5. \A i \in 1 .. Len(r) : r[i] \in Timers /\ r[i] # q[k]
  BY <1>1, <1>3, <1>b
<1>6. ASSUME NEW i \in 1 .. Len(r) PROVE n2[r[i]] = IF i = Len(r) THEN NULL ELSE r[i + 1]
  <2>1. n2[r[i]] = IF r[i] = prv[q[k]] THEN nxt[q[k]] ELSE nxt[r[i]]
    BY <1>5
  <2>2. r[i] = prv[q[k]] <=> i = k - 1
    <3>1. CASE k = 1
      BY <1>1, <1>5, <1>c, <3>1, SMTT(20)
    <3>2. CASE k # 1
      <4>1. prv[q[k]] = q[k - 1] /\ k - 1 \in 1 .. Len(q)
        BY <1>1, <1>c, <3>2
      <4>2. r[i] = q[k - 1] <=> at(i) = k - 1
        BY <1>3, <1>b, <4>1
      <4>3. at(i) = k - 1 <=> i = k - 1
        BY <1>1, <1>2, <1>a
      <4> QED
        BY <4>1, <4>2, <4>3
    <3> QED
      BY <3>1, <3>2
  <2>3. nxt[q[k]] = IF k = Len(q) THEN NULL ELSE q[k + 1]
    BY <1>c
  <2>4. nxt[r[i]] = IF at(i) = Len(q) THEN NULL ELSE q[at(i) + 1]
    BY <1>3, <1>c
  <2>5. CASE i = k - 1
    <3>1. k = Len(q) <=> i = Len(r)
      BY <1>1, <1>2, <2>5
    <3>2. i # Len(r) => i + 1 \in k .. Len(q) - 1 /\ (i + 1) + 1 = k + 1
      BY <1>1, <1>2, <2>5
    <3> QED
      BY <1>2, <2>1, <2>2, <2>3, <2>5, <3>1, <3>2
  <2>6. CASE i < k - 1
    <3>1. at(i) = i /\ i + 1 \in 1 .. k - 1 /\ i # Len(r) /\ i # Len(q)
      BY <1>1, <1>2, <1>a, <2>6
    <3> QED
      BY <1>2, <2>1, <2>2, <2>4, <2>6, <3>1
  <2>7. CASE i >= k
    <3>1. at(i) = i + 1 /\ (i + 1 = Len(q) <=> i = Len(r)) /\ i # k - 1
      BY <1>1, <1>2, <1>a, <2>7
    <3>2. i # Len(r) => i + 1 \in k .. Len(q) - 1
      BY <1>1, <1>2, <2>7
    <3> QED
      BY <1>2, <2>1, <2>2, <2>4, <3>1, <3>2
  <2> QED
    BY <1>1, <2>5, <2>6, <2>7
<1>7. ASSUME NEW i \in 1 .. Len(r) PROVE p2[r[i]] = IF i = 1 THEN NULL ELSE r[i - 1]
  <2>1. p2[r[i]] = IF r[i] = nxt[q[k]] THEN prv[q[k]] ELSE prv[r[i]]
    BY <1>5
  <2>2. r[i] = nxt[q[k]] <=> i = k
    <3>1. CASE k = Len(q)
      <4>1. nxt[q[k]] = NULL
        BY <1>c, <3>1
      <4>2. r[i] # NULL
        BY <1>1, <1>5
      <4>3. i # k
        BY <1>1, <1>2, <3>1
      <4> QED
        BY <4>1, <4>2, <4>3
    <3>2. CASE k # Len(q)
      <4>1. nxt[q[k]] = q[k + 1] /\ k + 1 \in 1 .. Len(q)
        BY <1>1, <1>c, <3>2
      <4>2. r[i] = q[k + 1] <=> at(i) = k + 1
        BY <1>3, <1>b, <4>1
      <4>3. at(i) = k + 1 <=> i = k
        BY <1>1, <1>2, <1>3, <1>a
      <4> QED
        BY <4>1, <4>2, <4>3
    <3> QED
      BY <3>1, <3>2
  <2>3. prv[q[k]] = IF k = 1 THEN NULL ELSE q[k - 1]
    BY <1>c
  <2>4. prv[r[i]] = IF at(i) = 1 THEN NULL ELSE q[at(i) - 1]
    BY <1>3, <1>c
  <2>5. CASE i = k
    <3>1. k # 1 => k - 1 \in 1 .. k - 1
      BY <1>1
    <3> QED
      BY <1>2, <2>1, <2>2, <2>3, <2>5, <3>1
  <2>6. CASE i < k
    <3>1. at(i) = i /\ (i # 1 => i - 1 \in 1 .. k - 1)
      BY <1>1, <1>a, <2>6
    <3> QED
      BY <1>2, <2>1, <2>2, <2>4, <2>6, <3>1
  <2>7. CASE i > k
    <3>1. /\ at(i) = i + 1 /\ i # 1 /\ i + 1 # 1 /\ i - 1 \in k .. Len(q) - 1
          /\ (i - 1) + 1 = i /\ (i + 1) - 1 = i
      BY <1>1, <1>2, <1>a, <2>7
    <3> QED
      BY <1>2, <2>1, <2>2, <2>4, <2>7, <3>1
  <2> QED
    BY <1>1, <2>5, <2>6, <2>7
<1>8. Linking(n2, p2, r)
  BY <1>2, <1>4, <1>6, <1>7 DEF Linking
<1>9. ~ In(r, q[k])
  BY <1>5 DEF In
<1> QED
  BY <1>8, <1>9 DEF r

\* Putting t in behind place k; in front if k is 0.
LEMMA PutIn ==
    ASSUME NEW nxt, NEW prv, NEW q, Linking(nxt, prv, q), NEW k \in 0 .. Len(q),
           NEW t \in Timers, ~ In(q, t),
           NEW p \in Timers \cup {NULL}, p = IF k = 0 THEN NULL ELSE q[k],
           NEW n \in Timers \cup {NULL}, n = IF k = Len(q) THEN NULL ELSE q[k + 1],
           NEW n2 \in [Timers -> Timers \cup {NULL}], NEW p2 \in [Timers -> Timers \cup {NULL}],
           \A s \in Timers :
               /\ n2[s] = IF s = t THEN n ELSE IF s = p THEN t ELSE nxt[s]
               /\ p2[s] = IF s = t THEN p ELSE IF s = n THEN t ELSE prv[s]
    PROVE  Linking(n2, p2, Queue!Inserted(q, k, t))
<1> DEFINE r == Queue!Inserted(q, k, t)
<1>1. /\ q \in Seq(Timers) /\ Len(q) \in Nat /\ k \in Nat /\ NULL \notin Timers
      /\ \A i \in 1 .. Len(q) : q[i] \in Timers /\ q[i] # t
  BY TimerListAssumption DEF Linking, In
<1>2. /\ r \in Seq(Timers) /\ Len(r) = Len(q) + 1
      /\ \A i \in 1 .. k : r[i] = q[i]
      /\ r[k + 1] = t
      /\ \A i \in k + 1 .. Len(q) : r[i + 1] = q[i]
  <2>1. r \in Seq(Timers) /\ Len(r) = Len(q) + 1
    BY <1>1, InsertedProperties
  <2>2. \A i \in 1 .. k : r[i] = q[i]
    BY <1>1, InsertedProperties
  <2>3. r[k + 1] = t
    BY <1>1, InsertedProperties
  <2>4. \A i \in k + 1 .. Len(q) : r[i + 1] = q[i]
    BY <1>1, InsertedProperties
  <2> HIDE DEF r
  <2> QED
    BY <2>1, <2>2, <2>3, <2>4
<1> HIDE DEF r
<1> DEFINE at(i) == IF i <= k THEN i ELSE i - 1
<1>3. \A i \in 1 .. Len(r) : i # k + 1 => at(i) \in 1 .. Len(q) /\ r[i] = q[at(i)]
  <2> TAKE i \in 1 .. Len(r)
  <2>1. CASE i <= k
    BY <1>1, <1>2, <2>1
  <2>2. ASSUME i > k + 1 PROVE at(i) \in 1 .. Len(q) /\ r[i] = q[at(i)]
    <3>1. at(i) = i - 1 /\ i - 1 \in k + 1 .. Len(q) /\ (i - 1) + 1 = i
      BY <1>1, <1>2, <2>2
    <3> QED
      BY <1>1, <1>2, <3>1
  <2> QED
    BY <1>1, <1>2, <2>1, <2>2
<1>a. \A i \in 1 .. Len(r) : (i <= k => at(i) = i) /\ (i > k => at(i) = i - 1)
  BY <1>1, <1>2
<1> HIDE DEF at
<1>b. \A i, j \in 1 .. Len(q) : q[i] = q[j] => i = j
  BY DEF Linking
<1>c. /\ \A i \in 1 .. Len(q) : nxt[q[i]] = IF i = Len(q) THEN NULL ELSE q[i + 1]
      /\ \A i \in 1 .. Len(q) : prv[q[i]] = IF i = 1 THEN NULL ELSE q[i - 1]
  BY DEF Linking
<1>d. k + 1 \in 1 .. Len(r)
  BY <1>1, <1>2
<1>4. \A i, j \in 1 .. Len(r) : r[i] = r[j] => i = j
  <2> SUFFICES ASSUME NEW i \in 1 .. Len(r), NEW j \in 1 .. Len(r), r[i] = r[j] PROVE i = j
    OBVIOUS
  <2>1. CASE i = k + 1 \/ j = k + 1
    BY <1>1, <1>2, <1>3, <2>1
  <2>2. CASE i # k + 1 /\ j # k + 1
    <3>1. at(i) = at(j)
      BY <1>3, <1>b, <2>2
    <3> QED
      BY <1>1, <1>2, <1>a, <2>2, <3>1
  <2> QED
    BY <2>1, <2>2
<1>5. \A i \in 1 .. Len(r) : r[i] \in Timers
  BY <1>1, <1>2, <1>3
<1>6. ASSUME NEW i \in 1 .. Len(r) PROVE n2[r[i]] = IF i = Len(r) THEN NULL ELSE r[i + 1]
  <2>1. n2[r[i]] = IF r[i] = t THEN n ELSE IF r[i] = p THEN t ELSE nxt[r[i]]
    BY <1>5
  <2>2. CASE i = k + 1
    <3>1. r[i] = t
      BY <1>2, <2>2
    <3>2. k = Len(q) <=> i = Len(r)
      BY <1>1, <1>2, <2>2
    <3>3. k # Len(q) => k + 1 \in k + 1 .. Len(q) /\ r[i + 1] = q[k + 1]
      BY <1>1, <1>2, <2>2
    <3> QED
      BY <2>1, <3>1, <3>2, <3>3
  <2>3. CASE i # k + 1
    <3>1. r[i] # t /\ at(i) \in 1 .. Len(q) /\ r[i] = q[at(i)]
      BY <1>1, <1>3, <2>3
    <3>2. r[i] = p <=> i = k
      <4>1. CASE k = 0
        BY <1>1, <1>2, <1>5, <4>1
      <4>2. CASE k # 0
        <5>1. k \in 1 .. Len(q)
          BY <1>1, <4>2
        <5>2. r[i] = p <=> at(i) = k
          BY <1>b, <3>1, <4>2, <5>1
        <5>3. at(i) = k <=> i = k
          BY <1>1, <1>2, <1>a, <2>3
        <5> QED
          BY <5>2, <5>3
      <4> QED
        BY <4>1, <4>2
    <3>3. nxt[r[i]] = IF at(i) = Len(q) THEN NULL ELSE q[at(i) + 1]
      BY <1>c, <3>1
    <3>4. CASE i = k
      <4>1. i # Len(r) /\ i + 1 = k + 1
        BY <1>1, <1>2, <3>4
      <4> QED
        BY <1>2, <2>1, <3>1, <3>2, <3>4, <4>1
    <3>5. CASE i < k
      <4>1. at(i) = i /\ i # Len(r) /\ i # Len(q) /\ i + 1 \in 1 .. k
        BY <1>1, <1>2, <1>a, <3>5
      <4>2. r[i + 1] = q[i + 1]
        BY <1>2, <4>1
      <4> QED
        BY <1>1, <2>1, <3>1, <3>2, <3>3, <3>5, <4>1, <4>2
    <3>6. CASE i > k
      <4>1. at(i) = i - 1 /\ (i - 1 = Len(q) <=> i = Len(r)) /\ (i - 1) + 1 = i /\ i # k
        BY <1>1, <1>2, <1>a, <3>6
      <4>2. i # Len(r) => i \in k + 1 .. Len(q)
        BY <1>1, <1>2, <2>3, <3>6
      <4>3. i # Len(r) => r[i + 1] = q[i]
        BY <1>2, <4>2
      <4> QED
        BY <2>1, <3>1, <3>2, <3>3, <4>1, <4>3
    <3> QED
      BY <1>1, <3>4, <3>5, <3>6
  <2> QED
    BY <2>2, <2>3
<1>7. ASSUME NEW i \in 1 .. Len(r) PROVE p2[r[i]] = IF i = 1 THEN NULL ELSE r[i - 1]
  <2>1. p2[r[i]] = IF r[i] = t THEN p ELSE IF r[i] = n THEN t ELSE prv[r[i]]
    BY <1>5
  <2>2. CASE i = k + 1
    <3>1. r[i] = t
      BY <1>2, <2>2
    <3>2. (k = 0 <=> i = 1) /\ i - 1 = k
      BY <1>1, <2>2
    <3>3. k # 0 => k \in 1 .. k
      BY <1>1
    <3>4. k # 0 => r[i - 1] = q[k]
      BY <1>2, <3>2, <3>3
    <3> QED
      BY <2>1, <3>1, <3>2, <3>4
  <2>3. CASE i # k + 1
    <3>1. r[i] # t /\ at(i) \in 1 .. Len(q) /\ r[i] = q[at(i)]
      BY <1>1, <1>3, <2>3
    <3>2. r[i] = n <=> i = k + 2
      <4>1. CASE k = Len(q)
        BY <1>1, <1>2, <1>5, <4>1
      <4>2. CASE k # Len(q)
        <5>1. k + 1 \in 1 .. Len(q)
          BY <1>1, <4>2
        <5>2. r[i] = n <=> at(i) = k + 1
          BY <1>b, <3>1, <4>2, <5>1
        <5>3. at(i) = k + 1 <=> i = k + 2
          BY <1>1, <1>2, <1>a, <2>3
        <5> QED
          BY <5>2, <5>3
      <4> QED
        BY <4>1, <4>2
    <3>3. prv[r[i]] = IF at(i) = 1 THEN NULL ELSE q[at(i) - 1]
      BY <1>c, <3>1
    <3>4. CASE i = k + 2
      <4>1. i # 1 /\ i - 1 = k + 1
        BY <1>1, <3>4
      <4> QED
        BY <1>2, <2>1, <3>1, <3>2, <3>4, <4>1
    <3>5. CASE i <= k
      <4>1. at(i) = i /\ i # k + 2 /\ (i # 1 => i - 1 \in 1 .. k)
        BY <1>1, <1>2, <1>a, <3>5
      <4>2. i # 1 => r[i - 1] = q[i - 1]
        BY <1>2, <4>1
      <4> QED
        BY <2>1, <3>1, <3>2, <3>3, <4>1, <4>2
    <3>6. CASE i > k + 2
      <4>1. /\ at(i) = i - 1 /\ i # 1 /\ i - 1 # 1 /\ i # k + 2
            /\ i - 2 \in k + 1 .. Len(q) /\ (i - 2) + 1 = i - 1 /\ (i - 1) - 1 = i - 2
        BY <1>1, <1>2, <1>a, <3>6
      <4>2. r[i - 1] = q[i - 2]
        BY <1>2, <4>1
      <4> QED
        BY <2>1, <3>1, <3>2, <3>3, <4>1, <4>2
    <3> QED
      BY <1>1, <2>3, <3>4, <3>5, <3>6
  <2> QED
    BY <2>2, <2>3
<1>8. Linking(n2, p2, r)
  BY <1>2, <1>4, <1>6, <1>7 DEF Linking
<1> QED
  BY <1>8 DEF r

-----------------------------------------------------------------------------
(* Following the pointers *)

\* A set of numbers has a least one.
LEMMA Least ==
    ASSUME NEW T \in SUBSET Nat, T # {}
    PROVE  \E x \in T : \A y \in T : x <= y
<1> DEFINE R == {ss \in Nat \X Nat : ss[1] < ss[2]}
<1>1. IsWellFoundedOn(R, Nat)
  BY NatLessThanWellFounded, Zenon DEF OpToRel
<1>2. \A x, y \in Nat : x < y => <<x, y>> \in R
  OBVIOUS
<1> HIDE DEF R
<1>3. \E x \in T : \A y \in T : ~ (<<y, x>> \in R)
  BY <1>1, WFMin, Zenon
<1>4. PICK x \in T : \A y \in T : ~ (<<y, x>> \in R)
  BY <1>3
<1>5. ASSUME NEW y \in T PROVE x <= y
  <2>1. x \in Nat /\ y \in Nat
    OBVIOUS
  <2>2. ~ (y < x)
    BY <1>2, <1>4, <2>1
  <2> QED
    BY <2>1, <2>2
<1> QED
  BY <1>5

\* What holds at a place when it holds at all behind it holds at every place.
LEMMA FromBehind ==
    ASSUME NEW n \in Nat, NEW S, S \subseteq 1 .. n,
           \A i \in 1 .. n : (\A j \in i + 1 .. n : j \in S) => i \in S
    PROVE  \A i \in 1 .. n : i \in S
<1> SUFFICES ASSUME NEW k \in 1 .. n, k \notin S PROVE FALSE
  OBVIOUS
<1> DEFINE T == {m \in Nat : \E i \in 1 .. n : i \notin S /\ m = n - i}
<1>1. n - k \in T
  OBVIOUS
<1>2. T \in SUBSET Nat /\ T # {}
  BY <1>1
<1>3. PICK m \in T : \A l \in T : m <= l
  BY <1>2, Least
<1>4. PICK i \in 1 .. n : i \notin S /\ m = n - i
  BY <1>3
<1>5. ASSUME NEW j \in i + 1 .. n, j \notin S PROVE FALSE
  <2>1. j \in 1 .. n /\ n - j \in T /\ n - j < n - i
    BY <1>5
  <2>2. m <= n - j
    BY <1>3, <2>1
  <2> QED
    BY <1>4, <2>1, <2>2
<1> QED
  BY <1>4, <1>5

\* q from place i on.
Rest(q, i) == SubSeq(q, i, Len(q))

\* It is its first, and what is behind that.
LEMMA RestIs ==
    ASSUME NEW q \in Seq(Timers), NEW i \in 1 .. Len(q)
    PROVE  /\ Rest(q, 1) = q
           /\ Rest(q, i) = <<q[i]>> \o IF i = Len(q) THEN <<>> ELSE Rest(q, i + 1)
<1>1. Len(q) \in Nat /\ \A j \in 1 .. Len(q) : q[j] \in Timers
  OBVIOUS
<1>2. ASSUME NEW j \in 1 .. Len(q) + 1
      PROVE  /\ Rest(q, j) \in Seq(Timers) /\ Len(Rest(q, j)) = Len(q) + 1 - j
             /\ \A h \in 1 .. Len(q) + 1 - j : Rest(q, j)[h] = q[j + h - 1]
  <2>1. \A h \in j .. Len(q) : q[h] \in Timers
    BY <1>1
  <2>2. /\ Rest(q, j) \in Seq(Timers)
        /\ Len(Rest(q, j)) = IF j <= Len(q) THEN Len(q) - j + 1 ELSE 0
        /\ \A h \in 1 .. Len(q) - j + 1 : Rest(q, j)[h] = q[j + h - 1]
    BY <1>1, <2>1, SubSeqProperties DEF Rest
  <2>3. Len(q) - j + 1 = Len(q) + 1 - j /\ (~ (j <= Len(q)) => Len(q) + 1 - j = 0)
    BY <1>1
  <2> QED
    BY <2>2, <2>3
<1>3. Rest(q, 1) = q
  <2>1. 1 \in 1 .. Len(q) + 1 /\ Len(q) + 1 - 1 = Len(q) /\ \A h \in 1 .. Len(q) : 1 + h - 1 = h
    BY <1>1
  <2>2. /\ Rest(q, 1) \in Seq(Timers) /\ Len(Rest(q, 1)) = Len(q)
        /\ \A h \in 1 .. Len(q) : Rest(q, 1)[h] = q[h]
    BY <1>2, <2>1
  <2> QED
    BY <2>2, SeqEqual
<1>4. Rest(q, i) = <<q[i]>> \o IF i = Len(q) THEN <<>> ELSE Rest(q, i + 1)
  <2> DEFINE r == IF i = Len(q) THEN <<>> ELSE Rest(q, i + 1)
  <2>1. /\ r \in Seq(Timers) /\ Len(r) = Len(q) - i
        /\ \A h \in 1 .. Len(q) - i : r[h] = q[i + h]
    <3>1. CASE i = Len(q)
      BY <1>1, <3>1
    <3>2. CASE i # Len(q)
      <4>1. i + 1 \in 1 .. Len(q) + 1 /\ Len(q) + 1 - (i + 1) = Len(q) - i
        BY <1>1
      <4>2. \A h \in 1 .. Len(q) - i : (i + 1) + h - 1 = i + h
        BY <1>1
      <4>3. /\ Rest(q, i + 1) \in Seq(Timers) /\ Len(Rest(q, i + 1)) = Len(q) - i
            /\ \A h \in 1 .. Len(q) - i : Rest(q, i + 1)[h] = q[(i + 1) + h - 1]
        BY <1>2, <4>1
      <4>4. r = Rest(q, i + 1)
        BY <3>2
      <4> HIDE DEF r
      <4> QED
        BY <4>2, <4>3, <4>4
    <3> QED
      BY <3>1, <3>2
  <2> HIDE DEF r
  <2>2. <<q[i]>> \in Seq(Timers) /\ Len(<<q[i]>>) = 1 /\ <<q[i]>>[1] = q[i]
    BY <1>1
  <2> DEFINE a == <<q[i]>> \o r
  <2>3. /\ a \in Seq(Timers) /\ Len(a) = 1 + Len(r)
        /\ \A h \in 1 .. 1 + Len(r) : a[h] = IF h <= 1 THEN <<q[i]>>[h] ELSE r[h - 1]
    BY <2>1, <2>2, ConcatProperties
  <2> HIDE DEF a
  <2>4. i \in 1 .. Len(q) + 1
    BY <1>1
  <2>5. /\ Rest(q, i) \in Seq(Timers) /\ Len(Rest(q, i)) = Len(q) + 1 - i
        /\ \A h \in 1 .. Len(q) + 1 - i : Rest(q, i)[h] = q[i + h - 1]
    BY <1>2, <2>4
  <2>6. Len(a) = Len(Rest(q, i)) /\ Len(a) = Len(q) + 1 - i
    BY <1>1, <2>1, <2>3, <2>5
  <2>7. ASSUME NEW h \in 1 .. Len(a) PROVE a[h] = Rest(q, i)[h]
    <3>1. CASE h = 1
      <4>1. i + h - 1 = i /\ h <= 1 /\ h \in 1 .. 1 + Len(r) /\ h \in 1 .. Len(q) + 1 - i
        BY <1>1, <2>1, <2>6, <3>1
      <4> QED
        BY <2>2, <2>3, <2>5, <3>1, <4>1
    <3>2. CASE h # 1
      <4>1. /\ h - 1 \in 1 .. Len(q) - i /\ i + (h - 1) = i + h - 1 /\ ~ (h <= 1)
            /\ h \in 1 .. 1 + Len(r) /\ h \in 1 .. Len(q) + 1 - i
        BY <1>1, <2>1, <2>6, <3>2
      <4> QED
        BY <2>1, <2>3, <2>5, <4>1
    <3> QED
      BY <3>1, <3>2
  <2>8. a = Rest(q, i)
    BY <2>3, <2>5, <2>6, <2>7, SeqEqual
  <2> QED
    BY <2>8 DEF a, r
<1> QED
  BY <1>3, <1>4

\* The place of a timer.
PlaceIn(q, t) == CHOOSE i \in 1 .. Len(q) : q[i] = t

\* A timer of the queue stands at its place,
LEMMA PlaceIs ==
    ASSUME NEW nxt, NEW prv, NEW q, Linking(nxt, prv, q), NEW t, In(q, t)
    PROVE  PlaceIn(q, t) \in 1 .. Len(q) /\ q[PlaceIn(q, t)] = t
  BY DEF PlaceIn, In

\* and the timer at place i has place i.
LEMMA PlaceOf ==
    ASSUME NEW nxt, NEW prv, NEW q, Linking(nxt, prv, q), NEW i \in 1 .. Len(q)
    PROVE  In(q, q[i]) /\ PlaceIn(q, q[i]) = i
<1>1. In(q, q[i])
  BY DEF In
<1>2. PlaceIn(q, q[i]) \in 1 .. Len(q) /\ q[PlaceIn(q, q[i])] = q[i]
  BY <1>1, PlaceIs
<1>3. \A k, j \in 1 .. Len(q) : q[k] = q[j] => k = j
  BY DEF Linking
<1> QED
  BY <1>1, <1>2, <1>3

\* What Chain says of the timers from t on, F[t].
Follows(nxt, F) == F = [t \in Timers |-> <<t>> \o IF nxt[t] = NULL THEN <<>> ELSE F[nxt[t]]]

\* There is such a function: of a timer of q, q from its place on.
LEMMA FollowsExists ==
    ASSUME NEW nxt, NEW prv, NEW q, Linking(nxt, prv, q),
           \A t \in Timers : ~ In(q, t) => nxt[t] = NULL
    PROVE  \E F : Follows(nxt, F)
<1> DEFINE G == [t \in Timers |-> IF In(q, t) THEN Rest(q, PlaceIn(q, t)) ELSE <<t>>]
<1>1. q \in Seq(Timers) /\ Len(q) \in Nat /\ \A i \in 1 .. Len(q) : q[i] \in Timers /\ q[i] # NULL
  BY TimerListAssumption DEF Linking
<1>2. ASSUME NEW t \in Timers
      PROVE  G[t] = <<t>> \o IF nxt[t] = NULL THEN <<>> ELSE G[nxt[t]]
  <2>1. CASE ~ In(q, t)
    <3>1. nxt[t] = NULL /\ G[t] = <<t>>
      BY <2>1
    <3>2. <<t>> \o <<>> = <<t>>
      OBVIOUS
    <3> QED
      BY <3>1, <3>2
  <2>2. CASE In(q, t)
    <3> DEFINE i == PlaceIn(q, t)
    <3>1. i \in 1 .. Len(q) /\ q[i] = t
      BY <2>2, PlaceIs
    <3> HIDE DEF i
    <3>2. nxt[t] = IF i = Len(q) THEN NULL ELSE q[i + 1]
      BY <3>1 DEF Linking
    <3>3. G[t] = Rest(q, i)
      BY <2>2 DEF i
    <3>4. Rest(q, i) = <<t>> \o IF i = Len(q) THEN <<>> ELSE Rest(q, i + 1)
      BY <1>1, <3>1, RestIs
    <3>5. CASE i = Len(q)
      BY <3>2, <3>3, <3>4, <3>5
    <3>6. CASE i # Len(q)
      <4>1. i + 1 \in 1 .. Len(q)
        BY <1>1, <3>1, <3>6
      <4>2. In(q, q[i + 1]) /\ PlaceIn(q, q[i + 1]) = i + 1 /\ q[i + 1] \in Timers
        BY <1>1, <4>1, PlaceOf
      <4>3. G[q[i + 1]] = Rest(q, i + 1)
        BY <4>2
      <4> HIDE DEF G
      <4> QED
        BY <1>1, <3>2, <3>3, <3>4, <3>6, <4>1, <4>3
    <3> QED
      BY <3>5, <3>6
  <2> QED
    BY <2>1, <2>2
<1>3. G = [t \in Timers |-> G[t]]
  OBVIOUS
<1> HIDE DEF G
<1>4. G = [t \in Timers |-> <<t>> \o IF nxt[t] = NULL THEN <<>> ELSE G[nxt[t]]]
  BY <1>2, <1>3
<1> QED
  BY <1>4 DEF Follows

\* There is no other, as to the timers of q.
LEMMA FollowsIs ==
    ASSUME NEW nxt, NEW prv, NEW q, Linking(nxt, prv, q), NEW F, Follows(nxt, F),
           NEW k \in 1 .. Len(q)
    PROVE  F[q[k]] = Rest(q, k)
<1>1. q \in Seq(Timers) /\ Len(q) \in Nat /\ \A i \in 1 .. Len(q) : q[i] \in Timers /\ q[i] # NULL
  BY TimerListAssumption DEF Linking
<1> DEFINE S == {i \in 1 .. Len(q) : F[q[i]] = Rest(q, i)}
<1>2. ASSUME NEW i \in 1 .. Len(q), \A j \in i + 1 .. Len(q) : j \in S
      PROVE  i \in S
  <2>1. F[q[i]] = <<q[i]>> \o IF nxt[q[i]] = NULL THEN <<>> ELSE F[nxt[q[i]]]
    BY <1>1 DEF Follows
  <2>2. nxt[q[i]] = IF i = Len(q) THEN NULL ELSE q[i + 1]
    BY DEF Linking
  <2>3. Rest(q, i) = <<q[i]>> \o IF i = Len(q) THEN <<>> ELSE Rest(q, i + 1)
    BY <1>1, RestIs
  <2>4. CASE i = Len(q)
    BY <2>1, <2>2, <2>3, <2>4
  <2>5. CASE i # Len(q)
    <3>1. i + 1 \in i + 1 .. Len(q) /\ i + 1 \in 1 .. Len(q)
      BY <1>1, <2>5
    <3>2. F[q[i + 1]] = Rest(q, i + 1)
      BY <1>2, <3>1
    <3>3. nxt[q[i]] = q[i + 1] /\ nxt[q[i]] # NULL
      BY <1>1, <2>2, <2>5, <3>1
    <3> QED
      BY <2>1, <2>3, <2>5, <3>2, <3>3
  <2> QED
    BY <2>4, <2>5
<1>3. S \subseteq 1 .. Len(q)
  OBVIOUS
<1> HIDE DEF S
<1>4. k \in S
  BY <1>1, <1>2, <1>3, FromBehind
<1> QED
  BY <1>4 DEF S

\* The list from h on, when the pointers lead through q.
LEMMA ChainIs ==
    ASSUME NEW nxt, NEW prv, NEW q, Linking(nxt, prv, q),
           \A t \in Timers : ~ In(q, t) => nxt[t] = NULL,
           NEW h, h = IF q = <<>> THEN NULL ELSE q[1]
    PROVE  ChainFrom(nxt, h) = q
<1>1. q \in Seq(Timers) /\ Len(q) \in Nat /\ (q # <<>> => Len(q) >= 1 /\ q[1] \in Timers)
  BY EmptySeq DEF Linking
<1>2. CASE q = <<>>
  BY <1>2 DEF ChainFrom
<1>3. CASE q # <<>>
  <2> DEFINE F == CHOOSE F : Follows(nxt, F)
  <2>1. Follows(nxt, F)
    BY FollowsExists
  <2>2. F = CHOOSE From : From = [t \in Timers |->
                                     <<t>> \o IF nxt[t] = NULL THEN <<>> ELSE From[nxt[t]]]
    BY DEF Follows
  <2>3. h # NULL
    BY <1>1, <1>3, TimerListAssumption
  <2>4. ChainFrom(nxt, h) = F[h]
    BY <2>2, <2>3 DEF ChainFrom
  <2> HIDE DEF F
  <2>5. 1 \in 1 .. Len(q)
    BY <1>1, <1>3
  <2>6. F[q[1]] = Rest(q, 1)
    BY <2>1, <2>5, FollowsIs
  <2>7. Rest(q, 1) = q
    BY <1>1, <2>5, RestIs
  <2> QED
    BY <1>3, <2>4, <2>6, <2>7
<1> QED
  BY <1>2, <1>3
-----------------------------------------------------------------------------
(* Where the private add_timer stops *)

\* The first place from i on that fits: this one, or the first from the next on.
LEMMA BehindSteps ==
    ASSUME NEW q \in Seq(Timers), NEW e, NEW t, NEW i \in 1 .. Len(q)
    PROVE  /\ Queue!Fits(q, e, i, t) => Queue!Behind(q, e, i, t) = {i}
           /\ ~ Queue!Fits(q, e, i, t) =>
                  i + 1 \in 1 .. Len(q) /\ Queue!Behind(q, e, i, t) = Queue!Behind(q, e, i + 1, t)
<1>1. Len(q) \in Nat
  OBVIOUS
<1>2. ASSUME Queue!Fits(q, e, i, t) PROVE Queue!Behind(q, e, i, t) = {i}
  <2>1. i \in Queue!Behind(q, e, i, t)
    BY <1>1, <1>2 DEF Queue!Behind
  <2>2. ASSUME NEW k \in Queue!Behind(q, e, i, t) PROVE k = i
    <3>1. k \in i .. Len(q) /\ \A h \in i .. (k - 1) : ~ Queue!Fits(q, e, h, t)
      BY DEF Queue!Behind
    <3>2. k # i => i \in i .. (k - 1)
      BY <1>1, <3>1
    <3> QED
      BY <1>2, <3>1, <3>2
  <2> QED
    BY <2>1, <2>2
<1>3. ASSUME ~ Queue!Fits(q, e, i, t)
      PROVE  i + 1 \in 1 .. Len(q) /\ Queue!Behind(q, e, i, t) = Queue!Behind(q, e, i + 1, t)
  <2>1. i + 1 \in 1 .. Len(q)
    BY <1>1, <1>3 DEF Queue!Fits
  <2>2. ASSUME NEW k \in Queue!Behind(q, e, i, t) PROVE k \in Queue!Behind(q, e, i + 1, t)
    <3>1. /\ k \in i .. Len(q) /\ Queue!Fits(q, e, k, t)
          /\ \A h \in i .. (k - 1) : ~ Queue!Fits(q, e, h, t)
      BY DEF Queue!Behind
    <3>2. k # i
      BY <1>3, <3>1
    <3>3. k \in i + 1 .. Len(q) /\ \A h \in i + 1 .. (k - 1) : h \in i .. (k - 1)
      BY <1>1, <3>1, <3>2
    <3> QED
      BY <3>1, <3>3 DEF Queue!Behind
  <2>3. ASSUME NEW k \in Queue!Behind(q, e, i + 1, t) PROVE k \in Queue!Behind(q, e, i, t)
    <3>1. /\ k \in i + 1 .. Len(q) /\ Queue!Fits(q, e, k, t)
          /\ \A h \in i + 1 .. (k - 1) : ~ Queue!Fits(q, e, h, t)
      BY DEF Queue!Behind
    <3>2. k \in i .. Len(q) /\ \A h \in i .. (k - 1) : h = i \/ h \in i + 1 .. (k - 1)
      BY <1>1, <3>1
    <3>3. \A h \in i .. (k - 1) : ~ Queue!Fits(q, e, h, t)
      BY <1>3, <3>1, <3>2
    <3> QED
      BY <3>1, <3>2, <3>3 DEF Queue!Behind
  <2> QED
    BY <2>1, <2>2, <2>3
<1> QED
  BY <1>2, <1>3

\* There is such a place.
LEMMA BehindExists ==
    ASSUME NEW q \in Seq(Timers), NEW e, NEW t, NEW i \in 1 .. Len(q)
    PROVE  \E k : k \in Queue!Behind(q, e, i, t)
<1> DEFINE S == {j \in 1 .. Len(q) : \E k : k \in Queue!Behind(q, e, j, t)}
<1>0. Len(q) \in Nat
  OBVIOUS
<1>1. ASSUME NEW j \in 1 .. Len(q), \A l \in j + 1 .. Len(q) : l \in S PROVE j \in S
  <2>1. CASE Queue!Fits(q, e, j, t)
    BY <2>1, BehindSteps
  <2>2. CASE ~ Queue!Fits(q, e, j, t)
    <3>1. j + 1 \in 1 .. Len(q) /\ Queue!Behind(q, e, j, t) = Queue!Behind(q, e, j + 1, t)
      BY <2>2, BehindSteps
    <3>2. j + 1 \in j + 1 .. Len(q)
      BY <3>1
    <3> QED
      BY <1>1, <3>1, <3>2
  <2> QED
    BY <2>1, <2>2
<1>2. S \subseteq 1 .. Len(q)
  OBVIOUS
<1> HIDE DEF S
<1>3. i \in S
  BY <1>0, <1>1, <1>2, FromBehind
<1> QED
  BY <1>3 DEF S

\* The place where prev stops from place i on.
FirstFit(q, e, t, i) == CHOOSE k : k \in Queue!Behind(q, e, i, t)

\* What Place says of the timers, F[p].
Stops(nxt, e, t, F) ==
    F = [p \in Timers |-> IF nxt[p] = NULL \/ e[t] < e[nxt[p]] THEN p ELSE F[nxt[p]]]

\* Place, of any pointers.
StopFrom(nxt, e, t, h) ==
    LET Place[p \in Timers] == IF nxt[p] = NULL \/ e[t] < e[nxt[p]] THEN p ELSE Place[nxt[p]]
    IN  Place[h]

\* The condition on which prev stops at place i says that t fits there.
LEMMA StopsWhereItFits ==
    ASSUME NEW nxt, NEW prv, NEW q, Linking(nxt, prv, q), NEW e, NEW t, NEW i \in 1 .. Len(q)
    PROVE  (nxt[q[i]] = NULL \/ e[t] < e[nxt[q[i]]]) <=> Queue!Fits(q, e, i, t)
<1>1. Len(q) \in Nat /\ \A j \in 1 .. Len(q) : q[j] # NULL
  BY TimerListAssumption DEF Linking
<1>2. nxt[q[i]] = IF i = Len(q) THEN NULL ELSE q[i + 1]
  BY DEF Linking
<1>3. CASE i = Len(q)
  <2>1. ~ (i < Len(q)) /\ nxt[q[i]] = NULL
    BY <1>1, <1>2, <1>3
  <2> QED
    BY <2>1 DEF Queue!Fits
<1>4. CASE i # Len(q)
  <2>1. i < Len(q) /\ i + 1 \in 1 .. Len(q)
    BY <1>1, <1>4
  <2>2. nxt[q[i]] = q[i + 1] /\ nxt[q[i]] # NULL
    BY <1>1, <1>2, <1>4, <2>1
  <2> QED
    BY <2>1, <2>2 DEF Queue!Fits
<1> QED
  BY <1>3, <1>4

\* There is such a function: of a timer of q, the first fit from its place on.
LEMMA StopsExists ==
    ASSUME NEW nxt, NEW prv, NEW q, Linking(nxt, prv, q), NEW e, NEW t,
           \A s \in Timers : ~ In(q, s) => nxt[s] = NULL \/ In(q, nxt[s])
    PROVE  \E F : Stops(nxt, e, t, F)
<1> DEFINE At(s) == q[FirstFit(q, e, t, PlaceIn(q, s))]
           Stop(s) == nxt[s] = NULL \/ e[t] < e[nxt[s]]
           G == [p \in Timers |-> IF In(q, p) THEN At(p) ELSE IF Stop(p) THEN p ELSE At(nxt[p])]
<1>1. q \in Seq(Timers) /\ Len(q) \in Nat /\ \A i \in 1 .. Len(q) : q[i] \in Timers
  BY DEF Linking
<1>2. ASSUME NEW s \in Timers PROVE G[s] = IF Stop(s) THEN s ELSE G[nxt[s]]
  <2>1. CASE ~ In(q, s)
    <3>1. ~ Stop(s) => In(q, nxt[s]) /\ nxt[s] \in Timers
      BY <1>1, <2>1 DEF In
    <3>2. ~ Stop(s) => G[nxt[s]] = At(nxt[s])
      <4> HIDE DEF At, Stop
      <4> QED
        BY <3>1
    <3>3. G[s] = IF Stop(s) THEN s ELSE At(nxt[s])
      <4> HIDE DEF At, Stop
      <4> QED
        BY <2>1
    <3> HIDE DEF At, Stop, G
    <3> QED
      BY <3>2, <3>3
  <2>2. CASE In(q, s)
    <3> DEFINE i == PlaceIn(q, s)
    <3>1. i \in 1 .. Len(q) /\ q[i] = s
      BY <2>2, PlaceIs
    <3>2. G[s] = q[FirstFit(q, e, t, i)]
      BY <2>2
    <3> HIDE DEF i
    <3>3. Stop(s) <=> Queue!Fits(q, e, i, t)
      BY <3>1, StopsWhereItFits
    <3>4. nxt[s] = IF i = Len(q) THEN NULL ELSE q[i + 1]
      BY <3>1 DEF Linking
    <3>5. CASE Stop(s)
      <4>1. Queue!Behind(q, e, i, t) = {i}
        BY <1>1, <3>1, <3>3, <3>5, BehindSteps
      <4>2. FirstFit(q, e, t, i) = i
        BY <4>1 DEF FirstFit
      <4> HIDE DEF G, Stop
      <4> QED
        BY <3>1, <3>2, <3>5, <4>2
    <3>6. CASE ~ Stop(s)
      <4>1. i + 1 \in 1 .. Len(q) /\ Queue!Behind(q, e, i, t) = Queue!Behind(q, e, i + 1, t)
        BY <1>1, <3>1, <3>3, <3>6, BehindSteps
      <4>2. i # Len(q)
        BY <1>1, <4>1
      <4>3. nxt[s] = q[i + 1]
        BY <3>4, <4>2
      <4>4. In(q, nxt[s]) /\ PlaceIn(q, nxt[s]) = i + 1 /\ nxt[s] \in Timers
        BY <1>1, <4>1, <4>3, PlaceOf
      <4>5. G[nxt[s]] = q[FirstFit(q, e, t, i + 1)]
        BY <4>4
      <4>6. FirstFit(q, e, t, i) = FirstFit(q, e, t, i + 1)
        BY <4>1 DEF FirstFit
      <4> HIDE DEF G, Stop
      <4> QED
        BY <3>2, <3>6, <4>5, <4>6
    <3> QED
      BY <3>5, <3>6
  <2> QED
    BY <2>1, <2>2
<1>3. G = [s \in Timers |-> G[s]]
  OBVIOUS
<1> HIDE DEF G
<1>4. G = [s \in Timers |-> IF Stop(s) THEN s ELSE G[nxt[s]]]
  BY <1>2, <1>3
<1> QED
  BY <1>4 DEF Stops

\* There is no other, as to the timers of q.
LEMMA StopsIs ==
    ASSUME NEW nxt, NEW prv, NEW q, Linking(nxt, prv, q), NEW e, NEW t,
           NEW F, Stops(nxt, e, t, F), NEW k \in 1 .. Len(q)
    PROVE  F[q[k]] = q[FirstFit(q, e, t, k)]
<1>1. q \in Seq(Timers) /\ Len(q) \in Nat /\ \A i \in 1 .. Len(q) : q[i] \in Timers
  BY DEF Linking
<1> DEFINE S == {i \in 1 .. Len(q) : F[q[i]] = q[FirstFit(q, e, t, i)]}
<1>2. ASSUME NEW i \in 1 .. Len(q), \A j \in i + 1 .. Len(q) : j \in S PROVE i \in S
  <2>1. F[q[i]] = IF nxt[q[i]] = NULL \/ e[t] < e[nxt[q[i]]] THEN q[i] ELSE F[nxt[q[i]]]
    BY <1>1 DEF Stops
  <2>2. F[q[i]] = IF Queue!Fits(q, e, i, t) THEN q[i] ELSE F[nxt[q[i]]]
    BY <2>1, StopsWhereItFits
  <2>3. CASE Queue!Fits(q, e, i, t)
    <3>1. Queue!Behind(q, e, i, t) = {i}
      BY <1>1, <2>3, BehindSteps
    <3>2. FirstFit(q, e, t, i) = i
      BY <3>1 DEF FirstFit
    <3> QED
      BY <2>2, <2>3, <3>2
  <2>4. CASE ~ Queue!Fits(q, e, i, t)
    <3>1. i + 1 \in 1 .. Len(q) /\ Queue!Behind(q, e, i, t) = Queue!Behind(q, e, i + 1, t)
      BY <1>1, <2>4, BehindSteps
    <3>2. i # Len(q) /\ i + 1 \in i + 1 .. Len(q)
      BY <1>1, <3>1
    <3>3. nxt[q[i]] = q[i + 1]
      BY <3>2 DEF Linking
    <3>4. F[q[i + 1]] = q[FirstFit(q, e, t, i + 1)]
      BY <1>2, <3>2
    <3>5. FirstFit(q, e, t, i) = FirstFit(q, e, t, i + 1)
      BY <3>1 DEF FirstFit
    <3> QED
      BY <2>2, <2>4, <3>3, <3>4, <3>5
  <2> QED
    BY <2>3, <2>4
<1>3. S \subseteq 1 .. Len(q)
  OBVIOUS
<1> HIDE DEF S
<1>4. k \in S
  BY <1>1, <1>2, <1>3, FromBehind
<1> QED
  BY <1>4 DEF S

\* From place i on it stops behind the first place that fits.
LEMMA StopFromIs ==
    ASSUME NEW nxt, NEW prv, NEW q, Linking(nxt, prv, q), NEW e, NEW t,
           \A s \in Timers : ~ In(q, s) => nxt[s] = NULL \/ In(q, nxt[s]),
           NEW i \in 1 .. Len(q)
    PROVE  \E k \in Queue!Behind(q, e, i, t) : k \in 1 .. Len(q) /\ StopFrom(nxt, e, t, q[i]) = q[k]
<1> DEFINE F == CHOOSE F : Stops(nxt, e, t, F)
<1>1. Stops(nxt, e, t, F)
  BY StopsExists
<1>2. F = CHOOSE Place : Place = [p \in Timers |->
                              IF nxt[p] = NULL \/ e[t] < e[nxt[p]] THEN p ELSE Place[nxt[p]]]
  BY DEF Stops
<1>3. StopFrom(nxt, e, t, q[i]) = F[q[i]]
  BY <1>2 DEF StopFrom
<1> HIDE DEF F
<1>4. F[q[i]] = q[FirstFit(q, e, t, i)]
  BY <1>1, StopsIs
<1>5. q \in Seq(Timers) /\ Len(q) \in Nat
  BY DEF Linking
<1>6. FirstFit(q, e, t, i) \in Queue!Behind(q, e, i, t)
  BY <1>5, BehindExists DEF FirstFit
<1>7. FirstFit(q, e, t, i) \in 1 .. Len(q)
  BY <1>5, <1>6 DEF Queue!Behind
<1> QED
  BY <1>3, <1>4, <1>6, <1>7
-----------------------------------------------------------------------------
(* What the pointers stand for *)

\* The members of the queue after an insertion.
LEMMA InInserted ==
    ASSUME NEW q \in Seq(Timers), NEW k \in 0 .. Len(q), NEW t \in Timers, NEW s
    PROVE  In(Queue!Inserted(q, k, t), s) <=> In(q, s) \/ s = t
<1> DEFINE r == Queue!Inserted(q, k, t)
<1>0. Len(q) \in Nat /\ k \in Nat
  OBVIOUS
<1>1. Len(r) = Len(q) + 1
  BY InsertedProperties
<1>2. \A i \in 1 .. k : r[i] = q[i]
  BY InsertedProperties
<1>3. r[k + 1] = t
  BY InsertedProperties
<1>4. \A i \in k + 1 .. Len(q) : r[i + 1] = q[i]
  BY InsertedProperties
<1> HIDE DEF r
<1>5. ASSUME In(q, s) PROVE In(r, s)
  <2>1. PICK i \in 1 .. Len(q) : q[i] = s
    BY <1>5 DEF In
  <2>2. CASE i <= k
    <3>1. i \in 1 .. k /\ i \in 1 .. Len(r)
      BY <1>0, <1>1, <2>2
    <3> QED
      BY <1>2, <2>1, <3>1 DEF In
  <2>3. CASE i > k
    <3>1. i \in k + 1 .. Len(q) /\ i + 1 \in 1 .. Len(r)
      BY <1>0, <1>1, <2>3
    <3> QED
      BY <1>4, <2>1, <3>1 DEF In
  <2> QED
    BY <1>0, <2>2, <2>3
<1>6. k + 1 \in 1 .. Len(r)
  BY <1>0, <1>1
<1>7. ASSUME In(r, s), s # t PROVE In(q, s)
  <2>1. PICK i \in 1 .. Len(r) : r[i] = s
    BY <1>7 DEF In
  <2>2. i # k + 1
    BY <1>3, <1>7, <2>1
  <2>3. CASE i <= k
    <3>1. i \in 1 .. k /\ i \in 1 .. Len(q)
      BY <1>0, <2>3
    <3> QED
      BY <1>2, <2>1, <3>1 DEF In
  <2>4. CASE i > k
    <3>1. i - 1 \in k + 1 .. Len(q) /\ i - 1 \in 1 .. Len(q) /\ (i - 1) + 1 = i
      BY <1>0, <1>1, <2>2, <2>4
    <3>2. r[i] = q[i - 1]
      BY <1>4, <3>1
    <3> QED
      BY <2>1, <3>1, <3>2 DEF In
  <2> QED
    BY <1>0, <2>3, <2>4
<1>8. In(r, t)
  BY <1>3, <1>6 DEF In
<1> QED
  BY <1>5, <1>7, <1>8 DEF r

\* The members of the queue after a deletion.
LEMMA InDeleted ==
    ASSUME NEW q \in Seq(Timers), \A i, j \in 1 .. Len(q) : q[i] = q[j] => i = j,
           NEW k \in 1 .. Len(q), NEW s
    PROVE  In(Queue!Deleted(q, k), s) <=> In(q, s) /\ s # q[k]
<1> DEFINE r == Queue!Deleted(q, k)
<1>0. Len(q) \in Nat /\ k \in Nat
  OBVIOUS
<1>1. /\ Len(r) = Len(q) - 1
      /\ \A i \in 1 .. k - 1 : r[i] = q[i]
      /\ \A i \in k .. Len(q) - 1 : r[i] = q[i + 1]
  BY DeletedProperties
<1> HIDE DEF r
<1>2. ASSUME In(q, s), s # q[k] PROVE In(r, s)
  <2>1. PICK i \in 1 .. Len(q) : q[i] = s
    BY <1>2 DEF In
  <2>2. i # k
    BY <1>2, <2>1
  <2>3. CASE i < k
    <3>1. i \in 1 .. k - 1 /\ i \in 1 .. Len(r)
      BY <1>0, <1>1, <2>3
    <3> QED
      BY <1>1, <2>1, <3>1 DEF In
  <2>4. CASE i > k
    <3>1. i - 1 \in k .. Len(q) - 1 /\ i - 1 \in 1 .. Len(r) /\ (i - 1) + 1 = i
      BY <1>0, <1>1, <2>4
    <3>2. r[i - 1] = q[i]
      BY <1>1, <3>1
    <3> QED
      BY <2>1, <3>1, <3>2 DEF In
  <2> QED
    BY <1>0, <2>2, <2>3, <2>4
<1>3. ASSUME In(r, s) PROVE In(q, s) /\ s # q[k]
  <2>1. PICK i \in 1 .. Len(r) : r[i] = s
    BY <1>3 DEF In
  <2>2. CASE i < k
    <3>1. i \in 1 .. k - 1 /\ i \in 1 .. Len(q) /\ i # k
      BY <1>0, <1>1, <2>2
    <3>2. q[i] = s
      BY <1>1, <2>1, <3>1
    <3> QED
      BY <3>1, <3>2 DEF In
  <2>3. CASE i >= k
    <3>1. i \in k .. Len(q) - 1 /\ i + 1 \in 1 .. Len(q) /\ i + 1 # k
      BY <1>0, <1>1, <2>3
    <3>2. q[i + 1] = s
      BY <1>1, <2>1, <3>1
    <3> QED
      BY <3>1, <3>2 DEF In
  <2> QED
    BY <1>0, <2>2, <2>3
<1> QED
  BY <1>2, <1>3 DEF r

\* The pointers, the ends and the objects are those of the queue q.
Repr(h, tl, nxt, prv, hp, q) ==
    /\ Linking(nxt, prv, q)
    /\ hp \subseteq Timers /\ \A s \in Timers : s \in hp <=> In(q, s)
    /\ h = IF q = <<>> THEN NULL ELSE q[1]
    /\ q # <<>> => tl = q[Len(q)]
    /\ \A s \in Timers : ~ In(q, s) => nxt[s] = NULL /\ prv[s] = NULL

\* The pointers and the end that the private add_timer leaves, t put behind p.
Spliced(nxt, p, t) == Point(Point(nxt, t, nxt[p]), p, t)
SplicedBack(nxt, prv, p, t) == Point(Point(prv, nxt[p], t), t, p)
SplicedEnd(nxt, tl, p, t) == IF nxt[p] = NULL THEN t ELSE tl

\* The pointers lead through q, which has t not; t exists besides.
Besides(tl, nxt, prv, hp, q, t) ==
    /\ Linking(nxt, prv, q) /\ t \in Timers /\ ~ In(q, t)
    /\ tl = q[Len(q)]
    /\ hp \subseteq Timers /\ \A s \in Timers : s \in hp <=> In(q, s) \/ s = t
    /\ nxt[t] = NULL \/ In(q, nxt[t])
    /\ \A s \in Timers : s # t /\ ~ In(q, s) => nxt[s] = NULL /\ prv[s] = NULL

\* The private add_timer puts t behind the first place from i on that fits.
LEMMA PutBehind ==
    ASSUME NEW tl, NEW nxt, NEW prv, NEW hp, NEW q, NEW t, Besides(tl, nxt, prv, hp, q, t),
           NEW e, NEW i \in 1 .. Len(q), NEW p, p = StopFrom(nxt, e, t, q[i])
    PROVE  \E k \in Queue!Behind(q, e, i, t) :
               Repr(q[1], SplicedEnd(nxt, tl, p, t), Spliced(nxt, p, t),
                    SplicedBack(nxt, prv, p, t), hp, Queue!Inserted(q, k, t))
<1>0. /\ Linking(nxt, prv, q) /\ t \in Timers /\ ~ In(q, t)
      /\ tl = q[Len(q)]
      /\ hp \subseteq Timers /\ \A s \in Timers : s \in hp <=> In(q, s) \/ s = t
      /\ nxt[t] = NULL \/ In(q, nxt[t])
      /\ \A s \in Timers : s # t /\ ~ In(q, s) => nxt[s] = NULL /\ prv[s] = NULL
  BY DEF Besides
<1> USE <1>0
<1> DEFINE n2 == Spliced(nxt, p, t)
           p2 == SplicedBack(nxt, prv, p, t)
           tl2 == SplicedEnd(nxt, tl, p, t)
<1>a. /\ n2 = Point(Point(nxt, t, nxt[p]), p, t)
      /\ p2 = Point(Point(prv, nxt[p], t), t, p)
      /\ tl2 = IF nxt[p] = NULL THEN t ELSE tl
  BY DEF Spliced, SplicedBack, SplicedEnd
<1> HIDE DEF n2, p2, tl2
<1>1. /\ q \in Seq(Timers) /\ Len(q) \in Nat /\ NULL \notin Timers
      /\ \A j \in 1 .. Len(q) : q[j] \in Timers /\ q[j] # t
      /\ nxt \in [Timers -> Timers \cup {NULL}] /\ prv \in [Timers -> Timers \cup {NULL}]
  BY TimerListAssumption DEF Linking, In
<1>2. PICK k \in Queue!Behind(q, e, i, t) : k \in 1 .. Len(q) /\ p = q[k]
  <2>1. \A s \in Timers : ~ In(q, s) => nxt[s] = NULL \/ In(q, nxt[s])
    OBVIOUS
  <2> QED
    BY <2>1, StopFromIs
<1> DEFINE n == nxt[p]
           r == Queue!Inserted(q, k, t)
<1>3. n = IF k = Len(q) THEN NULL ELSE q[k + 1]
  BY <1>2 DEF Linking
<1>4. p \in Timers /\ p # t /\ n \in Timers \cup {NULL} /\ n # t
  <2>1. p \in Timers /\ p # t
    BY <1>1, <1>2
  <2>2. k # Len(q) => k + 1 \in 1 .. Len(q)
    BY <1>1, <1>2
  <2> QED
    BY <1>1, <1>3, <2>1, <2>2
<1> HIDE DEF n
<1>5. /\ n2 \in [Timers -> Timers \cup {NULL}]
      /\ \A s \in Timers : n2[s] = IF s = p THEN t ELSE IF s = t THEN n ELSE nxt[s]
  <2>1. n2 = [[nxt EXCEPT ![t] = n] EXCEPT ![p] = t]
    BY <1>a, <1>1, <1>4 DEF n, Point
  <2> QED
    BY <1>1, <1>4, <2>1
<1>6. /\ p2 \in [Timers -> Timers \cup {NULL}]
      /\ \A s \in Timers : p2[s] = IF s = t THEN p ELSE IF s = n THEN t ELSE prv[s]
  <2>1. CASE n = NULL
    <3>1. p2 = [prv EXCEPT ![t] = p]
      BY <1>a, <1>1, <2>1 DEF n, Point
    <3> QED
      BY <1>1, <1>4, <2>1, <3>1
  <2>2. CASE n # NULL
    <3>1. p2 = [[prv EXCEPT ![n] = t] EXCEPT ![t] = p]
      BY <1>a, <1>1, <2>2 DEF n, Point
    <3> QED
      BY <1>1, <1>4, <2>2, <3>1
  <2> QED
    BY <2>1, <2>2
<1>7. k \in 0 .. Len(q) /\ k # 0
  BY <1>1, <1>2
<1>8. Linking(n2, p2, r)
  <2>1. p = IF k = 0 THEN NULL ELSE q[k]
    BY <1>2, <1>7
  <2>2. p \in Timers \cup {NULL} /\ n \in Timers \cup {NULL}
    BY <1>4
  <2> HIDE DEF r
  <2> SUFFICES Linking(n2, p2, Queue!Inserted(q, k, t))
    BY DEF r
  <2>3. \A s \in Timers : n2[s] = IF s = t THEN n ELSE IF s = p THEN t ELSE nxt[s]
    BY <1>4, <1>5
  <2> QED
    BY <1>3, <1>5, <1>6, <1>7, <2>1, <2>2, <2>3, PutIn
<1>9. /\ r \in Seq(Timers) /\ Len(r) = Len(q) + 1
      /\ \A j \in 1 .. k : r[j] = q[j]
      /\ r[k + 1] = t
      /\ \A j \in k + 1 .. Len(q) : r[j + 1] = q[j]
  <2>1. r \in Seq(Timers) /\ Len(r) = Len(q) + 1
    BY <1>1, <1>7, InsertedProperties
  <2>2. \A j \in 1 .. k : r[j] = q[j]
    BY <1>1, <1>7, InsertedProperties
  <2>3. r[k + 1] = t
    BY <1>1, <1>7, InsertedProperties
  <2>4. \A j \in k + 1 .. Len(q) : r[j + 1] = q[j]
    BY <1>1, <1>7, InsertedProperties
  <2> HIDE DEF r
  <2> QED
    BY <2>1, <2>2, <2>3, <2>4
<1>10. \A s \in Timers : In(r, s) <=> In(q, s) \/ s = t
  BY <1>1, <1>7, InInserted
<1> HIDE DEF r
<1>11. r # <<>> /\ r[1] = q[1]
  <2>1. 1 \in 1 .. k /\ Len(r) # 0
    BY <1>1, <1>2, <1>9
  <2> QED
    BY <1>9, <2>1
<1>12. tl2 = r[Len(r)]
  <2>1. CASE k = Len(q)
    <3>1. n = NULL /\ Len(r) = k + 1
      BY <1>3, <1>9, <2>1
    <3> QED
      BY <1>a, <1>9, <3>1 DEF n
  <2>2. CASE k # Len(q)
    <3>1. k + 1 \in 1 .. Len(q) /\ Len(q) \in k + 1 .. Len(q)
      BY <1>1, <1>2, <2>2
    <3>2. n # NULL
      BY <1>1, <1>3, <2>2, <3>1
    <3>3. r[Len(r)] = q[Len(q)]
      BY <1>9, <3>1
    <3> QED
      BY <1>a, <3>2, <3>3 DEF n
  <2> QED
    BY <2>1, <2>2
<1>13. ASSUME NEW s \in Timers, ~ In(r, s) PROVE n2[s] = NULL /\ p2[s] = NULL
  <2>1. ~ In(q, s) /\ s # t
    BY <1>10, <1>13
  <2>2. nxt[s] = NULL /\ prv[s] = NULL
    BY <2>1
  <2>3. In(q, p) /\ (n # NULL => In(q, n))
    <3>1. k # Len(q) => k + 1 \in 1 .. Len(q)
      BY <1>1, <1>2
    <3> QED
      BY <1>2, <1>3, <3>1 DEF In
  <2>4. s # p /\ s # n
    BY <1>1, <2>1, <2>3
  <2> QED
    BY <1>5, <1>6, <2>1, <2>2, <2>4
<1>14. Repr(q[1], tl2, n2, p2, hp, r)
  BY <1>8, <1>10, <1>11, <1>12, <1>13 DEF Repr
<1> QED
  BY <1>14 DEF r, n2, p2, tl2

\* The pointers n2 and p2, with t taken out and its object deleted.
Cleared(nxt, prv, t, n2, p2) ==
    /\ n2 \in [Timers -> Timers \cup {NULL}] /\ p2 \in [Timers -> Timers \cup {NULL}]
    /\ \A s \in Timers :
           /\ n2[s] = IF s = t THEN NULL ELSE IF s = prv[t] THEN nxt[t] ELSE nxt[s]
           /\ p2[s] = IF s = t THEN NULL ELSE IF s = nxt[t] THEN prv[t] ELSE prv[s]

\* Deleting the timer at place i.
LEMMA DeleteIs ==
    ASSUME NEW h, NEW tl, NEW nxt, NEW prv, NEW hp, NEW q, Repr(h, tl, nxt, prv, hp, q),
           NEW i \in 1 .. Len(q), NEW t, t = q[i],
           NEW n2, NEW p2, Cleared(nxt, prv, t, n2, p2),
           NEW h2, i = 1 => h2 = nxt[t], i # 1 => h2 = h,
           NEW tl2, Len(q) # 1 => tl2 = IF i = Len(q) THEN prv[t] ELSE tl
    PROVE  Repr(h2, tl2, n2, p2, hp \ {t}, Queue!Deleted(q, i))
<1>0. /\ n2 \in [Timers -> Timers \cup {NULL}] /\ p2 \in [Timers -> Timers \cup {NULL}]
      /\ \A s \in Timers :
             /\ n2[s] = IF s = t THEN NULL ELSE IF s = prv[t] THEN nxt[t] ELSE nxt[s]
             /\ p2[s] = IF s = t THEN NULL ELSE IF s = nxt[t] THEN prv[t] ELSE prv[s]
  BY DEF Cleared
<1> USE <1>0
<1> DEFINE r == Queue!Deleted(q, i)
<1>1. /\ q \in Seq(Timers) /\ Len(q) \in Nat /\ q # <<>>
      /\ \A j \in 1 .. Len(q) : q[j] \in Timers
      /\ \A j, l \in 1 .. Len(q) : q[j] = q[l] => j = l
  BY EmptySeq DEF Repr, Linking
<1>2. /\ nxt[t] = IF i = Len(q) THEN NULL ELSE q[i + 1]
      /\ prv[t] = IF i = 1 THEN NULL ELSE q[i - 1]
  BY DEF Repr, Linking
<1>3. Linking(n2, p2, r)
  <2>1. Linking(nxt, prv, q)
    BY DEF Repr
  <2> QED
    BY <2>1, TakenOut
<1>4. /\ r \in Seq(Timers) /\ Len(r) = Len(q) - 1
      /\ \A j \in 1 .. i - 1 : r[j] = q[j]
      /\ \A j \in i .. Len(q) - 1 : r[j] = q[j + 1]
  BY <1>1, DeletedProperties
<1>5. \A s \in Timers : In(r, s) <=> In(q, s) /\ s # t
  BY <1>1, InDeleted
<1> HIDE DEF r
<1>6. r = <<>> <=> Len(q) = 1
  BY <1>1, <1>4, EmptySeq
<1>7. h2 = IF r = <<>> THEN NULL ELSE r[1]
  <2>1. CASE Len(q) = 1
    BY <1>2, <1>6, <2>1
  <2>2. CASE Len(q) # 1 /\ i = 1
    <3>0. PICK m \in Nat : m = Len(q)
      BY <1>1
    <3>1. 1 \in i .. Len(q) - 1 /\ i # Len(q)
      <4>1. i = 1 /\ m # 1 /\ i \in 1 .. m
        BY <2>2, <3>0
      <4>2. 1 \in i .. m - 1 /\ i # m
        BY <4>1
      <4> QED
        BY <3>0, <4>2
    <3> QED
      BY <1>2, <1>4, <1>6, <2>2, <3>1
  <2>3. CASE Len(q) # 1 /\ i # 1
    <3>1. 1 \in 1 .. i - 1 /\ h = q[1]
      BY <1>1, <2>3 DEF Repr
    <3> QED
      BY <1>4, <1>6, <2>3, <3>1
  <2> QED
    BY <2>1, <2>2, <2>3
<1>8. r # <<>> => tl2 = r[Len(r)]
  <2>1. CASE Len(q) # 1 /\ i = Len(q)
    <3>1. i # 1 /\ i - 1 \in 1 .. i - 1 /\ Len(r) = i - 1
      BY <1>1, <1>4, <2>1
    <3> QED
      BY <1>2, <1>4, <2>1, <3>1
  <2>2. CASE Len(q) # 1 /\ i # Len(q)
    <3>1. Len(r) \in i .. Len(q) - 1 /\ Len(r) + 1 = Len(q)
      BY <1>1, <1>4, <2>2
    <3>2. tl = q[Len(q)]
      BY <1>1 DEF Repr
    <3> QED
      BY <1>4, <2>2, <3>1, <3>2
  <2> QED
    BY <1>6, <2>1, <2>2
<1>9. ASSUME NEW s \in Timers, ~ In(r, s) PROVE n2[s] = NULL /\ p2[s] = NULL
  <2>1. CASE s = t
    BY <2>1
  <2>2. CASE s # t
    <3>1. ~ In(q, s)
      BY <1>5, <1>9, <2>2
    <3>2. s # prv[t] /\ s # nxt[t]
      <4>1. /\ i # Len(q) => i + 1 \in 1 .. Len(q)
            /\ i # 1 => i - 1 \in 1 .. Len(q)
        BY <1>1
      <4>2. s # NULL
        BY TimerListAssumption
      <4> QED
        BY <1>2, <3>1, <4>1, <4>2 DEF In
    <3>3. nxt[s] = NULL /\ prv[s] = NULL
      BY <3>1 DEF Repr
    <3> QED
      BY <2>2, <3>2, <3>3
  <2> QED
    BY <2>1, <2>2
<1>10. hp \ {t} \subseteq Timers /\ \A s \in Timers : s \in hp \ {t} <=> In(r, s)
  BY <1>5 DEF Repr
<1>11. Repr(h2, tl2, n2, p2, hp \ {t}, r)
  BY <1>3, <1>7, <1>8, <1>9, <1>10 DEF Repr
<1> QED
  BY <1>11 DEF r

\* Putting t in front.
LEMMA PutFront ==
    ASSUME NEW h, NEW tl, NEW nxt, NEW prv, NEW hp, NEW q, Repr(h, tl, nxt, prv, hp, q),
           NEW t \in Timers, ~ In(q, t),
           NEW tl2, q = <<>> => tl2 = t, q # <<>> => tl2 = tl
    PROVE  Repr(t, tl2, Point(nxt, t, h), Point(prv, h, t), hp \cup {t}, Queue!Inserted(q, 0, t))
<1> DEFINE n2 == Point(nxt, t, h)
           p2 == Point(prv, h, t)
           r == Queue!Inserted(q, 0, t)
<1>1. /\ q \in Seq(Timers) /\ Len(q) \in Nat /\ NULL \notin Timers /\ (q = <<>> <=> Len(q) = 0)
      /\ \A j \in 1 .. Len(q) : q[j] \in Timers
      /\ Linking(nxt, prv, q)
  BY TimerListAssumption, EmptySeq DEF Repr, Linking
<1>2. h = IF Len(q) = 0 THEN NULL ELSE q[1]
  BY <1>1 DEF Repr
<1>3. h \in Timers \cup {NULL} /\ h # t /\ (h # NULL => In(q, h))
  <2>1. Len(q) # 0 => 1 \in 1 .. Len(q)
    BY <1>1
  <2>2. h # NULL => In(q, h) /\ h \in Timers
    BY <1>1, <1>2, <2>1 DEF In
  <2> QED
    BY <1>1, <2>2
<1>a. /\ n2 \in [Timers -> Timers \cup {NULL}]
      /\ \A s \in Timers : n2[s] = IF s = t THEN h ELSE nxt[s]
  BY <1>1, <1>3 DEF Point, Linking
<1>b. /\ p2 \in [Timers -> Timers \cup {NULL}]
      /\ \A s \in Timers : p2[s] = IF s = h THEN t ELSE prv[s]
  BY <1>1, <1>3 DEF Point, Linking
<1> HIDE DEF n2, p2
<1>4. nxt[t] = NULL /\ prv[t] = NULL
  BY DEF Repr
<1>5. 0 \in 0 .. Len(q) /\ h = (IF 0 = Len(q) THEN NULL ELSE q[0 + 1])
  BY <1>1, <1>2
<1>6. Linking(n2, p2, r)
  <2>1. \A s \in Timers : /\ n2[s] = IF s = t THEN h ELSE IF s = NULL THEN t ELSE nxt[s]
                          /\ p2[s] = IF s = t THEN NULL ELSE IF s = h THEN t ELSE prv[s]
    BY <1>1, <1>3, <1>4, <1>a, <1>b
  <2>2. NULL \in Timers \cup {NULL} /\ NULL = IF 0 = 0 THEN NULL ELSE q[0]
    OBVIOUS
  <2> HIDE DEF r
  <2> SUFFICES Linking(n2, p2, Queue!Inserted(q, 0, t))
    BY DEF r
  <2> QED
    BY <1>1, <1>3, <1>5, <1>a, <1>b, <2>1, <2>2, PutIn
<1>7. r \in Seq(Timers) /\ Len(r) = Len(q) + 1 /\ r[1] = t
      /\ \A j \in 1 .. Len(q) : r[j + 1] = q[j]
  <2>1. r \in Seq(Timers) /\ Len(r) = Len(q) + 1
    BY <1>1, <1>5, InsertedProperties
  <2>2. r[0 + 1] = t
    BY <1>1, <1>5, InsertedProperties
  <2>3. \A j \in 0 + 1 .. Len(q) : r[j + 1] = q[j]
    BY <1>1, <1>5, InsertedProperties
  <2> HIDE DEF r
  <2> QED
    BY <2>1, <2>2, <2>3
<1>8. \A s \in Timers : In(r, s) <=> In(q, s) \/ s = t
  BY <1>1, <1>5, InInserted
<1> HIDE DEF r
<1>9. r # <<>>
  BY <1>1, <1>7, EmptySeq
<1>10. tl2 = r[Len(r)]
  <2>1. CASE q = <<>>
    BY <1>1, <1>7, <2>1
  <2>2. CASE q # <<>>
    <3>1. Len(q) \in 1 .. Len(q) /\ tl = q[Len(q)]
      BY <1>1, <2>2 DEF Repr
    <3> QED
      BY <1>7, <2>2, <3>1
  <2> QED
    BY <2>1, <2>2
<1>11. ASSUME NEW s \in Timers, ~ In(r, s) PROVE n2[s] = NULL /\ p2[s] = NULL
  <2>1. ~ In(q, s) /\ s # t
    BY <1>8, <1>11
  <2>2. nxt[s] = NULL /\ prv[s] = NULL
    BY <2>1 DEF Repr
  <2>3. s # h
    BY <1>1, <1>3, <2>1
  <2> QED
    BY <1>a, <1>b, <2>1, <2>2, <2>3
<1>12. hp \cup {t} \subseteq Timers /\ \A s \in Timers : s \in hp \cup {t} <=> In(r, s)
  BY <1>8 DEF Repr
<1>13. Repr(t, tl2, n2, p2, hp \cup {t}, r)
  BY <1>6, <1>7, <1>9, <1>10, <1>11, <1>12 DEF Repr
<1> QED
  BY <1>13 DEF r, n2, p2

\* The pointers n1 and p1, with t taken out.
Unlinked(nxt, prv, t, n1, p1) ==
    /\ n1 \in [Timers -> Timers \cup {NULL}] /\ p1 \in [Timers -> Timers \cup {NULL}]
    /\ \A s \in Timers : s # t =>
           /\ n1[s] = IF s = prv[t] THEN nxt[t] ELSE nxt[s]
           /\ p1[s] = IF s = nxt[t] THEN prv[t] ELSE prv[s]
    /\ n1[t] = NULL \/ n1[t] = nxt[t]

\* The list after t, at place i, was moved to behind the first place that fits.
Moved(tl, nxt, hp, q, i, t, e, n1, p1) ==
    LET d == Queue!Deleted(q, i)
        p == StopFrom(n1, e, t, nxt[t])
    IN  \E k \in Queue!Behind(d, e, i, t) :
            Repr(d[1], SplicedEnd(n1, tl, p, t), Spliced(n1, p, t), SplicedBack(n1, p1, p, t),
                 hp, Queue!Inserted(d, k, t))

\* The first of the queue after a deletion.
LEMMA HeadAfter ==
    ASSUME NEW h, NEW tl, NEW nxt, NEW prv, NEW hp, NEW q, Repr(h, tl, nxt, prv, hp, q),
           NEW i \in 1 .. Len(q), i # Len(q), NEW t, t = q[i]
    PROVE  Queue!Deleted(q, i)[1] = IF i = 1 THEN nxt[t] ELSE h
<1> DEFINE d == Queue!Deleted(q, i)
<1>1. /\ q \in Seq(Timers) /\ Len(q) \in Nat /\ q # <<>>
      /\ nxt[t] = q[i + 1]
      /\ h = q[1]
  BY EmptySeq DEF Repr, Linking
<1>2. /\ \A j \in 1 .. i - 1 : d[j] = q[j]
      /\ \A j \in i .. Len(q) - 1 : d[j] = q[j + 1]
  BY <1>1, DeletedProperties
<1> HIDE DEF d
<1>3. i \in i .. Len(q) - 1 /\ (i # 1 => 1 \in 1 .. i - 1)
  BY <1>1
<1>4. d[1] = IF i = 1 THEN nxt[t] ELSE h
  BY <1>1, <1>2, <1>3
<1> QED
  BY <1>4 DEF d

\* Moving the timer at place i, which is not the last, further on.
LEMMA MoveIs ==
    ASSUME NEW h, NEW tl, NEW nxt, NEW prv, NEW hp, NEW q, Repr(h, tl, nxt, prv, hp, q),
           NEW i \in 1 .. Len(q), i # Len(q), NEW t, t = q[i],
           NEW n1, NEW p1, Unlinked(nxt, prv, t, n1, p1), NEW e
    PROVE  Moved(tl, nxt, hp, q, i, t, e, n1, p1)
<1> DEFINE p == StopFrom(n1, e, t, nxt[t])
<1>0. /\ n1 \in [Timers -> Timers \cup {NULL}] /\ p1 \in [Timers -> Timers \cup {NULL}]
      /\ \A s \in Timers : s # t =>
             /\ n1[s] = IF s = prv[t] THEN nxt[t] ELSE nxt[s]
             /\ p1[s] = IF s = nxt[t] THEN prv[t] ELSE prv[s]
      /\ n1[t] = NULL \/ n1[t] = nxt[t]
  BY DEF Unlinked
<1> DEFINE d == Queue!Deleted(q, i)
<1>1. /\ q \in Seq(Timers) /\ Len(q) \in Nat /\ q # <<>> /\ NULL \notin Timers
      /\ \A j \in 1 .. Len(q) : q[j] \in Timers
      /\ \A j, l \in 1 .. Len(q) : q[j] = q[l] => j = l
      /\ Linking(nxt, prv, q)
  BY TimerListAssumption, EmptySeq DEF Repr, Linking
<1>2. /\ nxt[t] = q[i + 1] /\ i + 1 \in 1 .. Len(q)
      /\ prv[t] = IF i = 1 THEN NULL ELSE q[i - 1]
  BY <1>1 DEF Repr, Linking
<1>3. Linking(n1, p1, d) /\ ~ In(d, t)
  BY <1>0, <1>1, TakenOut
<1>4. /\ d \in Seq(Timers) /\ Len(d) = Len(q) - 1
      /\ \A j \in 1 .. i - 1 : d[j] = q[j]
      /\ \A j \in i .. Len(q) - 1 : d[j] = q[j + 1]
  BY <1>1, DeletedProperties
<1>5. \A s \in Timers : In(d, s) <=> In(q, s) /\ s # t
  BY <1>1, InDeleted
<1> HIDE DEF d
<1>6. i \in 1 .. Len(d) /\ nxt[t] = d[i]
  BY <1>1, <1>2, <1>4
<1>8. tl = d[Len(d)]
  <2>1. Len(d) \in i .. Len(q) - 1 /\ Len(d) + 1 = Len(q) /\ tl = q[Len(q)]
    BY <1>1, <1>4, <1>6 DEF Repr
  <2> QED
    BY <1>4, <2>1
<1>9. t \in Timers /\ t \in hp /\ hp \subseteq Timers
  <2>1. t \in Timers /\ In(q, t)
    BY <1>1 DEF In
  <2> QED
    BY <2>1 DEF Repr
<1>10. \A s \in Timers : s \in hp <=> In(d, s) \/ s = t
  BY <1>5, <1>9 DEF Repr
<1>11. n1[t] = NULL \/ In(d, n1[t])
  BY <1>0, <1>6 DEF In
<1>12. ASSUME NEW s \in Timers \ {t}, ~ In(d, s) PROVE n1[s] = NULL /\ p1[s] = NULL
  <2>1. ~ In(q, s)
    BY <1>5, <1>12
  <2>2. nxt[s] = NULL /\ prv[s] = NULL
    BY <2>1 DEF Repr
  <2>3. s # prv[t] /\ s # nxt[t]
    <3>1. i # 1 => i - 1 \in 1 .. Len(q)
      BY <1>1
    <3> QED
      BY <1>1, <1>2, <2>1, <3>1 DEF In
  <2> QED
    BY <1>0, <2>2, <2>3
<1>13. p = StopFrom(n1, e, t, d[i])
  BY <1>6
<1>14. \E k \in Queue!Behind(d, e, i, t) :
           Repr(d[1], SplicedEnd(n1, tl, p, t), Spliced(n1, p, t), SplicedBack(n1, p1, p, t), hp,
                Queue!Inserted(d, k, t))
  <2>1. Besides(tl, n1, p1, hp, d, t)
    BY <1>3, <1>8, <1>9, <1>10, <1>11, <1>12 DEF Besides
  <2>2. i \in 1 .. Len(d)
    BY <1>6
  <2> QED
    BY <1>13, <2>1, <2>2, PutBehind
<1> QED
  BY <1>14 DEF d, Moved

-----------------------------------------------------------------------------
(* The operations *)

\* The list stands for q.
Represents(q) == Repr(head, tail, next, prev, heap, q)

\* The list from head on is the queue that the list stands for,
LEMMA ChainFromIs ==
    ASSUME NEW h, NEW tl, NEW nxt, NEW prv, NEW hp, NEW q, Repr(h, tl, nxt, prv, hp, q)
    PROVE  ChainFrom(nxt, h) = q
  BY ChainIs DEF Repr

\* before a step
LEMMA ChainNow ==
    ASSUME NEW q, Represents(q)
    PROVE  Chain = q
<1>1. Chain = ChainFrom(next, head)
  BY DEF Chain, ChainFrom
<1> QED
  BY <1>1, ChainFromIs DEF Represents

\* and after it.
LEMMA ChainThen ==
    ASSUME NEW q, Represents(q)'
    PROVE  Chain' = q
<1>1. Chain' = ChainFrom(next', head')
  BY DEF Chain, ChainFrom
<1> QED
  BY <1>1, ChainFromIs DEF Represents

\* The conditions of del_timer and adjust_timer on the ends and on next.
LEMMA Ends ==
    ASSUME NEW q, Represents(q), NEW t \in heap
    PROVE  \E i \in 1 .. Len(q) :
               /\ q[i] = t /\ t \in Timers
               /\ t = head <=> i = 1
               /\ t = tail <=> i = Len(q)
               /\ next[t] = IF i = Len(q) THEN NULL ELSE q[i + 1]
               /\ prev[t] = IF i = 1 THEN NULL ELSE q[i - 1]
<1>1. /\ Linking(next, prev, q) /\ heap \subseteq Timers /\ In(q, t)
      /\ head = IF q = <<>> THEN NULL ELSE q[1]
      /\ q # <<>> => tail = q[Len(q)]
  BY DEF Represents, Repr
<1>2. PICK i \in 1 .. Len(q) : q[i] = t
  BY <1>1 DEF In
<1>3. /\ q \in Seq(Timers) /\ Len(q) \in Nat /\ q # <<>>
      /\ \A j, l \in 1 .. Len(q) : q[j] = q[l] => j = l
      /\ next[t] = IF i = Len(q) THEN NULL ELSE q[i + 1]
      /\ prev[t] = IF i = 1 THEN NULL ELSE q[i - 1]
  BY <1>1, <1>2, EmptySeq DEF Linking
<1>4. 1 \in 1 .. Len(q) /\ Len(q) \in 1 .. Len(q)
  BY <1>2, <1>3
<1>5. t = head <=> i = 1
  BY <1>1, <1>2, <1>3, <1>4
<1>6. t = tail <=> i = Len(q)
  BY <1>1, <1>2, <1>3, <1>4
<1> QED
  BY <1>1, <1>2, <1>3, <1>5, <1>6

\* The private add_timer in terms of the place where prev stops.
LEMMA AddBehindIs ==
    ASSUME NEW nxt, NEW prv, NEW h, NEW t, AddBehind(nxt, prv, h, t),
           NEW p, p = StopFrom(nxt, expire', t, h)
    PROVE  /\ next' = Spliced(nxt, p, t) /\ prev' = SplicedBack(nxt, prv, p, t)
           /\ tail' = SplicedEnd(nxt, tail, p, t)
  BY DEF AddBehind, StopFrom, Spliced, SplicedBack, SplicedEnd

\* add_timer puts t where the queue has it put.
LEMMA AddTimer ==
    ASSUME NEW q, Represents(q), NEW t \in Timers, add_timer(t)
    PROVE  \E k \in Queue!Places(q, expire', t) : Represents(Queue!Inserted(q, k, t))'
<1>0. NULL \notin Timers
  BY TimerListAssumption
<1>1. Repr(head, tail, next, prev, heap, q)
  BY DEF Represents
<1>2. /\ Linking(next, prev, q) /\ q \in Seq(Timers) /\ Len(q) \in Nat
      /\ \A j \in 1 .. Len(q) : q[j] \in Timers
      /\ next \in [Timers -> Timers \cup {NULL}] /\ prev \in [Timers -> Timers \cup {NULL}]
      /\ head = IF q = <<>> THEN NULL ELSE q[1]
  BY DEF Represents, Repr, Linking
<1>3. ~ In(q, t) /\ next[t] = NULL /\ prev[t] = NULL /\ heap' = heap \cup {t}
  BY <1>1 DEF Repr, add_timer
<1>4. q # <<>> => 1 \in 1 .. Len(q) /\ head \in Timers /\ head # NULL /\ head = q[1]
  BY <1>0, <1>2, EmptySeq
<1>5. CASE AddFirst(t)
  <2>1. q = <<>>
    BY <1>4, <1>5 DEF AddFirst
  <2>2. /\ head = NULL /\ head' = t /\ tail' = t /\ next' = next /\ prev' = prev
    BY <1>5 DEF AddFirst
  <2>3. Point(next, t, head) = next /\ Point(prev, head, t) = prev
    BY <1>0, <1>2, <1>3, <2>2 DEF Point
  <2>4. Repr(head', tail', next', prev', heap', Queue!Inserted(q, 0, t))
    <3>1. (q = <<>> => tail' = t) /\ (q # <<>> => tail' = tail)
      BY <2>1, <2>2
    <3> QED
      BY <1>1, <1>3, <2>2, <2>3, <3>1, PutFront
  <2>5. 0 \in Queue!Places(q, expire', t)
    BY <2>1 DEF Queue!Places
  <2> QED
    BY <2>4, <2>5 DEF Represents
<1>6. CASE AddFront(t)
  <2>1. /\ head # NULL /\ expire'[t] < expire'[head] /\ head' = t /\ tail' = tail
        /\ next' = Point(next, t, head) /\ prev' = Point(prev, head, t)
    BY <1>6 DEF AddFront
  <2>2. q # <<>> /\ head = q[1] /\ head \in Timers
    BY <1>2, <1>4, <2>1
  <2>5. (q = <<>> => tail' = t) /\ (q # <<>> => tail' = tail)
    BY <2>1, <2>2
  <2>6. Repr(t, tail', next', prev', heap \cup {t}, Queue!Inserted(q, 0, t))
    BY <1>1, <1>3, <2>1, <2>5, PutFront
  <2>7. 0 \in Queue!Places(q, expire', t)
    BY <2>1, <2>2 DEF Queue!Places
  <2>8. Repr(head', tail', next', prev', heap', Queue!Inserted(q, 0, t))
    BY <1>3, <2>1, <2>6
  <2> QED
    BY <2>7, <2>8 DEF Represents
<1>7. CASE /\ head # NULL /\ ~ (expire'[t] < expire'[head])
           /\ AddBehind(next, prev, head, t) /\ UNCHANGED head
  <2>1. q # <<>> /\ head = q[1] /\ 1 \in 1 .. Len(q) /\ head' = q[1]
    BY <1>2, <1>4, <1>7
  <2> DEFINE p == StopFrom(next, expire', t, head)
  <2>2. /\ next' = Spliced(next, p, t) /\ prev' = SplicedBack(next, prev, p, t)
        /\ tail' = SplicedEnd(next, tail, p, t)
    BY <1>7, AddBehindIs
  <2>3. Besides(tail, next, prev, heap', q, t)
    BY <1>1, <1>3, <2>1 DEF Repr, Besides
  <2>4. p = StopFrom(next, expire', t, q[1])
    BY <2>1
  <2> HIDE DEF p
  <2>5. \E k \in Queue!Behind(q, expire', 1, t) :
            Repr(q[1], SplicedEnd(next, tail, p, t), Spliced(next, p, t),
                 SplicedBack(next, prev, p, t), heap', Queue!Inserted(q, k, t))
    BY <2>1, <2>3, <2>4, PutBehind
  <2>6. \E k \in Queue!Behind(q, expire', 1, t) :
            Repr(head', tail', next', prev', heap', Queue!Inserted(q, k, t))
    BY <2>1, <2>2, <2>5
  <2>7. Queue!Places(q, expire', t) = Queue!Behind(q, expire', 1, t)
    BY <1>7, <2>1 DEF Queue!Places
  <2> QED
    BY <2>6, <2>7 DEF Represents
<1> QED
  BY <1>5, <1>6, <1>7 DEF add_timer

\* adjust_timer leaves t where it is if it fits there, and else moves it further on.
LEMMA AdjustTimer ==
    ASSUME NEW q, Represents(q), NEW t \in Timers, adjust_timer(t)
    PROVE  \E i \in 1 .. Len(q) :
               /\ q[i] = t
               /\ \/ Queue!Fits(q, expire', i, t) /\ Represents(q)'
                  \/ /\ ~ Queue!Fits(q, expire', i, t)
                     /\ \E k \in Queue!Behind(Queue!Deleted(q, i), expire', i, t) :
                            Represents(Queue!Inserted(Queue!Deleted(q, i), k, t))'
<1>0. NULL \notin Timers /\ t \in heap /\ heap' = heap
  BY TimerListAssumption DEF adjust_timer
<1>1. Repr(head, tail, next, prev, heap, q)
  BY DEF Represents
<1>2. /\ Linking(next, prev, q) /\ q \in Seq(Timers) /\ Len(q) \in Nat
      /\ \A j \in 1 .. Len(q) : q[j] \in Timers
      /\ next \in [Timers -> Timers \cup {NULL}] /\ prev \in [Timers -> Timers \cup {NULL}]
  BY DEF Represents, Repr, Linking
<1>3. PICK i \in 1 .. Len(q) :
               /\ q[i] = t /\ t \in Timers
               /\ t = head <=> i = 1
               /\ t = tail <=> i = Len(q)
               /\ next[t] = IF i = Len(q) THEN NULL ELSE q[i + 1]
               /\ prev[t] = IF i = 1 THEN NULL ELSE q[i - 1]
  BY <1>0, Ends
<1>4. (next[t] = NULL \/ expire'[t] < expire'[next[t]]) <=> Queue!Fits(q, expire', i, t)
  BY <1>2, <1>3, StopsWhereItFits
<1>5. CASE /\ next[t] # NULL => expire'[t] < expire'[next[t]]
           /\ UNCHANGED links
  <2>1. Queue!Fits(q, expire', i, t)
    BY <1>4, <1>5
  <2>2. Represents(q)'
    BY <1>0, <1>1, <1>5 DEF links, Represents
  <2> QED
    BY <1>3, <2>1, <2>2
<1>6. CASE /\ next[t] # NULL /\ ~ (expire'[t] < expire'[next[t]])
           /\ MoveHead(t) \/ MoveInner(t)
  <2>1. ~ Queue!Fits(q, expire', i, t)
    BY <1>4, <1>6
  <2>2. i # Len(q) /\ i + 1 \in 1 .. Len(q) /\ next[t] = q[i + 1] /\ next[t] \in Timers
    BY <1>2, <1>3, <1>6
  <2>3. prev[t] \in Timers \cup {NULL} /\ (prev[t] = NULL <=> i = 1)
    <3>1. i # 1 => i - 1 \in 1 .. Len(q)
      BY <1>2
    <3> QED
      BY <1>0, <1>2, <1>3, <3>1
  <2>4. \E n1, p1 :
            /\ Unlinked(next, prev, t, n1, p1)
            /\ AddBehind(n1, p1, next[t], t)
            /\ i = 1 => head' = next[t]
            /\ i # 1 => head' = head
    <3>1. CASE MoveHead(t)
      <4> DEFINE n1 == Point(next, t, NULL)
                 p1 == Point(prev, next[t], NULL)
      <4>1. i = 1 /\ prev[t] = NULL /\ head' = next[t] /\ AddBehind(n1, p1, next[t], t)
        BY <1>3, <2>3, <3>1 DEF MoveHead
      <4>2. n1 = [next EXCEPT ![t] = NULL] /\ p1 = [prev EXCEPT ![next[t]] = NULL]
        BY <1>0, <2>2 DEF Point
      <4> HIDE DEF n1, p1
      <4>3. /\ n1 \in [Timers -> Timers \cup {NULL}] /\ p1 \in [Timers -> Timers \cup {NULL}]
            /\ \A s \in Timers : n1[s] = IF s = t THEN NULL ELSE next[s]
            /\ \A s \in Timers : p1[s] = IF s = next[t] THEN NULL ELSE prev[s]
        BY <1>2, <4>2
      <4>4. \A s \in Timers : s # NULL
        BY <1>0
      <4>5. \A s \in Timers : s # t =>
                   /\ n1[s] = IF s = prev[t] THEN next[t] ELSE next[s]
                   /\ p1[s] = IF s = next[t] THEN prev[t] ELSE prev[s]
        BY <4>1, <4>3, <4>4
      <4>6. n1[t] = NULL
        BY <4>1, <4>3
      <4>7. Unlinked(next, prev, t, n1, p1)
        BY <4>3, <4>5, <4>6 DEF Unlinked
      <4> QED
        BY <4>1, <4>7
    <3>2. CASE MoveInner(t)
      <4> DEFINE n1 == Point(next, prev[t], next[t])
                 p1 == Point(prev, next[t], prev[t])
      <4>1. i # 1 /\ prev[t] # NULL /\ head' = head /\ AddBehind(n1, p1, next[t], t)
        BY <1>3, <2>3, <3>2 DEF MoveInner
      <4>2. n1 = [next EXCEPT ![prev[t]] = next[t]] /\ p1 = [prev EXCEPT ![next[t]] = prev[t]]
        BY <1>0, <2>2, <4>1 DEF Point
      <4> HIDE DEF n1, p1
      <4>3. /\ n1 \in [Timers -> Timers \cup {NULL}] /\ p1 \in [Timers -> Timers \cup {NULL}]
            /\ \A s \in Timers : n1[s] = IF s = prev[t] THEN next[t] ELSE next[s]
            /\ \A s \in Timers : p1[s] = IF s = next[t] THEN prev[t] ELSE prev[s]
        BY <1>2, <2>2, <2>3, <4>2
      <4>4. n1[t] = next[t]
        BY <4>1, <4>3
      <4>5. Unlinked(next, prev, t, n1, p1)
        BY <4>3, <4>4 DEF Unlinked
      <4> QED
        BY <4>1, <4>5
    <3> QED
      BY <1>6, <3>1, <3>2
  <2>5. PICK n1, p1 :
            /\ Unlinked(next, prev, t, n1, p1)
            /\ AddBehind(n1, p1, next[t], t)
            /\ i = 1 => head' = next[t]
            /\ i # 1 => head' = head
    BY <2>4
  <2> DEFINE p == StopFrom(n1, expire', t, next[t])
  <2>6. /\ next' = Spliced(n1, p, t) /\ prev' = SplicedBack(n1, p1, p, t)
        /\ tail' = SplicedEnd(n1, tail, p, t)
    BY <2>5, AddBehindIs
  <2>7. p = StopFrom(n1, expire', t, next[t])
    OBVIOUS
  <2> HIDE DEF p
  <2>a. Queue!Deleted(q, i)[1] = IF i = 1 THEN next[t] ELSE head
    BY <1>1, <1>3, <2>2, HeadAfter
  <2>b. Moved(tail, next, heap, q, i, t, expire', n1, p1)
    BY <1>1, <1>3, <2>2, <2>5, MoveIs
  <2>8. \E k \in Queue!Behind(Queue!Deleted(q, i), expire', i, t) :
            Repr(head', SplicedEnd(n1, tail, p, t), Spliced(n1, p, t),
                 SplicedBack(n1, p1, p, t), heap, Queue!Inserted(Queue!Deleted(q, i), k, t))
    BY <2>5, <2>7, <2>a, <2>b DEF Moved
  <2>9. \E k \in Queue!Behind(Queue!Deleted(q, i), expire', i, t) :
            Repr(head', tail', next', prev', heap', Queue!Inserted(Queue!Deleted(q, i), k, t))
    BY <1>0, <2>6, <2>8
  <2> QED
    BY <1>3, <2>1, <2>9 DEF Represents
<1> QED
  BY <1>5, <1>6 DEF adjust_timer

\* del_timer takes t out, wherever it stands.
LEMMA DelTimer ==
    ASSUME NEW q, Represents(q), NEW t \in Timers, del_timer(t)
    PROVE  \E i \in 1 .. Len(q) : q[i] = t /\ Represents(Queue!Deleted(q, i))'
<1>0. NULL \notin Timers /\ t \in heap /\ heap' = heap \ {t}
  BY TimerListAssumption DEF del_timer, Delete
<1>1. Repr(head, tail, next, prev, heap, q)
  BY DEF Represents
<1>2. /\ Linking(next, prev, q) /\ q \in Seq(Timers) /\ Len(q) \in Nat
      /\ \A j \in 1 .. Len(q) : q[j] \in Timers
      /\ next \in [Timers -> Timers \cup {NULL}] /\ prev \in [Timers -> Timers \cup {NULL}]
  BY DEF Represents, Repr, Linking
<1>3. PICK i \in 1 .. Len(q) :
               /\ q[i] = t /\ t \in Timers
               /\ t = head <=> i = 1
               /\ t = tail <=> i = Len(q)
               /\ next[t] = IF i = Len(q) THEN NULL ELSE q[i + 1]
               /\ prev[t] = IF i = 1 THEN NULL ELSE q[i - 1]
  BY <1>0, Ends
<1>4. /\ next[t] = NULL \/ next[t] \in Timers
      /\ prev[t] = NULL \/ prev[t] \in Timers
      /\ next[t] = NULL <=> i = Len(q)
      /\ prev[t] = NULL <=> i = 1
      /\ \A s \in Timers : s # NULL
  <2>1. (i # 1 => i - 1 \in 1 .. Len(q)) /\ (i # Len(q) => i + 1 \in 1 .. Len(q))
    BY <1>2
  <2> QED
    BY <1>0, <1>2, <1>3, <2>1
<1>5. Len(q) # 1 => ~ (i = 1 /\ i = Len(q))
  OBVIOUS
<1>6. CASE /\ t = head /\ t = tail
           /\ head' = NULL /\ tail' = NULL
           /\ Delete(next, prev, t)
  <2>1. i = 1 /\ i = Len(q) /\ head' = next[t]
    BY <1>3, <1>4, <1>6
  <2>2. next' = [next EXCEPT ![t] = NULL] /\ prev' = [prev EXCEPT ![t] = NULL]
    BY <1>0, <1>6 DEF Delete, Point
  <2>3. Cleared(next, prev, t, next', prev')
    BY <1>2, <1>4, <2>1, <2>2 DEF Cleared
  <2>4. Repr(head', tail', next', prev', heap \ {t}, Queue!Deleted(q, i))
    BY <1>1, <1>3, <2>1, <2>3, DeleteIs
  <2> QED
    BY <1>0, <1>3, <2>4 DEF Represents
<1>7. CASE /\ t = head /\ t # tail
           /\ head' = next[t]
           /\ Delete(next, Point(prev, next[t], NULL), t)
           /\ UNCHANGED tail
  <2>1. i = 1 /\ i # Len(q) /\ next[t] # NULL /\ prev[t] = NULL
    BY <1>3, <1>4, <1>7
  <2>2. /\ next' = [next EXCEPT ![t] = NULL]
        /\ prev' = [[prev EXCEPT ![next[t]] = NULL] EXCEPT ![t] = NULL]
    BY <1>0, <1>7, <2>1 DEF Delete, Point
  <2>3. Cleared(next, prev, t, next', prev')
    BY <1>2, <1>4, <2>1, <2>2 DEF Cleared
  <2>4. Repr(head', tail', next', prev', heap \ {t}, Queue!Deleted(q, i))
    BY <1>1, <1>3, <1>7, <2>1, <2>3, DeleteIs
  <2> QED
    BY <1>0, <1>3, <2>4 DEF Represents
<1>8. CASE /\ t # head /\ t = tail
           /\ tail' = prev[t]
           /\ Delete(Point(next, prev[t], NULL), prev, t)
           /\ UNCHANGED head
  <2>1. i # 1 /\ i = Len(q) /\ next[t] = NULL /\ prev[t] # NULL
    BY <1>3, <1>4, <1>8
  <2>2. /\ next' = [[next EXCEPT ![prev[t]] = NULL] EXCEPT ![t] = NULL]
        /\ prev' = [prev EXCEPT ![t] = NULL]
    BY <1>0, <1>8, <2>1 DEF Delete, Point
  <2>3. Cleared(next, prev, t, next', prev')
    BY <1>2, <1>4, <2>1, <2>2 DEF Cleared
  <2>4. Repr(head', tail', next', prev', heap \ {t}, Queue!Deleted(q, i))
    BY <1>1, <1>3, <1>8, <2>1, <2>3, DeleteIs
  <2> QED
    BY <1>0, <1>3, <2>4 DEF Represents
<1>9. CASE /\ t # head /\ t # tail
           /\ Delete(Point(next, prev[t], next[t]), Point(prev, next[t], prev[t]), t)
           /\ UNCHANGED <<head, tail>>
  <2>1. i # 1 /\ i # Len(q) /\ next[t] # NULL /\ prev[t] # NULL
    BY <1>3, <1>4, <1>9
  <2>2. /\ next' = [[next EXCEPT ![prev[t]] = next[t]] EXCEPT ![t] = NULL]
        /\ prev' = [[prev EXCEPT ![next[t]] = prev[t]] EXCEPT ![t] = NULL]
    BY <1>0, <1>9, <2>1 DEF Delete, Point
  <2>3. Cleared(next, prev, t, next', prev')
    BY <1>2, <1>4, <2>1, <2>2 DEF Cleared
  <2>4. Repr(head', tail', next', prev', heap \ {t}, Queue!Deleted(q, i))
    BY <1>1, <1>3, <1>9, <2>1, <2>3, DeleteIs
  <2> QED
    BY <1>0, <1>3, <2>4 DEF Represents
<1> QED
  BY <1>6, <1>7, <1>8, <1>9 DEF del_timer

\* A turn of tick takes out the first.
LEMMA TickTimer ==
    ASSUME NEW q, Represents(q), NEW t \in Timers, tick(t)
    PROVE  q # <<>> /\ t = q[1] /\ Represents(Queue!Deleted(q, 1))'
<1>0. /\ NULL \notin Timers /\ t = head /\ t # NULL /\ heap' = heap \ {t}
      /\ head' = next[t] /\ tail' = tail
      /\ next' = Point(next, t, NULL) /\ prev' = Point(Point(prev, next[t], NULL), t, NULL)
  BY TimerListAssumption DEF tick, Delete
<1>1. Repr(head, tail, next, prev, heap, q)
  BY DEF Represents
<1>2. /\ Linking(next, prev, q) /\ q \in Seq(Timers) /\ Len(q) \in Nat
      /\ \A j \in 1 .. Len(q) : q[j] \in Timers
      /\ next \in [Timers -> Timers \cup {NULL}] /\ prev \in [Timers -> Timers \cup {NULL}]
  BY DEF Represents, Repr, Linking
<1>3. q # <<>> /\ q[1] = t /\ 1 \in 1 .. Len(q)
  <2>1. q # <<>> /\ q[1] = t
    BY <1>0, <1>1 DEF Repr
  <2> QED
    BY <1>2, <2>1, EmptySeq
<1>4. /\ prev[t] = NULL
      /\ next[t] = IF 1 = Len(q) THEN NULL ELSE q[1 + 1]
  BY <1>2, <1>3 DEF Linking
<1>5. /\ next[t] = NULL \/ next[t] \in Timers
      /\ \A s \in Timers : s # NULL
  BY <1>0, <1>2
<1>6. next' = [next EXCEPT ![t] = NULL]
  BY <1>0 DEF Point
<1>7. Cleared(next, prev, t, next', prev')
  <2>1. CASE next[t] = NULL
    <3>1. prev' = [prev EXCEPT ![t] = NULL]
      BY <1>0, <2>1 DEF Point
    <3> QED
      BY <1>2, <1>4, <1>5, <1>6, <2>1, <3>1 DEF Cleared
  <2>2. CASE next[t] # NULL
    <3>1. prev' = [[prev EXCEPT ![next[t]] = NULL] EXCEPT ![t] = NULL]
      BY <1>0, <2>2 DEF Point
    <3> QED
      BY <1>2, <1>4, <1>5, <1>6, <2>2, <3>1 DEF Cleared
  <2> QED
    BY <2>1, <2>2
<1>8. Len(q) # 1 => tail' = IF 1 = Len(q) THEN prev[t] ELSE tail
  BY <1>0
<1>9. Repr(head', tail', next', prev', heap \ {t}, Queue!Deleted(q, 1))
  BY <1>0, <1>1, <1>3, <1>7, <1>8, DeleteIs
<1> QED
  BY <1>0, <1>3, <1>9 DEF Represents

-----------------------------------------------------------------------------
(* The list implements the queue *)

TypeOK == expire \in [Timers -> Nat] /\ back \in Nat

\* The inductive invariant: the pointers are those of some queue.
ListInv == TypeOK /\ \E q : Represents(q)

\* At first the queue is empty.
LEMMA InitRepresents ==
    ASSUME Init
    PROVE  Represents(<<>>)
<1>1. Linking(next, prev, <<>>)
  BY DEF Init, Linking
<1>2. \A t : ~ In(<<>>, t)
  BY DEF In
<1> QED
  BY <1>1, <1>2 DEF Init, Represents, Repr

\* Taking out the first leaves the tail of the queue.
LEMMA DeletedFirst ==
    ASSUME NEW q \in Seq(Timers), q # <<>>
    PROVE  q[1] = Head(q) /\ Queue!Deleted(q, 1) = Tail(q)
<1>1. Len(q) \in Nat /\ Len(q) # 0
  BY EmptySeq
<1>2. 1 \in 1 .. Len(q)
  BY <1>1
<1> DEFINE d == Queue!Deleted(q, 1)
<1>3. /\ d \in Seq(Timers) /\ Len(d) = Len(q) - 1
      /\ \A i \in 1 .. Len(q) - 1 : d[i] = q[i + 1]
  BY <1>2, DeletedProperties
<1> HIDE DEF d
<1>4. /\ Tail(q) \in Seq(Timers) /\ Len(Tail(q)) = Len(q) - 1
      /\ \A i \in 1 .. Len(Tail(q)) : Tail(q)[i] = q[i + 1]
  BY HeadTailProperties
<1>5. d = Tail(q)
  BY <1>3, <1>4, SeqEqual
<1>6. q[1] = Head(q)
  BY HeadTailProperties
<1> QED
  BY <1>5, <1>6 DEF d

\* The timers that exist are those of the queue.
LEMMA ListedIs ==
    ASSUME NEW q, Represents(q)
    PROVE  heap = {q[i] : i \in DOMAIN q} /\ DOMAIN q = 1 .. Len(q)
<1>1. /\ q \in Seq(Timers) /\ heap \subseteq Timers /\ \A s \in Timers : s \in heap <=> In(q, s)
      /\ \A i \in 1 .. Len(q) : q[i] \in Timers
  BY DEF Represents, Repr, Linking
<1>2. DOMAIN q = 1 .. Len(q)
  BY <1>1, LenProperties
<1> QED
  BY <1>1, <1>2 DEF In

\* Each operation on the pointers is the operation on the queue.
LEMMA NextRepresents ==
    ASSUME TypeOK, NEW q, Represents(q), [Next]_vars
    PROVE  /\ TypeOK'
           /\ \E r : Represents(r)'
           /\ [Queue!QueueNext]_(Queue!queueVars)
<1>0. /\ Chain = q /\ expire \in [Timers -> Nat] /\ back \in Nat
      /\ q \in Seq(Timers) /\ Len(q) \in Nat /\ DOMAIN q = 1 .. Len(q)
      /\ heap = {q[i] : i \in DOMAIN q}
  <2>1. Chain = q
    BY ChainNow
  <2>2. DOMAIN q = 1 .. Len(q) /\ heap = {q[i] : i \in DOMAIN q}
    BY ListedIs
  <2>3. q \in Seq(Timers)
    BY DEF Represents, Repr, Linking
  <2> QED
    BY <2>1, <2>2, <2>3 DEF TypeOK
<1>1. Slots \in Nat
  BY TimerListAssumption
<1>2. ASSUME NEW t \in Timers, add_timer(t)
      PROVE  TypeOK' /\ (\E r : Represents(r)') /\ Queue!add_timer(t)
  <2>1. expire' = [expire EXCEPT ![t] = Slots] /\ back' = back /\ t \notin heap
    BY <1>2 DEF add_timer, Expires
  <2>2. TypeOK'
    BY <1>0, <1>1, <2>1 DEF TypeOK
  <2>3. PICK k \in Queue!Places(q, expire', t) : Represents(Queue!Inserted(q, k, t))'
    BY <1>2, AddTimer
  <2>4. Chain' = Queue!Inserted(q, k, t)
    BY <2>3, ChainThen
  <2>5. Queue!add_timer(t)
    BY <1>0, <2>1, <2>3, <2>4 DEF Queue!add_timer, Queue!Listed, Queue!Restarted
  <2> QED
    BY <2>2, <2>3, <2>5
<1>3. ASSUME NEW t \in Timers, adjust_timer(t)
      PROVE  TypeOK' /\ (\E r : Represents(r)') /\ Queue!adjust_timer(t)
  <2>1. expire' = [expire EXCEPT ![t] = Slots] /\ back' = back
    BY <1>3 DEF adjust_timer, Expires
  <2>2. TypeOK'
    BY <1>0, <1>1, <2>1 DEF TypeOK
  <2>3. PICK i \in 1 .. Len(q) :
               /\ q[i] = t
               /\ \/ Queue!Fits(q, expire', i, t) /\ Represents(q)'
                  \/ /\ ~ Queue!Fits(q, expire', i, t)
                     /\ \E k \in Queue!Behind(Queue!Deleted(q, i), expire', i, t) :
                            Represents(Queue!Inserted(Queue!Deleted(q, i), k, t))'
    BY <1>3, AdjustTimer
  <2>4. CASE Queue!Fits(q, expire', i, t) /\ Represents(q)'
    <3>1. Chain' = q
      BY <2>4, ChainThen
    <3>2. Queue!adjust_timer(t)
      BY <1>0, <2>1, <2>3, <2>4, <3>1 DEF Queue!adjust_timer, Queue!Restarted
    <3> QED
      BY <2>2, <2>4, <3>2
  <2>5. CASE /\ ~ Queue!Fits(q, expire', i, t)
             /\ \E k \in Queue!Behind(Queue!Deleted(q, i), expire', i, t) :
                    Represents(Queue!Inserted(Queue!Deleted(q, i), k, t))'
    <3>1. PICK k \in Queue!Behind(Queue!Deleted(q, i), expire', i, t) :
              Represents(Queue!Inserted(Queue!Deleted(q, i), k, t))'
      BY <2>5
    <3>2. Chain' = Queue!Inserted(Queue!Deleted(q, i), k, t)
      BY <3>1, ChainThen
    <3>3. Queue!adjust_timer(t)
      BY <1>0, <2>1, <2>3, <2>5, <3>1, <3>2 DEF Queue!adjust_timer, Queue!Restarted
    <3> QED
      BY <2>2, <3>1, <3>3
  <2> QED
    BY <2>3, <2>4, <2>5
<1>4. ASSUME NEW t \in Timers, del_timer(t)
      PROVE  TypeOK' /\ (\E r : Represents(r)') /\ Queue!del_timer(t)
  <2>1. expire' = [expire EXCEPT ![t] = 0] /\ back' = back
    BY <1>4 DEF del_timer, Delete
  <2>2. TypeOK'
    BY <1>0, <2>1 DEF TypeOK
  <2>3. PICK i \in 1 .. Len(q) : q[i] = t /\ Represents(Queue!Deleted(q, i))'
    BY <1>4, DelTimer
  <2>4. Chain' = Queue!Deleted(q, i)
    BY <2>3, ChainThen
  <2>5. Queue!del_timer(t)
    BY <1>0, <2>1, <2>3, <2>4 DEF Queue!del_timer
  <2> QED
    BY <2>2, <2>3, <2>5
<1>5. ASSUME NEW t \in Timers, tick(t)
      PROVE  TypeOK' /\ (\E r : Represents(r)') /\ Queue!tick(t)
  <2>1. expire[t] = 0 /\ expire' = [expire EXCEPT ![t] = 0] /\ back' = back
    BY <1>5 DEF tick, Delete
  <2>2. TypeOK' /\ expire' = expire
    BY <1>0, <2>1 DEF TypeOK
  <2>3. q # <<>> /\ t = q[1] /\ Represents(Queue!Deleted(q, 1))'
    BY <1>5, TickTimer
  <2>4. Chain' = Tail(q) /\ t = Head(q)
    BY <1>0, <2>3, ChainThen, DeletedFirst
  <2>5. Queue!tick(t)
    BY <1>0, <2>1, <2>2, <2>3, <2>4 DEF Queue!tick
  <2> QED
    BY <2>2, <2>3, <2>5
<1>6. ASSUME Clock PROVE TypeOK' /\ (\E r : Represents(r)') /\ Queue!PassTime
  <2>1. /\ expire' = [t \in Timers |-> IF expire[t] > 0 THEN expire[t] - 1 ELSE 0]
        /\ UNCHANGED <<links, heap, back>>
    BY <1>6 DEF Clock
  <2>2. TypeOK'
    BY <1>0, <2>1 DEF TypeOK
  <2>3. Represents(q)'
    BY <2>1 DEF links, Represents
  <2>4. Chain' = q
    BY <2>3, ChainThen
  <2> QED
    BY <1>0, <2>1, <2>2, <2>3, <2>4 DEF Queue!PassTime
<1>7. ASSUME ClockBack PROVE TypeOK' /\ (\E r : Represents(r)') /\ Queue!PutBack
  <2>1. /\ back < MaxBack /\ back' = back + 1
        /\ expire' = [t \in Timers |-> IF t \in heap THEN expire[t] + 1 ELSE 0]
        /\ UNCHANGED <<links, heap>>
    BY <1>7 DEF ClockBack
  <2>2. TypeOK'
    BY <1>0, <2>1 DEF TypeOK
  <2>3. Represents(q)'
    BY <2>1 DEF links, Represents
  <2>4. Chain' = q
    BY <2>3, ChainThen
  <2>5. heap = Queue!Listed
    BY <1>0 DEF Queue!Listed
  <2> QED
    BY <1>0, <2>1, <2>2, <2>3, <2>4, <2>5 DEF Queue!PutBack
<1>8. ASSUME UNCHANGED vars
      PROVE  TypeOK' /\ (\E r : Represents(r)') /\ UNCHANGED Queue!queueVars
  <2>1. TypeOK' /\ Represents(q)'
    BY <1>8 DEF vars, links, TypeOK, Represents
  <2>2. Chain' = Chain
    BY <1>0, <2>1, ChainThen
  <2> QED
    BY <1>8, <2>1, <2>2 DEF vars, Queue!queueVars
<1> QED
  BY <1>2, <1>3, <1>4, <1>5, <1>6, <1>7, <1>8 DEF Next, Queue!QueueNext

\* The pointers always stand for some queue.
THEOREM ListInvariant == Spec => []ListInv
<1>1. Init => ListInv
  <2> SUFFICES ASSUME Init PROVE ListInv
    OBVIOUS
  <2>1. TypeOK
    BY DEF Init, TypeOK
  <2> QED
    BY <2>1, InitRepresents DEF ListInv
<1>2. ListInv /\ [Next]_vars => ListInv'
  <2> SUFFICES ASSUME ListInv, [Next]_vars PROVE ListInv'
    OBVIOUS
  <2>1. PICK q : Represents(q)
    BY DEF ListInv
  <2> QED
    BY <2>1, NextRepresents DEF ListInv
<1> QED
  BY <1>1, <1>2, PTL DEF Spec

\* Pointers that stand for a queue are linked.
LEMMA LinkedIs ==
    ASSUME NEW q, Represents(q)
    PROVE  Linked
<1>1. /\ Chain = q /\ heap = {q[i] : i \in DOMAIN q} /\ DOMAIN q = 1 .. Len(q)
  BY ChainNow, ListedIs
<1>2. /\ q \in Seq(Timers) /\ Len(q) \in Nat
      /\ \A i, j \in 1 .. Len(q) : q[i] = q[j] => i = j
      /\ \A i \in 1 .. Len(q) : prev[q[i]] = IF i = 1 THEN NULL ELSE q[i - 1]
      /\ head = IF q = <<>> THEN NULL ELSE q[1]
      /\ q # <<>> => tail = q[Len(q)]
  BY DEF Represents, Repr, Linking
<1>3. Cardinality(heap) = Len(q)
  <2> DEFINE f == [i \in 1 .. Len(q) |-> q[i]]
  <2>a. \A i \in 1 .. Len(q) : q[i] \in heap /\ f[i] = q[i]
    BY <1>1
  <2>b. f \in [1 .. Len(q) -> heap]
    BY <2>a
  <2>c. \A x \in heap : \E i \in 1 .. Len(q) : f[i] = x
    BY <1>1
  <2>d. \A i, j \in 1 .. Len(q) : f[i] = f[j] => i = j
    BY <1>2, <2>a
  <2> HIDE DEF f
  <2>e. f \in Injection(1 .. Len(q), heap)
    BY <2>b, <2>d DEF Injection, IsInjective
  <2>f. f \in Surjection(1 .. Len(q), heap)
    BY <2>b, <2>c DEF Surjection
  <2>1. f \in Bijection(1 .. Len(q), heap)
    BY <2>e, <2>f DEF Bijection
  <2>2. ExistsBijection(1 .. Len(q), heap)
    BY <2>1 DEF ExistsBijection
  <2> QED
    BY <1>2, <2>2, FS_CountingElements
<1>4. Len(q) > 0 => tail = q[Len(q)] /\ prev[head] = NULL
  <2>1. Len(q) > 0 => q # <<>> /\ 1 \in 1 .. Len(q)
    BY <1>2, EmptySeq
  <2> QED
    BY <1>2, <2>1
<1>5. ASSUME NEW i \in 1 .. (Len(q) - 1) PROVE prev[q[i + 1]] = q[i]
  <2>1. i + 1 \in 1 .. Len(q) /\ i + 1 # 1 /\ (i + 1) - 1 = i
    BY <1>2
  <2> QED
    BY <1>2, <2>1
<1> QED
  BY <1>1, <1>3, <1>4, <1>5 DEF Linked

\* The links lead through every timer that exists, forwards and backwards,
\* and through none that was deleted.
THEOREM ListAlwaysLinked == Spec => []Linked
<1>1. ListInv => Linked
  BY LinkedIs DEF ListInv
<1> QED
  BY <1>1, ListInvariant, PTL

\* Every step of the list of pointers is a step of the queue of timers, or leaves
\* it as it is (ImplementsQueue): what Connections shows of a server with
\* TimerQueue holds of one with sort_timer_lst.
THEOREM ListImplementsQueue == Spec => ImplementsQueue
<1>1. Init => Queue!QueueInit
  <2> SUFFICES ASSUME Init PROVE Queue!QueueInit
    OBVIOUS
  <2>1. Chain = <<>>
    BY InitRepresents, ChainNow
  <2> QED
    BY <2>1 DEF Init, Queue!QueueInit
<1>2. ListInv /\ [Next]_vars => [Queue!QueueNext]_(Queue!queueVars)
  BY NextRepresents DEF ListInv
<1> QED
  BY <1>1, <1>2, ListInvariant, PTL DEF Spec, ImplementsQueue, Queue!QueueSpec
=============================================================================

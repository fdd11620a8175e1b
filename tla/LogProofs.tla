------------------------------ MODULE LogProofs ------------------------------
(***************************************************************************)
(* Proofs about Log and BlockQueue, for every number of writers and lines, *)
(* every size of the queue and every length of the files.                  *)
(***************************************************************************)
EXTENDS Log, FiniteSetTheorems, SequenceTheorems, TLAPS

-----------------------------------------------------------------------------
(* The remainder *)

LEMMA Quotient ==
    ASSUME NEW M \in Nat \ {0}, NEW x \in Nat
    PROVE  x = M * (x \div M) + (x % M) /\ x \div M \in Nat /\ x % M \in 0 .. M - 1
  OBVIOUS

LEMMA RemainderOf ==
    ASSUME NEW M \in Nat \ {0}, NEW q \in Nat, NEW r \in 0 .. M - 1
    PROVE  (M * q + r) % M = r
  OBVIOUS

\* The remainder goes up by one until it comes round to zero.
LEMMA NextRemainder ==
    ASSUME NEW M \in Nat \ {0}, NEW x \in Nat, (x + 1) % M # 0
    PROVE  (x + 1) % M = (x % M) + 1
<1> DEFINE q == x \div M
<1> DEFINE r == x % M
<1>1. x = M * q + r /\ q \in Nat /\ r \in 0 .. M - 1
  BY Quotient
<1>2. CASE r + 1 \in 0 .. M - 1
  <2>1. x + 1 = M * q + (r + 1)
    BY <1>1
  <2> QED
    BY <1>1, <1>2, <2>1, RemainderOf
<1>3. CASE r + 1 = M
  <2>1. M * (q + 1) = M * q + M
    BY <1>1
  <2>2. x + 1 = M * (q + 1) + 0
    BY <1>1, <1>3, <2>1
  <2>3. (M * (q + 1) + 0) % M = 0
    BY <1>1, RemainderOf
  <2> QED
    BY <2>2, <2>3
<1> QED
  BY <1>1, <1>2, <1>3

LEMMA Wrapped ==
    ASSUME NEW M \in Nat \ {0}, NEW x \in 0 .. 2 * M - 1
    PROVE  x % M = IF x < M THEN x ELSE x - M
<1>1. CASE x < M
  BY <1>1
<1>2. CASE x >= M
  BY <1>2
<1> QED
  BY <1>1, <1>2

-----------------------------------------------------------------------------
(* The circular buffer *)

\* The items are the m_size places behind m_front, and m_back is the last.
Circular == m_back = m_front + m_size \/ m_back = m_front + m_size - MaxSize

BufferOK == QueueTypeOK /\ Circular

Wrap(x) == IF x < MaxSize THEN x ELSE x - MaxSize

LEMMA WrapIs ==
    ASSUME NEW x \in 0 .. 2 * MaxSize - 1
    PROVE  x % MaxSize = Wrap(x) /\ Wrap(x) \in 0 .. MaxSize - 1
<1>1. x % MaxSize = Wrap(x)
  BY QueueAssumption, Wrapped DEF Wrap
<1> QED
  BY <1>1, QueueAssumption DEF Wrap

\* The n items of the buffer a behind place f.
Contents(a, f, n) == [i \in 1 .. n |-> a[(f + i) % MaxSize]]

LEMMA ContentsIs ==
    ASSUME NEW a \in [0 .. MaxSize - 1 -> Items \cup {NoItem}],
           NEW f \in -1 .. MaxSize - 1, NEW n \in 0 .. MaxSize
    PROVE  /\ Contents(a, f, n) \in Seq(Items \cup {NoItem})
           /\ Len(Contents(a, f, n)) = n /\ DOMAIN Contents(a, f, n) = 1 .. n
           /\ \A i \in 1 .. n : Contents(a, f, n)[i] = a[Wrap(f + i)]
<1> DEFINE q == Contents(a, f, n)
<1>1. MaxSize \in Nat \ {0}
  BY QueueAssumption
<1>2. ASSUME NEW i \in 1 .. n
      PROVE  (f + i) % MaxSize = Wrap(f + i) /\ Wrap(f + i) \in 0 .. MaxSize - 1
  <2>1. PICK x \in 0 .. 2 * MaxSize - 1 : x = f + i
    BY <1>1
  <2> QED
    BY <2>1, WrapIs
<1>3. q \in [1 .. n -> Items \cup {NoItem}]
  BY <1>2 DEF Contents
<1>4. q \in Seq(Items \cup {NoItem}) /\ Len(q) = n
  BY <1>1, <1>3
<1>5. \A i \in 1 .. n : q[i] = a[Wrap(f + i)]
  BY <1>2 DEF Contents
<1> QED
  BY <1>3, <1>4, <1>5

LEMMA QueueIsSeq ==
    ASSUME BufferOK
    PROVE  /\ Queue \in Seq(Items \cup {NoItem})
           /\ Len(Queue) = m_size /\ DOMAIN Queue = 1 .. m_size
           /\ \A i \in 1 .. m_size : Queue[i] = m_array[Wrap(m_front + i)]
<1>1. Queue = Contents(m_array, m_front, m_size)
  BY DEF Queue, Contents
<1> QED
  BY <1>1, ContentsIs, ZenonT(20) DEF BufferOK, QueueTypeOK

LEMMA QueueIsSeqNext ==
    ASSUME BufferOK'
    PROVE  /\ Queue' \in Seq(Items \cup {NoItem})
           /\ Len(Queue') = m_size' /\ DOMAIN Queue' = 1 .. m_size'
           /\ \A i \in 1 .. m_size' : Queue'[i] = m_array'[Wrap(m_front' + i)]
<1>1. Queue' = Contents(m_array', m_front', m_size')
  BY DEF Queue, Contents
<1> QED
  BY <1>1, ContentsIs, ZenonT(20) DEF BufferOK, QueueTypeOK

LEMMA BufferInit == QueueInit => BufferOK
<1> SUFFICES ASSUME QueueInit PROVE BufferOK
  OBVIOUS
<1>1. MaxSize \in Nat \ {0} /\ m_size = 0 /\ m_front = -1 /\ m_back = -1
  BY QueueAssumption DEF QueueInit
<1>2. m_size \in 0 .. MaxSize /\ m_front \in -1 .. MaxSize - 1 /\ m_back \in -1 .. MaxSize - 1
  BY <1>1
<1>3. m_array \in [0 .. MaxSize - 1 -> Items \cup {NoItem}] /\ waiting \in BOOLEAN
  BY DEF QueueInit
<1> QED
  BY <1>1, <1>2, <1>3 DEF BufferOK, QueueTypeOK, Circular

\* push appends.
LEMMA PushAppends ==
    ASSUME BufferOK, NEW x \in Items, push(x)
    PROVE  /\ BufferOK'
           /\ m_size < MaxSize /\ m_size' = m_size + 1
           /\ \A i \in 1 .. m_size : Queue'[i] = Queue[i]
           /\ Queue'[m_size'] = x
<1>1. /\ MaxSize \in Nat \ {0} /\ m_size \in Nat /\ m_size < MaxSize
      /\ m_front \in Int /\ -1 <= m_front /\ m_front <= MaxSize - 1
      /\ m_back \in Int /\ -1 <= m_back /\ m_back <= MaxSize - 1
  BY QueueAssumption DEF BufferOK, QueueTypeOK, push, full
<1>2. /\ m_size' = m_size + 1 /\ m_front' = m_front /\ waiting' = FALSE
      /\ m_back' = (m_back + 1) % MaxSize
      /\ m_array' = [m_array EXCEPT ![m_back'] = x]
  BY DEF push
<1>3. m_back' = Wrap(m_back + 1)
  <2>1. PICK y \in 0 .. 2 * MaxSize - 1 : y = m_back + 1
    BY <1>1
  <2> QED
    BY <1>2, <2>1, WrapIs
<1>4. m_back' \in 0 .. MaxSize - 1
  BY <1>1, <1>3 DEF Wrap
<1>5. QueueTypeOK'
  <2>1. m_array' \in [0 .. MaxSize - 1 -> Items \cup {NoItem}]
    BY <1>2, <1>4 DEF BufferOK, QueueTypeOK
  <2>2. m_size' \in 0 .. MaxSize /\ m_back' \in -1 .. MaxSize - 1 /\ m_front' \in -1 .. MaxSize - 1
    BY <1>1, <1>2, <1>4
  <2> QED
    BY <1>2, <2>1, <2>2 DEF QueueTypeOK
<1>6. Circular'
  BY <1>1, <1>2, <1>3 DEF BufferOK, Circular, Wrap
<1>7. BufferOK'
  BY <1>5, <1>6 DEF BufferOK
<1> DEFINE P(i) == Wrap(m_front + i)
<1>8. P(m_size + 1) = m_back' /\ \A i \in 1 .. m_size : P(i) # m_back' /\ P(i) \in 0 .. MaxSize - 1
  BY <1>1, <1>3 DEF BufferOK, Circular, Wrap
<1>9. \A i \in 1 .. m_size + 1 : Queue'[i] = m_array'[P(i)]
  BY <1>2, <1>7, QueueIsSeqNext
<1>10. m_array \in [0 .. MaxSize - 1 -> Items \cup {NoItem}]
  BY DEF BufferOK, QueueTypeOK
<1>11. ASSUME NEW i \in 1 .. m_size PROVE Queue'[i] = Queue[i]
  <2>1. i \in 1 .. m_size + 1
    BY <1>1
  <2>2. Queue[i] = m_array[P(i)]
    BY QueueIsSeq
  <2>3. m_array'[P(i)] = m_array[P(i)]
    BY <1>2, <1>8, <1>10
  <2> QED
    BY <1>9, <2>1, <2>2, <2>3
<1>12. Queue'[m_size + 1] = x
  <2>1. m_size + 1 \in 1 .. m_size + 1
    BY <1>1
  <2>2. m_array'[m_back'] = x
    BY <1>2, <1>4, <1>10
  <2> QED
    BY <1>8, <1>9, <2>1, <2>2
<1> QED
  BY <1>1, <1>2, <1>7, <1>11, <1>12

\* pop takes the first.
LEMMA PopTakesFirst ==
    ASSUME BufferOK, pop
    PROVE  /\ BufferOK'
           /\ m_size > 0 /\ m_size' = m_size - 1
           /\ Popped = Queue[1]
           /\ \A i \in 1 .. m_size' : Queue'[i] = Queue[i + 1]
<1>1. /\ MaxSize \in Nat \ {0} /\ m_size \in Nat /\ m_size > 0 /\ m_size <= MaxSize
      /\ m_front \in Int /\ -1 <= m_front /\ m_front <= MaxSize - 1
      /\ m_back \in Int /\ -1 <= m_back /\ m_back <= MaxSize - 1
  BY QueueAssumption DEF BufferOK, QueueTypeOK, pop
<1>2. /\ m_size' = m_size - 1 /\ m_front' = PopPlace
      /\ UNCHANGED <<m_array, m_back, waiting>>
  BY DEF pop
<1>3. PopPlace = Wrap(m_front + 1)
  <2>1. PICK x \in 0 .. 2 * MaxSize - 1 : x = m_front + 1
    BY <1>1
  <2> QED
    BY <2>1, WrapIs DEF PopPlace
<1>4. QueueTypeOK'
  <2>1. m_front' \in -1 .. MaxSize - 1 /\ m_size' \in 0 .. MaxSize
    BY <1>1, <1>2, <1>3 DEF Wrap
  <2> QED
    BY <1>2, <2>1 DEF BufferOK, QueueTypeOK
<1>5. Circular'
  BY <1>1, <1>2, <1>3 DEF BufferOK, Circular, Wrap
<1>6. BufferOK'
  BY <1>4, <1>5 DEF BufferOK
<1>7. Popped = Queue[1]
  <2>1. 1 \in 1 .. m_size
    BY <1>1
  <2> QED
    BY <1>3, <2>1, QueueIsSeq DEF Popped
<1>8. ASSUME NEW i \in 1 .. m_size - 1 PROVE Queue'[i] = Queue[i + 1]
  <2>1. i + 1 \in 1 .. m_size /\ i \in 1 .. m_size'
    BY <1>1, <1>2
  <2>2. Queue'[i] = m_array[Wrap(m_front' + i)]
    BY <1>2, <1>6, <2>1, QueueIsSeqNext
  <2>3. Queue[i + 1] = m_array[Wrap(m_front + (i + 1))]
    BY <2>1, QueueIsSeq
  <2>4. Wrap(m_front' + i) = Wrap(m_front + (i + 1))
    BY <1>1, <1>2, <1>3 DEF Wrap
  <2> QED
    BY <2>2, <2>3, <2>4
<1> QED
  BY <1>1, <1>2, <1>6, <1>7, <1>8

\* What else is done to the queue leaves its items alone.
LEMMA QueueSame ==
    ASSUME BufferOK, UNCHANGED queueVars \/ PushRefused \/ PopWait \/ WakeSpuriously
    PROVE  BufferOK' /\ m_size' = m_size /\ Queue' = Queue
<1>1. UNCHANGED <<m_array, m_size, m_front, m_back>> /\ waiting' \in BOOLEAN
  BY DEF queueVars, PushRefused, PopWait, WakeSpuriously, BufferOK, QueueTypeOK
<1> QED
  BY <1>1 DEF BufferOK, QueueTypeOK, Circular, Queue

-----------------------------------------------------------------------------
(* Types *)

Queued == {Queue[i] : i \in 1 .. m_size}

\* The line between pop and fputs.
Flushing == IF flusher = "write" THEN {single_log} ELSE {}

WriterTypeOK ==
    /\ at \in [Writers -> {"idle", "count", "check", "push", "write"}]
    /\ my_tm \in [Writers -> 0 .. MaxDays]
    /\ sent \in [Writers -> 0 .. MaxLines]
    /\ rivals \in [Writers -> BOOLEAN]
    /\ \A w \in Writers : at[w] # "idle" => sent[w] > 0

FileTypeOK ==
    /\ m_is_async \in BOOLEAN
    /\ m_count \in Nat /\ inFile \in Nat
    /\ m_today \in 0 .. MaxDays /\ clock \in 0 .. MaxDays
    /\ flusher \in {"pop", "write"}
    /\ file \subseteq [line : Items, direct : BOOLEAN]
    /\ lost \subseteq [line : Items, raced : BOOLEAN]

\* No place of the queue is read before a line was put there.
LinesTypeOK == Queued \subseteq Items /\ Flushing \subseteq Items

LogTypeOK == BufferOK /\ WriterTypeOK /\ FileTypeOK /\ LinesTypeOK

LEMMA LogTypeInit == LogInit => LogTypeOK
<1> SUFFICES ASSUME LogInit PROVE LogTypeOK
  OBVIOUS
<1>1. BufferOK
  BY BufferInit DEF LogInit
<1>2. 0 \in 0 .. MaxDays /\ 0 \in 0 .. MaxLines
  BY LogAssumption
<1>3. WriterTypeOK
  BY <1>2 DEF LogInit, WriterTypeOK
<1>4. FileTypeOK
  BY <1>2 DEF LogInit, FileTypeOK
<1>5. m_size = 0
  BY DEF LogInit, QueueInit
<1>6. LinesTypeOK
  BY <1>5 DEF LogInit, LinesTypeOK, Queued, Flushing
<1> QED
  BY <1>1, <1>3, <1>4, <1>6 DEF LogTypeOK

LEMMA LineTyped ==
    ASSUME WriterTypeOK, NEW w \in Writers, at[w] # "idle"
    PROVE  Line(w) \in Items /\ Line(w) = <<w, sent[w]>> /\ sent[w] \in 1 .. MaxLines
<1>1. sent[w] \in 1 .. MaxLines
  BY LogAssumption DEF WriterTypeOK
<1> QED
  BY <1>1, LogAssumption DEF Line

\* The effect of each operation on the lines in the queue.
LEMMA QueuedByPush ==
    ASSUME BufferOK, NEW x \in Items, push(x)
    PROVE  Queued' = Queued \cup {x}
<1>1. /\ m_size' = m_size + 1 /\ m_size \in Nat
      /\ \A i \in 1 .. m_size : Queue'[i] = Queue[i]
      /\ Queue'[m_size'] = x
  BY PushAppends, QueueAssumption DEF BufferOK, QueueTypeOK
<1>2. Queued' = {Queue'[i] : i \in 1 .. m_size'}
  BY DEF Queued
<1>3. Queued' \subseteq Queued \cup {x}
  <2> SUFFICES ASSUME NEW i \in 1 .. m_size' PROVE Queue'[i] \in Queued \cup {x}
    BY <1>2
  <2>1. i \in 1 .. m_size \/ i = m_size'
    BY <1>1
  <2> QED
    BY <1>1, <2>1 DEF Queued
<1>4. Queued \subseteq Queued'
  <2> SUFFICES ASSUME NEW i \in 1 .. m_size PROVE Queue[i] \in Queued'
    BY DEF Queued
  <2>1. i \in 1 .. m_size'
    BY <1>1
  <2> QED
    BY <1>1, <1>2, <2>1
<1>5. x \in Queued'
  <2>1. m_size' \in 1 .. m_size'
    BY <1>1
  <2> QED
    BY <1>1, <1>2, <2>1
<1> QED
  BY <1>3, <1>4, <1>5

\* pop may leave another copy of what it takes only if there are two.
LEMMA QueuedByPop ==
    ASSUME BufferOK, pop
    PROVE  /\ Queued = Queued' \cup {Popped}
           /\ (\A i, j \in 1 .. m_size : Queue[i] = Queue[j] => i = j) => Popped \notin Queued'
<1>1. /\ m_size' = m_size - 1 /\ m_size \in Nat /\ m_size > 0
      /\ \A i \in 1 .. m_size' : Queue'[i] = Queue[i + 1]
      /\ Popped = Queue[1]
  BY PopTakesFirst, QueueAssumption DEF BufferOK, QueueTypeOK
<1>2. Queued' = {Queue'[i] : i \in 1 .. m_size'}
  BY DEF Queued
<1>3. Queued' \cup {Popped} \subseteq Queued
  <2>1. Popped \in Queued
    <3>1. 1 \in 1 .. m_size
      BY <1>1
    <3> QED
      BY <1>1, <3>1 DEF Queued
  <2>2. ASSUME NEW i \in 1 .. m_size' PROVE Queue'[i] \in Queued
    <3>1. i + 1 \in 1 .. m_size
      BY <1>1
    <3> QED
      BY <1>1, <3>1 DEF Queued
  <2> QED
    BY <1>2, <2>1, <2>2
<1>4. Queued \subseteq Queued' \cup {Popped}
  <2> SUFFICES ASSUME NEW i \in 1 .. m_size, i # 1 PROVE Queue[i] \in Queued'
    BY <1>1 DEF Queued
  <2>1. i - 1 \in 1 .. m_size' /\ (i - 1) + 1 = i
    BY <1>1
  <2>2. Queue'[i - 1] = Queue[i]
    BY <1>1, <2>1
  <2> QED
    BY <1>2, <2>1, <2>2
<1>5. ASSUME \A i, j \in 1 .. m_size : Queue[i] = Queue[j] => i = j,
             Popped \in Queued'
      PROVE  FALSE
  <2>1. PICK i \in 1 .. m_size' : Queue'[i] = Popped
    BY <1>2, <1>5
  <2>2. i + 1 \in 1 .. m_size /\ 1 \in 1 .. m_size /\ i + 1 # 1
    BY <1>1
  <2>3. Queue[i + 1] = Queue[1]
    BY <1>1, <2>1
  <2> QED
    BY <1>5, <2>2, <2>3
<1> QED
  BY <1>3, <1>4, <1>5

LEMMA QueuedSame ==
    ASSUME BufferOK, UNCHANGED queueVars \/ PushRefused \/ PopWait \/ WakeSpuriously
    PROVE  BufferOK' /\ m_size' = m_size /\ Queue' = Queue /\ Queued' = Queued
  BY QueueSame DEF Queued

\* Where the threads leave the lines.
LEMMA HandKeeps ==
    ASSUME WriterTypeOK, NEW w \in Writers, NEW p, p # "idle", at[w] # "idle", Goto(w, p),
           sent' = sent
    PROVE  InHand' = InHand /\ Begun' = Begun
<1>1. \A v \in Writers : (at'[v] # "idle") <=> (at[v] # "idle")
  BY DEF Goto, WriterTypeOK
<1>2. InHand' = {<<v, sent'[v]>> : v \in {v \in Writers : at'[v] # "idle"}}
  BY DEF InHand, Line
<1>3. InHand = {<<v, sent[v]>> : v \in {v \in Writers : at[v] # "idle"}}
  BY DEF InHand, Line
<1>4. {v \in Writers : at'[v] # "idle"} = {v \in Writers : at[v] # "idle"}
  BY <1>1
<1> QED
  BY <1>2, <1>3, <1>4 DEF Begun

LEMMA HandGives ==
    ASSUME WriterTypeOK, NEW w \in Writers, at[w] # "idle", Goto(w, "idle"), sent' = sent
    PROVE  /\ InHand' = InHand \ {Line(w)} /\ Line(w) \in InHand
           /\ Begun' = Begun
<1>1. \A v \in Writers : at'[v] # "idle" <=> (at[v] # "idle" /\ v # w)
  BY DEF Goto, WriterTypeOK
<1>2. InHand' = {<<v, sent'[v]>> : v \in {v \in Writers : at'[v] # "idle"}}
  BY DEF InHand, Line
<1>3. InHand = {<<v, sent[v]>> : v \in {v \in Writers : at[v] # "idle"}}
  BY DEF InHand, Line
<1>4. \A l : l \in InHand' <=> \E v \in Writers : at[v] # "idle" /\ v # w /\ l = <<v, sent[v]>>
  BY <1>1, <1>2
<1>5. \A l : l \in InHand <=> \E v \in Writers : at[v] # "idle" /\ l = <<v, sent[v]>>
  BY <1>3
<1>6. Line(w) = <<w, sent[w]>>
  BY DEF Line
<1>7. ASSUME NEW l PROVE l \in InHand' <=> l \in InHand /\ l # Line(w)
  BY <1>4, <1>5, <1>6
<1>8. Line(w) \in InHand
  BY <1>5, <1>6
<1> QED
  BY <1>7, <1>8 DEF Begun

LEMMA HandTakes ==
    ASSUME WriterTypeOK, NEW w \in Writers, ReadClock(w)
    PROVE  \E l \in Items : /\ InHand' = InHand \cup {l}
                            /\ Begun' = Begun \cup {l} /\ l \notin Begun
<1> DEFINE l == <<w, sent[w] + 1>>
<1>1. /\ at[w] = "idle" /\ sent[w] < MaxLines
      /\ sent' = [sent EXCEPT ![w] = sent[w] + 1]
      /\ at' = [at EXCEPT ![w] = "count"]
  BY DEF ReadClock, Goto
<1>2. MaxLines \in Nat /\ sent[w] \in 0 .. MaxLines
  BY LogAssumption DEF WriterTypeOK
<1>3. sent[w] + 1 \in 1 .. MaxLines
  BY <1>1, <1>2
<1>4. l \in Items
  BY <1>3, LogAssumption
<1>5. \A v \in Writers : /\ at'[v] # "idle" <=> (at[v] # "idle" \/ v = w)
                         /\ sent'[v] = IF v = w THEN sent[w] + 1 ELSE sent[v]
  BY <1>1 DEF WriterTypeOK
<1>6. \A k : k \in InHand' <=> \E v \in Writers : at'[v] # "idle" /\ k = <<v, sent'[v]>>
  BY DEF InHand, Line
<1>7. \A k : k \in InHand <=> \E v \in Writers : at[v] # "idle" /\ k = <<v, sent[v]>>
  BY DEF InHand, Line
<1>8. InHand' = InHand \cup {l}
  <2>1. ASSUME NEW k PROVE k \in InHand' <=> (k \in InHand \/ k = l)
    BY <1>1, <1>5, <1>6, <1>7
  <2> QED
    BY <2>1
<1>9. ASSUME NEW k \in Items PROVE k[2] <= sent'[k[1]] <=> (k[2] <= sent[k[1]] \/ k = l)
  <2>1. k = <<k[1], k[2]>> /\ k[1] \in Writers /\ k[2] \in 1 .. MaxLines
    BY LogAssumption
  <2>2. CASE k[1] = w
    <3>1. sent'[k[1]] = sent[w] + 1
      BY <1>5, <2>2
    <3>2. k[2] <= sent[w] + 1 <=> (k[2] <= sent[w] \/ k[2] = sent[w] + 1)
      BY <1>2, <2>1
    <3>3. k = l <=> k[2] = sent[w] + 1
      BY <2>1, <2>2
    <3> QED
      BY <2>2, <3>1, <3>2, <3>3
  <2>3. CASE k[1] # w
    BY <1>5, <2>1, <2>3
  <2> QED
    BY <2>2, <2>3
<1>10. Begun' = Begun \cup {l} /\ l \notin Begun
  <2>1. Begun' = {k \in Items : k[2] <= sent'[k[1]]}
    BY DEF Begun
  <2>2. l[1] = w /\ l[2] = sent[w] + 1 /\ ~ (l[2] <= sent[w])
    BY <1>2
  <2> QED
    BY <1>4, <1>9, <2>1, <2>2 DEF Begun
<1> QED
  BY <1>4, <1>8, <1>10

-----------------------------------------------------------------------------
(* LinesKept *)

\* B is the union of the others, and no two of them have a line in common.
Apart(W, Q, H, F, L, B) ==
    /\ B = W \cup Q \cup H \cup F \cup L
    /\ W \cap (Q \cup H \cup F \cup L) = {}
    /\ Q \cap (H \cup F \cup L) = {}
    /\ H \cap (F \cup L) = {}
    /\ F \cap L = {}

\* A line that goes from one place to another, or appears, leaves them apart.
LEMMA Moves ==
    ASSUME NEW W, NEW Q, NEW H, NEW F, NEW L, NEW B, Apart(W, Q, H, F, L, B)
    PROVE  /\ \A x \in H : /\ Apart(W \cup {x}, Q, H \ {x}, F, L, B)
                           /\ Apart(W, Q \cup {x}, H \ {x}, F, L, B)
                           /\ Apart(W, Q, H \ {x}, F, L \cup {x}, B)
           /\ \A x \in Q : F = {} => Apart(W, Q \ {x}, H, {x}, L, B)
           /\ \A x : F = {x} => Apart(W \cup {x}, Q, H, {}, L, B)
           /\ \A x : x \notin B => Apart(W, Q, H \cup {x}, F, L, B \cup {x})
<1>1. ASSUME NEW x \in H
      PROVE  /\ Apart(W \cup {x}, Q, H \ {x}, F, L, B)
             /\ Apart(W, Q \cup {x}, H \ {x}, F, L, B)
             /\ Apart(W, Q, H \ {x}, F, L \cup {x}, B)
  BY <1>1 DEF Apart
<1>2. ASSUME NEW x \in Q, F = {} PROVE Apart(W, Q \ {x}, H, {x}, L, B)
  BY <1>2 DEF Apart
<1>3. ASSUME NEW x, F = {x} PROVE Apart(W \cup {x}, Q, H, {}, L, B)
  BY <1>3 DEF Apart
<1>4. ASSUME NEW x, x \notin B PROVE Apart(W, Q, H \cup {x}, F, L, B \cup {x})
  BY <1>4 DEF Apart
<1> QED
  BY <1>1, <1>2, <1>3, <1>4

\* Every line that was begun is in one place, and there only once.
Placed == Apart(Written, Queued, InHand, Flushing, Lost, Begun)
OnceInFile == \A d, e \in file : d.line = e.line => d = e
OnceInQueue == \A i, j \in 1 .. m_size : Queue[i] = Queue[j] => i = j
Once == Placed /\ OnceInFile /\ OnceInQueue

LEMMA OnceInit == LogInit => Once
<1> SUFFICES ASSUME LogInit PROVE Once
  OBVIOUS
<1>1. m_size = 0 /\ file = {} /\ lost = {} /\ flusher = "pop"
      /\ \A w \in Writers : at[w] = "idle" /\ sent[w] = 0
  BY DEF LogInit, QueueInit
<1>2. Written = {} /\ Queued = {} /\ InHand = {} /\ Flushing = {} /\ Lost = {}
  BY <1>1 DEF Written, Queued, InHand, Flushing, Lost
<1>3. Begun = {}
  <2>1. \A l \in Items : l[1] \in Writers /\ l[2] \in 1 .. MaxLines
    BY LogAssumption
  <2>2. \A l \in Items : ~ (l[2] <= sent[l[1]])
    BY <1>1, <2>1, LogAssumption
  <2> QED
    BY <2>2 DEF Begun
<1> QED
  BY <1>1, <1>2, <1>3 DEF Once, Placed, Apart, OnceInFile, OnceInQueue

\* The lines stay where they are.
Settled ==
    /\ m_size' = m_size /\ Queue' = Queue
    /\ UNCHANGED <<file, lost, flusher, single_log>>
    /\ InHand' = InHand /\ Begun' = Begun

LEMMA SettledPlaces ==
    ASSUME UNCHANGED <<m_size, Queue, file, lost, flusher, single_log>>
    PROVE  /\ Written' = Written /\ Queued' = Queued /\ Flushing' = Flushing /\ Lost' = Lost
           /\ OnceInFile => OnceInFile'
           /\ OnceInQueue => OnceInQueue'
<1>1. Written' = Written /\ Flushing' = Flushing /\ Lost' = Lost
  BY DEF Written, Flushing, Lost
<1>2. Queued' = Queued
  BY DEF Queued
<1>3. OnceInFile => OnceInFile'
  BY DEF OnceInFile
<1>4. OnceInQueue => OnceInQueue'
  BY DEF OnceInQueue
<1> QED
  BY <1>1, <1>2, <1>3, <1>4

LEMMA SettledOnce == ASSUME Once, Settled PROVE Once'
  BY SettledPlaces DEF Settled, Once, Placed

LEMMA StepsSettled ==
    ASSUME LogTypeOK,
           \/ \E w \in Writers : Count(w) \/ Check(w)
           \/ FlushWait \/ Midnight \/ UNCHANGED vars
    PROVE  Settled
<1>0. BufferOK /\ WriterTypeOK
  BY DEF LogTypeOK
<1>1. ASSUME NEW w \in Writers, Count(w) \/ Check(w) PROVE Settled
  <2>1. /\ UNCHANGED <<queueVars, sent, file, lost, flusher, single_log>>
        /\ at[w] # "idle"
        /\ \E p \in {"check", "push", "write"} : Goto(w, p)
    BY <1>1 DEF Count, Check
  <2>2. InHand' = InHand /\ Begun' = Begun
    BY <1>0, <2>1, HandKeeps
  <2> QED
    BY <1>0, <2>1, <2>2, QueueSame DEF Settled
<1>2. CASE FlushWait \/ Midnight \/ UNCHANGED vars
  <2>1. UNCHANGED <<at, sent, file, lost, flusher, single_log>>
    BY <1>2 DEF FlushWait, Midnight, vars, writerVars
  <2>2. UNCHANGED queueVars \/ PopWait \/ WakeSpuriously
    BY <1>2 DEF FlushWait, Midnight, vars
  <2>3. InHand' = InHand /\ Begun' = Begun
    BY <2>1 DEF InHand, Begun, Line
  <2> QED
    BY <1>0, <2>1, <2>2, <2>3, QueueSame DEF Settled
<1> QED
  BY <1>1, <1>2

LEMMA ReadClockOnce ==
    ASSUME LogTypeOK, Once, NEW w \in Writers, ReadClock(w)
    PROVE  Once'
<1>1. UNCHANGED <<m_size, Queue, file, lost, flusher, single_log>>
  BY QueueSame DEF ReadClock, LogTypeOK
<1>2. PICK l \in Items : InHand' = InHand \cup {l} /\ Begun' = Begun \cup {l} /\ l \notin Begun
  BY HandTakes DEF LogTypeOK
<1>3. Placed'
  BY <1>1, <1>2, SettledPlaces, Moves DEF Once, Placed
<1> QED
  BY <1>1, <1>3, SettledPlaces DEF Once

\* A line in hand is nowhere else, and newer than all others of its writer.
Older(l, k) == l[1] = k[1] => l[2] < k[2]

LEMMA NewestInHand ==
    ASSUME LogTypeOK, Once, NEW w \in Writers, at[w] # "idle"
    PROVE  /\ Line(w) \in Items /\ Line(w) \in InHand
           /\ Line(w) \notin Written \cup Queued \cup Flushing \cup Lost
           /\ \A l \in Written \cup Queued \cup Flushing : Older(l, Line(w))
<1>1. Line(w) \in Items /\ Line(w) = <<w, sent[w]>> /\ sent[w] \in 1 .. MaxLines
  BY LineTyped DEF LogTypeOK
<1>2. Line(w) \in InHand
  BY DEF InHand
<1>3. Line(w) \notin Written \cup Queued \cup Flushing \cup Lost
  BY <1>2 DEF Once, Placed, Apart
<1>4. ASSUME NEW l \in Written \cup Queued \cup Flushing, l[1] = w PROVE l[2] < sent[w]
  <2>1. l \in Begun /\ l # Line(w)
    BY <1>3 DEF Once, Placed, Apart
  <2>2. l \in Items /\ l[2] <= sent[w]
    BY <1>4, <2>1 DEF Begun
  <2>3. l = <<l[1], l[2]>> /\ l[2] \in 1 .. MaxLines
    BY <2>2, LogAssumption
  <2>4. l[2] # sent[w]
    BY <1>1, <1>4, <2>1, <2>3
  <2> QED
    BY <1>1, <2>2, <2>3, <2>4, LogAssumption
<1> QED
  BY <1>1, <1>2, <1>3, <1>4 DEF Older

LEMMA EnqueueOnce ==
    ASSUME LogTypeOK, Once, NEW w \in Writers, Enqueue(w)
    PROVE  Once'
<1>1. /\ at[w] = "push" /\ Goto(w, "idle")
      /\ UNCHANGED <<sent, file, flusher, single_log>>
  BY DEF Enqueue
<1>2. /\ InHand' = InHand \ {Line(w)} /\ Begun' = Begun
      /\ Line(w) \in InHand /\ Line(w) \in Items /\ Line(w) \notin Queued
  BY <1>1, HandGives, NewestInHand DEF LogTypeOK
<1>3. Written' = Written /\ Flushing' = Flushing /\ OnceInFile'
  BY <1>1 DEF Written, Flushing, Once, OnceInFile
<1>4. CASE push(Line(w)) /\ UNCHANGED lost
  <2>1. Queued' = Queued \cup {Line(w)} /\ Lost' = Lost
    BY <1>2, <1>4, QueuedByPush DEF LogTypeOK, Lost
  <2>2. Placed'
    BY <1>2, <1>3, <2>1, Moves DEF Once, Placed
  <2>3. OnceInQueue'
    <3>1. /\ m_size' = m_size + 1 /\ m_size \in Nat
          /\ \A i \in 1 .. m_size : Queue'[i] = Queue[i]
          /\ Queue'[m_size'] = Line(w)
      BY <1>2, <1>4, PushAppends, QueueAssumption DEF LogTypeOK, BufferOK, QueueTypeOK
    <3>2. \A i \in 1 .. m_size : Queue[i] # Line(w)
      BY <1>2 DEF Queued
    <3> SUFFICES ASSUME NEW i \in 1 .. m_size', NEW j \in 1 .. m_size', Queue'[i] = Queue'[j]
                 PROVE  i = j
      BY DEF OnceInQueue
    <3>3. (i \in 1 .. m_size \/ i = m_size') /\ (j \in 1 .. m_size \/ j = m_size')
      BY <3>1
    <3> QED
      BY <3>1, <3>2, <3>3 DEF Once, OnceInQueue
  <2> QED
    BY <1>3, <2>2, <2>3 DEF Once
<1>5. CASE PushRefused /\ lost' = lost \cup {[line |-> Line(w), raced |-> rivals[w]]}
  <2>1. m_size' = m_size /\ Queue' = Queue /\ Queued' = Queued
    BY <1>5, QueuedSame DEF LogTypeOK
  <2>2. Lost' = Lost \cup {Line(w)}
    <3> DEFINE new == [line |-> Line(w), raced |-> rivals[w]]
    <3>1. \A k : k \in Lost' <=> \E e \in lost \cup {new} : k = e.line
      BY <1>5 DEF Lost
    <3>2. \A k : k \in Lost <=> \E e \in lost : k = e.line
      BY DEF Lost
    <3>3. new.line = Line(w)
      OBVIOUS
    <3>4. ASSUME NEW k PROVE k \in Lost' <=> k \in Lost \/ k = Line(w)
      <4> HIDE DEF new
      <4> QED
        BY <3>1, <3>2, <3>3
    <3> QED
      BY <3>4
  <2>3. Placed'
    BY <1>2, <1>3, <2>1, <2>2, Moves DEF Once, Placed
  <2>4. OnceInQueue'
    BY <2>1 DEF Once, OnceInQueue
  <2> QED
    BY <1>3, <2>3, <2>4 DEF Once
<1> QED
  BY <1>4, <1>5 DEF Enqueue

\* What fputs does to the file.
LEMMA WriteAdds ==
    ASSUME NEW l, NEW direct, Write(l, direct)
    PROVE  /\ file' = file \cup {[line |-> l, direct |-> direct]}
           /\ Written' = Written \cup {l}
           /\ OnceInFile /\ l \notin Written => OnceInFile'
<1>1. file' = file \cup {[line |-> l, direct |-> direct]}
  BY DEF Write
<1>2. Written' = Written \cup {l}
  <2> DEFINE new == [line |-> l, direct |-> direct]
  <2>1. \A k : k \in Written' <=> \E e \in file \cup {new} : k = e.line
    BY <1>1 DEF Written
  <2>2. \A k : k \in Written <=> \E e \in file : k = e.line
    BY DEF Written
  <2>3. new.line = l
    OBVIOUS
  <2>4. ASSUME NEW k PROVE k \in Written' <=> k \in Written \/ k = l
    <3> HIDE DEF new
    <3> QED
      BY <2>1, <2>2, <2>3
  <2> QED
    BY <2>4
<1>3. ASSUME OnceInFile, l \notin Written PROVE OnceInFile'
  BY <1>1, <1>3 DEF OnceInFile, Written
<1> QED
  BY <1>1, <1>2, <1>3

LEMMA WriteDirectlyOnce ==
    ASSUME LogTypeOK, Once, NEW w \in Writers, WriteDirectly(w)
    PROVE  Once'
<1>1. /\ at[w] = "write" /\ Goto(w, "idle") /\ Write(Line(w), TRUE)
      /\ UNCHANGED <<queueVars, sent, lost, flusher, single_log>>
  BY DEF WriteDirectly
<1>2. /\ InHand' = InHand \ {Line(w)} /\ Begun' = Begun
      /\ Line(w) \in InHand /\ Line(w) \notin Written
  BY <1>1, HandGives, NewestInHand DEF LogTypeOK
<1>3. Flushing' = Flushing /\ Lost' = Lost
  BY <1>1 DEF Flushing, Lost
<1>4. m_size' = m_size /\ Queue' = Queue /\ Queued' = Queued
  BY <1>1, QueuedSame DEF LogTypeOK
<1>5. Written' = Written \cup {Line(w)} /\ OnceInFile'
  BY <1>1, <1>2, WriteAdds DEF Once
<1>6. Placed'
  BY <1>2, <1>3, <1>4, <1>5, Moves DEF Once, Placed
<1>7. OnceInQueue'
  BY <1>4 DEF Once, OnceInQueue
<1> QED
  BY <1>5, <1>6, <1>7 DEF Once

LEMMA FlushPopOnce ==
    ASSUME LogTypeOK, Once, FlushPop
    PROVE  Once'
<1>1. /\ pop /\ single_log' = Popped /\ flusher = "pop" /\ flusher' = "write"
      /\ UNCHANGED <<at, sent, file, lost>>
  BY DEF FlushPop, writerVars
<1>2. Queued = Queued' \cup {Popped} /\ Popped \notin Queued'
  BY <1>1, QueuedByPop DEF LogTypeOK, Once, OnceInQueue
<1>3. Flushing = {} /\ Flushing' = {Popped}
  BY <1>1 DEF Flushing
<1>4. Written' = Written /\ InHand' = InHand /\ Lost' = Lost /\ Begun' = Begun /\ OnceInFile'
  BY <1>1 DEF Written, InHand, Lost, Begun, Line, Once, OnceInFile
<1>5. Queued' = Queued \ {Popped} /\ Popped \in Queued
  BY <1>2
<1>6. Placed'
  BY <1>3, <1>4, <1>5, Moves DEF Once, Placed
<1>7. OnceInQueue'
  <2>1. /\ m_size' = m_size - 1 /\ m_size \in Nat
        /\ \A i \in 1 .. m_size' : Queue'[i] = Queue[i + 1]
    BY <1>1, PopTakesFirst, QueueAssumption DEF LogTypeOK, BufferOK, QueueTypeOK
  <2> SUFFICES ASSUME NEW i \in 1 .. m_size', NEW j \in 1 .. m_size', Queue'[i] = Queue'[j]
               PROVE  i = j
    BY DEF OnceInQueue
  <2>2. i + 1 \in 1 .. m_size /\ j + 1 \in 1 .. m_size
    BY <2>1
  <2>3. i + 1 = j + 1
    BY <2>1, <2>2 DEF Once, OnceInQueue
  <2> QED
    BY <2>1, <2>3
<1> QED
  BY <1>4, <1>6, <1>7 DEF Once

LEMMA FlushWriteOnce ==
    ASSUME LogTypeOK, Once, FlushWrite
    PROVE  Once'
<1>1. /\ flusher = "write" /\ flusher' = "pop" /\ Write(single_log, FALSE)
      /\ UNCHANGED <<queueVars, at, sent, lost>>
  BY DEF FlushWrite, writerVars
<1>2. Flushing = {single_log} /\ Flushing' = {}
  BY <1>1 DEF Flushing
<1>3. InHand' = InHand /\ Lost' = Lost /\ Begun' = Begun
  BY <1>1 DEF InHand, Lost, Begun, Line
<1>4. m_size' = m_size /\ Queue' = Queue /\ Queued' = Queued
  BY <1>1, QueuedSame DEF LogTypeOK
<1>5. single_log \notin Written
  BY <1>2 DEF Once, Placed, Apart
<1>6. Written' = Written \cup {single_log} /\ OnceInFile'
  BY <1>1, <1>5, WriteAdds DEF Once
<1>7. Placed'
  BY <1>2, <1>3, <1>4, <1>6, Moves DEF Once, Placed
<1>8. OnceInQueue'
  BY <1>4 DEF Once, OnceInQueue
<1> QED
  BY <1>6, <1>7, <1>8 DEF Once

LEMMA OnceStep ==
    ASSUME LogTypeOK, Once, [LogNext]_vars
    PROVE  Once'
  BY StepsSettled, SettledOnce, ReadClockOnce, EnqueueOnce, WriteDirectlyOnce, FlushPopOnce,
     FlushWriteOnce DEF LogNext, WriteLog, FlushThread

-----------------------------------------------------------------------------
(* The types are kept *)

LEMMA LogBufferStep ==
    ASSUME LogTypeOK, [LogNext]_vars
    PROVE  BufferOK'
<1>1. ASSUME NEW w \in Writers, Enqueue(w) PROVE BufferOK'
  <2>1. Line(w) \in Items
    BY <1>1, LineTyped DEF LogTypeOK, Enqueue
  <2> QED
    BY <1>1, <2>1, PushAppends, QueueSame DEF Enqueue, LogTypeOK
<1>2. CASE FlushPop
  BY <1>2, PopTakesFirst DEF FlushPop, LogTypeOK
<1>3. UNCHANGED queueVars \/ PopWait \/ WakeSpuriously \/ FlushPop \/ \E w \in Writers : Enqueue(w)
  BY DEF LogNext, WriteLog, FlushThread, ReadClock, Count, Check, WriteDirectly, FlushWait,
         FlushWrite, Midnight, vars
<1> QED
  BY <1>1, <1>2, <1>3, QueueSame DEF LogTypeOK

LEMMA LogWriterStep ==
    ASSUME LogTypeOK, [LogNext]_vars
    PROVE  WriterTypeOK'
<1>0. WriterTypeOK /\ clock \in 0 .. MaxDays
  BY DEF LogTypeOK, FileTypeOK
<1>1. ASSUME NEW w \in Writers, ReadClock(w) PROVE WriterTypeOK'
  <2>1. /\ sent[w] < MaxLines
        /\ sent' = [sent EXCEPT ![w] = sent[w] + 1]
        /\ at' = [at EXCEPT ![w] = "count"]
        /\ my_tm' = [my_tm EXCEPT ![w] = clock]
        /\ rivals' = rivals
    BY <1>1 DEF ReadClock, Goto
  <2>2. sent[w] + 1 \in 0 .. MaxLines /\ sent[w] + 1 > 0
    BY <1>0, <2>1, LogAssumption DEF WriterTypeOK
  <2>3. sent' \in [Writers -> 0 .. MaxLines] /\ at' \in [Writers -> {"idle", "count", "check", "push", "write"}]
    BY <1>0, <2>1, <2>2 DEF WriterTypeOK
  <2>4. my_tm' \in [Writers -> 0 .. MaxDays] /\ rivals' \in [Writers -> BOOLEAN]
    BY <1>0, <2>1 DEF WriterTypeOK
  <2>5. \A v \in Writers : at'[v] # "idle" => sent'[v] > 0
    BY <1>0, <2>1, <2>2 DEF WriterTypeOK
  <2> QED
    BY <2>3, <2>4, <2>5 DEF WriterTypeOK
<1>2. ASSUME NEW w \in Writers, Count(w) \/ Check(w) \/ Enqueue(w) \/ WriteDirectly(w)
      PROVE  WriterTypeOK'
  <2>1. /\ at[w] # "idle" /\ UNCHANGED <<my_tm, sent>>
        /\ \E p \in {"idle", "check", "push", "write"} : at' = [at EXCEPT ![w] = p]
    BY <1>2 DEF Count, Check, Enqueue, WriteDirectly, Goto
  <2>2. rivals' \in [Writers -> BOOLEAN]
    <3>1. \/ rivals' = rivals
          \/ rivals' = [rivals EXCEPT ![w] = FALSE]
          \/ rivals' = [v \in Writers |-> rivals[v] \/ v # w]
      BY <1>2 DEF Count, Check, Enqueue, WriteDirectly
    <3>2. [v \in Writers |-> rivals[v] \/ v # w] \in [Writers -> BOOLEAN]
      OBVIOUS
    <3> QED
      BY <1>0, <3>1, <3>2 DEF WriterTypeOK
  <2>3. at' \in [Writers -> {"idle", "count", "check", "push", "write"}]
    BY <1>0, <2>1 DEF WriterTypeOK
  <2>4. \A v \in Writers : at'[v] # "idle" => at[v] # "idle"
    BY <1>0, <2>1 DEF WriterTypeOK
  <2> QED
    BY <1>0, <2>1, <2>2, <2>3, <2>4 DEF WriterTypeOK
<1>3. CASE UNCHANGED writerVars
  BY <1>0, <1>3 DEF writerVars, WriterTypeOK
<1>4. UNCHANGED writerVars
      \/ \E w \in Writers : ReadClock(w) \/ Count(w) \/ Check(w) \/ Enqueue(w) \/ WriteDirectly(w)
  BY DEF LogNext, WriteLog, FlushThread, FlushPop, FlushWait, FlushWrite, Midnight, vars
<1> QED
  BY <1>1, <1>2, <1>3, <1>4

LEMMA LogFileStep ==
    ASSUME LogTypeOK, [LogNext]_vars
    PROVE  FileTypeOK'
<1>0. FileTypeOK /\ WriterTypeOK
  BY DEF LogTypeOK
<1>1. ASSUME NEW l \in Items, NEW direct \in BOOLEAN, Write(l, direct),
             UNCHANGED <<m_is_async, clock, lost>>, flusher' \in {"pop", "write"}
      PROVE  FileTypeOK'
  <2>1. [line |-> l, direct |-> direct] \in [line : Items, direct : BOOLEAN]
    OBVIOUS
  <2>2. /\ file' = file \cup {[line |-> l, direct |-> direct]}
        /\ inFile' = inFile + 1 /\ UNCHANGED <<m_count, m_today>>
    BY <1>1 DEF Write
  <2> QED
    BY <1>0, <1>1, <2>1, <2>2 DEF FileTypeOK
<1>2. ASSUME NEW w \in Writers, Count(w) PROVE FileTypeOK'
  <2>1. /\ UNCHANGED <<m_is_async, clock, flusher, file, lost>>
        /\ m_today' \in {m_today, my_tm[w]} /\ m_count' \in {0, m_count + 1}
        /\ inFile' \in {0, inFile}
    BY <1>2 DEF Count
  <2> QED
    BY <1>0, <1>2, <2>1 DEF FileTypeOK, WriterTypeOK
<1>3. ASSUME NEW w \in Writers, Enqueue(w) PROVE FileTypeOK'
  <2>1. /\ UNCHANGED <<fileVars, m_is_async, clock, flusher, file>>
        /\ lost' \in {lost, lost \cup {[line |-> Line(w), raced |-> rivals[w]]}}
    BY <1>3 DEF Enqueue
  <2>2. [line |-> Line(w), raced |-> rivals[w]] \in [line : Items, raced : BOOLEAN]
    BY <1>0, <1>3, LineTyped DEF Enqueue, WriterTypeOK
  <2> QED
    BY <1>0, <2>1, <2>2 DEF FileTypeOK, fileVars
<1>4. ASSUME NEW w \in Writers, WriteDirectly(w) PROVE FileTypeOK'
  <2>1. Line(w) \in Items
    BY <1>0, <1>4, LineTyped DEF WriteDirectly
  <2> QED
    BY <1>0, <1>1, <1>4, <2>1 DEF WriteDirectly, FileTypeOK
<1>5. CASE FlushWrite
  <2>1. single_log \in Items
    BY <1>5 DEF FlushWrite, LogTypeOK, LinesTypeOK, Flushing
  <2> QED
    BY <1>1, <1>5, <2>1 DEF FlushWrite
<1>6. CASE Midnight
  <2>1. clock' = clock + 1 /\ clock < MaxDays
        /\ UNCHANGED <<fileVars, m_is_async, flusher, file, lost>>
    BY <1>6 DEF Midnight
  <2>2. clock' \in 0 .. MaxDays
    BY <1>0, <2>1, LogAssumption DEF FileTypeOK
  <2> QED
    BY <1>0, <2>1, <2>2 DEF FileTypeOK, fileVars
<1>7. CASE FlushPop \/ FlushWait \/ UNCHANGED vars \/ \E w \in Writers : ReadClock(w) \/ Check(w)
  <2>1. UNCHANGED <<fileVars, m_is_async, clock, file, lost>> /\ flusher' \in {flusher, "write"}
    BY <1>7 DEF FlushPop, FlushWait, ReadClock, Check, vars
  <2> QED
    BY <1>0, <2>1 DEF FileTypeOK, fileVars
<1> QED
  BY <1>2, <1>3, <1>4, <1>5, <1>6, <1>7 DEF LogNext, WriteLog, FlushThread

LEMMA LogTypeStep ==
    ASSUME LogTypeOK, Once, [LogNext]_vars
    PROVE  LogTypeOK'
<1>1. LinesTypeOK'
  <2>1. Once'
    BY OnceStep
  <2>2. Queued' \cup Flushing' \subseteq Begun'
    BY <2>1 DEF Once, Placed, Apart
  <2> QED
    BY <2>2 DEF Begun, LinesTypeOK
<1> QED
  BY <1>1, LogBufferStep, LogWriterStep, LogFileStep DEF LogTypeOK

-----------------------------------------------------------------------------
(* The lines that are lost *)

\* A writer that found room and finds none now has been raced.
Raced ==
    /\ \A w \in Writers : at[w] = "push" /\ ~ rivals[w] => m_size < MaxSize
    /\ \A l \in lost : l.raced

LEMMA RacedInit == LogInit => Raced
  BY DEF LogInit, Raced

LEMMA RacedStep ==
    ASSUME LogTypeOK, Raced, [LogNext]_vars
    PROVE  Raced'
<1>0. /\ BufferOK /\ MaxSize \in Nat /\ m_size \in 0 .. MaxSize
      /\ at \in [Writers -> {"idle", "count", "check", "push", "write"}]
      /\ rivals \in [Writers -> BOOLEAN]
  BY QueueAssumption DEF LogTypeOK, BufferOK, QueueTypeOK, WriterTypeOK
<1>1. ASSUME NEW w \in Writers, Check(w) PROVE Raced'
  <2>1. /\ at' = [at EXCEPT ![w] = IF m_is_async /\ ~ full THEN "push" ELSE "write"]
        /\ rivals' = [rivals EXCEPT ![w] = FALSE]
        /\ UNCHANGED <<m_size, lost>>
    BY <1>1 DEF Check, Goto, queueVars
  <2>2. at'[w] = "push" => m_size < MaxSize
    BY <1>0, <2>1 DEF full
  <2>3. \A v \in Writers \ {w} : at'[v] = at[v] /\ rivals'[v] = rivals[v]
    BY <1>0, <2>1
  <2> QED
    BY <2>1, <2>2, <2>3 DEF Raced
<1>2. ASSUME NEW w \in Writers, Enqueue(w) PROVE Raced'
  <2>1. at[w] = "push" /\ at' = [at EXCEPT ![w] = "idle"]
    BY <1>2 DEF Enqueue, Goto
  <2>2. \A v \in Writers : at'[v] = "push" => v # w /\ at[v] = "push"
    BY <1>0, <2>1
  <2>3. CASE rivals' = [v \in Writers |-> rivals[v] \/ v # w] /\ UNCHANGED lost
    BY <2>2, <2>3 DEF Raced
  <2>4. CASE PushRefused /\ lost' = lost \cup {[line |-> Line(w), raced |-> rivals[w]]}
             /\ UNCHANGED rivals
    <3>1. m_size' = m_size /\ ~ (m_size < MaxSize)
      BY <1>0, <2>4 DEF PushRefused, full
    <3>2. rivals[w]
      BY <2>1, <3>1 DEF Raced
    <3>3. \A l \in lost' : l.raced
      BY <2>4, <3>2 DEF Raced
    <3> QED
      BY <2>2, <2>4, <3>1, <3>3 DEF Raced
  <2> QED
    BY <1>2, <2>3, <2>4 DEF Enqueue
<1>3. ASSUME NEW w \in Writers, ReadClock(w) \/ Count(w) \/ WriteDirectly(w) PROVE Raced'
  <2>1. /\ UNCHANGED <<m_size, rivals, lost>>
        /\ \E p \in {"idle", "count", "check"} : at' = [at EXCEPT ![w] = p]
    BY <1>3 DEF ReadClock, Count, WriteDirectly, Goto, queueVars
  <2>2. \A v \in Writers : at'[v] = "push" => at[v] = "push"
    BY <1>0, <2>1
  <2> QED
    BY <2>1, <2>2 DEF Raced
<1>4. CASE FlushPop \/ FlushWait \/ FlushWrite \/ Midnight \/ UNCHANGED vars
  <2>1. UNCHANGED <<at, rivals, lost>>
    BY <1>4 DEF FlushPop, FlushWait, FlushWrite, Midnight, vars, writerVars
  <2>2. m_size' = m_size \/ m_size' = m_size - 1
    BY <1>4 DEF FlushPop, FlushWait, FlushWrite, Midnight, vars, queueVars, pop, PopWait,
                WakeSpuriously
  <2>3. m_size < MaxSize => m_size' < MaxSize
    BY <1>0, <2>2
  <2> QED
    BY <2>1, <2>3 DEF Raced
<1> QED
  BY <1>1, <1>2, <1>3, <1>4 DEF LogNext, WriteLog, FlushThread

-----------------------------------------------------------------------------
(* LinesInOrder *)

\* The lines of a writer stand in the queue in their order; the flush thread
\* holds an older one, and has written older ones.
QueueOrdered == \A i, j \in 1 .. m_size : i < j => Older(Queue[i], Queue[j])
FlushingFirst == \A l \in Flushing, k \in Queued : Older(l, k)
FlushedBefore ==
    \A d \in file : ~ d.direct => \A k \in Queued \cup Flushing : Older(d.line, k)

Ordered == QueueOrdered /\ FlushingFirst /\ FlushedBefore

LEMMA OrderedInit == LogInit => Ordered
<1> SUFFICES ASSUME LogInit PROVE Ordered
  OBVIOUS
<1>1. m_size = 0 /\ file = {} /\ flusher = "pop"
  BY DEF LogInit, QueueInit
<1> QED
  BY <1>1 DEF Ordered, QueueOrdered, FlushingFirst, FlushedBefore, Flushing, Queued

LEMMA PlacesOrdered ==
    ASSUME Ordered, UNCHANGED <<m_size, Queue, flusher, single_log>>,
           \A d \in file' : ~ d.direct => d \in file
    PROVE  Ordered'
<1>1. Queued' = Queued /\ Flushing' = Flushing
  BY DEF Queued, Flushing
<1> QED
  BY <1>1 DEF Ordered, QueueOrdered, FlushingFirst, FlushedBefore

LEMMA EnqueueOrdered ==
    ASSUME LogTypeOK, Once, Ordered, NEW w \in Writers, Enqueue(w)
    PROVE  Ordered'
<1>1. at[w] = "push" /\ UNCHANGED <<file, flusher, single_log>>
  BY DEF Enqueue
<1>2. Line(w) \in Items /\ \A l \in Written \cup Queued \cup Flushing : Older(l, Line(w))
  BY <1>1, NewestInHand
<1>3. CASE PushRefused
  BY <1>1, <1>3, QueueSame, PlacesOrdered DEF LogTypeOK
<1>4. CASE push(Line(w))
  <2>1. /\ m_size' = m_size + 1 /\ m_size \in Nat
        /\ \A i \in 1 .. m_size : Queue'[i] = Queue[i]
        /\ Queue'[m_size'] = Line(w)
    BY <1>2, <1>4, PushAppends, QueueAssumption DEF LogTypeOK, BufferOK, QueueTypeOK
  <2>2. Queued' = Queued \cup {Line(w)} /\ Flushing' = Flushing
    BY <1>1, <1>2, <1>4, QueuedByPush DEF LogTypeOK, Flushing
  <2>3. QueueOrdered'
    <3> SUFFICES ASSUME NEW i \in 1 .. m_size', NEW j \in 1 .. m_size', i < j
                 PROVE  Older(Queue'[i], Queue'[j])
      BY DEF QueueOrdered, Older
    <3>1. i \in 1 .. m_size /\ (j \in 1 .. m_size \/ j = m_size')
      BY <2>1
    <3>2. Queue[i] \in Queued
      BY <3>1 DEF Queued
    <3> QED
      BY <1>2, <2>1, <3>1, <3>2 DEF Ordered, QueueOrdered
  <2>4. FlushingFirst'
    BY <1>2, <2>2 DEF Ordered, FlushingFirst, Older
  <2>5. FlushedBefore'
    <3> SUFFICES ASSUME NEW d \in file, ~ d.direct, NEW k \in Queued \cup {Line(w)} \cup Flushing
                 PROVE  Older(d.line, k)
      BY <1>1, <2>2 DEF FlushedBefore, Older
    <3>1. d.line \in Written
      BY DEF Written
    <3> QED
      BY <1>2, <3>1 DEF Ordered, FlushedBefore
  <2> QED
    BY <2>3, <2>4, <2>5 DEF Ordered
<1> QED
  BY <1>3, <1>4 DEF Enqueue

LEMMA FlushPopOrdered ==
    ASSUME LogTypeOK, Ordered, FlushPop
    PROVE  Ordered'
<1>1. /\ pop /\ single_log' = Popped /\ flusher' = "write" /\ UNCHANGED file
  BY DEF FlushPop
<1>2. /\ m_size' = m_size - 1 /\ m_size \in Nat /\ m_size > 0
      /\ \A i \in 1 .. m_size' : Queue'[i] = Queue[i + 1]
      /\ Popped = Queue[1]
  BY <1>1, PopTakesFirst, QueueAssumption DEF LogTypeOK, BufferOK, QueueTypeOK
<1>3. Flushing' = {Queue[1]} /\ Queued = Queued' \cup {Queue[1]}
  BY <1>1, <1>2, QueuedByPop DEF LogTypeOK, Flushing
<1>4. QueueOrdered'
  <2> SUFFICES ASSUME NEW i \in 1 .. m_size', NEW j \in 1 .. m_size', i < j
               PROVE  Older(Queue'[i], Queue'[j])
    BY DEF QueueOrdered, Older
  <2>1. i + 1 \in 1 .. m_size /\ j + 1 \in 1 .. m_size /\ i + 1 < j + 1
    BY <1>2
  <2> QED
    BY <1>2, <2>1 DEF Ordered, QueueOrdered
<1>5. FlushingFirst'
  <2> SUFFICES ASSUME NEW i \in 1 .. m_size' PROVE Older(Queue[1], Queue'[i])
    BY <1>3 DEF FlushingFirst, Queued, Older
  <2>1. 1 \in 1 .. m_size /\ i + 1 \in 1 .. m_size /\ 1 < i + 1
    BY <1>2
  <2> QED
    BY <1>2, <2>1 DEF Ordered, QueueOrdered
<1>6. FlushedBefore'
  BY <1>1, <1>3 DEF Ordered, FlushedBefore, Older
<1> QED
  BY <1>4, <1>5, <1>6 DEF Ordered

LEMMA FlushWriteOrdered ==
    ASSUME LogTypeOK, Ordered, FlushWrite
    PROVE  Ordered'
<1>1. /\ flusher = "write" /\ flusher' = "pop"
      /\ file' = file \cup {[line |-> single_log, direct |-> FALSE]}
      /\ UNCHANGED queueVars
  BY DEF FlushWrite, Write
<1>2. m_size' = m_size /\ Queue' = Queue /\ Queued' = Queued
  BY <1>1, QueuedSame DEF LogTypeOK
<1>3. Flushing = {single_log} /\ Flushing' = {}
  BY <1>1 DEF Flushing
<1>4. QueueOrdered' /\ FlushingFirst'
  BY <1>2, <1>3 DEF Ordered, QueueOrdered, FlushingFirst
<1>5. FlushedBefore'
  <2> SUFFICES ASSUME NEW d \in file', ~ d.direct, NEW k \in Queued PROVE Older(d.line, k)
    BY <1>2, <1>3 DEF FlushedBefore, Older
  <2>1. d \in file \/ d.line = single_log
    BY <1>1
  <2> QED
    BY <1>3, <2>1 DEF Ordered, FlushingFirst, FlushedBefore
<1> QED
  BY <1>4, <1>5 DEF Ordered

LEMMA OrderedStep ==
    ASSUME LogTypeOK, Once, Ordered, [LogNext]_vars
    PROVE  Ordered'
<1>1. ASSUME NEW w \in Writers, ReadClock(w) \/ Count(w) \/ Check(w) \/ WriteDirectly(w)
      PROVE  Ordered'
  <2>1. UNCHANGED <<queueVars, flusher, single_log>>
    BY <1>1 DEF ReadClock, Count, Check, WriteDirectly
  <2>2. \A d \in file' : ~ d.direct => d \in file
    BY <1>1 DEF ReadClock, Count, Check, WriteDirectly, Write
  <2> QED
    BY <2>1, <2>2, QueueSame, PlacesOrdered DEF LogTypeOK
<1>2. CASE FlushWait \/ Midnight \/ UNCHANGED vars
  BY <1>2, StepsSettled, PlacesOrdered DEF Settled
<1> QED
  BY <1>1, <1>2, EnqueueOrdered, FlushPopOrdered, FlushWriteOrdered
     DEF LogNext, WriteLog, FlushThread

\* Whoever writes has a line newer than those of its writer that the flush thread wrote.
LEMMA WritesInOrder ==
    ASSUME LogTypeOK, Once, Ordered, [LogNext]_vars
    PROVE  \A e \in file' \ file, d \in file :
              (d.line[1] = e.line[1] /\ ~ d.direct) => d.line[2] < e.line[2]
<1> SUFFICES ASSUME NEW e \in file' \ file, NEW d \in file, ~ d.direct
             PROVE  Older(d.line, e.line)
  BY DEF Older
<1>1. CASE FlushWrite
  <2>1. e.line = single_log /\ single_log \in Flushing
    BY <1>1 DEF FlushWrite, Write, Flushing
  <2> QED
    BY <2>1 DEF Ordered, FlushedBefore
<1>2. ASSUME NEW w \in Writers, WriteDirectly(w) PROVE Older(d.line, e.line)
  <2>1. e.line = Line(w) /\ at[w] # "idle" /\ d.line \in Written
    BY <1>2 DEF WriteDirectly, Write, Written
  <2> QED
    BY <2>1, NewestInHand
<1>3. FlushWrite \/ \E w \in Writers : WriteDirectly(w)
  <2>1. file' # file
    OBVIOUS
  <2> QED
    BY <2>1 DEF LogNext, WriteLog, FlushThread, ReadClock, Count, Check, Enqueue, FlushPop,
                FlushWait, Midnight, vars
<1> QED
  BY <1>1, <1>2, <1>3

-----------------------------------------------------------------------------
(* FilesBounded *)

\* The writers whose line is counted, and neither queued nor written.
Busy == {w \in Writers : at[w] \in {"check", "push", "write"}}

\* The lines that are counted and not written.
Transit == m_size + Cardinality(Busy) + (IF flusher = "write" THEN 1 ELSE 0)

\* No more are in transit than have a place.
Capacity == MaxSize + Cardinality(Writers) + 1

\* What the open file has was in transit when it was opened, or is counted since.
CountBounds == inFile + Transit <= (m_count % Split) + Capacity

LEMMA BusyFinite ==
    IsFiniteSet(Busy) /\ Cardinality(Busy) \in Nat
        /\ Cardinality(Busy) <= Cardinality(Writers) /\ Cardinality(Writers) \in Nat
<1>1. Busy \subseteq Writers
  BY DEF Busy
<1> QED
  BY <1>1, LogAssumption, FS_Subset, FS_CardinalityType

LEMMA CountBoundsInit == LogInit => CountBounds
<1> SUFFICES ASSUME LogInit PROVE CountBounds
  OBVIOUS
<1>1. m_size = 0 /\ m_count = 0 /\ inFile = 0 /\ flusher = "pop"
  BY DEF LogInit, QueueInit
<1>2. Cardinality(Busy) = 0
  <2>1. Busy = {}
    BY DEF LogInit, Busy
  <2> QED
    BY <2>1, FS_EmptySet
<1>3. 0 % Split \in Nat /\ MaxSize \in Nat /\ Cardinality(Writers) \in Nat
  BY LogAssumption, QueueAssumption, BusyFinite
<1> QED
  BY <1>1, <1>2, <1>3 DEF CountBounds, Transit, Capacity

\* A writer becomes busy, or is not busy any more.
LEMMA BusySteps ==
    ASSUME WriterTypeOK, NEW w \in Writers, NEW p, Goto(w, p)
    PROVE  /\ w \notin Busy /\ p \in {"check", "push", "write"} =>
                 Cardinality(Busy') = Cardinality(Busy) + 1
           /\ w \in Busy /\ p \in {"check", "push", "write"} => Busy' = Busy
           /\ w \in Busy /\ p \notin {"check", "push", "write"} =>
                 Cardinality(Busy') = Cardinality(Busy) - 1
           /\ w \notin Busy /\ p \notin {"check", "push", "write"} => Busy' = Busy
<1>1. \A v \in Writers : at'[v] = IF v = w THEN p ELSE at[v]
  BY DEF Goto, WriterTypeOK
<1>2. Busy' = {v \in Writers : at'[v] \in {"check", "push", "write"}}
  BY DEF Busy
<1>3. p \in {"check", "push", "write"} => Busy' = Busy \cup {w}
  BY <1>1, <1>2 DEF Busy
<1>4. p \notin {"check", "push", "write"} => Busy' = Busy \ {w}
  BY <1>1, <1>2 DEF Busy
<1>5. Cardinality(Busy \cup {w}) = IF w \in Busy THEN Cardinality(Busy) ELSE Cardinality(Busy) + 1
  BY BusyFinite, FS_AddElement
<1>6. Cardinality(Busy \ {w}) = IF w \in Busy THEN Cardinality(Busy) - 1 ELSE Cardinality(Busy)
  BY BusyFinite, FS_RemoveElement
<1> QED
  BY <1>3, <1>4, <1>5, <1>6

LEMMA CountBoundsStep ==
    ASSUME LogTypeOK, CountBounds, [LogNext]_vars
    PROVE  CountBounds'
<1>0. /\ m_size \in Nat /\ m_size <= MaxSize /\ MaxSize \in Nat /\ BufferOK /\ WriterTypeOK
      /\ m_count \in Nat /\ inFile \in Nat
      /\ Cardinality(Busy) \in Nat /\ Cardinality(Writers) \in Nat
      /\ Cardinality(Busy) <= Cardinality(Writers)
      /\ m_count % Split \in Nat /\ Split \in Nat \ {0}
  <2>1. Split \in Nat \ {0} /\ m_count \in Nat
    BY LogAssumption DEF LogTypeOK, FileTypeOK
  <2>2. m_count % Split \in Nat
    BY <2>1
  <2> QED
    BY <2>1, <2>2, BusyFinite, QueueAssumption
       DEF LogTypeOK, BufferOK, QueueTypeOK, FileTypeOK
<1>1. ASSUME UNCHANGED <<inFile, m_count>>, Transit' <= Transit, Transit' \in Int PROVE CountBounds'
  <2>1. Transit \in Nat
    BY <1>0 DEF Transit
  <2> QED
    BY <1>0, <1>1, <2>1 DEF CountBounds, Capacity
<1>2. ASSUME NEW w \in Writers, Count(w) PROVE CountBounds'
  <2>1. /\ UNCHANGED <<m_size, flusher>> /\ at[w] = "count" /\ Goto(w, "check")
    BY <1>2 DEF Count, queueVars
  <2>2. Cardinality(Busy') = Cardinality(Busy) + 1
    BY <1>0, <2>1, BusySteps DEF Busy
  <2>3. Cardinality(Busy') <= Cardinality(Writers)
    <3>1. Busy' \subseteq Writers
      BY DEF Busy
    <3> QED
      BY <3>1, LogAssumption, FS_Subset
  <2>4. Transit' = Transit + 1 /\ Transit' <= Capacity /\ Transit \in Nat
    BY <1>0, <2>1, <2>2, <2>3 DEF Transit, Capacity
  <2>5. CASE inFile' = 0
    <3>1. m_count' \in Nat
      BY <1>0, <1>2 DEF Count
    <3>2. PICK n \in Nat : n = m_count'
      BY <3>1
    <3>3. n % Split \in Nat
      BY <1>0
    <3>4. m_count' % Split \in Nat
      BY <3>2, <3>3
    <3> QED
      BY <1>0, <2>4, <2>5, <3>4 DEF CountBounds, Capacity
  <2>6. CASE m_count' = m_count + 1 /\ m_count' % Split # 0 /\ inFile' = inFile
    <3>1. m_count' % Split = (m_count % Split) + 1
      BY <1>0, <2>6, NextRemainder
    <3> QED
      BY <1>0, <2>4, <2>6, <3>1 DEF CountBounds, Capacity
  <2> QED
    BY <1>2, <2>5, <2>6 DEF Count
<1>3. ASSUME NEW l, NEW direct, Write(l, direct), Transit' = Transit - 1 PROVE CountBounds'
  <2>1. inFile' = inFile + 1 /\ m_count' = m_count
    BY <1>3 DEF Write
  <2>2. Transit \in Nat
    BY <1>0 DEF Transit
  <2> QED
    BY <1>0, <1>3, <2>1, <2>2 DEF CountBounds, Capacity
<1>4. ASSUME NEW w \in Writers, WriteDirectly(w) PROVE CountBounds'
  <2>1. UNCHANGED <<m_size, flusher>> /\ at[w] = "write" /\ Goto(w, "idle") /\ Write(Line(w), TRUE)
    BY <1>4 DEF WriteDirectly, queueVars
  <2>2. Cardinality(Busy') = Cardinality(Busy) - 1
    BY <1>0, <2>1, BusySteps DEF Busy
  <2>3. Transit' = Transit - 1
    BY <1>0, <2>1, <2>2 DEF Transit
  <2> QED
    BY <1>3, <2>1, <2>3
<1>5. CASE FlushWrite
  <2>1. /\ UNCHANGED <<m_size, at>> /\ flusher = "write" /\ flusher' = "pop"
        /\ Write(single_log, FALSE)
    BY <1>5 DEF FlushWrite, queueVars, writerVars
  <2>2. Busy' = Busy
    BY <2>1 DEF Busy
  <2>3. Transit' = Transit - 1
    BY <1>0, <2>1, <2>2 DEF Transit
  <2> QED
    BY <1>3, <2>1, <2>3
<1>6. ASSUME NEW w \in Writers, Enqueue(w) PROVE CountBounds'
  <2>1. UNCHANGED <<inFile, m_count, flusher>> /\ at[w] = "push" /\ Goto(w, "idle")
    BY <1>6 DEF Enqueue, fileVars
  <2>2. Cardinality(Busy') = Cardinality(Busy) - 1
    BY <1>0, <2>1, BusySteps DEF Busy
  <2>3. m_size' \in {m_size, m_size + 1}
    BY <1>6 DEF Enqueue, push, PushRefused
  <2>4. Transit' <= Transit /\ Transit' \in Int
    BY <1>0, <2>1, <2>2, <2>3 DEF Transit
  <2> QED
    BY <1>1, <2>1, <2>4
<1>7. ASSUME NEW w \in Writers, ReadClock(w) \/ Check(w) PROVE CountBounds'
  <2>1. UNCHANGED <<inFile, m_count, flusher, m_size>>
    BY <1>7 DEF ReadClock, Check, fileVars, queueVars
  <2>2. Busy' = Busy
    <3>1. CASE ReadClock(w)
      <4>1. at[w] = "idle" /\ Goto(w, "count")
        BY <3>1 DEF ReadClock
      <4>2. w \notin Busy
        BY <4>1 DEF Busy
      <4> QED
        BY <1>0, <4>1, <4>2, BusySteps
    <3>2. CASE Check(w)
      <4>1. w \in Busy /\ \E p \in {"check", "push", "write"} : Goto(w, p)
        BY <3>2 DEF Check, Busy
      <4> QED
        BY <1>0, <4>1, BusySteps
    <3> QED
      BY <1>7, <3>1, <3>2
  <2>3. Transit' = Transit /\ Transit \in Nat
    BY <1>0, <2>1, <2>2 DEF Transit
  <2> QED
    BY <1>1, <2>1, <2>3
<1>8. CASE FlushPop
  <2>1. /\ UNCHANGED <<inFile, m_count, at>> /\ flusher = "pop" /\ flusher' = "write"
        /\ m_size' = m_size - 1
    BY <1>8 DEF FlushPop, fileVars, writerVars, pop
  <2>2. Busy' = Busy
    BY <2>1 DEF Busy
  <2>3. Transit' = Transit /\ Transit \in Nat
    BY <1>0, <2>1, <2>2 DEF Transit
  <2> QED
    BY <1>1, <2>1, <2>3
<1>9. CASE FlushWait \/ Midnight \/ UNCHANGED vars
  <2>1. UNCHANGED <<inFile, m_count, at, flusher, m_size>>
    BY <1>9 DEF FlushWait, Midnight, vars, fileVars, writerVars, queueVars, PopWait, WakeSpuriously
  <2>2. Busy' = Busy
    BY <2>1 DEF Busy
  <2>3. Transit' = Transit /\ Transit \in Nat
    BY <1>0, <2>1, <2>2 DEF Transit
  <2> QED
    BY <1>1, <2>1, <2>3
<1> QED
  BY <1>2, <1>4, <1>5, <1>6, <1>7, <1>8, <1>9 DEF LogNext, WriteLog, FlushThread

-----------------------------------------------------------------------------
(* The theorems *)

LogInv == LogTypeOK /\ Once /\ Raced /\ Ordered /\ CountBounds

LEMMA LogInvInit == LogInit => LogInv
  BY LogTypeInit, OnceInit, RacedInit, OrderedInit, CountBoundsInit DEF LogInv

LEMMA LogInvStep == LogInv /\ [LogNext]_vars => LogInv'
  BY LogTypeStep, OnceStep, RacedStep, OrderedStep, CountBoundsStep DEF LogInv

LEMMA LogInvAlways == LogSpec => []LogInv
  BY LogInvInit, LogInvStep, PTL DEF LogSpec

\* Every variable keeps to its type; no place of the queue is read that holds no line.
THEOREM LogTypeCorrect == LogSpec => []LogTypeOK
<1>1. LogInv => LogTypeOK
  BY DEF LogInv
<1> QED
  BY <1>1, LogInvAlways, PTL

LEMMA NoneOrOne ==
    ASSUME NEW S, \A x, y \in S : x = y
    PROVE  Cardinality(S) = IF S = {} THEN 0 ELSE 1
<1>1. CASE S = {}
  BY <1>1, FS_EmptySet
<1>2. CASE S # {}
  <2>1. PICK x \in S : TRUE
    BY <1>2
  <2>2. S = {x}
    BY <2>1
  <2> QED
    BY <1>2, <2>2, FS_Singleton
<1> QED
  BY <1>1, <1>2

LEMMA OneCopy ==
    ASSUME LogInv, NEW l \in Begun
    PROVE  Copies(l) = 1
<1> DEFINE F == {e \in file : e.line = l}
<1> DEFINE Q == {i \in DOMAIN Queue : Queue[i] = l}
<1> DEFINE H == {x \in {"hand"} : l \in InHand}
<1> DEFINE P == {x \in {"flusher"} : flusher = "write" /\ single_log = l}
<1> DEFINE L == {x \in {"lost"} : l \in Lost}
<1>0. DOMAIN Queue = 1 .. m_size
  BY QueueIsSeq DEF LogInv, LogTypeOK
<1>1. Cardinality(F) = IF l \in Written THEN 1 ELSE 0
  <2>1. \A x, y \in F : x = y
    BY DEF LogInv, Once, OnceInFile
  <2>2. F = {} <=> l \notin Written
    BY DEF Written
  <2> HIDE DEF F
  <2> QED
    BY <2>1, <2>2, NoneOrOne
<1>2. Cardinality(Q) = IF l \in Queued THEN 1 ELSE 0
  <2>1. \A x, y \in Q : x = y
    BY <1>0 DEF LogInv, Once, OnceInQueue
  <2>2. Q = {} <=> l \notin Queued
    BY <1>0 DEF Queued
  <2> HIDE DEF Q
  <2> QED
    BY <2>1, <2>2, NoneOrOne
<1>3. Cardinality(H) = IF l \in InHand THEN 1 ELSE 0
  <2>1. (\A x, y \in H : x = y) /\ (H = {} <=> l \notin InHand)
    OBVIOUS
  <2> HIDE DEF H
  <2> QED
    BY <2>1, NoneOrOne
<1>4. Cardinality(P) = IF l \in Flushing THEN 1 ELSE 0
  <2>1. (\A x, y \in P : x = y) /\ (P = {} <=> l \notin Flushing)
    BY DEF Flushing
  <2> HIDE DEF P
  <2> QED
    BY <2>1, NoneOrOne
<1>5. Cardinality(L) = IF l \in Lost THEN 1 ELSE 0
  <2>1. (\A x, y \in L : x = y) /\ (L = {} <=> l \notin Lost)
    OBVIOUS
  <2> HIDE DEF L
  <2> QED
    BY <2>1, NoneOrOne
<1>6. Copies(l) = Cardinality(F) + Cardinality(Q) + Cardinality(H) + Cardinality(P) + Cardinality(L)
  BY DEF Copies
<1>7. \/ l \in Written /\ l \notin Queued /\ l \notin InHand /\ l \notin Flushing /\ l \notin Lost
      \/ l \notin Written /\ l \in Queued /\ l \notin InHand /\ l \notin Flushing /\ l \notin Lost
      \/ l \notin Written /\ l \notin Queued /\ l \in InHand /\ l \notin Flushing /\ l \notin Lost
      \/ l \notin Written /\ l \notin Queued /\ l \notin InHand /\ l \in Flushing /\ l \notin Lost
      \/ l \notin Written /\ l \notin Queued /\ l \notin InHand /\ l \notin Flushing /\ l \in Lost
  BY DEF LogInv, Once, Placed, Apart
<1> HIDE DEF F, Q, H, P, L
<1> QED
  BY <1>1, <1>2, <1>3, <1>4, <1>5, <1>6, <1>7

\* A line that was logged is in one place; a lost one was raced.
THEOREM LinesAlwaysKept == LogSpec => []LinesKept
<1>1. LogInv => LinesKept
  BY OneCopy DEF LogInv, Raced, LinesKept
<1> QED
  BY <1>1, LogInvAlways, PTL

\* The flush thread and the writers put a writer's lines into the file in their order.
THEOREM LinesAlwaysInOrder == LogSpec => LinesInOrder
<1>1. LogInv /\ [LogNext]_vars =>
         [\A e \in file' \ file, d \in file :
             (d.line[1] = e.line[1] /\ ~ d.direct) => d.line[2] < e.line[2]]_vars
  BY WritesInOrder DEF LogInv
<1> QED
  BY <1>1, LogInvAlways, PTL DEF LogSpec, LinesInOrder

\* A file gets no more lines than m_split_lines and what was under way when it was opened.
THEOREM FilesAlwaysBounded == LogSpec => []FilesBounded
<1>1. LogInv => FilesBounded
  <2> SUFFICES ASSUME LogInv PROVE FilesBounded
    OBVIOUS
  <2>1. /\ m_size \in Nat /\ MaxSize \in Nat /\ inFile \in Nat /\ m_count \in Nat
        /\ Split \in Nat \ {0}
    BY QueueAssumption, LogAssumption
       DEF LogInv, LogTypeOK, BufferOK, QueueTypeOK, FileTypeOK
  <2>2. m_count % Split \in 0 .. Split - 1
    BY <2>1
  <2>3. Cardinality(Busy) \in Nat /\ Cardinality(Writers) \in Nat
    BY BusyFinite
  <2>4. Transit \in Nat
    BY <2>1, <2>3 DEF Transit
  <2>5. inFile + Transit <= (m_count % Split) + (MaxSize + Cardinality(Writers) + 1)
    BY DEF LogInv, CountBounds, Capacity
  <2> QED
    BY <2>1, <2>2, <2>3, <2>4, <2>5 DEF FilesBounded
<1> QED
  BY <1>1, LogInvAlways, PTL

\* The buffer, whatever the threads do with it, is a queue: the safety part of
\* ImplementsFifo.
THEOREM LogImplementsQueue ==
    LogSpec => Fifo!FifoInit /\ [][Fifo!FifoNext]_<<Queue, single_log>>
<1>1. LogInit => Fifo!FifoInit
  <2> SUFFICES ASSUME LogInit PROVE Queue = <<>>
    BY DEF Fifo!FifoInit
  <2>1. m_size = 0
    BY DEF LogInit, QueueInit
  <2> QED
    BY <2>1 DEF Queue
<1>2. LogInv /\ LogInv' /\ [LogNext]_vars => [Fifo!FifoNext]_<<Queue, single_log>>
  <2> SUFFICES ASSUME LogInv, LogInv', [LogNext]_vars
               PROVE  Fifo!FifoNext \/ UNCHANGED <<Queue, single_log>>
    OBVIOUS
  <2>0. /\ BufferOK /\ BufferOK' /\ WriterTypeOK
        /\ Queue \in Seq(Items \cup {NoItem}) /\ Len(Queue) = m_size
        /\ Queue' \in Seq(Items \cup {NoItem}) /\ Len(Queue') = m_size'
        /\ m_size \in Nat
    BY QueueIsSeq, QueueIsSeqNext, QueueAssumption DEF LogInv, LogTypeOK, BufferOK, QueueTypeOK
  <2>1. ASSUME NEW w \in Writers, Enqueue(w)
        PROVE  Fifo!FifoNext \/ UNCHANGED <<Queue, single_log>>
    <3>1. Line(w) \in Items /\ single_log' = single_log
      BY <2>0, <2>1, LineTyped DEF Enqueue
    <3>2. CASE PushRefused
      BY <2>0, <3>1, <3>2, QueueSame
    <3>3. CASE push(Line(w))
      <4>1. /\ m_size < MaxSize /\ m_size' = m_size + 1
            /\ \A i \in 1 .. m_size : Queue'[i] = Queue[i]
            /\ Queue'[m_size'] = Line(w)
        BY <2>0, <3>1, <3>3, PushAppends
      <4>2. Queue' = Append(Queue, Line(w))
        <5>1. /\ Append(Queue, Line(w)) \in Seq(Items \cup {NoItem})
              /\ Len(Append(Queue, Line(w))) = m_size + 1
              /\ \A i \in 1 .. m_size : Append(Queue, Line(w))[i] = Queue[i]
              /\ Append(Queue, Line(w))[m_size + 1] = Line(w)
          BY <2>0, <3>1
        <5>2. \A i \in 1 .. m_size + 1 : Queue'[i] = Append(Queue, Line(w))[i]
          BY <2>0, <4>1, <5>1
        <5> QED
          BY <2>0, <4>1, <5>1, <5>2, SeqEqual
      <4> QED
        BY <2>0, <3>1, <4>1, <4>2 DEF Fifo!FifoNext, Fifo!Put
    <3> QED
      BY <2>1, <3>2, <3>3 DEF Enqueue
  <2>2. CASE FlushPop
    <3>1. pop /\ single_log' = Popped
      BY <2>2 DEF FlushPop
    <3>2. /\ m_size > 0 /\ m_size' = m_size - 1 /\ Popped = Queue[1]
          /\ \A i \in 1 .. m_size' : Queue'[i] = Queue[i + 1]
      BY <2>0, <3>1, PopTakesFirst
    <3>3. Queue # <<>> /\ Head(Queue) = Queue[1]
      BY <2>0, <3>2
    <3>4. Queue' = Tail(Queue)
      <4>1. /\ Tail(Queue) \in Seq(Items \cup {NoItem}) /\ Len(Tail(Queue)) = m_size - 1
            /\ \A i \in 1 .. m_size - 1 : Tail(Queue)[i] = Queue[i + 1]
        BY <2>0, <3>2, <3>3
      <4> QED
        BY <2>0, <3>2, <4>1, SeqEqual
    <3> QED
      BY <3>1, <3>2, <3>3, <3>4 DEF Fifo!FifoNext, Fifo!Get
  <2>3. ASSUME NEW w \in Writers, ReadClock(w) \/ Count(w) \/ Check(w) \/ WriteDirectly(w)
        PROVE  UNCHANGED <<Queue, single_log>>
    BY <2>0, <2>3, QueueSame DEF ReadClock, Count, Check, WriteDirectly
  <2>4. CASE FlushWait \/ FlushWrite \/ Midnight \/ UNCHANGED vars
    BY <2>0, <2>4, QueueSame DEF FlushWait, FlushWrite, Midnight, vars
  <2> QED
    BY <2>1, <2>2, <2>3, <2>4 DEF LogNext, WriteLog, FlushThread
<1> QED
  BY <1>1, <1>2, LogInvAlways, PTL DEF LogSpec
=============================================================================

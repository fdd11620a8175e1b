-------------------------- MODULE FileStoreProofs --------------------------
(***************************************************************************)
(* Proofs about TaskPool, Upload and FileStore, for every number of        *)
(* clients, workers, objects and slices and every bound.  Of TaskPool:     *)
(* types, that no missing slice is dropped from a queue, and that GetSlice *)
(* serves missing slices in rounds.  Of Upload: types, that the workers    *)
(* use the task pool as TaskPool specifies it (so that its theorems hold   *)
(* of uploads), that what is received is stored and what is stored is      *)
(* registered, that a complete upload is completed by someone, and that    *)
(* files.refer counts the users' rows.  Of FileStore: types, that          *)
(* deletions, copies and downloads beside the uploads leave the task pool  *)
(* what TaskPool says it is, that refer covers the rows that users have,   *)
(* that a file nobody refers to is on its way out, and that a download     *)
(* finds the slice it was promised.                                        *)
(***************************************************************************)
EXTENDS FileStore, SequenceTheorems, FiniteSetTheorems, TLAPS

-----------------------------------------------------------------------------
(* The task pool *)

\* The two invariants of the queues are inductive together with the types.
TaskInv == TaskTypeOK /\ NoSliceForgotten /\ QueuedOnce

\* What GetSlice leaves in a queue: the entries behind the one handed out,
\* then that one.
LEMMA RotateProperties ==
    ASSUME NEW S, NEW q \in Seq(S), NEW k \in 1 .. Len(q)
    PROVE  /\ Rotate(q, k) \in Seq(S)
           /\ Len(Rotate(q, k)) = Len(q) - k + 1
           /\ \A i \in 1 .. Len(q) - k : Rotate(q, k)[i] = q[k + i]
           /\ Rotate(q, k)[Len(q) - k + 1] = q[k]
<1> DEFINE tail == SubSeq(q, k + 1, Len(q))
<1>0. Len(q) \in Nat
  BY LenProperties
<1>1. /\ tail \in Seq(S)
      /\ Len(tail) = Len(q) - k
      /\ \A i \in 1 .. Len(q) - k : tail[i] = q[k + i]
  <2>1. CASE k = Len(q)
    <3>1. tail = << >>
      BY <2>1, <1>0
    <3> QED
      BY <3>1, <2>1, <1>0
  <2>2. CASE k < Len(q)
    <3>1. k + 1 \in 1 .. Len(q) /\ Len(q) \in k + 1 .. Len(q)
      BY <2>2, <1>0
    <3>2. \A i \in k + 1 .. Len(q) : q[i] \in S
      BY <1>0, ElementOfSeq
    <3> QED
      BY <3>1, <3>2, <2>2, <1>0, SubSeqProperties
  <2> QED
    BY <2>1, <2>2, <1>0
<1>2. q[k] \in S
  BY ElementOfSeq
<1> HIDE DEF tail
<1>3. Append(tail, q[k]) \in Seq(S)
  BY <1>1, <1>2, AppendProperties
<1>4. /\ Len(Append(tail, q[k])) = Len(q) - k + 1
      /\ \A i \in 1 .. Len(q) - k : Append(tail, q[k])[i] = q[k + i]
      /\ Append(tail, q[k])[Len(q) - k + 1] = q[k]
  <2> DEFINE longer == Append(tail, q[k])
  <2>1. /\ Len(longer) = Len(tail) + 1
        /\ \A i \in 1 .. Len(tail) : longer[i] = tail[i]
        /\ longer[Len(tail) + 1] = q[k]
    BY <1>1, <1>2, AppendProperties
  <2> HIDE DEF longer
  <2>2. /\ Len(longer) = Len(q) - k + 1
        /\ \A i \in 1 .. Len(q) - k : longer[i] = q[k + i]
        /\ longer[Len(q) - k + 1] = q[k]
    BY <2>1, <1>0, <1>1
  <2> QED
    BY <2>2 DEF longer
<1> QED
  BY <1>3, <1>4 DEF Rotate, tail

\* Popping up to the first missing slice, or to the end, loses no missing one.
LEMMA RotateKeepsMissing ==
    ASSUME NEW S, NEW q \in Seq(S), NEW r, NEW k \in Stop(q, r),
           NEW j \in DOMAIN q, q[j] \notin r
    PROVE  \E i \in DOMAIN Rotate(q, k) : Rotate(q, k)[i] = q[j]
<1>0. Len(q) \in Nat /\ DOMAIN q = 1 .. Len(q)
  BY LenProperties
<1>1. k \in 1 .. Len(q) /\ ~ (j < k)
  <2>1. k \in 1 .. Len(q) /\ \A i \in 1 .. k - 1 : q[i] \in r
    BY DEF Stop
  <2>2. j < k => j \in 1 .. k - 1
    BY <2>1, <1>0
  <2> QED
    BY <2>1, <2>2
<1>2. DOMAIN Rotate(q, k) = 1 .. Len(q) - k + 1
  BY <1>1, RotateProperties, LenProperties
<1>3. CASE j = k
  <2>1. Len(q) - k + 1 \in DOMAIN Rotate(q, k)
    BY <1>0, <1>1, <1>2
  <2> QED
    BY <2>1, <1>1, <1>3, RotateProperties
<1>4. CASE k < j
  <2>1. j - k \in 1 .. Len(q) - k /\ k + (j - k) = j
    BY <1>0, <1>1, <1>4
  <2>2. Rotate(q, k)[j - k] = q[j]
    BY <2>1, <1>1, RotateProperties
  <2> QED
    BY <2>1, <2>2, <1>0, <1>1, <1>2
<1> QED
  BY <1>0, <1>1, <1>3, <1>4

\* ... and repeats none.
LEMMA RotateKeepsOnce ==
    ASSUME NEW S, NEW q \in Seq(S), NEW k \in 1 .. Len(q),
           \A i, j \in DOMAIN q : q[i] = q[j] => i = j
    PROVE  \A i, j \in DOMAIN Rotate(q, k) :
              Rotate(q, k)[i] = Rotate(q, k)[j] => i = j
<1>0. Len(q) \in Nat /\ DOMAIN q = 1 .. Len(q)
  BY LenProperties
<1>1. DOMAIN Rotate(q, k) = 1 .. Len(q) - k + 1
  BY RotateProperties, LenProperties
<1> DEFINE from(i) == IF i = Len(q) - k + 1 THEN k ELSE k + i
<1>2. \A i \in DOMAIN Rotate(q, k) :
         from(i) \in DOMAIN q /\ Rotate(q, k)[i] = q[from(i)]
  <2> TAKE i \in DOMAIN Rotate(q, k)
  <2>1. CASE i = Len(q) - k + 1
    BY <2>1, <1>0, RotateProperties
  <2>2. CASE i \in 1 .. Len(q) - k
    <3>1. Rotate(q, k)[i] = q[k + i]
      BY <2>2, RotateProperties
    <3> QED
      BY <3>1, <2>2, <1>0
  <2> QED
    BY <2>1, <2>2, <1>0, <1>1
<1>3. \A i, j \in DOMAIN Rotate(q, k) : from(i) = from(j) => i = j
  BY <1>0, <1>1
<1> QED
  BY <1>2, <1>3

\* A new task queues every slice, once.
LEMMA NewAssignProperties ==
    ASSUME m_count \in Nat
    PROVE  /\ NewAssign \in Seq(Entries)
           /\ DOMAIN NewAssign = 1 .. m_count
           /\ \A s \in Slices : s + 1 \in DOMAIN NewAssign /\ NewAssign[s + 1] = s
           /\ \A i, j \in DOMAIN NewAssign : NewAssign[i] = NewAssign[j] => i = j
<1>1. NewAssign \in [1 .. m_count -> Entries]
  BY DEF NewAssign, Entries
<1>2. NewAssign \in Seq(Entries)
  BY <1>1, SeqDef
<1> QED
  BY <1>2 DEF NewAssign, Slices

-----------------------------------------------------------------------------
(* The invariant, one step per action. *)

\* The file is the same in every step, so are its slices.
LEMMA SameFile == [TaskNext]_taskVars => m_count' = m_count /\ Slices' = Slices /\ Entries' = Entries
<1>1. [TaskNext]_taskVars => m_count' = m_count
  BY DEF TaskNext, TaskStep, AddTask, CreateTask, GetSlice, TakeSlice, RecvTask,
     InsertSlice, CompareSize, Restart, taskVars
<1> QED
  BY <1>1 DEF Slices, Entries

LEMMA TaskInitInv == TaskInit => TaskInv
<1> SUFFICES ASSUME TaskInit PROVE TaskInv
  OBVIOUS
<1>1. TaskTypeOK
  BY TaskAssumption DEF TaskInit, TaskTypeOK, Entries, Calls
<1>2. NoSliceForgotten /\ QueuedOnce
  BY DEF TaskInit, NoSliceForgotten, QueuedOnce
<1> QED
  BY <1>1, <1>2 DEF TaskInv

LEMMA TaskNextInv == TaskInv /\ [TaskNext]_taskVars => TaskInv'
<1> SUFFICES ASSUME TaskInv, [TaskNext]_taskVars PROVE TaskInv'
  OBVIOUS
<1> USE TaskAssumption
<1>0. TaskTypeOK /\ NoSliceForgotten /\ QueuedOnce
  BY DEF TaskInv
<1> m_count' = m_count /\ Slices' = Slices /\ Entries' = Entries
  BY SameFile
<1>1. CASE UNCHANGED taskVars
  BY <1>0, <1>1 DEF taskVars, TaskInv, TaskTypeOK, NoSliceForgotten, QueuedOnce
<1>2. CASE Restart
  <2>1. TaskTypeOK'
    BY <1>0, <1>2 DEF Restart, TaskTypeOK, Calls
  <2> QED
    BY <2>1, <1>2 DEF Restart, TaskInv, NoSliceForgotten, QueuedOnce
<1>3. ASSUME NEW c \in Clients, AddTask(c) PROVE TaskInv'
  BY <1>0, <1>3 DEF AddTask, Enter, TaskInv, TaskTypeOK, NoSliceForgotten, QueuedOnce, Calls
<1>4. ASSUME NEW c \in Clients, CreateTask(c) PROVE TaskInv'
  <2> PICK o \in Objects \ heap :
        /\ heap' = heap \cup {o} /\ m_q' = o
        /\ m_assign' = [m_assign EXCEPT ![o] = NewAssign]
        /\ m_rec' = [m_rec EXCEPT ![o] = {}]
    BY <1>4 DEF CreateTask
  <2>0. m_count \in Nat
    BY <1>0 DEF TaskTypeOK
  <2>1. TaskTypeOK'
    BY <1>0, <1>4, <2>0, NewAssignProperties DEF CreateTask, Leave, TaskTypeOK, Calls
  <2>2. m_assign'[o] = NewAssign
    BY <1>0 DEF TaskTypeOK
  <2>3. \A p \in heap : p # o /\ m_assign'[p] = m_assign[p] /\ m_rec'[p] = m_rec[p]
    BY <1>0 DEF TaskTypeOK
  <2>4. NoSliceForgotten'
    BY <1>0, <2>0, <2>2, <2>3, NewAssignProperties DEF NoSliceForgotten
  <2>5. QueuedOnce'
    BY <1>0, <2>0, <2>2, <2>3, NewAssignProperties DEF QueuedOnce
  <2> QED
    BY <2>1, <2>4, <2>5 DEF TaskInv
<1>5. ASSUME NEW c \in Clients, GetSlice(c) PROVE TaskInv'
  BY <1>0, <1>5 DEF GetSlice, Enter, TaskInv, TaskTypeOK, NoSliceForgotten, QueuedOnce, Calls
<1>6. ASSUME NEW c \in Clients, NEW bytes \in Offsets, TakeSlice(c, bytes)
      PROVE  TaskInv'
  <2> DEFINE o == task[c]
             q == m_assign[o]
             Good(new) ==
               /\ new \in Seq(Entries)
               /\ \A j \in DOMAIN q : q[j] \notin m_rec[o] =>
                     \E i \in DOMAIN new : new[i] = q[j]
               /\ \A i, j \in DOMAIN new : new[i] = new[j] => i = j
  <2>1. o \in heap /\ o \in Objects /\ q \in Seq(Entries)
    BY <1>0, <1>6 DEF TakeSlice, TaskTypeOK
  <2>2. PICK new : m_assign' = [m_assign EXCEPT ![o] = new] /\ Good(new)
    <3>1. CASE q = <<>> /\ m_assign' = [m_assign EXCEPT ![o] = <<-1>>]
      <4>1. Good(<<-1>>)
        BY <3>1, <1>0 DEF Entries, TaskTypeOK
      <4> QED
        BY <3>1, <4>1
    <3>2. ASSUME NEW k \in Stop(q, m_rec[o]),
                 m_assign' = [m_assign EXCEPT ![o] = Rotate(q, k)]
          PROVE  Good(Rotate(q, k))
      <4>1. k \in 1 .. Len(q)
        BY DEF Stop
      <4>2. Rotate(q, k) \in Seq(Entries)
        BY <4>1, <2>1, RotateProperties
      <4>3. \A i, j \in DOMAIN q : q[i] = q[j] => i = j
        BY <1>0, <2>1 DEF QueuedOnce
      <4>4. \A i, j \in DOMAIN Rotate(q, k) :
               Rotate(q, k)[i] = Rotate(q, k)[j] => i = j
        BY <4>1, <4>3, <2>1, RotateKeepsOnce
      <4>5. \A j \in DOMAIN q : q[j] \notin m_rec[o] =>
               \E i \in DOMAIN Rotate(q, k) : Rotate(q, k)[i] = q[j]
        BY <2>1, RotateKeepsMissing
      <4> QED
        BY <4>2, <4>4, <4>5
    <3> HIDE DEF Good
    <3> QED
      BY <3>1, <3>2, <1>6 DEF TakeSlice
  <2>3. TaskTypeOK'
    BY <1>0, <1>6, <2>2 DEF TakeSlice, Leave, TaskTypeOK, Calls
  <2>4. m_assign'[o] = new /\ \A p \in heap : p # o => m_assign'[p] = m_assign[p]
    BY <1>0, <2>1, <2>2 DEF TaskTypeOK
  <2>5. heap' = heap /\ m_rec' = m_rec
    BY <1>6 DEF TakeSlice
  <2> HIDE DEF o
  <2>6. NoSliceForgotten'
    BY <1>0, <2>2, <2>4, <2>5 DEF NoSliceForgotten
  <2>7. QueuedOnce'
    BY <1>0, <2>2, <2>4, <2>5 DEF QueuedOnce
  <2> QED
    BY <2>3, <2>6, <2>7 DEF TaskInv
<1>7. ASSUME NEW c \in Clients, NEW s \in Slices, RecvTask(c, s) PROVE TaskInv'
  BY <1>0, <1>7 DEF RecvTask, Enter, TaskInv, TaskTypeOK, NoSliceForgotten, QueuedOnce, Calls
<1>8. ASSUME NEW c \in Clients, InsertSlice(c) PROVE TaskInv'
  <2>1. TaskTypeOK'
    BY <1>0, <1>8 DEF InsertSlice, TaskTypeOK, Calls
  <2>2. \A p \in heap : m_rec[p] \subseteq m_rec'[p]
    BY <1>0, <1>8 DEF InsertSlice, TaskTypeOK
  <2>3. NoSliceForgotten' /\ QueuedOnce'
    BY <1>0, <1>8, <2>2 DEF InsertSlice, NoSliceForgotten, QueuedOnce
  <2> QED
    BY <2>1, <2>3 DEF TaskInv
<1>9. ASSUME NEW c \in Clients, NEW status \in Statuses, CompareSize(c, status)
      PROVE  TaskInv'
  BY <1>0, <1>9 DEF CompareSize, Leave, TaskInv, TaskTypeOK, NoSliceForgotten, QueuedOnce, Calls
<1> QED
  BY <1>1, <1>2, <1>3, <1>4, <1>5, <1>6, <1>7, <1>8, <1>9 DEF TaskNext, TaskStep

LEMMA TaskInvariant == TaskSpec => []TaskInv
<1> QED
  BY TaskInitInv, TaskNextInv, PTL DEF TaskSpec

\* The state is well formed, and a worker inside a task holds an object.
THEOREM TaskTypeCorrect == TaskSpec => []TaskTypeOK
<1>1. TaskInv => TaskTypeOK
  BY DEF TaskInv
<1> QED
  BY <1>1, TaskInvariant, PTL

\* A slice that was not received is still queued, however the workers
\* interleave.
THEOREM MissingSlicesQueued == TaskSpec => []NoSliceForgotten
<1>1. TaskInv => NoSliceForgotten
  BY DEF TaskInv
<1> QED
  BY <1>1, TaskInvariant, PTL

\* No slice is queued twice.
THEOREM SlicesQueuedOnce == TaskSpec => []QueuedOnce
<1>1. TaskInv => QueuedOnce
  BY DEF TaskInv
<1> QED
  BY <1>1, TaskInvariant, PTL

-----------------------------------------------------------------------------
(* What a call of GetSlice does to the slices that are missing. *)

\* The offset GetSlice returns is that of an entry, and of one only.
LEMMA OffsetsDiffer ==
    ASSUME NEW s \in Entries, NEW t \in Entries, s * SLICE_SIZE = t * SLICE_SIZE
    PROVE  s = t
<1>1. s \in Int /\ t \in Int /\ SLICE_SIZE \in Int /\ SLICE_SIZE > 1
  BY TaskAssumption DEF Entries
<1>2. (s - t) * SLICE_SIZE = 0
  BY <1>1
<1> QED
  BY <1>1, <1>2

\* GetSlice on an object that still misses a slice finds it in the queue.
LEMMA TakeSliceFinds ==
    ASSUME TaskInv, NEW c \in Clients, NEW bytes \in Offsets, TakeSlice(c, bytes),
           NEW s \in Slices, s \notin m_rec[task[c]]
    PROVE  \E k \in Stop(m_assign[task[c]], m_rec[task[c]]) :
              /\ bytes = m_assign[task[c]][k] * SLICE_SIZE
              /\ m_assign' = [m_assign EXCEPT ![task[c]] = Rotate(m_assign[task[c]], k)]
<1>1. task[c] \in heap
  BY DEF TaskInv, TaskTypeOK, TakeSlice
<1>2. m_assign[task[c]] # <<>>
  BY <1>1 DEF TaskInv, NoSliceForgotten
<1> QED
  BY <1>2 DEF TakeSlice

\* GetSlice hands out a received slice only when none is missing.
THEOREM MissingSlicesFirst == TaskSpec => MissingFirst
<1>1. ASSUME TaskInv, NEW c \in Clients, NEW s \in Slices,
             TakeSlice(c, s * SLICE_SIZE), s \in m_rec[task[c]],
             NEW m \in Slices, m \notin m_rec[task[c]]
      PROVE  FALSE
  <2> DEFINE q == m_assign[task[c]]
             r == m_rec[task[c]]
  <2>0. task[c] \in heap /\ heap \subseteq Objects /\ q \in Seq(Entries)
    BY <1>1 DEF TaskInv, TaskTypeOK, TakeSlice
  <2>1. s \in Entries /\ s * SLICE_SIZE \in Offsets
    BY TaskAssumption DEF Slices, Entries, Offsets
  <2>2. PICK k \in Stop(q, r) : s * SLICE_SIZE = q[k] * SLICE_SIZE
    BY <1>1, <2>1, TakeSliceFinds
  <2>3. k \in 1 .. Len(q) /\ q[k] \in Entries
    BY <2>0, ElementOfSeq DEF Stop
  <2>4. q[k] \in r
    BY <1>1, <2>1, <2>2, <2>3, OffsetsDiffer
  <2>5. \A i \in 1 .. Len(q) : q[i] \in r
    BY <2>3, <2>4 DEF Stop
  <2>6. \E i \in DOMAIN q : q[i] = m
    BY <1>1, <2>0 DEF TaskInv, NoSliceForgotten
  <2> QED
    BY <2>0, <2>5, <2>6, <1>1, LenProperties
<1>2. TaskInv => \A c \in Clients, s \in Slices :
         TakeSlice(c, s * SLICE_SIZE) /\ s \in m_rec[task[c]] => m_rec[task[c]] = Slices
  <2> SUFFICES ASSUME TaskInv, NEW c \in Clients, NEW s \in Slices,
                      TakeSlice(c, s * SLICE_SIZE), s \in m_rec[task[c]]
               PROVE  m_rec[task[c]] = Slices
    OBVIOUS
  <2>1. m_rec[task[c]] \subseteq Slices
    BY DEF TaskInv, TaskTypeOK, TakeSlice
  <2> QED
    BY <1>1, <2>1
<1> QED
  BY <1>2, TaskInvariant, PTL DEF MissingFirst

\* The entries of q ahead of the first that is s.
Before(q, s) == {q[i] : i \in {i \in DOMAIN q : \A h \in 1 .. i : q[h] # s}}

\* The set ahead of an entry, read off its place in the queue.
LEMMA AheadOf ==
    ASSUME NEW q, NEW n \in Nat, DOMAIN q = 1 .. n, NEW j \in 1 .. n,
           \A i \in 1 .. n : q[i] = q[j] => i = j
    PROVE  Before(q, q[j]) = {q[i] : i \in 1 .. j - 1}
<1>1. {i \in DOMAIN q : \A h \in 1 .. i : q[h] # q[j]} = 1 .. j - 1
  <2>1. ASSUME NEW i \in 1 .. n, \A h \in 1 .. i : q[h] # q[j] PROVE i \in 1 .. j - 1
    <3>1. j \notin 1 .. i
      BY <2>1
    <3> QED
      BY <3>1
  <2>2. ASSUME NEW i \in 1 .. j - 1, NEW h \in 1 .. i PROVE i \in 1 .. n /\ q[h] # q[j]
    <3>1. h \in 1 .. n /\ h # j /\ i \in 1 .. n
      OBVIOUS
    <3> QED
      BY <3>1
  <2> QED
    BY <2>1, <2>2
<1> QED
  BY <1>1 DEF Before

\* A missing slice passed over by GetSlice comes strictly closer to its turn.
THEOREM MissingSlicesInTurn == TaskSpec => RoundRobin
<1>1. ASSUME TaskInv, TaskInv', NEW c \in Clients, NEW s \in Slices, NEW o \in Objects,
             task[c] = o, NEW bytes \in Offsets \ {s * SLICE_SIZE},
             TakeSlice(c, bytes), s \notin m_rec[o]
      PROVE  Ahead(o, s)' \subseteq Ahead(o, s) /\ Ahead(o, s)' # Ahead(o, s)
  <2> DEFINE q == m_assign[o]
             n == Len(q)
  <2>0. /\ o \in heap /\ q \in Seq(Entries) /\ n \in Nat /\ DOMAIN q = 1 .. n
        /\ \A i, j \in DOMAIN q : q[i] = q[j] => i = j
    BY <1>1, LenProperties DEF TaskInv, TaskTypeOK, TakeSlice, QueuedOnce
  <2>1. PICK k \in Stop(q, m_rec[o]) :
           bytes = q[k] * SLICE_SIZE /\ m_assign' = [m_assign EXCEPT ![o] = Rotate(q, k)]
    BY <1>1, TakeSliceFinds
  <2>2. PICK j \in 1 .. n : q[j] = s
    BY <1>1, <2>0 DEF TaskInv, NoSliceForgotten
  <2>3. k \in 1 .. n /\ k < j
    <3>1. k \in 1 .. n /\ \A i \in 1 .. k - 1 : q[i] \in m_rec[o]
      BY DEF Stop
    <3>2. j \notin 1 .. k - 1
      BY <1>1, <2>2, <3>1
    <3>3. k # j
      BY <1>1, <2>1, <2>2
    <3> QED
      BY <2>0, <2>2, <3>1, <3>2, <3>3
  <2> DEFINE new == Rotate(q, k)
  <2>4. /\ m_assign'[o] = new /\ DOMAIN new = 1 .. n - k + 1 /\ j - k \in 1 .. n - k + 1
        /\ \A i \in 1 .. n - k : new[i] = q[k + i]
        /\ \A h, i \in DOMAIN new : new[h] = new[i] => h = i
    <3>1. m_assign'[o] = new
      BY <1>1, <2>1 DEF TaskInv, TaskTypeOK
    <3>2. DOMAIN new = 1 .. n - k + 1 /\ \A i \in 1 .. n - k : new[i] = q[k + i]
      <4>1. /\ new \in Seq(Entries) /\ Len(new) = n - k + 1
            /\ \A i \in 1 .. n - k : new[i] = q[k + i]
        <5>1. q \in Seq(Entries) /\ k \in 1 .. Len(q)
          BY <2>0, <2>3
        <5> HIDE DEF q
        <5> QED
          BY <5>1, RotateProperties
      <4> HIDE DEF new
      <4> QED
        BY <4>1, LenProperties
    <3>3. \A h, i \in DOMAIN new : new[h] = new[i] => h = i
      BY <2>0, <2>3, RotateKeepsOnce
    <3>4. j - k \in 1 .. n - k + 1
      BY <2>0, <2>2, <2>3
    <3> QED
      BY <3>1, <3>2, <3>3, <3>4
  <2>5. j - k \in 1 .. n - k /\ k + (j - k) = j
    BY <2>0, <2>2, <2>3
  <2>6. new[j - k] = s
    BY <2>2, <2>4, <2>5
  <2>7. Ahead(o, s) = {q[i] : i \in 1 .. j - 1}
    <3>1. Ahead(o, s) = Before(q, q[j])
      BY <2>2 DEF Ahead, Before
    <3> HIDE DEF q
    <3> QED
      BY <2>0, <2>2, <3>1, AheadOf
  <2> HIDE DEF new
  <2>8. Ahead(o, s)' = {new[i] : i \in 1 .. (j - k) - 1}
    <3>1. n - k + 1 \in Nat
      BY <2>0, <2>3
    <3>2. Ahead(o, s)' = Before(new, new[j - k])
      BY <2>4, <2>6 DEF Ahead, Before
    <3>3. \A i \in 1 .. n - k + 1 : new[i] = new[j - k] => i = j - k
      BY <2>4
    <3>4. DOMAIN new = 1 .. n - k + 1 /\ j - k \in 1 .. n - k + 1
      BY <2>4
    <3> QED
      BY <3>1, <3>2, <3>3, <3>4, AheadOf
  <2>9. Ahead(o, s)' \subseteq Ahead(o, s)
    <3> SUFFICES ASSUME NEW i \in 1 .. (j - k) - 1 PROVE new[i] \in Ahead(o, s)
      BY <2>8
    <3>1. i \in 1 .. n - k /\ k + i \in 1 .. j - 1
      BY <2>0, <2>2, <2>3
    <3> QED
      BY <3>1, <2>4, <2>7
  <2>10. q[k] \in Ahead(o, s)
    <3>1. k \in 1 .. j - 1
      BY <2>2, <2>3
    <3> QED
      BY <2>7, <3>1
  <2>11. q[k] \notin Ahead(o, s)'
    <3> SUFFICES ASSUME NEW i \in 1 .. (j - k) - 1 PROVE new[i] # q[k]
      BY <2>8
    <3>1. i \in 1 .. n - k /\ k + i \in 1 .. n /\ k + i # k
      BY <2>0, <2>2, <2>3
    <3> QED
      BY <3>1, <2>0, <2>3, <2>4
  <2> QED
    BY <2>9, <2>10, <2>11
<1>2. TaskInv /\ TaskInv' => RoundStep
  BY <1>1 DEF RoundStep
<1> QED
  BY <1>2, TaskInvariant, PTL DEF RoundRobin

-----------------------------------------------------------------------------
(* Uploads *)

\* The offset of a slice gives the slice back (http_conn.cpp:1261).
LEMMA AnswerType ==
    ASSUME NEW bytes \in Offsets \cup {-1}
    PROVE  Answer(bytes) \in Slices \cup {Submit, Wait}
<1> USE TaskAssumption DEF Submit, Wait
<1>1. CASE bytes = -1
  BY <1>1 DEF Answer
<1>2. CASE bytes # -1 /\ bytes \in Offsets
  <2>1. PICK s \in Entries : bytes = s * SLICE_SIZE
    BY <1>2 DEF Offsets
  <2>2. CASE s = -1
    <3>1. bytes = -SLICE_SIZE
      BY <2>1, <2>2
    <3>2. bytes < -1
      BY <3>1
    <3> QED
      BY <1>2, <3>2 DEF Answer
  <2>3. CASE s \in Slices
    <3>0. s \in Nat /\ SLICE_SIZE \in Nat /\ SLICE_SIZE > 1
      BY <2>3 DEF Slices
    <3>1. bytes \in Nat
      BY <2>1, <3>0
    <3>2. bytes \div SLICE_SIZE = s
      BY <2>1, <3>0
    <3>3. Answer(bytes) = bytes \div SLICE_SIZE
      BY <1>2, <3>1 DEF Answer
    <3> QED
      BY <2>3, <3>2, <3>3
  <2> QED
    BY <2>2, <2>3 DEF Entries, Slices
<1> QED
  BY <1>1, <1>2

-----------------------------------------------------------------------------
(* What a request keeps about itself has the right type. *)

\* The file is the same in every step, so are its slices.
LEMMA SameUpload ==
    [Next]_vars => Slices' = Slices /\ Entries' = Entries /\ Offsets' = Offsets
<1>1. [Next]_vars => m_count' = m_count
  BY DEF Next, ServerRestart, AllLinked, Request, Send, Handle, FileExist, UpdateRefer,
     InsertFile, LinkFile, Add, FindSlice, Mark, OpenSlice, WriteSlice, Receive,
     ClearBreakpoint, Assign, Progress, SaveBreakpoint, AddTask, CreateTask, GetSlice,
     TakeSlice, RecvTask, InsertSlice, CompareSize, Restart, taskVars, vars
<1> QED
  BY <1>1 DEF Slices, Entries, Offsets

LEMMA RequestInitType == UploadInit => RequestTypeOK
<1> SUFFICES ASSUME UploadInit PROVE RequestTypeOK
  OBVIOUS
<1> USE UploadAssumption DEF UploadInit, Steps, Submit, Wait
<1>1. registered \in BOOLEAN /\ refer \in Nat
  OBVIOUS
<1>2. /\ step \in [Clients -> Steps]
      /\ kind \in [Clients -> {"u", "w", "d"}]
      /\ m_slice_id \in [Clients -> Slices \cup {-1}]
      /\ offset \in [Clients -> Offsets \cup {-1}]
      /\ asked \in [Clients -> Slices \cup {Done, Submit, Wait}]
  OBVIOUS
<1>3. /\ linked \subseteq Clients /\ breakpoint \subseteq Clients
      /\ disk \in [Slices -> {"absent", "truncated", "whole"}]
      /\ faults \in 0 .. MaxFaults /\ restarts \in 0 .. MaxRestarts
  OBVIOUS
<1>4. \A c \in Clients : step[c] = "idle" /\ kind[c] = "u"
  OBVIOUS
<1> QED
  BY <1>1, <1>2, <1>3, <1>4 DEF RequestTypeOK

\* A worker, or its client, takes one step.
Turn(c) == Request(c) \/ Handle(c)

\* The part of the type invariant that also holds where files are deleted, and
\* refer may be counted down too far.
WorkerTypeOK ==
    /\ step \in [Clients -> Steps]
    /\ kind \in [Clients -> {"u", "w", "d"}]
    /\ m_slice_id \in [Clients -> Slices \cup {-1}]
    /\ offset \in [Clients -> Offsets \cup {-1}]
    /\ asked \in [Clients -> Slices \cup {Done, Submit, Wait}]
    /\ registered \in BOOLEAN
    /\ linked \subseteq Clients
    /\ breakpoint \subseteq Clients
    /\ disk \in [Slices -> {"absent", "truncated", "whole"}]
    /\ faults \in 0 .. MaxFaults /\ restarts \in 0 .. MaxRestarts
    /\ \A c \in Clients :
         (step[c] \in {"find", "mark", "open", "write", "recv"} \/ kind[c] = "d")
            => m_slice_id[c] \in Slices

LEMMA RequestTypeParts == RequestTypeOK <=> WorkerTypeOK /\ refer \in Nat
BY DEF RequestTypeOK, WorkerTypeOK

\* The file is the same in every step, so are its slices.
LEMMA TurnSameFile ==
    ASSUME NEW c \in Clients, Turn(c)
    PROVE  m_count' = m_count /\ Slices' = Slices /\ Entries' = Entries /\ Offsets' = Offsets
<1>1. m_count' = m_count
  BY DEF Turn, Request, Send, Handle, FileExist, UpdateRefer,
     InsertFile, LinkFile, Add, FindSlice, Mark, OpenSlice, WriteSlice, Receive,
     ClearBreakpoint, Assign, Progress, SaveBreakpoint, AddTask, CreateTask, GetSlice,
     TakeSlice, RecvTask, InsertSlice, CompareSize, taskVars
<1> QED
  BY <1>1 DEF Slices, Entries, Offsets

LEMMA TurnType ==
    ASSUME WorkerTypeOK, NEW c \in Clients, Turn(c)
    PROVE  WorkerTypeOK'
<1> Slices' = Slices /\ Offsets' = Offsets
  BY TurnSameFile
<1> USE UploadAssumption DEF WorkerTypeOK, Goto, Works, Fails, Error, Reply,
        requestVars, dbVars, counters, Steps
<1>1. ASSUME NEW k \in {"u", "w", "d"}, Send(c, k) PROVE WorkerTypeOK'
  BY <1>1 DEF Send
<1>2. CASE FileExist(c)
  BY <1>2 DEF FileExist, Branch
<1>3. CASE UpdateRefer(c)
  BY <1>3 DEF UpdateRefer
<1>4. CASE InsertFile(c)
  <2>1. registered' \in BOOLEAN
    BY <1>4 DEF InsertFile
  <2>2. linked' = linked /\ breakpoint' = breakpoint /\ disk' = disk
    BY <1>4 DEF InsertFile
  <2>3. faults' \in 0 .. MaxFaults /\ restarts' = restarts
    BY <1>4 DEF InsertFile
  <2>4. (Goto(c, "link") /\ UNCHANGED requestVars) \/ Error(c)
    BY <1>4 DEF InsertFile
  <2> QED
    BY <2>1, <2>2, <2>3, <2>4
<1>5. CASE LinkFile(c)
  BY <1>5 DEF LinkFile
<1>6. CASE Add(c)
  BY <1>6 DEF Add
<1>7. CASE FindSlice(c)
  BY <1>7 DEF FindSlice
<1>8. CASE Mark(c)
  BY <1>8 DEF Mark
<1>9. CASE OpenSlice(c)
  BY <1>9 DEF OpenSlice
<1>10. CASE WriteSlice(c)
  BY <1>10 DEF WriteSlice
<1>11. CASE Receive(c)
  BY <1>11 DEF Receive
<1>12. CASE ClearBreakpoint(c)
  BY <1>12 DEF ClearBreakpoint
<1>13. CASE Assign(c)
  BY <1>13 DEF Assign
<1>14. CASE Progress(c)
  BY <1>14 DEF Progress
<1>15. CASE SaveBreakpoint(c)
  BY <1>15, AnswerType DEF SaveBreakpoint
<1> QED
  BY <1>1, <1>2, <1>3, <1>4, <1>5, <1>6, <1>7, <1>8, <1>9, <1>10,
     <1>11, <1>12, <1>13, <1>14, <1>15 DEF Turn, Request, Handle

\* The only statements that change refer, and the row that it is in.
LEMMA TurnRefer ==
    ASSUME NEW c \in Clients, Turn(c)
    PROVE  \/ refer' = refer /\ registered' = registered
           \/ step[c] = "refer" /\ registered /\ registered' = registered /\ refer' = refer + 1
           \/ step[c] = "insert" /\ ~ registered /\ registered' /\ refer' = 1
BY DEF Turn, Request, Send, Handle, FileExist, UpdateRefer,
   InsertFile, LinkFile, Add, FindSlice, Mark, OpenSlice, WriteSlice, Receive,
   ClearBreakpoint, Assign, Progress, SaveBreakpoint, dbVars

LEMMA RestartType == WorkerTypeOK /\ ServerRestart => WorkerTypeOK'
<1> SUFFICES ASSUME WorkerTypeOK, ServerRestart PROVE WorkerTypeOK'
  OBVIOUS
<1> m_count' = m_count
  BY DEF ServerRestart, Restart
<1> QED
  BY UploadAssumption DEF ServerRestart, WorkerTypeOK, dbVars, Steps, Slices, Offsets, Entries

\* Next, seen from the workers.
LEMMA NextTurns == [Next]_vars => ServerRestart \/ UNCHANGED vars \/ \E c \in Clients : Turn(c)
BY DEF Next, AllLinked, Turn

LEMMA RequestNextType == RequestTypeOK /\ [Next]_vars => RequestTypeOK'
<1> SUFFICES ASSUME RequestTypeOK, [Next]_vars PROVE RequestTypeOK'
  OBVIOUS
<1>0. WorkerTypeOK /\ refer \in Nat
  BY RequestTypeParts
<1>1. CASE UNCHANGED vars
  BY <1>1, SameUpload DEF vars, requestVars, dbVars, counters, RequestTypeOK
<1>2. CASE ServerRestart
  <2>1. WorkerTypeOK' /\ refer' = refer
    BY <1>0, <1>2, RestartType DEF ServerRestart, dbVars
  <2> QED
    BY <1>0, <2>1 DEF RequestTypeOK, WorkerTypeOK
<1>3. ASSUME NEW c \in Clients, Turn(c) PROVE RequestTypeOK'
  <2>1. WorkerTypeOK' /\ refer' \in Nat
    BY <1>0, <1>3, TurnType, TurnRefer
  <2> QED
    BY <2>1 DEF RequestTypeOK, WorkerTypeOK
<1> QED
  BY <1>1, <1>2, <1>3, NextTurns

LEMMA RequestTypeInvariant == Spec => []RequestTypeOK
<1> QED
  BY RequestInitType, RequestNextType, PTL DEF Spec

-----------------------------------------------------------------------------
(* The workers use the pool as TaskPool says. *)

LEMMA TurnUsesPool ==
    ASSUME WorkerTypeOK, NEW c \in Clients, Turn(c)
    PROVE  TaskStep(c) \/ UNCHANGED taskVars
<1>1. CASE UNCHANGED taskVars
  BY <1>1
<1>2. CASE Add(c)
  BY <1>2 DEF Add, TaskStep
<1>3. CASE Mark(c) \/ Receive(c)
  <2>1. m_slice_id[c] \in Slices
    BY <1>3 DEF Mark, Receive, WorkerTypeOK
  <2> QED
    BY <1>3, <2>1 DEF Mark, Receive, TaskStep
<1>4. CASE Assign(c)
  BY <1>4 DEF Assign, TaskStep
<1> QED
  BY <1>1, <1>2, <1>3, <1>4
     DEF Turn, Request, Send, Handle, FileExist, UpdateRefer, InsertFile, LinkFile, FindSlice,
         OpenSlice, WriteSlice, ClearBreakpoint, Progress, SaveBreakpoint

LEMMA StepUsesPool == RequestTypeOK /\ [Next]_vars => [TaskNext]_taskVars
<1> SUFFICES ASSUME RequestTypeOK, [Next]_vars PROVE [TaskNext]_taskVars
  OBVIOUS
<1>1. ASSUME NEW c \in Clients, Turn(c) PROVE [TaskNext]_taskVars
  BY <1>1, RequestTypeParts, TurnUsesPool DEF TaskNext
<1> QED
  BY <1>1, NextTurns DEF ServerRestart, TaskNext, vars

\* The upload handlers implement the task pool: whatever TaskPool guarantees
\* holds of the pool while uploads, failures and restarts go on.
THEOREM UploadImplementsTaskPool == Spec => TaskSpec
<1>1. UploadInit => TaskInit
  BY DEF UploadInit
<1> QED
  BY <1>1, StepUsesPool, RequestTypeInvariant, PTL DEF Spec, TaskSpec

\* The state of uploads is well formed.
THEOREM UploadTypeCorrect == Spec => []TypeOK
<1>1. TaskTypeOK /\ RequestTypeOK => TypeOK
  BY DEF TypeOK
<1> QED
  BY <1>1, UploadImplementsTaskPool, TaskTypeCorrect, RequestTypeInvariant, PTL

\* A slice that an upload misses is queued, and will be asked for again.
THEOREM UploadForgetsNoSlice == Spec => []NoSliceForgotten
<1> QED
  BY UploadImplementsTaskPool, MissingSlicesQueued, PTL

-----------------------------------------------------------------------------
(* What has gone wrong so far never becomes less. *)

\* No SELECT of file_exist has failed: what follows holds until one does.
SelectWorked == "select" \notin Failing \/ faults = 0

LEMMA TurnHistory ==
    ASSUME WorkerTypeOK, NEW c \in Clients, Turn(c)
    PROVE  /\ faults \in Nat /\ restarts \in Nat /\ restarts' = restarts
           /\ faults' = faults \/ faults' = faults + 1
           /\ \A op : Fails(op) => faults' # 0
<1>1. restarts' = restarts /\ (faults' = faults \/ faults' = faults + 1)
  BY DEF Turn, Request, Send, Handle, FileExist, UpdateRefer,
     InsertFile, LinkFile, Add, FindSlice, Mark, OpenSlice, WriteSlice, Receive,
     ClearBreakpoint, Assign, Progress, SaveBreakpoint, Works, Fails, counters
<1> QED
  BY <1>1, UploadAssumption DEF WorkerTypeOK, Fails

LEMMA HistoryGrows ==
    ASSUME RequestTypeOK, [Next]_vars
    PROVE  /\ faults' = 0 => faults = 0
           /\ SelectWorked' => SelectWorked
           /\ Undisturbed' => Undisturbed /\ ~ ServerRestart
<1>0. WorkerTypeOK /\ faults \in Nat /\ restarts \in Nat
  BY RequestTypeParts, UploadAssumption DEF RequestTypeOK
<1>1. CASE UNCHANGED vars
  BY <1>0, <1>1 DEF vars, counters, ServerRestart, SelectWorked, Undisturbed
<1>2. CASE ServerRestart
  BY <1>0, <1>2 DEF ServerRestart, SelectWorked, Undisturbed
<1>3. ASSUME NEW c \in Clients, Turn(c)
      PROVE  restarts' = restarts /\ (faults' = faults \/ faults' = faults + 1)
  BY <1>0, <1>3, TurnHistory
<1> QED
  BY <1>0, <1>1, <1>2, <1>3, NextTurns DEF ServerRestart, SelectWorked, Undisturbed

-----------------------------------------------------------------------------
(* A slice that counts as received is on disk, or is being written.         *)

\* The point of a call of the pool tells the statement that made the call.
InCall ==
    \A c \in Clients :
        /\ call[c] = "create" => step[c] = "add"
        /\ call[c] = "get" => step[c] = "assign"
        /\ call[c] \in {"insert", "size"} => step[c] \in {"mark", "recv"}
        /\ call[c] = "insert" => slice[c] = m_slice_id[c]

\* The other workers' requests stay where they are.
LEMMA TurnOfOne ==
    ASSUME WorkerTypeOK, TaskTypeOK, NEW c \in Clients, Turn(c), NEW d \in Clients, d # c
    PROVE  /\ step'[d] = step[d] /\ m_slice_id'[d] = m_slice_id[d]
           /\ call'[d] = call[d] /\ task'[d] = task[d] /\ slice'[d] = slice[d]
<1>1. step'[d] = step[d] /\ m_slice_id'[d] = m_slice_id[d]
  BY DEF WorkerTypeOK, Turn, Request, Send, Handle, FileExist, UpdateRefer, InsertFile, LinkFile,
     Add, FindSlice, Mark, OpenSlice, WriteSlice, Receive, ClearBreakpoint, Assign,
     Progress, SaveBreakpoint, Goto, Reply, Error, requestVars
<1>2. call'[d] = call[d] /\ task'[d] = task[d] /\ slice'[d] = slice[d]
  BY TurnUsesPool DEF TaskTypeOK, TaskStep, taskVars, AddTask, CreateTask, GetSlice, TakeSlice,
     RecvTask, InsertSlice, CompareSize, Enter, Leave
<1> QED
  BY <1>1, <1>2

LEMMA TurnInCall ==
    ASSUME WorkerTypeOK, TaskTypeOK, InCall, NEW c \in Clients, Turn(c)
    PROVE  InCall'
<1> USE DEF WorkerTypeOK, TaskTypeOK, InCall
<1> SUFFICES /\ call'[c] = "create" => step'[c] = "add"
             /\ call'[c] = "get" => step'[c] = "assign"
             /\ call'[c] \in {"insert", "size"} => step'[c] \in {"mark", "recv"}
             /\ call'[c] = "insert" => slice'[c] = m_slice_id'[c]
  BY TurnOfOne
<1> USE DEF Goto, Reply, Error, requestVars, taskVars
<1>1. CASE UNCHANGED taskVars /\ step[c] \notin {"add", "assign", "mark", "recv"}
  BY <1>1
<1>2. CASE Add(c)
  BY <1>2 DEF Add, AddTask, CreateTask, Enter, Leave
<1>3. CASE Mark(c) \/ Receive(c)
  BY <1>3 DEF Mark, Receive, RecvTask, InsertSlice, CompareSize, Enter, Leave
<1>4. CASE Assign(c)
  BY <1>4 DEF Assign, GetSlice, TakeSlice, Enter, Leave
<1> QED
  BY <1>1, <1>2, <1>3, <1>4
     DEF Turn, Request, Send, Handle, FileExist, UpdateRefer, InsertFile, LinkFile, FindSlice,
         OpenSlice, WriteSlice, ClearBreakpoint, Progress, SaveBreakpoint

\* What ReceivedIsStored says of one slice.
Kept(s) == disk[s] = "whole" \/ Writing(s) # {}

\* While no call fails, whoever empties a slice's file is one that writes it.
LEMMA TurnKeeps ==
    ASSUME WorkerTypeOK, TaskTypeOK, NEW c \in Clients, Turn(c), faults' = 0,
           NEW s \in Slices, Kept(s)
    PROVE  Kept(s)'
<1> USE DEF WorkerTypeOK
<1> Slices' = Slices
  BY TurnSameFile
<1>0. \A op : ~ Fails(op)
  BY TurnHistory
<1>1. \A d \in Clients \ {c} : d \in Writing(s) => d \in Writing(s)'
  BY TurnOfOne DEF Writing
<1>2. CASE disk'[s] = "whole" \/ c \in Writing(s)'
  BY <1>2 DEF Kept
<1>3. CASE disk' = disk /\ c \notin Writing(s)
  BY <1>1, <1>3 DEF Kept, Writing
<1>4. CASE Mark(c)
  BY <1>1, <1>2, <1>4 DEF Mark, Kept, Writing, Goto, requestVars
<1>5. CASE OpenSlice(c)
  <2>1. /\ step' = [step EXCEPT ![c] = "write"] /\ m_slice_id' = m_slice_id
        /\ disk' = [disk EXCEPT ![m_slice_id[c]] = "truncated"]
    BY <1>0, <1>5 DEF OpenSlice, Goto, requestVars
  <2>2. CASE m_slice_id[c] = s
    BY <1>2, <2>1, <2>2 DEF Writing
  <2>3. CASE m_slice_id[c] # s
    BY <1>1, <2>1, <2>3 DEF Kept, Writing
  <2> QED
    BY <2>2, <2>3
<1>6. CASE WriteSlice(c)
  <2>1. /\ step[c] = "write" /\ disk' = [disk EXCEPT ![m_slice_id[c]] = "whole"]
        /\ m_slice_id' = m_slice_id
    BY <1>0, <1>6 DEF WriteSlice
  <2>2. CASE m_slice_id[c] = s
    BY <1>2, <2>1, <2>2
  <2>3. CASE m_slice_id[c] # s
    BY <1>1, <2>1, <2>3 DEF Kept, Writing
  <2> QED
    BY <2>2, <2>3
<1>7. CASE disk' = disk /\ step[c] \notin {"mark", "open", "write"}
  BY <1>3, <1>7 DEF Writing
<1> QED
  BY <1>4, <1>5, <1>6, <1>7
     DEF Turn, Request, Send, Handle, FileExist, UpdateRefer, InsertFile, LinkFile, Add, FindSlice,
         Receive, ClearBreakpoint, Assign, Progress, SaveBreakpoint

\* Only the critical section of RecvTask makes a slice received.
LEMMA TurnMarks ==
    ASSUME WorkerTypeOK, TaskTypeOK, NEW c \in Clients, Turn(c),
           NEW o \in heap', NEW s \in m_rec'[o], o \notin heap \/ s \notin m_rec[o]
    PROVE  call[c] = "insert" /\ s = slice[c] /\ o = task[c]
<1> USE DEF TaskTypeOK
<1>1. CASE InsertSlice(c)
  BY <1>1 DEF InsertSlice
<1>2. CASE CreateTask(c)
  BY <1>2 DEF CreateTask
<1>3. ~ UNCHANGED <<heap, m_rec>>
  OBVIOUS
<1> QED
  BY <1>1, <1>2, <1>3, TurnUsesPool DEF TaskStep, taskVars, AddTask, GetSlice, TakeSlice,
     RecvTask, CompareSize

\* ReceivedIsStored, of every task that workers may hold, and of a worker that
\* wrote its slice and is about to mark it again.
MarksKept ==
    faults = 0 =>
        /\ \A o \in heap : \A s \in m_rec[o] : Kept(s)
        /\ \A c \in Clients : step[c] = "recv" => Kept(m_slice_id[c])

LEMMA TurnMarksKept ==
    ASSUME WorkerTypeOK, TaskTypeOK, TaskTypeOK', InCall, MarksKept, NEW c \in Clients, Turn(c)
    PROVE  MarksKept'
<1> SUFFICES ASSUME faults' = 0 PROVE MarksKept'
  BY DEF MarksKept
<1> Slices' = Slices
  BY TurnSameFile
<1>0. faults = 0 /\ \A op : ~ Fails(op)
  BY TurnHistory
<1>1. ASSUME NEW o \in heap', NEW s \in m_rec'[o] PROVE Kept(s)'
  <2>1. s \in Slices
    BY <1>1 DEF TaskTypeOK
  <2>2. CASE o \in heap /\ s \in m_rec[o]
    BY <1>0, <2>1, <2>2, TurnKeeps DEF MarksKept
  <2>3. CASE o \notin heap \/ s \notin m_rec[o]
    <3>1. s = m_slice_id[c] /\ step[c] \in {"mark", "recv"}
      BY <1>1, <2>3, TurnMarks DEF InCall
    <3>2. Kept(s)
      BY <1>0, <3>1 DEF MarksKept, Kept, Writing
    <3> QED
      BY <2>1, <3>2, TurnKeeps
  <2> QED
    BY <2>2, <2>3
<1>2. ASSUME NEW d \in Clients, step'[d] = "recv" PROVE Kept(m_slice_id[d])'
  <2>1. CASE step[d] = "recv" /\ m_slice_id'[d] = m_slice_id[d]
    <3>1. PICK s \in Slices : s = m_slice_id[d]
      BY <2>1 DEF WorkerTypeOK
    <3>2. Kept(s)
      BY <1>0, <2>1, <3>1 DEF MarksKept
    <3>3. Kept(s)'
      BY <3>2, TurnKeeps
    <3> QED
      BY <2>1, <3>1, <3>3 DEF Kept, Writing
  <2>2. CASE d # c
    BY <1>2, <2>1, <2>2, TurnOfOne
  <2>3. CASE d = c /\ step[c] = "recv"
    <3>1. Receive(c)
      BY <2>3 DEF Turn, Request, Send, Handle, FileExist, UpdateRefer, InsertFile, LinkFile, Add,
         FindSlice, Mark, OpenSlice, WriteSlice, ClearBreakpoint, Assign, Progress, SaveBreakpoint
    <3>2. m_slice_id' = m_slice_id
      BY <1>2, <2>3, <3>1 DEF Receive, Error, Reply, Goto, requestVars, WorkerTypeOK
    <3> QED
      BY <2>1, <2>3, <3>2
  <2>4. CASE d = c /\ step[c] # "recv"
    <3>1. WriteSlice(c)
      BY <1>2, <2>4 DEF Turn, Request, Send, Handle, FileExist, UpdateRefer, InsertFile, LinkFile,
         Add, FindSlice, Mark, OpenSlice, Receive, ClearBreakpoint, Assign, Progress,
         SaveBreakpoint, Goto, Reply, Error, Branch, WorkerTypeOK
    <3>2. disk'[m_slice_id'[c]] = "whole"
      BY <1>0, <3>1 DEF WriteSlice, WorkerTypeOK
    <3> QED
      BY <2>4, <3>2 DEF Kept
  <2> QED
    BY <2>2, <2>3, <2>4
<1> QED
  BY <1>1, <1>2 DEF MarksKept

\* A restart ends the writers, but the marks were in memory.
LEMMA RestartForgets ==
    ASSUME ServerRestart
    PROVE  InCall' /\ MarksKept' /\ restarts' = restarts + 1
BY DEF ServerRestart, Restart, InCall, MarksKept

LEMMA StillMarksKept ==
    ASSUME UNCHANGED vars
    PROVE  (InCall => InCall') /\ (MarksKept => MarksKept')
BY DEF vars, taskVars, requestVars, counters, InCall, MarksKept, Kept, Writing

\* While no call fails, a received slice is on disk or being written, however
\* the workers interleave and whenever the server restarts.
LEMMA MarksInvariant == Spec => [](WorkerTypeOK /\ TaskTypeOK /\ InCall /\ MarksKept)
<1> DEFINE Types == RequestTypeOK /\ TaskTypeOK
           Inv == InCall /\ MarksKept
<1>1. UploadInit => Inv
  BY DEF UploadInit, TaskInit, InCall, MarksKept
<1>2. Types /\ Types' /\ Inv /\ [Next]_vars => Inv'
  <2> SUFFICES ASSUME Types, Types', Inv, [Next]_vars PROVE Inv'
    OBVIOUS
  <2>1. ASSUME NEW c \in Clients, Turn(c) PROVE Inv'
    BY <2>1, RequestTypeParts, TurnInCall, TurnMarksKept
  <2> QED
    BY <2>1, NextTurns, RestartForgets, StillMarksKept
<1>3. Types /\ Inv => WorkerTypeOK /\ TaskTypeOK /\ InCall /\ MarksKept
  BY RequestTypeParts
<1> HIDE DEF Inv
<1>4. Spec => []Types
  BY UploadImplementsTaskPool, TaskTypeCorrect, RequestTypeInvariant, PTL
<1> QED
  BY <1>1, <1>2, <1>3, <1>4, PTL DEF Spec

\* No slice is lost between the task, which marks it received first, and the
\* directory.
THEOREM ReceivedIsAlwaysStored == Spec => []ReceivedIsStored
<1>1. WorkerTypeOK /\ TaskTypeOK /\ InCall /\ MarksKept => ReceivedIsStored
  BY DEF TaskTypeOK, MarksKept, Kept, ReceivedIsStored
<1> QED
  BY <1>1, MarksInvariant, PTL

-----------------------------------------------------------------------------
(* A registered file is complete, and a complete one gets registered.       *)

\* RecvTask's comparison: as many slices as there are, so all of them.
LEMMA CountedIsAll ==
    ASSUME TaskTypeOK, NEW o \in heap
    PROVE  Cardinality(m_rec[o]) = m_count <=> m_rec[o] = Slices
<1>1. m_rec[o] \subseteq Slices /\ m_count \in Nat
  BY TaskAssumption DEF TaskTypeOK
<1>2. IsFiniteSet(Slices) /\ Cardinality(Slices) = m_count
  <2>1. /\ IsFiniteSet(0 .. m_count - 1)
        /\ Cardinality(0 .. m_count - 1) = IF 0 > m_count - 1 THEN 0 ELSE (m_count - 1) - 0 + 1
    <3>1. 0 \in Int /\ m_count - 1 \in Int
      BY <1>1
    <3> QED
      BY <3>1, FS_Interval
  <2>2. (IF 0 > m_count - 1 THEN 0 ELSE (m_count - 1) - 0 + 1) = m_count
    BY <1>1
  <2> QED
    BY <2>1, <2>2 DEF Slices
<1> QED
  BY <1>1, <1>2, FS_Subset

\* The worker of c saw the comparison that completes the upload.
SawLast(c) == step[c] \in {"clear", "insert"}

AllKept ==
    Undisturbed /\ (registered \/ \E c \in Clients : SawLast(c))
        => \A s \in Slices : Kept(s)

LEMMA TurnAllKept ==
    ASSUME WorkerTypeOK, TaskTypeOK, InCall, MarksKept, AllKept, NEW c \in Clients, Turn(c)
    PROVE  AllKept'
<1> SUFFICES ASSUME Undisturbed', registered' \/ (\E d \in Clients : SawLast(d)'), NEW s \in Slices'
             PROVE  Kept(s)'
  BY DEF AllKept
<1>0. Undisturbed /\ faults' = 0 /\ s \in Slices
  BY TurnHistory, TurnSameFile DEF Undisturbed
<1>1. CASE registered \/ \E d \in Clients : SawLast(d)
  BY <1>0, <1>1, TurnKeeps DEF AllKept
<1>2. CASE ~ registered /\ \A d \in Clients : ~ SawLast(d)
  <2>1. \A d \in Clients \ {c} : ~ SawLast(d)'
    BY <1>2, TurnOfOne DEF SawLast
  <2>2. ~ registered'
    BY <1>2 DEF SawLast, Turn, Request, Send, Handle, FileExist, UpdateRefer, InsertFile, LinkFile,
       Add, FindSlice, Mark, OpenSlice, WriteSlice, Receive, ClearBreakpoint, Assign, Progress,
       SaveBreakpoint, dbVars
  <2>3. SawLast(c)'
    BY <2>1, <2>2
  <2>4. Receive(c) \/ Progress(c)
    BY <1>2, <2>3 DEF SawLast, Turn, Request, Send, Handle, FileExist, UpdateRefer, InsertFile, LinkFile,
       Add, FindSlice, Mark, OpenSlice, WriteSlice, ClearBreakpoint, Assign,
       SaveBreakpoint, Goto, Reply, Error, Branch, WorkerTypeOK
  <2>5. CASE Progress(c)
    <3>1. m_count = 0
      BY <2>3, <2>5 DEF Progress, SawLast, Goto, WorkerTypeOK
    <3> QED
      BY <1>0, <3>1 DEF Slices
  <2>6. CASE Receive(c)
    <3>1. CompareSize(c, "MERGE_SUCCESS")
      BY <1>2, <2>3, <2>6 DEF Receive, SawLast, Goto, Error, Reply, WorkerTypeOK
    <3>2. task[c] \in heap /\ Cardinality(m_rec[task[c]]) = m_count
      BY <3>1 DEF CompareSize, TaskTypeOK
    <3>3. m_rec[task[c]] = Slices
      BY <3>2, CountedIsAll
    <3>4. Kept(s)
      BY <1>0, <3>2, <3>3 DEF MarksKept, Undisturbed
    <3> QED
      BY <1>0, <3>4, TurnKeeps
  <2> QED
    BY <2>4, <2>5, <2>6
<1> QED
  BY <1>1, <1>2

\* A worker that will find the task complete, or already registers it.
Completes(c) ==
    \/ step[c] \in {"open", "write", "clear", "insert"}
    \/ step[c] = "mark" /\ call[c] # "none"
    \/ step[c] = "recv" /\ (call[c] = "none" \/ task[c] = m_q)

SomeoneCompletes ==
    (Undisturbed /\ m_q # NoTask /\ m_rec[m_q] = Slices /\ m_count > 0 /\ ~ registered) =>
        \E c \in Clients : Completes(c)

LEMMA TurnSomeoneCompletes ==
    ASSUME WorkerTypeOK, TaskTypeOK, InCall, SomeoneCompletes, NEW c \in Clients, Turn(c)
    PROVE  SomeoneCompletes'
<1> USE DEF WorkerTypeOK, TaskTypeOK
<1> SUFFICES ASSUME Undisturbed', m_q' # NoTask, m_rec'[m_q'] = Slices, m_count > 0, ~ registered'
             PROVE  \E d \in Clients : Completes(d)'
  BY TurnSameFile DEF SomeoneCompletes
<1>0. Undisturbed /\ \A op : ~ Fails(op)
  BY TurnHistory DEF Undisturbed
<1>1. ~ registered /\ 0 \in Slices
  <2>1. registered => registered'
    BY DEF Turn, Request, Send, Handle, FileExist, UpdateRefer, InsertFile, LinkFile, Add, FindSlice,
       Mark, OpenSlice, WriteSlice, Receive, ClearBreakpoint, Assign, Progress, SaveBreakpoint, dbVars
  <2> QED
    BY <2>1 DEF Slices
<1>2. ~ CreateTask(c)
  <2>1. CreateTask(c) => m_rec'[m_q'] = {}
    BY DEF CreateTask
  <2> QED
    BY <1>1, <2>1
<1>3. m_q' = m_q /\ m_q \in heap
  BY <1>2, TurnUsesPool DEF TaskStep, AddTask, GetSlice, TakeSlice, RecvTask, InsertSlice,
     CompareSize, taskVars
<1>4. CASE m_rec[m_q] # Slices
  <2>1. InsertSlice(c) /\ task[c] = m_q
    BY <1>2, <1>3, <1>4, TurnUsesPool DEF TaskStep, AddTask, GetSlice, TakeSlice, RecvTask,
       InsertSlice, CompareSize, taskVars
  <2>2. step' = step /\ step[c] \in {"mark", "recv"} /\ call'[c] = "size" /\ task'[c] = m_q
    BY <2>1 DEF InsertSlice, InCall, Turn, Request, Send, Handle, FileExist, UpdateRefer, InsertFile,
       LinkFile, Add, FindSlice, Mark, OpenSlice, WriteSlice, Receive, ClearBreakpoint, Assign,
       Progress, SaveBreakpoint, taskVars, AddTask, CreateTask, RecvTask, CompareSize, Enter, Leave
  <2> QED
    BY <1>3, <2>2 DEF Completes
<1>5. CASE m_rec[m_q] = Slices
  <2>1. PICK d \in Clients : Completes(d)
    BY <1>0, <1>1, <1>3, <1>5 DEF SomeoneCompletes
  <2>2. CASE d # c
    BY <1>3, <2>1, <2>2, TurnOfOne, ZenonT(20) DEF Completes
  <2>3. CASE d = c
    <3>1. CASE Mark(c)
      BY <1>3, <2>1, <2>3, <3>1 DEF Mark, Completes, InsertSlice, CompareSize, RecvTask, Enter, Goto
    <3>2. CASE OpenSlice(c)
      BY <1>0, <3>2 DEF OpenSlice, Completes, Goto
    <3>3. CASE WriteSlice(c)
      <4>1. call[c] = "none" /\ call' = call
        BY <3>3 DEF WriteSlice, InCall, taskVars, Calls
      <4> QED
        BY <3>3, <4>1 DEF WriteSlice, Completes, Goto
    <3>4. CASE Receive(c)
      <4>1. CASE RecvTask(c, m_slice_id[c]) /\ UNCHANGED step
        BY <1>3, <3>4, <4>1 DEF Receive, Completes, RecvTask, Enter
      <4>2. CASE InsertSlice(c) /\ UNCHANGED step
        BY <1>3, <2>1, <2>3, <3>4, <4>2 DEF Receive, Completes, InsertSlice
      <4>3. ASSUME NEW status \in Statuses, CompareSize(c, status),
                   Goto(c, IF status = "MERGE_SUCCESS" THEN "clear" ELSE "assign")
            PROVE  Completes(c)'
        <5>1. task[c] = m_q
          BY <2>1, <2>3, <3>4, <4>3 DEF Receive, Completes, CompareSize
        <5>2. Cardinality(m_rec[task[c]]) = m_count
          BY <1>3, <1>5, <5>1, CountedIsAll
        <5> QED
          BY <4>3, <5>2 DEF CompareSize, Goto, Completes
      <4>4. ~ (call[c] = "none" /\ m_q = NoTask)
        BY <1>3
      <4> QED
        BY <2>3, <3>4, <4>1, <4>2, <4>3, <4>4 DEF Receive
    <3>5. CASE ClearBreakpoint(c)
      BY <3>5 DEF ClearBreakpoint, Completes, Goto
    <3>6. ~ InsertFile(c)
      BY <1>0, <1>1 DEF InsertFile
    <3> QED
      BY <1>0, <2>1, <2>3, <3>1, <3>2, <3>3, <3>4, <3>5, <3>6
         DEF Completes, Turn, Request, Send, Handle, FileExist, UpdateRefer, LinkFile, Add,
             FindSlice, Assign, Progress, SaveBreakpoint
  <2> QED
    BY <2>2, <2>3
<1> QED
  BY <1>4, <1>5

LEMMA CompletionInvariant == Spec => [](AllKept /\ SomeoneCompletes)
<1> DEFINE Marks == WorkerTypeOK /\ TaskTypeOK /\ InCall /\ MarksKept
           Inv == AllKept /\ SomeoneCompletes
<1>1. UploadInit => Inv
  BY DEF UploadInit, TaskInit, AllKept, SawLast, SomeoneCompletes
<1>2. Marks /\ Inv /\ [Next]_vars => Inv'
  <2> SUFFICES ASSUME Marks, Inv, [Next]_vars PROVE Inv'
    OBVIOUS
  <2>1. ASSUME NEW c \in Clients, Turn(c) PROVE Inv'
    BY <2>1, TurnAllKept, TurnSomeoneCompletes
  <2>2. CASE ServerRestart
    <3>1. restarts' # 0
      BY <2>2, UploadAssumption DEF ServerRestart, WorkerTypeOK
    <3> QED
      BY <3>1 DEF AllKept, SomeoneCompletes, Undisturbed
  <2>3. CASE UNCHANGED vars
    BY <2>3 DEF vars, taskVars, requestVars, dbVars, counters, AllKept, SawLast, Kept, Writing,
       SomeoneCompletes, Completes, Undisturbed, Slices
  <2> QED
    BY <2>1, <2>2, <2>3, NextTurns
<1> HIDE DEF Inv
<1>3. Spec => []Inv
  BY <1>1, <1>2, MarksInvariant, PTL DEF Spec
<1> QED
  BY <1>3 DEF Inv

\* Until a call fails or the server restarts, a file that has a row in files has
\* all its slices on disk, or somebody is writing them again.
THEOREM RegisteredIsAlwaysStored == Spec => []RegisteredIsStored
<1>1. AllKept /\ SomeoneCompletes => RegisteredIsStored
  BY DEF AllKept, Kept, RegisteredIsStored
<1> QED
  BY <1>1, CompletionInvariant, PTL

\* However the comparisons of the sizes interleave, one worker finds the upload
\* complete and registers the file.
THEOREM CompletionIsNeverLost == Spec => []CompletionNotLost
<1>1. AllKept /\ SomeoneCompletes => CompletionNotLost
  BY DEF SomeoneCompletes, Completes, CompletionNotLost
<1> QED
  BY <1>1, CompletionInvariant, PTL


-----------------------------------------------------------------------------
(* files.refer and the rows that refer to the file.                         *)

Linking == {c \in Clients : step[c] = "link"}

\* What refer's count rests on: a client is linked or served, not both, and a
\* worker that is about to add a reference, or added one, has seen the row.
ReferInv ==
    /\ \A c \in linked : step[c] = "idle"
    /\ \A c \in Clients : step[c] \in {"refer", "link"} => registered
    /\ ~ registered => refer = 0

LEMMA ReferInitInv == UploadInit => ReferInv /\ ReferExact
<1> SUFFICES ASSUME UploadInit PROVE ReferInv /\ ReferExact
  OBVIOUS
<1>1. {c \in Clients : step[c] = "link"} = {} /\ linked = {} /\ refer = 0 /\ registered = FALSE
  BY DEF UploadInit
<1>2. Cardinality({}) = 0
  BY FS_EmptySet
<1> QED
  BY <1>1, <1>2 DEF ReferInv, ReferExact, UploadInit

\* One step: the clients that refer to the file, or are about to, and refer.
Loose == refer' - Cardinality(linked') - Cardinality(Linking')
           >= refer - Cardinality(linked) - Cardinality(Linking)
Tight == refer' - Cardinality(linked') - Cardinality(Linking')
           = refer - Cardinality(linked) - Cardinality(Linking)

LEMMA FiniteClients ==
    ASSUME NEW S, S \subseteq Clients
    PROVE  IsFiniteSet(S) /\ Cardinality(S) \in Nat
BY TaskAssumption, FS_Subset, FS_CardinalityType

\* One step of a worker, whatever may fail or be deleted meanwhile, as long as
\* the row is there that it adds a reference to.
LEMMA TurnCounts ==
    ASSUME WorkerTypeOK, refer \in Int, NEW c \in Clients, Turn(c),
           c \in linked => step[c] = "idle",
           step[c] \in {"refer", "link"} => registered,
           ~ registered => refer = 0
    PROVE  /\ Loose /\ (faults' = 0 => Tight) /\ refer' \in Int
           /\ c \in linked' => step'[c] = "idle"
           /\ linked \subseteq linked' /\ linked' \subseteq linked \cup {c}
           /\ ~ registered' => refer' = 0
<1> USE DEF WorkerTypeOK
<1>f. ASSUME NEW op, Fails(op) PROVE faults' # 0
  BY <1>f, TurnHistory
<1>0. /\ linked \subseteq Clients /\ Linking \subseteq Clients
      /\ linked' \subseteq Clients /\ Linking' \subseteq Clients
      /\ refer' \in Int
  BY TurnType, TurnRefer DEF Linking
<1>a. /\ Cardinality(linked) \in Nat /\ Cardinality(Linking) \in Nat
      /\ Cardinality(linked') \in Nat /\ Cardinality(Linking') \in Nat
  BY <1>0, FiniteClients
<1> DEFINE Goal == /\ Loose /\ (faults' = 0 => Tight)
                   /\ c \in linked' => step'[c] = "idle"
                   /\ linked \subseteq linked' /\ linked' \subseteq linked \cup {c}
                   /\ ~ registered' => refer' = 0
\* The worker neither links nor is about to.
<1>3. ASSUME c \notin linked, step[c] # "link", step'[c] # "link",
             \A d \in Clients \ {c} : step'[d] = step[d],
             refer' = refer, registered' = registered, linked' = linked
      PROVE  Goal
  <2>1. Linking' = Linking
    BY <1>3 DEF Linking
  <2> QED
    BY <1>3, <2>1, <1>a, <1>0 DEF Tight, Loose
\* The worker added the reference that it is about to link.
<1>4. ASSUME c \notin linked, step[c] # "link", step' = [step EXCEPT ![c] = "link"],
             refer' = refer + 1, registered', linked' = linked
      PROVE  Goal
  <2>1. Linking' = Linking \cup {c} /\ c \notin Linking
    BY <1>4 DEF Linking
  <2>2. Cardinality(Linking') = Cardinality(Linking) + 1
    BY <2>1, <1>0, FiniteClients, FS_AddElement
  <2> QED
    BY <1>4, <2>2, <1>0, <1>a DEF Tight, Loose
<1>5. ASSUME NEW k \in {"u", "w", "d"}, Send(c, k) PROVE Goal
  BY <1>3, <1>5 DEF Send, Goto, dbVars
<1>6. ASSUME UpdateRefer(c) PROVE Goal
  <2>1. registered /\ registered' = registered /\ step[c] = "refer" /\ linked' = linked
    BY <1>6 DEF UpdateRefer
  <2>2. CASE refer' = refer + 1 /\ Goto(c, "link")
    BY <2>1, <2>2, <1>4 DEF Goto
  <2>3. CASE Error(c) /\ refer' = refer
    BY <2>1, <2>3, <1>3 DEF Error, Reply, Goto
  <2> QED
    BY <1>6, <2>1, <2>2, <2>3 DEF UpdateRefer
<1>7. ASSUME InsertFile(c) PROVE Goal
  <2>1. step[c] = "insert" /\ linked' = linked
    BY <1>7 DEF InsertFile
  <2>2. CASE ~ registered /\ registered' = TRUE /\ refer' = 1 /\ Goto(c, "link")
    <3>1. c \notin linked /\ step[c] # "link" /\ refer' = refer + 1
      BY <2>1, <2>2
    <3> QED
      BY <2>1, <2>2, <3>1, <1>4 DEF Goto
  <2>3. CASE Error(c) /\ refer' = refer /\ registered' = registered
    BY <2>1, <2>3, <1>3 DEF Error, Reply, Goto
  <2> QED
    BY <1>7, <2>1, <2>2, <2>3 DEF InsertFile
<1>8. ASSUME LinkFile(c) PROVE Goal
  <2>1. step[c] = "link" /\ refer' = refer /\ registered /\ registered' = registered /\ c \notin linked
    BY <1>8 DEF LinkFile
  <2>2. step' = [step EXCEPT ![c] = "idle"] /\ linked \subseteq linked' /\ linked' \subseteq linked \cup {c}
    BY <1>8 DEF LinkFile, Error, Reply, Goto
  <2>3. Linking' = Linking \ {c} /\ c \in Linking
    BY <2>1, <2>2 DEF Linking
  <2>4. Cardinality(Linking') = Cardinality(Linking) - 1
    BY <2>3, <1>0, FiniteClients, FS_RemoveElement
  <2>5. CASE linked' = linked \cup {c}
    <3>1. Cardinality(linked') = Cardinality(linked) + 1
      BY <2>1, <2>5, <1>0, FiniteClients, FS_AddElement
    <3> QED
      BY <2>1, <2>2, <2>4, <3>1, <1>0, <1>a DEF Tight, Loose
  <2>6. CASE linked' = linked /\ faults' # 0
    BY <2>1, <2>2, <2>4, <2>6, <1>0, <1>a DEF Loose
  <2> QED
    BY <1>8, <2>1, <2>5, <2>6, <1>f DEF LinkFile
<1>9. ASSUME \/ FileExist(c) \/ Add(c) \/ FindSlice(c) \/ Mark(c) \/ OpenSlice(c) \/ WriteSlice(c)
             \/ Receive(c) \/ ClearBreakpoint(c) \/ Assign(c) \/ Progress(c) \/ SaveBreakpoint(c)
      PROVE  Goal
  <2>1. step[c] \notin {"idle", "link"} /\ refer' = refer /\ registered' = registered
        /\ linked' = linked
    BY <1>9 DEF FileExist, Add, FindSlice, Mark, OpenSlice, WriteSlice, Receive,
       ClearBreakpoint, Assign, Progress, SaveBreakpoint, dbVars
  <2>2. \E next \in Steps \ {"link"} : step' = [step EXCEPT ![c] = next]
    <3>1. step' = step => step' = [step EXCEPT ![c] = step[c]]
      OBVIOUS
    <3> QED
      BY <1>9, <2>1, <3>1 DEF FileExist, Branch, Add, FindSlice, Mark, OpenSlice, WriteSlice, Receive,
         ClearBreakpoint, Assign, Progress, SaveBreakpoint, Goto, Reply, Error, Steps
  <2> QED
    BY <2>1, <2>2, <1>3
<1> HIDE DEF Goal, WorkerTypeOK
<1>10. ASSUME Request(c) PROVE Goal
  BY <1>5, <1>10 DEF Request
<1>11. ASSUME Handle(c) PROVE Goal
  BY <1>6, <1>7, <1>8, <1>9, <1>11 DEF Handle
<1>12. Goal
  BY <1>10, <1>11 DEF Turn
<1> QED
  BY <1>12, <1>0 DEF Goal

LEMMA TurnReferInv ==
    ASSUME SelectWorked', WorkerTypeOK, ReferInv, refer \in Int, NEW c \in Clients, Turn(c)
    PROVE  ReferInv'
<1> USE DEF WorkerTypeOK
<1>1. /\ c \in linked' => step'[c] = "idle"
      /\ linked' \subseteq linked \cup {c}
      /\ ~ registered' => refer' = 0
  BY TurnCounts DEF ReferInv
<1>2. \A d \in Clients \ {c} : step'[d] = step[d]
  BY DEF Turn, Request, Send, Handle, FileExist, UpdateRefer, InsertFile, LinkFile,
     Add, FindSlice, Mark, OpenSlice, WriteSlice, Receive, ClearBreakpoint, Assign,
     Progress, SaveBreakpoint, Goto, Reply, Error
<1>3. registered => registered'
  BY DEF Turn, Request, Send, Handle, FileExist, UpdateRefer, InsertFile, LinkFile,
     Add, FindSlice, Mark, OpenSlice, WriteSlice, Receive, ClearBreakpoint, Assign,
     Progress, SaveBreakpoint, dbVars
<1>4. step'[c] \in {"refer", "link"} => registered'
  <2>1. ~ Fails("select")
    BY TurnHistory DEF SelectWorked, Fails
  <2> QED
    BY <2>1 DEF ReferInv, Turn, Request, Send, Handle, FileExist, Branch, UpdateRefer, InsertFile,
       LinkFile, Add, FindSlice, Mark, OpenSlice, WriteSlice, Receive, ClearBreakpoint, Assign,
       Progress, SaveBreakpoint, Goto, Reply, Error, dbVars
<1> QED
  BY <1>1, <1>2, <1>3, <1>4 DEF ReferInv

LEMMA ReferNextInv ==
    ASSUME SelectWorked', RequestTypeOK, ReferInv, [Next]_vars
    PROVE  ReferInv' /\ Loose /\ (Undisturbed' => Tight)
<1>0. WorkerTypeOK /\ refer \in Int /\ linked \subseteq Clients /\ Linking \subseteq Clients
  BY RequestTypeParts DEF WorkerTypeOK, Linking
<1>1. CASE UNCHANGED vars
  <2>1. ReferInv'
    BY <1>1 DEF ReferInv, vars, dbVars
  <2>2. Linking' = Linking /\ refer' = refer /\ linked' = linked
    BY <1>1 DEF Linking, vars, dbVars
  <2>3. Tight /\ Loose
    BY <1>0, <2>2, FiniteClients DEF Tight, Loose
  <2> QED
    BY <2>1, <2>3
<1>2. CASE ServerRestart
  <2>1. ReferInv'
    BY <1>2, <1>0 DEF ServerRestart, ReferInv, dbVars
  <2>2. refer' = refer /\ linked' = linked /\ Linking' = {} /\ restarts' # 0
    BY <1>0, <1>2, UploadAssumption DEF ServerRestart, dbVars, Linking, WorkerTypeOK
  <2>3. Cardinality(Linking') = 0
    BY <2>2, FS_EmptySet
  <2> QED
    BY <2>1, <2>2, <2>3, <1>0, FiniteClients DEF Loose, Undisturbed
<1>3. ASSUME NEW c \in Clients, Turn(c)
      PROVE  ReferInv' /\ Loose /\ (Undisturbed' => Tight)
  BY <1>0, <1>3, TurnReferInv, TurnCounts DEF ReferInv, Undisturbed
<1> QED
  BY <1>1, <1>2, <1>3, NextTurns

LEMMA ReferInvariant ==
    Spec => []((SelectWorked => ReferInv /\ ReferNeverLow) /\ ReferExact)
<1> DEFINE Inv == (SelectWorked => ReferInv /\ ReferNeverLow) /\ ReferExact
<1>0. ASSUME RequestTypeOK
      PROVE  refer \in Nat /\ Cardinality(linked) \in Nat /\ Cardinality(Linking) \in Nat
  BY <1>0, FiniteClients DEF RequestTypeOK, Linking
<1>1. UploadInit => Inv
  <2> SUFFICES ASSUME UploadInit PROVE Inv
    OBVIOUS
  <2>1. RequestTypeOK /\ ReferInv /\ ReferExact /\ Undisturbed
    BY RequestInitType, ReferInitInv DEF UploadInit, Undisturbed
  <2> QED
    BY <2>1, <1>0 DEF ReferExact, ReferNeverLow, Linking
<1>2. RequestTypeOK /\ RequestTypeOK' /\ Inv /\ [Next]_vars => Inv'
  <2> SUFFICES ASSUME RequestTypeOK, RequestTypeOK', Inv, [Next]_vars PROVE Inv'
    OBVIOUS
  <2>0. /\ Cardinality(linked) \in Nat /\ Cardinality(Linking) \in Nat /\ refer \in Nat
        /\ Cardinality(linked') \in Nat /\ Cardinality(Linking') \in Nat /\ refer' \in Nat
    BY FiniteClients DEF RequestTypeOK, Linking
  <2>1. ASSUME SelectWorked' PROVE ReferInv' /\ ReferNeverLow' /\ (Undisturbed' => Tight)
    <3>1. ReferInv /\ ReferNeverLow
      BY <2>1, HistoryGrows
    <3>2. ReferInv' /\ Loose /\ (Undisturbed' => Tight)
      BY <2>1, <3>1, ReferNextInv
    <3>3. Cardinality(linked) + Cardinality(Linking) <= refer
      BY <3>1 DEF ReferNeverLow, Linking
    <3>4. Cardinality(linked') + Cardinality(Linking') <= refer'
      BY <2>0, <3>2, <3>3 DEF Loose
    <3>5. ReferNeverLow'
      BY <3>4 DEF ReferNeverLow, Linking
    <3> QED
      BY <3>2, <3>5
  <2>2. ReferExact'
    <3> SUFFICES ASSUME Undisturbed' PROVE ReferExact'
      BY DEF ReferExact
    <3>1. refer' - Cardinality(linked') - Cardinality(Linking')
             = refer - Cardinality(linked) - Cardinality(Linking)
      BY <2>1 DEF SelectWorked, Undisturbed, Tight
    <3>2. refer = Cardinality(linked) + Cardinality(Linking)
      BY HistoryGrows DEF ReferExact, Linking
    <3>3. refer' = Cardinality(linked') + Cardinality(Linking')
      BY ONLY <2>0, <3>1, <3>2
    <3> QED
      BY <3>3 DEF ReferExact, Linking
  <2> QED
    BY <2>1, <2>2
<1> HIDE DEF Inv
<1>3. Spec => []Inv
  BY <1>1, <1>2, RequestTypeInvariant, PTL DEF Spec
<1> QED
  BY <1>3 DEF Inv

\* While the SELECT of file_exist does not fail, refer is at least the number of
\* rows that refer to the file, whatever else fails and whenever the server
\* restarts.
THEOREM ReferIsNeverLow == "select" \notin Failing => (Spec => []ReferNeverLow)
<1> SUFFICES ASSUME "select" \notin Failing PROVE Spec => []ReferNeverLow
  OBVIOUS
<1>1. (SelectWorked => ReferInv /\ ReferNeverLow) /\ ReferExact => ReferNeverLow
  BY DEF SelectWorked
<1> QED
  BY <1>1, ReferInvariant, PTL

\* Until something fails or the server restarts, refer is exactly that number.
THEOREM ReferIsExact == Spec => []ReferExact
<1>1. (SelectWorked => ReferInv /\ ReferNeverLow) /\ ReferExact => ReferExact
  OBVIOUS
<1> QED
  BY <1>1, ReferInvariant, PTL

-----------------------------------------------------------------------------
(* What a step may do, seen from the uploads.                               *)

\* A job leaves the uploads' requests alone, but for what is stored.
JobEffect(j) ==
    /\ UNCHANGED <<user, taskVars, step, requestVars>>
    /\ restarts' = restarts /\ (Works \/ \E op \in Fallible : Fails(op))
    /\ disk' = disk \/ RemoveSlices
    /\ linked' \subseteq linked
    /\ \/ registered' = registered /\ (registered \/ refer' = refer)
       \/ registered' = (registered /\ refer # 0) /\ refer' = refer
    /\ breakpoint' \subseteq breakpoint \cup {user[j]}

LEMMA JobIsEffect ==
    ASSUME NEW j \in Jobs, Job(j)
    PROVE  Dies \/ JobEffect(j)
<1> USE DEF JobEffect, Advance, Finish, Begin, Unchanged, vars, dbVars, counters, requestVars, Works, Fails, Fallible
<1>1. ASSUME NEW paths, DeleteSelect(j, paths) PROVE JobEffect(j)
  BY <1>1 DEF DeleteSelect
<1>2. ASSUME DeleteRows(j) PROVE JobEffect(j)
  BY <1>2 DEF DeleteRows
<1>3. ASSUME DeleteRefer(j) PROVE JobEffect(j)
  BY <1>3 DEF DeleteRefer
<1>4. ASSUME DeleteSlices(j) PROVE JobEffect(j)
  BY <1>4 DEF DeleteSlices
<1>5. ASSUME Purge(j) PROVE JobEffect(j)
  BY <1>5 DEF Purge
<1>6. ASSUME CopySelect(j) PROVE JobEffect(j)
  BY <1>6 DEF CopySelect
<1>7. ASSUME CopyInsert(j) PROVE JobEffect(j)
  BY <1>7 DEF CopyInsert
<1>8. ASSUME CancelSelect(j) PROVE Dies \/ JobEffect(j)
  BY <1>8 DEF CancelSelect
<1>9. ASSUME CancelSlices(j) PROVE JobEffect(j)
  BY <1>9 DEF CancelSlices
<1>10. ASSUME CancelForget(j) PROVE JobEffect(j)
  BY <1>10 DEF CancelForget
<1>11. ASSUME NEW s, DownloadRow(j, s) PROVE JobEffect(j)
  BY <1>11 DEF DownloadRow
<1>12. ASSUME DownloadContent(j) PROVE Dies \/ JobEffect(j)
  BY <1>12 DEF DownloadContent, Deliver
<1>13. ASSUME DownloadPoint(j) PROVE JobEffect(j)
  BY <1>13 DEF DownloadPoint, Deliver
<1>14. ASSUME DownloadOpen(j) PROVE JobEffect(j)
  BY <1>14 DEF DownloadOpen
<1> QED
  BY <1>1, <1>2, <1>3, <1>4, <1>5, <1>6, <1>7, <1>8, <1>9, <1>10, <1>11, <1>12,
     <1>13, <1>14 DEF Job

\* The steps, seen from the uploads.
LEMMA StoreSteps ==
    ASSUME [StoreNext]_allVars
    PROVE  \/ UNCHANGED allVars
           \/ Dies
           \/ \E j \in Jobs : Job(j) /\ JobEffect(j)
           \/ \E c \in Clients : UploadStep(c) /\ Turn(c)
           \/ \E c \in Clients : OpenRemoved(c) \/ WriteRemoved(c)
BY JobIsEffect DEF StoreNext, UploadStep, Turn

\* The file is the same in every step, so are its slices.
LEMMA StoreSameFile ==
    [StoreNext]_allVars => m_count' = m_count /\ Slices' = Slices /\ Offsets' = Offsets
<1>1. [StoreNext]_allVars => m_count' = m_count
  BY StoreSteps, TurnSameFile DEF allVars, vars, taskVars, Dies, ServerRestart, Restart, JobEffect,
     OpenRemoved, WriteRemoved
<1> QED
  BY <1>1 DEF Slices, Offsets, Entries

\* A job is for the same user from first to last.
UserOK == user \in [Jobs -> Clients]

LEMMA StoreSameUser == [StoreNext]_allVars => user' = user
BY StoreSteps DEF allVars, storeVars, jobVars, Dies, JobEffect, UploadStep, OpenRemoved, WriteRemoved

LEMMA StoreUserInvariant == StoreSpec => []UserOK
<1>1. StoreInit => UserOK
  BY DEF StoreInit, UserOK
<1>2. UserOK /\ [StoreNext]_allVars => UserOK'
  BY StoreSameUser DEF UserOK
<1> QED
  BY <1>1, <1>2, PTL DEF StoreSpec

LEMMA StoreWorkerType == UserOK /\ WorkerTypeOK /\ [StoreNext]_allVars => WorkerTypeOK'
<1> SUFFICES ASSUME UserOK, WorkerTypeOK, [StoreNext]_allVars PROVE WorkerTypeOK'
  OBVIOUS
<1> Slices' = Slices /\ Offsets' = Offsets
  BY StoreSameFile
<1>1. CASE UNCHANGED allVars
  BY <1>1 DEF allVars, vars, requestVars, dbVars, counters, WorkerTypeOK
<1>2. CASE Dies
  BY <1>2, RestartType DEF Dies
<1>3. ASSUME NEW j \in Jobs, JobEffect(j) PROVE WorkerTypeOK'
  <2>1. disk' \in [Slices -> {"absent", "truncated", "whole"}]
    BY <1>3 DEF JobEffect, RemoveSlices, WorkerTypeOK
  <2>2. faults' \in 0 .. MaxFaults /\ restarts' \in 0 .. MaxRestarts
    BY <1>3, UploadAssumption DEF JobEffect, Works, Fails, counters, WorkerTypeOK
  <2>0. user[j] \in Clients
    BY DEF UserOK
  <2>a. registered \in BOOLEAN /\ linked \subseteq Clients /\ breakpoint \subseteq Clients
    BY DEF WorkerTypeOK
  <2>b. registered' \in BOOLEAN
    BY <1>3, <2>a DEF JobEffect
  <2>c. linked' \subseteq Clients /\ breakpoint' \subseteq Clients
    BY <1>3, <2>0, <2>a DEF JobEffect
  <2>3. registered' \in BOOLEAN /\ linked' \subseteq Clients /\ breakpoint' \subseteq Clients
    BY <2>b, <2>c
  <2> QED
    BY <1>3, <2>1, <2>2, <2>3 DEF JobEffect, requestVars, WorkerTypeOK
<1>4. ASSUME NEW c \in Clients, Turn(c) PROVE WorkerTypeOK'
  BY <1>4, TurnType
<1>5. ASSUME NEW c \in Clients, OpenRemoved(c) \/ WriteRemoved(c) PROVE WorkerTypeOK'
  <2>1. faults' \in 0 .. MaxFaults /\ restarts' \in 0 .. MaxRestarts
    BY <1>5 DEF OpenRemoved, WriteRemoved, Works, counters, WorkerTypeOK
  <2> QED
    BY <1>5, <2>1 DEF OpenRemoved, WriteRemoved, Error, Reply, Goto, dbVars, Steps, Submit,
       WorkerTypeOK
<1> QED
  BY <1>1, <1>2, <1>3, <1>4, <1>5, StoreSteps

LEMMA StoreInitWorker == StoreInit => WorkerTypeOK
BY RequestInitType, RequestTypeParts DEF StoreInit

LEMMA StoreUsesPool == WorkerTypeOK /\ [StoreNext]_allVars => [TaskNext]_taskVars
<1> SUFFICES ASSUME WorkerTypeOK, [StoreNext]_allVars PROVE [TaskNext]_taskVars
  OBVIOUS
<1>1. ASSUME NEW c \in Clients, Turn(c) PROVE [TaskNext]_taskVars
  BY <1>1, TurnUsesPool DEF TaskNext
<1> QED
  BY <1>1, StoreSteps DEF allVars, vars, Dies, ServerRestart, TaskNext, JobEffect, OpenRemoved,
     WriteRemoved

LEMMA StoreWorkerInvariant == StoreSpec => []WorkerTypeOK
<1> QED
  BY StoreInitWorker, StoreWorkerType, StoreUserInvariant, PTL DEF StoreSpec

\* Also beside deletions, cancellations and downloads the task pool is used as
\* TaskPool says.
THEOREM StoreImplementsTaskPool == StoreSpec => TaskSpec
<1>1. StoreInit => TaskInit
  BY DEF StoreInit, UploadInit
<1> QED
  BY <1>1, StoreUsesPool, StoreWorkerInvariant, PTL DEF StoreSpec, TaskSpec

-----------------------------------------------------------------------------
(* Type correctness. *)

LEMMA RowsAtPaths ==
    ASSUME copies \in [Clients -> Nat], NEW c \in Clients, NEW paths
    PROVE  /\ RowsAt(c, paths) \in Nat
           /\ copies[c] = 0 =>
                RowsAt(c, paths) = IF "saved" \in paths /\ c \in linked THEN 1 ELSE 0
BY DEF RowsAt

LEMMA StoreTypeInit == StoreInit => StoreTypeOK
<1> SUFFICES ASSUME StoreInit PROVE StoreTypeOK
  OBVIOUS
<1>1. TaskTypeOK
  BY TaskInitInv DEF StoreInit, UploadInit, TaskInv
<1>2. want \in [Jobs -> 0 .. m_count]
  BY <1>1, TaskAssumption DEF StoreInit, TaskTypeOK
<1>3. /\ job \in [Jobs -> JobSteps] /\ target \in [Jobs -> SUBSET Places]
      /\ user \in [Jobs -> Clients] /\ todo \in [Jobs -> Nat]
      /\ copies \in [Clients -> Nat] /\ orphan \subseteq Clients
      /\ mishaps \subseteq {"removed", "unseen", "twice", "copied", "late"}
      /\ \A j \in Jobs : job[j] = "new"
  BY DEF StoreInit, JobSteps
<1>4. registered \in BOOLEAN /\ refer \in Int
  BY RequestInitType DEF StoreInit, RequestTypeOK
<1> QED
  BY <1>1, <1>2, <1>3, <1>4 DEF StoreTypeOK

LEMMA StoreTypeNext ==
    StoreTypeOK /\ WorkerTypeOK /\ TaskTypeOK' /\ WorkerTypeOK' /\ [StoreNext]_allVars => StoreTypeOK'
<1> SUFFICES ASSUME StoreTypeOK, WorkerTypeOK, TaskTypeOK', WorkerTypeOK', [StoreNext]_allVars
             PROVE  StoreTypeOK'
  OBVIOUS
<1>0. m_count' = m_count /\ m_count \in Nat /\ registered' \in BOOLEAN
  BY StoreSameFile, TaskAssumption DEF StoreTypeOK, TaskTypeOK, WorkerTypeOK
<1> USE DEF StoreTypeOK, JobSteps
<1>1. CASE UNCHANGED allVars
  BY <1>0, <1>1 DEF allVars, vars, dbVars, storeVars, jobVars
<1>2. CASE Dies
  BY <1>0, <1>2 DEF Dies, ServerRestart, dbVars
<1>3. ASSUME NEW j \in Jobs, Job(j) PROVE StoreTypeOK'
  <2> USE DEF Advance, Finish, Begin, Unchanged, vars, dbVars
  <2>1. ASSUME NEW paths \in SUBSET Places, DeleteSelect(j, paths) PROVE StoreTypeOK'
    <3>1. RowsAt(user[j], paths) \in Nat
      BY RowsAtPaths
    <3> QED
      BY <1>0, <2>1, <3>1 DEF DeleteSelect
  <2>2. CASE DeleteRows(j)
    <3>1. /\ UNCHANGED <<refer, orphan>>
          /\ copies' = copies \/ copies' = [copies EXCEPT ![user[j]] = 0]
          /\ mishaps' \subseteq mishaps \cup {"unseen", "twice"}
      BY <2>2 DEF DeleteRows
    <3>2. \/ UNCHANGED <<target, todo, want>> /\ Advance(j, IF todo[j] > 0 THEN "refer" ELSE "purge")
          \/ Finish(j)
      BY <2>2 DEF DeleteRows
    <3> QED
      BY <1>0, <3>1, <3>2
  <2>3. CASE DeleteRefer(j)
    BY <1>0, <2>3 DEF DeleteRefer
  <2>4. CASE DeleteSlices(j)
    BY <1>0, <2>4 DEF DeleteSlices, RemoveSlices
  <2>5. CASE Purge(j)
    BY <1>0, <2>5 DEF Purge
  <2>6. CASE CopySelect(j)
    BY <1>0, <2>6 DEF CopySelect
  <2>7. CASE CopyInsert(j)
    <3>1. /\ UNCHANGED <<refer, orphan>> /\ Finish(j)
          /\ copies' = copies \/ copies' = [copies EXCEPT ![user[j]] = @ + 1]
          /\ mishaps' \subseteq mishaps \cup {"copied"}
      BY <2>7 DEF CopyInsert
    <3> QED
      BY <1>0, <3>1
  <2>8. CASE CancelSelect(j)
    <3>1. CASE Dies
      BY <1>2, <3>1
    <3>2. CASE Begin(j, "discard") /\ UNCHANGED <<vars, target, todo, want, copies, orphan, mishaps>>
      BY <1>0, <3>2
    <3> QED
      BY <2>8, <3>1, <3>2 DEF CancelSelect
  <2>9. CASE CancelSlices(j)
    BY <1>0, <2>9 DEF CancelSlices, RemoveSlices
  <2>10. CASE CancelForget(j)
    BY <1>0, <2>10 DEF CancelForget
  <2>11. ASSUME NEW s \in 0 .. m_count, DownloadRow(j, s) PROVE StoreTypeOK'
    BY <1>0, <2>11 DEF DownloadRow
  <2>12. CASE DownloadContent(j)
    <3>1. CASE Dies
      BY <1>2, <3>1
    <3>2. CASE /\ Finish(j) \/ ((Advance(j, "point") \/ Advance(j, "open")) /\ UNCHANGED <<target, todo, want>>)
               /\ UNCHANGED <<vars, copies, orphan, mishaps>>
      BY <1>0, <3>2
    <3> QED
      BY <2>12, <3>1, <3>2 DEF DownloadContent, Deliver
  <2>13. CASE DownloadPoint(j)
    BY <1>0, <2>13 DEF DownloadPoint, Deliver
  <2>14. CASE DownloadOpen(j)
    BY <1>0, <2>14 DEF DownloadOpen
  <2> QED
    BY <1>3, <2>1, <2>2, <2>3, <2>4, <2>5, <2>6, <2>7, <2>8, <2>9, <2>10, <2>11, <2>12, <2>13, <2>14
       DEF Job, Places
<1>4. ASSUME NEW c \in Clients, UploadStep(c), Turn(c) PROVE StoreTypeOK'
  <2>1. refer' \in Int
    BY <1>4, TurnRefer
  <2> QED
    BY <1>0, <1>4, <2>1 DEF UploadStep, jobVars
<1>5. ASSUME NEW c \in Clients, OpenRemoved(c) \/ WriteRemoved(c) PROVE StoreTypeOK'
  BY <1>0, <1>5 DEF OpenRemoved, WriteRemoved, dbVars, jobVars
<1> QED
  BY <1>1, <1>2, <1>3, <1>4, <1>5 DEF StoreNext, UploadStep, Turn

\* The state of the jobs and of what they work on is well formed.
THEOREM StoreTypeCorrect == StoreSpec => []StoreTypeOK
<1>1. StoreSpec => []TaskTypeOK
  BY StoreImplementsTaskPool, TaskTypeCorrect, PTL
<1> QED
  BY <1>1, StoreTypeInit, StoreTypeNext, StoreWorkerInvariant, PTL DEF StoreSpec

-----------------------------------------------------------------------------
(* refer covers the users' rows.                                            *)

Deducting == {j \in Jobs : job[j] = "refer"}

\* References counted in files but held by nobody.
Excess == refer - Counted(linked)

\* Who has the file is not uploading it, and without a row there is no count.
LinkedIdle == /\ \A c \in linked : step[c] = "idle"
              /\ ~ registered => refer = 0

\* While nothing was copied, a deletion works off at most one row, that of the
\* path "saved" (which another deletion may have deleted meanwhile).
OneRow ==
    "copied" \notin mishaps =>
        /\ \A c \in Clients : copies[c] = 0
        /\ \A j \in Jobs : /\ todo[j] <= 1
                           /\ job[j] = "rows" /\ todo[j] = 1 => "saved" \in target[j]

Covers == mishaps \cap {"copied", "twice", "late"} = {} => Excess >= 0

\* Nothing has gone wrong but that slices were removed.
Regular == Undisturbed /\ mishaps \subseteq {"removed"}

Exactly == Regular => /\ Excess = 0
                      /\ \A j \in Jobs : job[j] = "remove" => todo[j] > 0

LEMMA FiniteJobs ==
    ASSUME NEW S, S \subseteq Jobs
    PROVE  IsFiniteSet(S) /\ Cardinality(S) \in Nat
BY StoreAssumption, FS_Subset, FS_CardinalityType

\* ... so that there is a row to count in when somebody has to be counted.
LEMMA CoversRow ==
    ASSUME WorkerTypeOK, refer \in Int, LinkedIdle, Covers, mishaps \cap {"copied", "twice", "late"} = {}
    PROVE  /\ linked # {} \/ Linking # {} \/ Deducting # {} => registered /\ refer > 0
           /\ refer >= 0
<1>1. linked \subseteq Clients /\ Linking \subseteq Clients /\ Deducting \subseteq Jobs
  BY DEF WorkerTypeOK, Linking, Deducting
<1>2. /\ IsFiniteSet(linked) /\ IsFiniteSet(Linking) /\ IsFiniteSet(Deducting)
      /\ Cardinality(linked) \in Nat /\ Cardinality(Linking) \in Nat /\ Cardinality(Deducting) \in Nat
  BY <1>1, FiniteClients, FiniteJobs
<1>3. Cardinality(linked) + Cardinality(Linking) + Cardinality(Deducting) <= refer
  BY <1>2 DEF Covers, Excess, Counted, Linking, Deducting
<1>4. \A S : IsFiniteSet(S) /\ S # {} => Cardinality(S) # 0
  BY FS_EmptySet
<1>5. linked # {} \/ Linking # {} \/ Deducting # {} => refer > 0
  <2>1. /\ linked # {} => Cardinality(linked) > 0
        /\ Linking # {} => Cardinality(Linking) > 0
        /\ Deducting # {} => Cardinality(Deducting) > 0
    BY <1>2, <1>4
  <2> QED
    BY <1>2, <1>3, <2>1
<1> QED
  BY <1>2, <1>3, <1>5 DEF LinkedIdle

LEMMA StoreHistory ==
    ASSUME WorkerTypeOK, [StoreNext]_allVars
    PROVE  /\ mishaps \subseteq mishaps'
           /\ faults' = 0 => faults = 0
           /\ Undisturbed' => Undisturbed /\ ~ Dies
           /\ Regular' => Regular
<1>0. faults \in Nat /\ restarts \in Nat
  BY UploadAssumption DEF WorkerTypeOK
<1>1. mishaps \subseteq mishaps'
  <2>1. ASSUME NEW j \in Jobs, Job(j) PROVE mishaps \subseteq mishaps'
    BY <2>1 DEF Job, DeleteSelect, DeleteRows, DeleteRefer, DeleteSlices, Purge, CopySelect,
       CopyInsert, CancelSelect, CancelSlices, CancelForget, DownloadRow, DownloadContent,
       DownloadPoint, DownloadOpen, Dies, RemoveSlices
  <2> QED
    BY <2>1, StoreSteps DEF allVars, storeVars, Dies, UploadStep, OpenRemoved, WriteRemoved
<1>2. UNCHANGED allVars => restarts' = restarts /\ faults' = faults
  BY DEF allVars, vars, counters
<1>3. Dies => restarts' = restarts + 1 /\ faults' = faults
  BY DEF Dies, ServerRestart
<1>4. ASSUME NEW j \in Jobs, JobEffect(j)
      PROVE  restarts' = restarts /\ (faults' = faults \/ faults' = faults + 1)
  BY <1>4 DEF JobEffect, Works, Fails, counters
<1>5. ASSUME NEW c \in Clients, Turn(c)
      PROVE  restarts' = restarts /\ (faults' = faults \/ faults' = faults + 1)
  BY <1>5, TurnHistory
<1>6. ASSUME NEW c \in Clients, OpenRemoved(c) \/ WriteRemoved(c)
      PROVE  restarts' = restarts /\ faults' = faults
  BY <1>6 DEF OpenRemoved, WriteRemoved, Works, counters
<1>7. (faults' = 0 => faults = 0) /\ (Undisturbed' => Undisturbed /\ ~ Dies)
  BY <1>0, <1>2, <1>3, <1>4, <1>5, <1>6, StoreSteps DEF Undisturbed
<1> QED
  BY <1>1, <1>7 DEF Regular

LEMMA LinkedIdleNext ==
    ASSUME WorkerTypeOK, LinkedIdle, [StoreNext]_allVars
    PROVE  LinkedIdle'
<1> USE DEF WorkerTypeOK
<1>1. CASE UNCHANGED allVars
  BY <1>1 DEF allVars, vars, dbVars, LinkedIdle
<1>2. CASE Dies
  BY <1>2 DEF Dies, ServerRestart, dbVars, LinkedIdle
<1>3. ASSUME NEW j \in Jobs, JobEffect(j) PROVE LinkedIdle'
  BY <1>3 DEF JobEffect, LinkedIdle
<1>4. ASSUME NEW c \in Clients, Turn(c) PROVE LinkedIdle'
  <2>1. ~ registered' => refer' = 0
    BY <1>4, TurnRefer DEF LinkedIdle
  <2>2. \A d \in linked' : step'[d] = "idle"
    BY <1>4 DEF LinkedIdle, Turn, Request, Send, Handle, FileExist, UpdateRefer, InsertFile, LinkFile,
       Add, FindSlice, Mark, OpenSlice, WriteSlice, Receive, ClearBreakpoint, Assign,
       Progress, SaveBreakpoint, Goto, Reply, Error, dbVars
  <2> QED
    BY <2>1, <2>2 DEF LinkedIdle
<1>5. ASSUME NEW c \in Clients, OpenRemoved(c) \/ WriteRemoved(c) PROVE LinkedIdle'
  BY <1>5 DEF OpenRemoved, WriteRemoved, Error, Reply, Goto, dbVars, LinkedIdle
<1> QED
  BY <1>1, <1>2, <1>3, <1>4, <1>5, StoreSteps

LEMMA OneRowNext ==
    ASSUME WorkerTypeOK, StoreTypeOK, OneRow, [StoreNext]_allVars
    PROVE  OneRow'
<1> USE DEF StoreTypeOK
<1> SUFFICES ASSUME "copied" \notin mishaps' PROVE OneRow'
  BY DEF OneRow
<1>0. /\ \A c \in Clients : copies[c] = 0
      /\ \A j \in Jobs : todo[j] <= 1 /\ (job[j] = "rows" /\ todo[j] = 1 => "saved" \in target[j])
  BY StoreHistory DEF OneRow
<1>1. CASE UNCHANGED <<copies, todo, job, target>>
  BY <1>0, <1>1 DEF OneRow
<1>2. CASE Dies
  BY <1>0, <1>2 DEF Dies, OneRow
<1>3. ASSUME NEW j \in Jobs, Job(j), JobEffect(j) PROVE OneRow'
  <2> USE DEF Advance, Finish, Begin, OneRow, vars, dbVars
  <2>1. ASSUME NEW paths \in SUBSET Places, DeleteSelect(j, paths) PROVE OneRow'
    <3>1. /\ RowsAt(user[j], paths) <= 1
          /\ RowsAt(user[j], paths) = 1 => "saved" \in paths
      BY <1>0, RowsAtPaths
    <3> QED
      BY <1>0, <2>1, <3>1 DEF DeleteSelect
  <2>2. CASE DeleteRows(j)
    <3>1. copies' = copies \/ copies' = [copies EXCEPT ![user[j]] = 0]
      BY <2>2 DEF DeleteRows
    <3>2. \/ UNCHANGED <<target, todo, want>> /\ Advance(j, IF todo[j] > 0 THEN "refer" ELSE "purge")
          \/ Finish(j)
      BY <2>2 DEF DeleteRows
    <3> QED
      BY <1>0, <3>1, <3>2
  <2>3. CASE DeleteRefer(j)
    BY <1>0, <2>3 DEF DeleteRefer
  <2>4. CASE DeleteSlices(j)
    <3>1. job[j] = "remove" /\ UNCHANGED copies
      BY <2>4 DEF DeleteSlices
    <3>2. \/ Finish(j)
          \/ /\ todo' = [todo EXCEPT ![j] = @ - 1] /\ UNCHANGED target
             /\ Advance(j, "refer") \/ Advance(j, "purge")
      BY <2>4 DEF DeleteSlices
    <3> QED
      BY <1>0, <3>1, <3>2
  <2>5. CASE Purge(j)
    BY <1>0, <2>5 DEF Purge
  <2>6. CASE CopySelect(j)
    BY <1>0, <2>6 DEF CopySelect
  <2>7. CASE CopyInsert(j)
    BY <1>0, <2>7 DEF CopyInsert
  <2>8. CASE CancelSelect(j)
    <3>1. CASE Begin(j, "discard") /\ UNCHANGED <<vars, target, todo, want, copies, orphan, mishaps>>
      BY <1>0, <3>1
    <3> QED
      BY <1>2, <2>8, <3>1 DEF CancelSelect
  <2>9. CASE CancelSlices(j)
    BY <1>0, <2>9 DEF CancelSlices
  <2>10. CASE CancelForget(j)
    BY <1>0, <2>10 DEF CancelForget
  <2>11. ASSUME NEW s, DownloadRow(j, s) PROVE OneRow'
    BY <1>0, <2>11 DEF DownloadRow
  <2>12. CASE DownloadContent(j)
    <3>1. CASE /\ Finish(j) \/ ((Advance(j, "point") \/ Advance(j, "open")) /\ UNCHANGED <<target, todo, want>>)
               /\ UNCHANGED <<vars, copies, orphan, mishaps>>
      BY <1>0, <3>1
    <3> QED
      BY <1>2, <2>12, <3>1 DEF DownloadContent, Deliver
  <2>13. CASE DownloadPoint(j)
    <3>1. /\ Finish(j) \/ (Advance(j, "open") /\ UNCHANGED <<target, todo>>)
          /\ UNCHANGED copies
      BY <2>13 DEF DownloadPoint, Deliver
    <3> QED
      BY <1>0, <3>1
  <2>14. CASE DownloadOpen(j)
    BY <1>0, <2>14 DEF DownloadOpen
  <2> QED
    BY <1>3, <2>1, <2>2, <2>3, <2>4, <2>5, <2>6, <2>7, <2>8, <2>9, <2>10, <2>11, <2>12, <2>13, <2>14
       DEF Job, Places
<1>4. ASSUME NEW c \in Clients, UploadStep(c), Turn(c) PROVE OneRow'
  BY <1>1, <1>4 DEF UploadStep, jobVars
<1>5. ASSUME NEW c \in Clients, OpenRemoved(c) \/ WriteRemoved(c) PROVE OneRow'
  BY <1>1, <1>5 DEF OpenRemoved, WriteRemoved, dbVars, jobVars
<1>6. CASE UNCHANGED allVars
  BY <1>1, <1>6 DEF allVars, vars, dbVars, storeVars, jobVars
<1> QED
  BY <1>2, <1>3, <1>4, <1>5, <1>6, StoreSteps

LEMMA CountsAreNat ==
    ASSUME WorkerTypeOK
    PROVE  /\ linked \subseteq Clients /\ Linking \subseteq Clients /\ Deducting \subseteq Jobs
           /\ IsFiniteSet(linked) /\ IsFiniteSet(Linking) /\ IsFiniteSet(Deducting)
           /\ Cardinality(linked) \in Nat
           /\ Cardinality(Linking) \in Nat
           /\ Cardinality(Deducting) \in Nat
<1>1. linked \subseteq Clients /\ Linking \subseteq Clients /\ Deducting \subseteq Jobs
  BY DEF WorkerTypeOK, Linking, Deducting
<1> QED
  BY <1>1, FiniteClients, FiniteJobs

\* A step of a job: only a deletion changes the counts, and it counts down for the
\* row that it deleted.
LEMMA JobCounts ==
    ASSUME WorkerTypeOK, StoreTypeOK, WorkerTypeOK', StoreTypeOK', LinkedIdle, OneRow, Covers,
           NEW j \in Jobs, Job(j), JobEffect(j), [StoreNext]_allVars,
           mishaps' \cap {"copied", "twice", "late"} = {}
    PROVE  Excess' >= Excess /\ (Regular' => Excess' = Excess)
<1> USE DEF StoreTypeOK
<1>0. /\ mishaps \subseteq mishaps' /\ Linking' = Linking
      /\ refer \in Int /\ refer' \in Int
  BY StoreHistory DEF JobEffect, Linking
<1>a. /\ Cardinality(linked) \in Nat /\ Cardinality(Linking) \in Nat
      /\ Cardinality(Deducting) \in Nat /\ Cardinality(linked') \in Nat
      /\ Cardinality(Deducting') \in Nat
      /\ IsFiniteSet(linked) /\ IsFiniteSet(Deducting)
  <2>1. linked' \subseteq Clients /\ Deducting' \subseteq Jobs
    BY DEF WorkerTypeOK, Deducting
  <2> QED
    BY <2>1, CountsAreNat, FiniteClients, FiniteJobs
<1>b. /\ Excess = refer - (Cardinality(linked) + Cardinality(Linking) + Cardinality(Deducting))
      /\ Excess' = refer' - (Cardinality(linked') + Cardinality(Linking) + Cardinality(Deducting'))
  BY <1>0 DEF Excess, Counted, Linking, Deducting
<1>c. /\ copies[user[j]] = 0 /\ todo[j] \in {0, 1}
      /\ job[j] = "rows" /\ todo[j] = 1 => "saved" \in target[j]
  BY <1>0 DEF OneRow
<1>1. ASSUME refer' = refer, linked' = linked, job[j] # "refer",
             \E next \in JobSteps \ {"refer"} : job' = [job EXCEPT ![j] = next]
      PROVE  Excess' >= Excess /\ Excess' = Excess
  <2>1. Deducting' = Deducting
    BY <1>1 DEF Deducting
  <2> QED
    BY <1>1, <2>1, <1>0, <1>a, <1>b
<1>2. CASE DeleteRows(j)
  <2> DEFINE gone == RowsAt(user[j], target[j])
  <2>1. /\ job[j] = "rows" /\ refer' = refer
        /\ gone = IF "saved" \in target[j] /\ user[j] \in linked THEN 1 ELSE 0
    BY <1>2, <1>c, RowsAtPaths DEF DeleteRows
  <2> HIDE DEF gone
  <2>2. CASE Finish(j) /\ linked' = linked
    <3>1. \E next \in JobSteps \ {"refer"} : job' = [job EXCEPT ![j] = next]
      BY <2>2 DEF Finish, Advance, JobSteps
    <3> QED
      BY <1>1, <2>1, <2>2, <3>1
  <2>3. CASE /\ Advance(j, IF todo[j] > 0 THEN "refer" ELSE "purge")
             /\ linked' = IF "saved" \in target[j] THEN linked \ {user[j]} ELSE linked
             /\ gone > todo[j] => "unseen" \in mishaps'
             /\ gone < todo[j] => "twice" \in mishaps'
    <3>1. CASE todo[j] = 1
      <4>0. ~ (gone < todo[j])
        BY <2>3
      <4>1. linked' = linked \ {user[j]} /\ user[j] \in linked
        BY <2>1, <2>3, <3>1, <4>0
      <4>2. Deducting' = Deducting \cup {j} /\ j \notin Deducting
        BY <2>1, <2>3, <3>1 DEF Deducting, Advance
      <4>3. Cardinality(linked') = Cardinality(linked) - 1
        BY <1>a, <4>1, FS_RemoveElement
      <4>4. Cardinality(Deducting') = Cardinality(Deducting) + 1
        BY <1>a, <4>2, FS_AddElement
      <4> QED
        BY <1>0, <1>a, <1>b, <2>1, <4>3, <4>4
    <3>2. CASE todo[j] = 0
      <4>1. Deducting' = Deducting
        BY <2>1, <2>3, <3>2 DEF Deducting, Advance
      <4>2. linked' \subseteq linked /\ Cardinality(linked') <= Cardinality(linked)
        BY <1>a, <2>3, FS_Subset
      <4>3. ASSUME Regular' PROVE linked' = linked
        <5>1. ~ (gone > todo[j])
          BY <2>3, <4>3 DEF Regular
        <5> QED
          BY <2>1, <2>3, <3>2, <5>1
      <4> QED
        BY <1>0, <1>a, <1>b, <2>1, <4>1, <4>2, <4>3
    <3> QED
      BY <1>c, <3>1, <3>2
  <2> QED
    BY <1>2, <2>2, <2>3 DEF DeleteRows, gone
<1>3. CASE DeleteRefer(j)
  <2>1. Deducting' = Deducting \ {j} /\ j \in Deducting /\ linked' = linked
    BY <1>3 DEF DeleteRefer, Deducting, Advance
  <2>2. Cardinality(Deducting') = Cardinality(Deducting) - 1
    BY <1>a, <2>1, FS_RemoveElement
  <2>3. registered
    BY <1>0, <2>1, CoversRow
  <2>4. refer' = refer - 1 \/ (refer' = refer /\ faults' # 0)
    BY <1>3, <2>3, UploadAssumption DEF DeleteRefer, Fails, WorkerTypeOK
  <2> QED
    BY <1>0, <1>a, <1>b, <2>1, <2>2, <2>4 DEF Regular, Undisturbed
<1>4. CASE DeleteSlices(j)
  <2>1. job[j] = "remove" /\ refer' = refer /\ linked' = linked
    BY <1>4 DEF DeleteSlices
  <2>2. Advance(j, "done") \/ Advance(j, "purge")
    BY <1>4, <1>c DEF DeleteSlices, Finish
  <2> QED
    <3>1. \E next \in JobSteps \ {"refer"} : job' = [job EXCEPT ![j] = next]
      BY <2>2 DEF Advance, JobSteps
    <3> QED
      BY <1>1, <2>1, <3>1
<1>5. ASSUME \/ \E paths \in SUBSET Places : DeleteSelect(j, paths)
             \/ Purge(j) \/ CopySelect(j) \/ CopyInsert(j)
             \/ CancelSelect(j) \/ CancelSlices(j) \/ CancelForget(j)
             \/ \E s \in 0 .. m_count : DownloadRow(j, s)
             \/ DownloadContent(j) \/ DownloadPoint(j) \/ DownloadOpen(j)
      PROVE  Excess' >= Excess /\ (Regular' => Excess' = Excess)
  <2>1. refer' = refer /\ linked' = linked
    BY <1>5 DEF DeleteSelect, Purge, CopySelect, CopyInsert, CancelSelect, CancelSlices, CancelForget,
       DownloadRow, DownloadContent, DownloadPoint, DownloadOpen, Dies, ServerRestart, vars, dbVars
  <2>2. ~ Dies
    <3>1. Dies => restarts' # restarts
      BY UploadAssumption DEF Dies, ServerRestart, WorkerTypeOK
    <3> QED
      BY <3>1 DEF JobEffect
  <2>3. job[j] # "refer" /\ \E next \in JobSteps \ {"refer"} : job' = [job EXCEPT ![j] = next]
    BY <1>5, <2>2 DEF DeleteSelect, Purge, CopySelect, CopyInsert, CancelSelect, CancelSlices,
       CancelForget, DownloadRow, DownloadContent, DownloadPoint, DownloadOpen, Deliver,
       Begin, Finish, Advance, JobSteps
  <2> QED
    BY <1>1, <2>1, <2>3
<1> QED
  BY <1>2, <1>3, <1>4, <1>5 DEF Job, Places

\* Every step: refer does not fall behind the rows, and keeps up with them while
\* nothing has gone wrong.
LEMMA StoreCounts ==
    ASSUME WorkerTypeOK, StoreTypeOK, WorkerTypeOK', StoreTypeOK', LinkedIdle, OneRow, Covers,
           [StoreNext]_allVars, mishaps' \cap {"copied", "twice", "late"} = {}
    PROVE  Excess' >= Excess /\ (Regular' => Excess' = Excess)
<1>0. /\ mishaps \cap {"copied", "twice", "late"} = {}
      /\ refer \in Int /\ refer' \in Int
  BY StoreHistory DEF StoreTypeOK
<1>a. /\ Cardinality(linked) \in Nat /\ Cardinality(Linking) \in Nat
      /\ Cardinality(Deducting) \in Nat
      /\ Cardinality(linked') \in Nat /\ Cardinality(Linking') \in Nat
      /\ Cardinality(Deducting') \in Nat
  <2>1. linked' \subseteq Clients /\ Linking' \subseteq Clients /\ Deducting' \subseteq Jobs
    BY DEF WorkerTypeOK, Linking, Deducting
  <2> QED
    BY <2>1, CountsAreNat, FiniteClients, FiniteJobs
<1>b. /\ Excess = refer - (Cardinality(linked) + Cardinality(Linking) + Cardinality(Deducting))
      /\ Excess' = refer' - (Cardinality(linked') + Cardinality(Linking') + Cardinality(Deducting'))
  BY DEF Excess, Counted, Linking, Deducting
<1>1. ASSUME refer' = refer, linked' = linked, Linking' = Linking, Deducting' = Deducting
      PROVE  Excess' = Excess
  BY <1>1, <1>b
<1>2. CASE UNCHANGED allVars
  <2>1. refer' = refer /\ linked' = linked /\ Linking' = Linking /\ Deducting' = Deducting
    BY <1>2 DEF allVars, vars, dbVars, storeVars, jobVars, Linking, Deducting
  <2> QED
    BY <2>1, <1>0, <1>1, <1>a, <1>b
<1>3. CASE Dies
  <2>1. refer' = refer /\ linked' = linked /\ Linking' = {} /\ Deducting' = {}
    BY <1>3 DEF Dies, ServerRestart, dbVars, Linking, Deducting
  <2>2. ~ Regular'
    BY <1>3, StoreHistory DEF Regular
  <2> QED
    BY <2>1, <2>2, <1>0, <1>a, <1>b, FS_EmptySet
<1>4. ASSUME NEW j \in Jobs, Job(j), JobEffect(j)
      PROVE  Excess' >= Excess /\ (Regular' => Excess' = Excess)
  BY <1>4, JobCounts
<1>5. ASSUME NEW c \in Clients, UploadStep(c), Turn(c)
      PROVE  Excess' >= Excess /\ (Regular' => Excess' = Excess)
  <2>1. /\ Deducting' = Deducting
        /\ step[c] = "refer" => registered
    BY <1>5 DEF UploadStep, jobVars, Deducting
  <2>2. step[c] = "link" => registered
    BY <1>0, CoversRow DEF Linking
  <2>3. Loose /\ (faults' = 0 => Tight)
    BY <1>0, <1>5, <2>1, <2>2, TurnCounts DEF LinkedIdle
  <2> QED
    BY <2>1, <2>3, <1>0, <1>a, <1>b DEF Loose, Tight, Regular, Undisturbed
<1>6. ASSUME NEW c \in Clients, OpenRemoved(c) \/ WriteRemoved(c)
      PROVE  Excess' >= Excess /\ (Regular' => Excess' = Excess)
  <2>1. refer' = refer /\ linked' = linked /\ Linking' = Linking /\ Deducting' = Deducting
    BY <1>6 DEF OpenRemoved, WriteRemoved, Error, Reply, Goto, dbVars, jobVars, Linking, Deducting,
       WorkerTypeOK
  <2> QED
    BY <2>1, <1>0, <1>1, <1>a, <1>b
<1> QED
  BY <1>2, <1>3, <1>4, <1>5, <1>6, StoreSteps

LEMMA ExactlyNext ==
    ASSUME WorkerTypeOK, StoreTypeOK, WorkerTypeOK', StoreTypeOK', LinkedIdle, OneRow, Covers, Exactly,
           [StoreNext]_allVars
    PROVE  Covers' /\ Exactly'
<1>0. mishaps \subseteq mishaps' /\ (Regular' => Regular /\ ~ Dies /\ faults' = 0)
  BY StoreHistory DEF Regular, Undisturbed
<1>1. ASSUME mishaps' \cap {"copied", "twice", "late"} = {}
      PROVE  Excess' >= 0 /\ (Regular' => Excess' = 0)
  <2>1. Excess' >= Excess /\ (Regular' => Excess' = Excess)
    BY <1>1, StoreCounts
  <2>2. Excess \in Int /\ Excess' \in Int
    <3>1. refer \in Int /\ refer' \in Int
      BY DEF StoreTypeOK
    <3>2. linked' \subseteq Clients /\ Linking' \subseteq Clients /\ Deducting' \subseteq Jobs
      BY DEF WorkerTypeOK, Linking, Deducting
    <3>3. Cardinality(linked') \in Nat /\ Cardinality(Linking') \in Nat
          /\ Cardinality(Deducting') \in Nat
      BY <3>2, FiniteClients, FiniteJobs
    <3> QED
      BY <3>1, <3>3, CountsAreNat DEF Excess, Counted, Linking, Deducting
  <2> QED
    BY <1>0, <1>1, <2>1, <2>2 DEF Covers, Exactly
<1>2. ASSUME Regular', NEW d \in Jobs, job'[d] = "remove" PROVE todo'[d] > 0
  <2> USE DEF StoreTypeOK
  <2>0. Regular /\ ~ Dies /\ \A op : ~ Fails(op)
    BY <1>0, <1>2, UploadAssumption DEF Fails, WorkerTypeOK
  <2>1. CASE UNCHANGED <<job, todo>>
    BY <1>2, <2>0, <2>1 DEF Exactly
  <2>2. ASSUME NEW j \in Jobs, Job(j) PROVE todo'[d] > 0
    <3> USE DEF Advance, Finish, Begin
    <3>1. CASE DeleteRefer(j)
      BY <1>2, <2>0, <3>1 DEF DeleteRefer, Exactly
    <3>2. CASE job' = [job EXCEPT ![j] = job'[j]] /\ todo' = [todo EXCEPT ![j] = todo'[j]] /\ job'[j] # "remove"
      BY <1>2, <2>0, <3>2 DEF Exactly
    <3>3. CASE DeleteRows(j)
      BY <3>2, <3>3 DEF DeleteRows
    <3>4. CASE DeleteSlices(j)
      BY <3>2, <3>4 DEF DeleteSlices
    <3>5. CASE \/ \E paths \in {{"saved"}, {"copy"}, Places} : DeleteSelect(j, paths)
               \/ Purge(j) \/ CopySelect(j) \/ CopyInsert(j)
               \/ CancelSelect(j) \/ CancelSlices(j) \/ CancelForget(j)
               \/ \E s \in 0 .. m_count : DownloadRow(j, s)
               \/ DownloadContent(j) \/ DownloadPoint(j) \/ DownloadOpen(j)
      <4>1. job' = [job EXCEPT ![j] = job'[j]] /\ job'[j] # "remove"
        BY <2>0, <3>5 DEF DeleteSelect, Purge, CopySelect, CopyInsert, CancelSelect, CancelSlices,
           CancelForget, DownloadRow, DownloadContent, DownloadPoint, DownloadOpen, Deliver
      <4>2. todo' = [todo EXCEPT ![j] = todo'[j]]
        BY <2>0, <3>5 DEF DeleteSelect, Purge, CopySelect, CopyInsert, CancelSelect, CancelSlices,
           CancelForget, DownloadRow, DownloadContent, DownloadPoint, DownloadOpen, Deliver
      <4> QED
        BY <3>2, <4>1, <4>2
    <3> QED
      BY <2>2, <3>1, <3>3, <3>4, <3>5 DEF Job
  <2> QED
    BY <2>0, <2>1, <2>2, StoreSteps DEF allVars, storeVars, jobVars, UploadStep, OpenRemoved, WriteRemoved
<1>3. Regular' => mishaps' \cap {"copied", "twice", "late"} = {}
  BY DEF Regular
<1> QED
  BY <1>1, <1>2, <1>3 DEF Covers, Exactly

\* PurgedInTime without the exactness: whoever took the last reference has still
\* to execute the DELETE.
PurgeDue ==
    (Regular /\ registered /\ refer = 0) =>
        \E j \in Jobs : job[j] \in {"refer", "remove", "purge"}

LEMMA PurgeDueNext ==
    ASSUME WorkerTypeOK, StoreTypeOK, LinkedIdle, OneRow, Covers, Exactly, PurgeDue,
           [StoreNext]_allVars
    PROVE  PurgeDue'
<1> USE DEF StoreTypeOK
<1> SUFFICES ASSUME Regular', registered', refer' = 0
             PROVE  \E d \in Jobs : job'[d] \in {"refer", "remove", "purge"}
  BY DEF PurgeDue
<1>0. Regular /\ ~ Dies /\ \A op : ~ Fails(op)
  BY StoreHistory, UploadAssumption DEF Fails, WorkerTypeOK, Regular, Undisturbed
<1>1. CASE refer = 0 /\ registered /\ UNCHANGED job
  BY <1>0, <1>1 DEF PurgeDue
<1>2. ASSUME NEW j \in Jobs, Job(j), JobEffect(j)
      PROVE  \E d \in Jobs : job'[d] \in {"refer", "remove", "purge"}
  <2> USE DEF Advance, Finish, Begin
  <2>1. CASE DeleteRefer(j)
    BY <2>1 DEF DeleteRefer
  <2>2. CASE DeleteSlices(j)
    <3>1. todo[j] > 0 /\ job[j] = "remove"
      BY <1>0, <2>2 DEF DeleteSlices, Exactly
    <3> QED
      BY <2>2, <3>1 DEF DeleteSlices
  <2>3. ~ Purge(j) \/ refer # 0
    <3>1. \A c \in Clients : copies[c] = 0
      BY <1>0 DEF OneRow, Regular
    <3>2. linked # {} => refer # 0
      BY <1>0, CoversRow DEF Regular
    <3>3. ~ \E c \in Clients : copies[c] > 0
      BY <3>1
    <3>4. Purge(j) => \/ registered' = (registered /\ refer # 0)
                      \/ linked # {} \/ \E c \in Clients : copies[c] > 0
      BY <1>0 DEF Purge
    <3> QED
      BY <3>2, <3>3, <3>4
  <2>4. CASE ~ DeleteRefer(j) /\ ~ DeleteSlices(j)
    <3>1. refer' = refer /\ registered
      BY <1>2, <2>4 DEF Job, DeleteSelect, DeleteRows, Purge, CopySelect, CopyInsert, CancelSelect,
         CancelSlices, CancelForget, DownloadRow, DownloadContent, DownloadPoint, DownloadOpen,
         Dies, ServerRestart, vars, dbVars
    <3>2. PICK d \in Jobs : job[d] \in {"refer", "remove", "purge"}
      BY <1>0, <3>1 DEF PurgeDue
    <3>3. d # j
      BY <1>0, <1>2, <2>3, <2>4, <3>1, <3>2 DEF Job, DeleteSelect, DeleteRows, CopySelect, CopyInsert,
         CancelSelect, CancelSlices, CancelForget, DownloadRow, DownloadContent, DownloadPoint,
         DownloadOpen, DeleteRefer, DeleteSlices
    <3>4. job'[d] = job[d]
      BY <1>0, <1>2, <3>3 DEF Job, DeleteSelect, DeleteRows, DeleteRefer, DeleteSlices, Purge, CopySelect,
         CopyInsert, CancelSelect, CancelSlices, CancelForget, DownloadRow, DownloadContent,
         DownloadPoint, DownloadOpen, Deliver
    <3> QED
      BY <3>2, <3>4
  <2> QED
    BY <2>1, <2>2, <2>4
<1>3. ASSUME NEW c \in Clients, UploadStep(c), Turn(c)
      PROVE  \E d \in Jobs : job'[d] \in {"refer", "remove", "purge"}
  <2>1. refer >= 0
    BY <1>0, CoversRow DEF Regular
  <2>2. ~ (refer' = refer + 1) /\ ~ (refer' = 1)
    BY <2>1
  <2>3. refer' = refer /\ registered' = registered
    BY <1>3, <2>2, TurnRefer
  <2> QED
    BY <1>1, <1>3, <2>3 DEF UploadStep, jobVars
<1>4. ASSUME NEW c \in Clients, OpenRemoved(c) \/ WriteRemoved(c)
      PROVE  \E d \in Jobs : job'[d] \in {"refer", "remove", "purge"}
  BY <1>1, <1>4 DEF OpenRemoved, WriteRemoved, dbVars, jobVars
<1>5. CASE UNCHANGED allVars
  BY <1>1, <1>5 DEF allVars, vars, dbVars, storeVars, jobVars
<1> QED
  BY <1>0, <1>2, <1>3, <1>4, <1>5, StoreSteps

LEMMA StoreInitCounts == StoreInit => LinkedIdle /\ OneRow /\ Covers /\ Exactly /\ PurgeDue
<1> SUFFICES ASSUME StoreInit PROVE LinkedIdle /\ OneRow /\ Covers /\ Exactly /\ PurgeDue
  OBVIOUS
<1>1. /\ linked = {} /\ refer = 0 /\ registered = FALSE
      /\ {c \in Clients : step[c] = "link"} = {} /\ {j \in Jobs : job[j] = "refer"} = {}
  BY DEF StoreInit, UploadInit
<1>2. Excess = 0
  BY <1>1, FS_EmptySet DEF Excess, Counted
<1> QED
  BY <1>1, <1>2 DEF StoreInit, UploadInit, LinkedIdle, OneRow, Covers, Exactly, PurgeDue

LEMMA StoreCountsInvariant ==
    StoreSpec => [](StoreTypeOK /\ WorkerTypeOK /\ LinkedIdle /\ OneRow /\ Covers /\ Exactly /\ PurgeDue)
<1> DEFINE Types == StoreTypeOK /\ WorkerTypeOK
           Inv == LinkedIdle /\ OneRow /\ Covers /\ Exactly /\ PurgeDue
<1>1. Types /\ Types' /\ Inv /\ [StoreNext]_allVars => Inv'
  BY LinkedIdleNext, OneRowNext, ExactlyNext, PurgeDueNext
<1>2. StoreInit => Inv
  BY StoreInitCounts
<1>3. Types /\ Inv => StoreTypeOK /\ WorkerTypeOK /\ LinkedIdle /\ OneRow /\ Covers /\ Exactly /\ PurgeDue
  OBVIOUS
<1> HIDE DEF Inv
<1>4. StoreSpec => []Types
  BY StoreTypeCorrect, StoreWorkerInvariant, PTL
<1> QED
  BY <1>1, <1>2, <1>3, <1>4, PTL DEF StoreSpec

\* While nothing is copied, no row is deleted for two deletions and no upload comes
\* after the purge, refer covers the rows that users have, and these have a row in
\* files to refer to.
THEOREM ReferAlwaysCovers == StoreSpec => []ReferCovers
<1>1. StoreTypeOK /\ WorkerTypeOK /\ LinkedIdle /\ OneRow /\ Covers /\ Exactly /\ PurgeDue => ReferCovers
  <2> SUFFICES ASSUME StoreTypeOK, WorkerTypeOK, LinkedIdle, Covers, mishaps \cap {"copied", "twice", "late"} = {}
               PROVE  Counted(linked) <= refer /\ (linked # {} => registered)
    BY DEF ReferCovers
  <2>1. refer \in Int /\ Counted(linked) \in Int
    BY CountsAreNat DEF StoreTypeOK, Counted, Linking, Deducting
  <2> QED
    BY <2>1, CoversRow DEF Covers, Excess
<1> QED
  BY <1>1, StoreCountsInvariant, PTL

\* Until something goes wrong refer is exact beside deletions, and whoever took
\* the last reference is about to remove the row.
THEOREM AlwaysPurgedInTime == StoreSpec => []PurgedInTime
<1>1. StoreTypeOK /\ WorkerTypeOK /\ LinkedIdle /\ OneRow /\ Covers /\ Exactly /\ PurgeDue => PurgedInTime
  <2> SUFFICES ASSUME StoreTypeOK, WorkerTypeOK, Exactly, PurgeDue, Regular, registered
               PROVE  /\ refer = Counted(linked)
                      /\ refer = 0 => \E j \in Jobs : job[j] \in {"refer", "remove", "purge"}
    BY DEF PurgedInTime, Regular
  <2>1. refer \in Int /\ Counted(linked) \in Int
    BY CountsAreNat DEF StoreTypeOK, Counted, Linking, Deducting
  <2> QED
    BY <2>1 DEF Exactly, Excess, PurgeDue
<1> QED
  BY <1>1, StoreCountsInvariant, PTL

-----------------------------------------------------------------------------
(* A download finds its slice.                                              *)

Fetching(j) == job[j] \in {"point", "open"}

\* While nothing is removed the uploads keep what they keep without deletions, and
\* a download that has seen the row in files has all slices to choose from.
SlicesServed ==
    (Undisturbed /\ mishaps = {}) =>
        /\ orphan = {} /\ MarksKept /\ AllKept
        /\ (\E j \in Jobs : Fetching(j)) => \A s \in Slices : Kept(s)
        /\ \A j \in Jobs : job[j] = "open" => want[j] < m_count

LEMMA StoreInCall ==
    ASSUME WorkerTypeOK, StoreTypeOK, InCall, [StoreNext]_allVars
    PROVE  InCall'
<1> USE DEF WorkerTypeOK, StoreTypeOK, TaskTypeOK
<1>1. CASE UNCHANGED allVars
  BY <1>1 DEF allVars, vars, taskVars, requestVars, InCall
<1>2. CASE Dies
  BY <1>2, RestartForgets DEF Dies
<1>3. ASSUME NEW j \in Jobs, JobEffect(j) PROVE InCall'
  BY <1>3 DEF JobEffect, taskVars, requestVars, InCall
<1>4. ASSUME NEW c \in Clients, Turn(c) PROVE InCall'
  BY <1>4, TurnInCall
<1>5. ASSUME NEW c \in Clients, OpenRemoved(c) \/ WriteRemoved(c) PROVE InCall'
  <2>1. call[c] = "none" /\ call' = call /\ slice' = slice
    BY <1>5 DEF OpenRemoved, WriteRemoved, taskVars, Calls, InCall
  <2>2. \A d \in Clients \ {c} : step'[d] = step[d] /\ m_slice_id'[d] = m_slice_id[d]
    BY <1>5 DEF OpenRemoved, WriteRemoved, Error, Reply, Goto
  <2> QED
    BY <2>1, <2>2 DEF InCall
<1> QED
  BY <1>1, <1>2, <1>3, <1>4, <1>5, StoreSteps

LEMMA SlicesServedNext ==
    ASSUME WorkerTypeOK, StoreTypeOK, TaskTypeOK', InCall, SlicesServed, [StoreNext]_allVars
    PROVE  SlicesServed'
<1> SUFFICES ASSUME Undisturbed', mishaps' = {} PROVE SlicesServed'
  BY DEF SlicesServed
<1>0. /\ Undisturbed /\ mishaps = {} /\ ~ Dies /\ faults' = 0 /\ faults = 0
      /\ orphan = {} /\ MarksKept /\ AllKept
      /\ TaskTypeOK /\ m_count' = m_count /\ Slices' = Slices
  BY StoreHistory, StoreSameFile DEF SlicesServed, Undisturbed, StoreTypeOK
<1>1. CASE UNCHANGED allVars
  BY <1>0, <1>1 DEF allVars, vars, storeVars, taskVars, requestVars, dbVars, counters, jobVars,
     SlicesServed, Fetching, MarksKept, AllKept, SawLast, Kept, Writing, Undisturbed
<1>2. ASSUME NEW j \in Jobs, Job(j), JobEffect(j) PROVE SlicesServed'
  <2>1. UNCHANGED <<disk, orphan>> /\ (registered' => registered)
    <3>0. ~ RemoveSlices
      BY <1>0 DEF RemoveSlices
    <3>a. disk' = disk
      BY <1>2, <3>0 DEF JobEffect
    <3>b. registered \in BOOLEAN /\ registered' \in BOOLEAN
      BY StoreWorkerType DEF StoreTypeOK, UserOK, WorkerTypeOK
    <3>c. registered' => registered
      BY <1>2, <3>b DEF JobEffect
    <3>1. disk' = disk /\ (registered' => registered)
      BY <3>a, <3>c
    <3>2. orphan' = orphan
      BY <1>0, <1>2, <3>0 DEF Job, DeleteSelect, DeleteRows, DeleteRefer, DeleteSlices, Purge, CopySelect,
         CopyInsert, CancelSelect, CancelSlices, CancelForget, DownloadRow, DownloadContent,
         DownloadPoint, DownloadOpen
    <3> QED
      BY <3>1, <3>2
  <2>2. \A s : Kept(s) <=> Kept(s)'
    BY <1>2, <2>1 DEF JobEffect, requestVars, Kept, Writing
  <2>3. MarksKept' /\ AllKept'
    BY <1>0, <1>2, <2>1, <2>2 DEF JobEffect, taskVars, requestVars, MarksKept, AllKept, SawLast
  <2>4. \A d \in Jobs : Fetching(d)' => Fetching(d) \/ registered
    <3>1. \A d \in Jobs \ {j} : job'[d] = job[d]
      BY <1>0, <1>2 DEF Job, DeleteSelect, DeleteRows, DeleteRefer, DeleteSlices, Purge, CopySelect,
         CopyInsert, CancelSelect, CancelSlices, CancelForget, DownloadRow, DownloadContent,
         DownloadPoint, DownloadOpen, Deliver, Begin, Finish, Advance, StoreTypeOK
    <3>2. Fetching(j)' => DownloadContent(j) \/ DownloadPoint(j)
      BY <1>0, <1>2 DEF Job, DeleteSelect, DeleteRows, DeleteRefer, DeleteSlices, Purge, CopySelect,
         CopyInsert, CancelSelect, CancelSlices, CancelForget, DownloadRow,
         DownloadOpen, Begin, Finish, Advance, Fetching, StoreTypeOK
    <3>3. DownloadContent(j) /\ Fetching(j)' => registered
      BY <1>0 DEF DownloadContent, Finish, Advance, Fetching, StoreTypeOK
    <3>4. DownloadPoint(j) => Fetching(j)
      BY DEF DownloadPoint, Fetching
    <3> QED
      BY <3>1, <3>2, <3>3, <3>4 DEF Fetching
  <2>5. (\E d \in Jobs : Fetching(d)') => \A s \in Slices : Kept(s)'
    BY <1>0, <2>2, <2>4 DEF SlicesServed, AllKept
  <2>6. ASSUME NEW d \in Jobs, job'[d] = "open" PROVE want'[d] < m_count
    <3>1. CASE job[d] = "open" /\ want'[d] = want[d]
      BY <1>0, <3>1 DEF SlicesServed
    <3>2. CASE d # j
      BY <1>0, <1>2, <2>6, <3>1, <3>2 DEF Job, DeleteSelect, DeleteRows, DeleteRefer, DeleteSlices, Purge,
         CopySelect, CopyInsert, CancelSelect, CancelSlices, CancelForget, DownloadRow, DownloadContent,
         DownloadPoint, DownloadOpen, Deliver, Begin, Finish, Advance, StoreTypeOK
    <3>3. CASE d = j
      <4>1. Deliver(j) /\ want' = want
        BY <1>0, <1>2, <2>6, <3>3 DEF Job, DeleteSelect, DeleteRows, DeleteRefer, DeleteSlices, Purge,
           CopySelect, CopyInsert, CancelSelect, CancelSlices, CancelForget, DownloadRow, DownloadContent,
           DownloadPoint, DownloadOpen, Deliver, Begin, Finish, Advance, StoreTypeOK
      <4>2. ~ (want[j] >= m_count)
        BY <2>6, <3>3, <4>1 DEF Deliver, Finish, Advance, StoreTypeOK
      <4> QED
        BY <3>3, <4>1, <4>2, TaskAssumption DEF StoreTypeOK, TaskTypeOK
    <3> QED
      BY <3>2, <3>3
  <2> QED
    BY <1>0, <2>1, <2>3, <2>5, <2>6 DEF SlicesServed
<1>3. ASSUME NEW c \in Clients, UploadStep(c), Turn(c) PROVE SlicesServed'
  <2>1. MarksKept' /\ AllKept'
    BY <1>0, <1>3, TurnMarksKept, TurnAllKept
  <2>2. orphan' = {} /\ UNCHANGED <<job, want>>
    BY <1>0, <1>3 DEF UploadStep, jobVars
  <2>3. (\E d \in Jobs : Fetching(d)') => \A s \in Slices : Kept(s)'
    <3>1. (\E d \in Jobs : Fetching(d)) => \A s \in Slices : Kept(s)
      BY <1>0 DEF SlicesServed
    <3>2. \A s \in Slices : Kept(s) => Kept(s)'
      BY <1>0, <1>3, TurnKeeps
    <3> QED
      BY <2>2, <3>1, <3>2 DEF Fetching
  <2> QED
    BY <1>0, <2>1, <2>2, <2>3 DEF SlicesServed
<1>4. ASSUME NEW c \in Clients PROVE ~ OpenRemoved(c) /\ ~ WriteRemoved(c)
  BY <1>0 DEF OpenRemoved, WriteRemoved
<1> QED
  BY <1>0, <1>1, <1>2, <1>3, <1>4, StoreSteps

\* A download that saw the file's row finds the slice whose file it opens, whole
\* unless somebody is writing it (again).
THEOREM AlwaysServedWhole == StoreSpec => []ServedWhole
<1> DEFINE Types == StoreTypeOK /\ WorkerTypeOK
           Inv == InCall /\ SlicesServed
<1>1. StoreInit => Inv
  BY DEF StoreInit, UploadInit, TaskInit, InCall, SlicesServed, Fetching, MarksKept, AllKept, SawLast
<1>2. Types /\ Types' /\ Inv /\ [StoreNext]_allVars => Inv'
  BY StoreInCall, SlicesServedNext DEF StoreTypeOK
<1>3. Types /\ Inv => ServedWhole
  BY TaskAssumption DEF StoreTypeOK, TaskTypeOK, SlicesServed, Fetching, Kept, Slices, ServedWhole
<1> HIDE DEF Inv
<1>4. StoreSpec => []Types
  BY StoreTypeCorrect, StoreWorkerInvariant, PTL
<1> QED
  BY <1>1, <1>2, <1>3, <1>4, PTL DEF StoreSpec
=============================================================================

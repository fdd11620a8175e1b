------------------------------ MODULE TaskPool ------------------------------
(***************************************************************************)
(* The upload tasks of the server: taskpool/task.cpp and taskpool.cpp,     *)
(* for one file (one key of TASKPOOL::m_q).  Worker threads call AddTask,  *)
(* GetSlice and RecvTask concurrently; a step is what the code does        *)
(* between two points where another thread can interfere (the critical     *)
(* section of a lock, or a lookup made outside any lock).                  *)
(*                                                                         *)
(* A thread that looked the task up holds a pointer to that taskque        *)
(* object (variable task), also when another thread meanwhile stores a new *)
(* object under the same key: nothing in the program ever frees one.       *)
(* What a call returns is a parameter of the action that returns it.       *)
(***************************************************************************)
EXTENDS Integers, Sequences, FiniteSets

CONSTANTS
    Clients,      \* connections whose requests are served, one worker each
    Objects,      \* room for the taskque objects AddTask allocates
    NoTask,       \* the key is not in m_q (also: no pointer held)
    MaxCount,     \* bound on the slices of the file
    SLICE_SIZE    \* bytes in a slice

ASSUME TaskAssumption ==
    /\ IsFiniteSet(Clients)
    /\ MaxCount \in Nat
    /\ SLICE_SIZE \in Nat /\ SLICE_SIZE > 1
    /\ NoTask \notin Objects

VARIABLES
    m_count,    \* the slices of the file: m_count of each of its tasks
    m_q,        \* the taskque the map holds for the file, or NoTask
    heap,       \* taskque objects allocated so far
    m_assign,   \* of each object: the queue of slices to hand out
    m_rec,      \* of each object: the set of slices received
    call,       \* of each worker: the point it reached inside a call
    task,       \* of each worker: the object it looked up
    slice       \* of each worker: the slice it passed to RecvTask

taskVars == <<m_count, m_q, heap, m_assign, m_rec, call, task, slice>>

Slices == 0 .. m_count - 1
Entries == -1 .. m_count - 1      \* an empty task queues -1 (task.cpp:18,27)
Calls == {"none", "create", "get", "insert", "size"}

-----------------------------------------------------------------------------
\* taskque(t_size, type, name): slices 0, 1, ... in order, none received.
NewAssign == [i \in 1 .. m_count |-> i - 1]

\* Where GetSlice stops popping: at the first slice not received, or at the
\* last entry when all of them were.
Stop(q, r) == {k \in 1 .. Len(q) :
                  /\ \A i \in 1 .. k - 1 : q[i] \in r
                  /\ q[k] \in r => k = Len(q)}

RotateWithoutPush(q, k) == SubSeq(q, k + 1, Len(q))
RotateToFront(q, k) == <<q[k]>> \o SubSeq(q, k + 1, Len(q))
\* The popped entries are gone, the one handed out goes to the back.
Rotate(q, k) == Append(SubSeq(q, k + 1, Len(q)), q[k])

Enter(c, point, o) == /\ call[c] = "none"
                      /\ call' = [call EXCEPT ![c] = point]
                      /\ task' = [task EXCEPT ![c] = o]

Leave(c) == /\ call' = [call EXCEPT ![c] = "none"]
            /\ task' = [task EXCEPT ![c] = NoTask]

-----------------------------------------------------------------------------
TaskInit ==
    /\ m_count \in 0 .. MaxCount
    /\ m_q = NoTask
    /\ heap = {}
    /\ m_assign = [o \in Objects |-> <<>>]
    /\ m_rec = [o \in Objects |-> {}]
    /\ call = [c \in Clients |-> "none"]
    /\ task = [c \in Clients |-> NoTask]
    /\ slice = [c \in Clients |-> 0]

\* AddTask finds no task: it will create one.  (When it finds one it returns
\* and nothing changes.)  The lookup holds no lock.
AddTask(c) ==
    /\ m_q = NoTask
    /\ Enter(c, "create", NoTask)
    /\ UNCHANGED <<m_count, m_q, heap, m_assign, m_rec, slice>>

\* The critical section of AddTask: whatever m_q holds by now is replaced.
CreateTask(c) ==
    /\ call[c] = "create"
    /\ \E o \in Objects \ heap :
         /\ heap' = heap \cup {o}
         /\ m_q' = o
         /\ m_assign' = [m_assign EXCEPT ![o] = NewAssign]
         /\ m_rec' = [m_rec EXCEPT ![o] = {}]
    /\ Leave(c)
    /\ UNCHANGED <<m_count, slice>>

\* TASKPOOL::GetSlice finds the task and calls its GetSlice.
GetSlice(c) ==
    /\ m_q # NoTask
    /\ Enter(c, "get", m_q)
    /\ UNCHANGED <<m_count, m_q, heap, m_assign, m_rec, slice>>

\* taskque::GetSlice under its lock; it returns an offset in bytes.
TakeSlice(c, offset) ==
    LET o == task[c]
        q == m_assign[o]
    IN  /\ call[c] = "get"
        /\ \/ /\ q = <<>>
              /\ offset = -SLICE_SIZE
              /\ m_assign' = [m_assign EXCEPT ![o] = <<-1>>]
           \/ \E k \in Stop(q, m_rec[o]) :
              /\ offset = q[k] * SLICE_SIZE
              /\ m_assign' = [m_assign EXCEPT ![o] = Rotate(q, k)]
        /\ Leave(c)
        /\ UNCHANGED <<m_count, m_q, heap, m_rec, slice>>

\* TASKPOOL::RecvTask finds the task and calls its RecvTask.
RecvTask(c, s) ==
    /\ m_q # NoTask
    /\ Enter(c, "insert", m_q)
    /\ slice' = [slice EXCEPT ![c] = s]
    /\ UNCHANGED <<m_count, m_q, heap, m_assign, m_rec>>

\* The critical section of taskque::RecvTask.
InsertSlice(c) ==
    /\ call[c] = "insert"
    /\ m_rec' = [m_rec EXCEPT ![task[c]] = @ \cup {slice[c]}]
    /\ call' = [call EXCEPT ![c] = "size"]
    /\ UNCHANGED <<m_count, m_q, heap, m_assign, task, slice>>

CompareSizeOffBy(c, status, n) ==
    /\ call[c] = "size"
    /\ status = IF Cardinality(m_rec[task[c]]) = m_count + n
                THEN "MERGE_SUCCESS" ELSE "RECVING"
    /\ Leave(c)
    /\ slice' = [slice EXCEPT ![c] = 0]
    /\ UNCHANGED <<m_count, m_q, heap, m_assign, m_rec>>
CompareSizeEarly(c, status) == CompareSizeOffBy(c, status, -1)
CompareSizeLate(c, status) == CompareSizeOffBy(c, status, 1)
\* After the lock is released m_rec.size() is compared with m_count.
CompareSize(c, status) ==
    /\ call[c] = "size"
    /\ status = IF Cardinality(m_rec[task[c]]) = m_count
                THEN "MERGE_SUCCESS" ELSE "RECVING"
    /\ Leave(c)
    /\ slice' = [slice EXCEPT ![c] = 0]
    /\ UNCHANGED <<m_count, m_q, heap, m_assign, m_rec>>

\* The process ends and is started again: the tasks were only in memory.
\* (heap, m_assign and m_rec start afresh as Objects are allocated again.)
Restart ==
    /\ UNCHANGED m_count
    /\ m_q' = NoTask
    /\ heap' = {}
    /\ m_assign' = [o \in Objects |-> <<>>]
    /\ m_rec' = [o \in Objects |-> {}]
    /\ call' = [c \in Clients |-> "none"]
    /\ task' = [c \in Clients |-> NoTask]
    /\ slice' = [c \in Clients |-> 0]

Offsets == {s * SLICE_SIZE : s \in Entries}
Statuses == {"MERGE_SUCCESS", "RECVING"}

TaskStep(c) ==
    \/ AddTask(c) \/ CreateTask(c)
    \/ GetSlice(c) \/ \E offset \in Offsets : TakeSlice(c, offset)
    \/ \E s \in Slices : RecvTask(c, s)
    \/ InsertSlice(c) \/ \E status \in Statuses : CompareSize(c, status)

TaskNext == Restart \/ \E c \in Clients : TaskStep(c)

TaskSpec == TaskInit /\ [][TaskNext]_taskVars

-----------------------------------------------------------------------------
\* The type invariant; inside taskque code a worker holds the object it looked
\* up and, in RecvTask, a slice of the file.
TaskTypeOK ==
    /\ m_count \in 0 .. MaxCount
    /\ m_q \in heap \cup {NoTask}
    /\ heap \subseteq Objects
    /\ m_assign \in [Objects -> Seq(Entries)]
    /\ m_rec \in [Objects -> SUBSET Slices]
    /\ call \in [Clients -> Calls]
    /\ task \in [Clients -> heap \cup {NoTask}]
    /\ slice \in [Clients -> Slices \cup {0}]
    /\ \A c \in Clients :
         /\ call[c] \in {"get", "insert", "size"} => task[c] \in heap
         /\ call[c] = "insert" => slice[c] \in Slices

\* However the workers interleave, no slice is lost: GetSlice throws popped
\* entries away (task.cpp:20-27), yet a slice that was not received is still
\* queued, so it will be asked for again when a client that was told to send
\* it leaves (requirement: users may join and leave an upload).
NoSliceForgotten ==
    \A o \in heap : \A s \in Slices \ m_rec[o] :
        \E k \in DOMAIN m_assign[o] : m_assign[o][k] = s

\* ... and it is queued only once, so the rounds stay fair.
QueuedOnce ==
    \A o \in heap : \A i, j \in DOMAIN m_assign[o] :
        m_assign[o][i] = m_assign[o][j] => i = j

\* The entries in front of slice s in the queue of object o.
Ahead(o, s) == {m_assign[o][i] : i \in
                  {i \in DOMAIN m_assign[o] :
                     \A j \in 1 .. i : m_assign[o][j] # s}}

\* Round robin (task.cpp:27): every call of GetSlice that does not hand out a
\* missing slice brings it strictly closer to its turn, so each missing slice
\* is asked for within m_count calls whatever the other clients do.
RoundStep ==
    \A c \in Clients, s \in Slices, o \in Objects :
      /\ task[c] = o
      /\ \E offset \in Offsets \ {s * SLICE_SIZE} : TakeSlice(c, offset)
      /\ s \notin m_rec[o]
      => /\ Ahead(o, s)' \subseteq Ahead(o, s)
         /\ Ahead(o, s)' # Ahead(o, s)
RoundRobin == [][RoundStep]_taskVars

\* GetSlice asks again for a slice already received only when none is missing
\* (the loop at task.cpp:20-26 searches the whole queue first).
MissingFirst ==
    [][\A c \in Clients, s \in Slices :
         TakeSlice(c, s * SLICE_SIZE) /\ s \in m_rec[task[c]]
            => m_rec[task[c]] = Slices]_taskVars
=============================================================================

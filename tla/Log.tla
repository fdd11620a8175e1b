--------------------------------- MODULE Log --------------------------------
(***************************************************************************)
(* Log: write_log, called by all threads, the flush thread                 *)
(* (async_write_log), and the rotation of the files by day and by number   *)
(* of lines.  Each critical section of m_mutex is a step; between them, and *)
(* between full() and push(), other threads run.                           *)
(*                                                                         *)
(* A line is the pair of its writer and its number.  Its text goes through *)
(* m_buf in one critical section and is left out, as is fflush.            *)
(***************************************************************************)
EXTENDS BlockQueue, FiniteSets

CONSTANTS
    Writers,     \* the threads that log
    MaxLines,    \* bound on the number of lines of each
    Split,       \* m_split_lines
    MaxDays      \* bound on the number of midnights

ASSUME LogAssumption ==
    /\ IsFiniteSet(Writers)
    /\ MaxLines \in Nat /\ Split \in Nat \ {0} /\ MaxDays \in Nat
    /\ Items = Writers \X (1 .. MaxLines)

VARIABLES
    m_is_async,
    m_count, m_today,
    clock,         \* the day
    at,            \* where each writer is in write_log
    my_tm,         \* the day that it read from the clock
    sent,          \* the number of lines it has begun
    flusher,       \* where the flush thread is: in pop, or about to write
    single_log,    \* the line it popped
    file,          \* history: the lines written
    inFile,        \* history: how many of them since the open file was opened
    rivals,        \* history: another line was queued since the writer called full()
    lost           \* history: the lines that push refused

writerVars == <<at, my_tm, sent, rivals>>
fileVars == <<m_count, m_today, inFile>>
vars == <<queueVars, writerVars, fileVars, m_is_async, clock, flusher, single_log, file, lost>>

LogInit ==
    /\ QueueInit
    /\ m_is_async \in BOOLEAN
    /\ m_count = 0 /\ m_today = 0 /\ inFile = 0 /\ clock = 0
    /\ at = [w \in Writers |-> "idle"]
    /\ my_tm = [w \in Writers |-> 0]
    /\ sent = [w \in Writers |-> 0]
    /\ flusher = "pop" /\ single_log = NoItem
    /\ file = {}
    /\ rivals = [w \in Writers |-> FALSE]
    /\ lost = {}

Line(w) == <<w, sent[w]>>
Goto(w, next) == at' = [at EXCEPT ![w] = next]
Write(line, direct) == /\ file' = file \cup {[line |-> line, direct |-> direct]}
                       /\ inFile' = inFile + 1
                       /\ UNCHANGED <<m_count, m_today>>

\* gettimeofday and localtime, before any lock.
ReadClock(w) ==
    /\ at[w] = "idle" /\ sent[w] < MaxLines
    /\ my_tm' = [my_tm EXCEPT ![w] = clock]
    /\ sent' = [sent EXCEPT ![w] = @ + 1]
    /\ Goto(w, "count")
    /\ UNCHANGED <<queueVars, fileVars, rivals, m_is_async, clock, flusher, single_log, file, lost>>

CountDaysOnly(w) ==             \* no new file after m_split_lines lines
    /\ at[w] = "count"
    /\ IF m_today # my_tm[w]
       THEN m_today' = my_tm[w] /\ m_count' = 0 /\ inFile' = 0
       ELSE m_count' = m_count + 1 /\ UNCHANGED <<m_today, inFile>>
    /\ Goto(w, "check")
    /\ UNCHANGED <<queueVars, my_tm, sent, rivals, m_is_async, clock, flusher, single_log, file, lost>>
\* The first critical section: the line is counted, and a file opened when the
\* writer's day is not that of the open one, or after m_split_lines lines.
Count(w) ==
    /\ at[w] = "count"
    /\ IF m_today # my_tm[w]
       THEN m_today' = my_tm[w] /\ m_count' = 0 /\ inFile' = 0
       ELSE /\ m_count' = m_count + 1
            /\ inFile' = IF m_count' % Split = 0 THEN 0 ELSE inFile
            /\ UNCHANGED m_today
    /\ Goto(w, "check")
    /\ UNCHANGED <<queueVars, my_tm, sent, rivals, m_is_async, clock, flusher, single_log, file, lost>>

CheckNothing(w) ==              \* the line is queued without a look at full()
    /\ at[w] = "check"
    /\ Goto(w, IF m_is_async THEN "push" ELSE "write")
    /\ rivals' = [rivals EXCEPT ![w] = FALSE]
    /\ UNCHANGED <<queueVars, my_tm, sent, fileVars, m_is_async, clock, flusher, single_log, file, lost>>
Check(w) ==
    /\ at[w] = "check"
    /\ Goto(w, IF m_is_async /\ ~ full THEN "push" ELSE "write")
    /\ rivals' = [rivals EXCEPT ![w] = FALSE]
    /\ UNCHANGED <<queueVars, my_tm, sent, fileVars, m_is_async, clock, flusher, single_log, file, lost>>

\* What push returns is ignored.
Enqueue(w) ==
    /\ at[w] = "push"
    /\ \/ /\ push(Line(w)) /\ rivals' = [v \in Writers |-> rivals[v] \/ v # w]
          /\ UNCHANGED lost
       \/ /\ PushRefused /\ lost' = lost \cup {[line |-> Line(w), raced |-> rivals[w]]}
          /\ UNCHANGED rivals
    /\ Goto(w, "idle")
    /\ UNCHANGED <<my_tm, sent, fileVars, m_is_async, clock, flusher, single_log, file>>

\* The queue was full, or there is none: fputs by the writer itself.
WriteDirectly(w) ==
    /\ at[w] = "write"
    /\ Write(Line(w), TRUE)
    /\ Goto(w, "idle")
    /\ UNCHANGED <<queueVars, my_tm, sent, rivals, m_is_async, clock, flusher, single_log, lost>>

FlushPopNewest ==               \* the line is taken from the wrong end
    /\ m_is_async /\ flusher = "pop"
    /\ ~ waiting /\ m_size > 0
    /\ single_log' = m_array[m_back]
    /\ m_back' = (m_back - 1) % MaxSize /\ m_size' = m_size - 1
    /\ UNCHANGED <<m_array, m_front, waiting>>
    /\ flusher' = "write"
    /\ UNCHANGED <<writerVars, fileVars, m_is_async, clock, file, lost>>
FlushPop ==
    /\ m_is_async /\ flusher = "pop"
    /\ pop
    /\ single_log' = Popped
    /\ flusher' = "write"
    /\ UNCHANGED <<writerVars, fileVars, m_is_async, clock, file, lost>>

FlushWait ==
    /\ m_is_async /\ flusher = "pop"
    /\ PopWait \/ WakeSpuriously
    /\ UNCHANGED <<writerVars, fileVars, m_is_async, clock, flusher, single_log, file, lost>>

FlushWrite ==
    /\ flusher = "write"
    /\ Write(single_log, FALSE)
    /\ flusher' = "pop"
    /\ UNCHANGED <<queueVars, writerVars, m_is_async, clock, single_log, lost>>

Midnight ==
    /\ clock < MaxDays
    /\ clock' = clock + 1
    /\ UNCHANGED <<queueVars, writerVars, fileVars, m_is_async, flusher, single_log, file, lost>>

WriteLog(w) == ReadClock(w) \/ Count(w) \/ Check(w) \/ Enqueue(w) \/ WriteDirectly(w)
FlushThread == FlushPop \/ FlushWait \/ FlushWrite

LogNext == FlushThread \/ Midnight \/ \E w \in Writers : WriteLog(w)

\* The flush thread is scheduled; nobody has to log anything.
LogSpec == LogInit /\ [][LogNext]_vars /\ WF_vars(FlushPop) /\ WF_vars(FlushWrite)

-----------------------------------------------------------------------------
Begun == {l \in Items : l[2] <= sent[l[1]]}
InHand == {Line(w) : w \in {v \in Writers : at[v] # "idle"}}
Lost == {l.line : l \in lost}
Written == {e.line : e \in file}

\* The number of places where a line is.
Copies(line) ==
    Cardinality({e \in file : e.line = line})
      + Cardinality({i \in DOMAIN Queue : Queue[i] = line})
      + Cardinality({x \in {"hand"} : line \in InHand})
      + Cardinality({x \in {"flusher"} : flusher = "write" /\ single_log = line})
      + Cardinality({x \in {"lost"} : line \in Lost})

\* A line is written once.  It is lost only when another writer took the last place
\* of the queue between this one's full() and its push(); one writer loses none.
LinesKept == /\ \A line \in Begun : Copies(line) = 1
             /\ \A l \in lost : l.raced

\* A writer's lines are in the file in the order in which it logged them, except for
\* those that it wrote itself because the queue, with older ones, was full.
LinesInOrder ==
    [][\A e \in file' \ file, d \in file :
         (d.line[1] = e.line[1] /\ ~ d.direct) => d.line[2] < e.line[2]]_vars

\* m_count counts the lines logged and not the ones written; still, from one
\* opening of a file to the next it gets no more than m_split_lines and what was
\* under way when it was opened: in the queue and in the hands of the threads.
FilesBounded == inFile <= Split + MaxSize + Cardinality(Writers)

\* The buffer and its waiting implement the queue that they are used as.
Fifo == INSTANCE Fifo WITH queue <- Queue, item <- single_log
ImplementsFifo == Fifo!FifoSpec

\* Every queued line is written in the end: no push leaves the flush thread waiting
\* with lines in the queue.
QueueDrains == m_size > 0 ~> (m_size = 0 /\ flusher = "pop")
=============================================================================

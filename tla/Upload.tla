------------------------------- MODULE Upload -------------------------------
(***************************************************************************)
(* Uploading one file: http_conn::uploadsingle_request and the functions   *)
(* it calls, run by the worker threads of several clients over the task    *)
(* pool (TaskPool), the tables files, user_file and file_breakpoint, and   *)
(* the directory of slices.  A client stands for one user uploading the    *)
(* file to one path.  Every SQL statement, file operation and call of the  *)
(* task pool is a step, since other workers run between any two of them.   *)
(*                                                                         *)
(* The client program is not in the repository.  It may send a first       *)
(* request ("u"), a progress request ("w") or the slice it was last asked  *)
(* for ("d") whenever it has no request pending, or disappear for ever;    *)
(* the Steady ones stay, and do what the last answer asked for.            *)
(***************************************************************************)
EXTENDS TaskPool

CONSTANTS
    Steady,       \* the clients that follow the protocol to the end
    Failing,      \* the calls that may fail: a subset of Calls that can
    MaxFaults,    \* bound on the number of failing calls
    MaxRestarts   \* bound on the number of restarts of the server

Fallible == {"select", "refer", "link", "clear", "insert", "save", "open", "write",
             "unlink", "unrefer", "purge", "copy", "forget", "point"}   \* the last six in FileStore

ASSUME UploadAssumption ==
    /\ Steady \subseteq Clients
    /\ Failing \subseteq Fallible
    /\ MaxFaults \in Nat /\ MaxRestarts \in Nat

VARIABLES
    step,        \* of each client's request: the statement to execute next
    kind,        \* what the request is: "u", "w" or "d"
    m_slice_id,  \* the slice a "d" request carries
    offset,      \* offset_begin, what GetSlice returned
    asked,       \* of each client: what the last answer told it to send
    registered,  \* whether files has a row for the file
    refer,       \* refer of that row; 0 when there is none
    linked,      \* the clients with a row in user_file
    breakpoint,  \* the clients with a row in file_breakpoint
    disk,        \* of each slice: its file under the file's directory
    faults,      \* failing calls so far
    restarts     \* restarts so far

dbVars == <<registered, refer, linked, breakpoint>>
requestVars == <<kind, m_slice_id, offset, asked>>
counters == <<faults, restarts>>
vars == <<taskVars, step, requestVars, dbVars, disk, counters>>

Done == -3          \* nothing: the file is linked to the client's path
Submit == -2        \* the first request, (again)
Wait == -1          \* a progress request
Steps == {"idle", "exist", "refer", "link", "add", "find", "mark", "open",
          "write", "recv", "clear", "insert", "assign", "progress", "save"}

UploadInit ==
    /\ TaskInit
    /\ step = [c \in Clients |-> "idle"]
    /\ kind = [c \in Clients |-> "u"]
    /\ m_slice_id = [c \in Clients |-> -1]
    /\ offset = [c \in Clients |-> -1]
    /\ asked = [c \in Clients |-> Submit]
    /\ registered = FALSE /\ refer = 0
    /\ linked = {}
    /\ breakpoint = {}
    /\ disk = [s \in Slices |-> "absent"]
    /\ faults = 0 /\ restarts = 0

-----------------------------------------------------------------------------
Goto(c, next) == step' = [step EXCEPT ![c] = next]

\* The request is answered, and its locals are dropped.
Reply(c, what) ==
    /\ Goto(c, "idle")
    /\ asked' = [asked EXCEPT ![c] = what]
    /\ kind' = [kind EXCEPT ![c] = "u"]
    /\ m_slice_id' = [m_slice_id EXCEPT ![c] = -1]
    /\ offset' = [offset EXCEPT ![c] = -1]

\* INTERNAL_ERROR or BAD_REQUEST: the client has to begin again.
Error(c) == Reply(c, Submit)

Works == UNCHANGED counters
Fails(op) == /\ op \in Failing /\ faults < MaxFaults
             /\ faults' = faults + 1 /\ UNCHANGED restarts

\* What the protocol asks a client to send after the last answer.
Expected(c) == CASE asked[c] \in {Submit, Done} -> "u" [] asked[c] = Wait -> "w" [] OTHER -> "d"

\* The client sends a request; a worker has read its header and username.
Send(c, k) ==
    /\ step[c] = "idle" /\ c \notin linked
    /\ k = "d" => asked[c] \in Slices
    /\ c \in Steady => k = Expected(c)
    /\ Goto(c, "exist")
    /\ kind' = [kind EXCEPT ![c] = k]
    /\ m_slice_id' = [m_slice_id EXCEPT ![c] = IF k = "d" THEN asked[c] ELSE -1]
    /\ UNCHANGED <<taskVars, offset, asked, dbVars, disk, counters>>

\* file_exist: a SELECT that fails is taken for a row (INTERNAL_ERROR is not 0).
Branch == [u |-> "add", w |-> "assign", d |-> "find"]
FileExist(c) ==
    /\ step[c] = "exist"
    /\ \/ Works /\ Goto(c, IF registered THEN "refer" ELSE Branch[kind[c]])
       \/ Fails("select") /\ Goto(c, "refer")
    /\ UNCHANGED <<taskVars, requestVars, dbVars, disk>>

UpdateReferUnchecked(c) ==      \* goes on to link when the UPDATE fails
    /\ step[c] = "refer"
    /\ Goto(c, "link")
    /\ \/ Works /\ refer' = IF registered THEN refer + 1 ELSE refer
       \/ Fails("refer") /\ UNCHANGED refer
    /\ UNCHANGED <<taskVars, requestVars, registered, linked, breakpoint, disk>>
\* insertfile_mysql(UPDATE_MYSQL): succeeds also when no row matches.
UpdateRefer(c) ==
    /\ step[c] = "refer"
    /\ \/ /\ Works /\ Goto(c, "link")
          /\ refer' = IF registered THEN refer + 1 ELSE refer
          /\ UNCHANGED requestVars
       \/ Fails("refer") /\ Error(c) /\ UNCHANGED refer
    /\ UNCHANGED <<taskVars, registered, linked, breakpoint, disk>>

InsertFileUpsert(c) ==          \* ON DUPLICATE KEY UPDATE refer = 1
    /\ step[c] = "insert"
    /\ \/ /\ Works /\ registered' = TRUE /\ refer' = 1
          /\ Goto(c, "link") /\ UNCHANGED requestVars
       \/ Fails("insert") /\ Error(c) /\ UNCHANGED <<registered, refer>>
    /\ UNCHANGED <<taskVars, linked, breakpoint, disk>>
\* insertfile_mysql(INSERT_MYSQL): the row's key may exist by now.
InsertFile(c) ==
    /\ step[c] = "insert"
    /\ \/ /\ Works /\ ~ registered /\ registered' = TRUE /\ refer' = 1
          /\ Goto(c, "link") /\ UNCHANGED requestVars
       \/ Works /\ registered /\ Error(c) /\ UNCHANGED <<registered, refer>>
       \/ Fails("insert") /\ Error(c) /\ UNCHANGED <<registered, refer>>
    /\ UNCHANGED <<taskVars, linked, breakpoint, disk>>

\* userfile_mysql: without a row in files a foreign key would refuse the row.
LinkFile(c) ==
    /\ step[c] = "link"
    /\ \/ Works /\ linked' = linked \cup {c} /\ Reply(c, Done)
       \/ Works /\ ~ registered /\ Error(c) /\ UNCHANGED linked
       \/ Fails("link") /\ Error(c) /\ UNCHANGED linked
    /\ UNCHANGED <<taskVars, registered, refer, breakpoint, disk>>

\* "u": create the upload's task if there is none.
Add(c) ==
    /\ step[c] = "add"
    /\ \/ AddTask(c) /\ UNCHANGED step
       \/ CreateTask(c) /\ Goto(c, "assign")
       \/ call[c] = "none" /\ m_q # NoTask /\ UNCHANGED taskVars /\ Goto(c, "assign")
    /\ UNCHANGED <<requestVars, dbVars, disk, counters>>

\* "d": a slice already received is not stored again.
FindSlice(c) ==
    /\ step[c] = "find"
    /\ Goto(c, IF m_q # NoTask /\ m_slice_id[c] \in m_rec[m_q] THEN "assign" ELSE "mark")
    /\ UNCHANGED <<taskVars, requestVars, dbVars, disk, counters>>

\* save_file first calls RecvTask, and ignores what it returns.
Mark(c) ==
    /\ step[c] = "mark"
    /\ \/ RecvTask(c, m_slice_id[c]) /\ UNCHANGED step
       \/ InsertSlice(c) /\ UNCHANGED step
       \/ \E status \in Statuses : CompareSize(c, status) /\ Goto(c, "open")
       \/ call[c] = "none" /\ m_q = NoTask /\ UNCHANGED taskVars /\ Goto(c, "open")
    /\ UNCHANGED <<requestVars, dbVars, disk, counters>>

OpenSliceOnly(c) ==             \* returns before the data is written
    /\ step[c] = "open"
    /\ Works /\ Goto(c, "recv")
    /\ disk' = [disk EXCEPT ![m_slice_id[c]] = "truncated"]
    /\ UNCHANGED <<taskVars, requestVars, dbVars>>
\* fopen(.., "w") empties the slice's file, whoever wrote it.
OpenSlice(c) ==
    /\ step[c] = "open"
    /\ \/ /\ Works /\ Goto(c, "write")
          /\ disk' = [disk EXCEPT ![m_slice_id[c]] = "truncated"]
          /\ UNCHANGED requestVars
       \/ Fails("open") /\ Error(c) /\ UNCHANGED disk
    /\ UNCHANGED <<taskVars, dbVars>>

\* fwrite, its result ignored, and fclose.  m_string now points at the data:
\* line 1244 reads its first byte, which may be a 'u'.
WriteSlice(c) ==
    /\ step[c] = "write"
    /\ \/ Works /\ disk' = [disk EXCEPT ![m_slice_id[c]] = "whole"]
       \/ Fails("write") /\ UNCHANGED disk
    /\ \E first \in {"d", "u"} : kind' = [kind EXCEPT ![c] = first]
    /\ Goto(c, "recv")
    /\ UNCHANGED <<taskVars, m_slice_id, offset, asked, dbVars>>

\* The second RecvTask of the request decides.
Receive(c) ==
    /\ step[c] = "recv"
    /\ \/ RecvTask(c, m_slice_id[c]) /\ UNCHANGED <<step, requestVars>>
       \/ InsertSlice(c) /\ UNCHANGED <<step, requestVars>>
       \/ /\ \E status \in Statuses :
               /\ CompareSize(c, status)
               /\ Goto(c, IF status = "MERGE_SUCCESS" THEN "clear" ELSE "assign")
          /\ UNCHANGED requestVars
       \/ call[c] = "none" /\ m_q = NoTask /\ UNCHANGED taskVars /\ Error(c)
    /\ UNCHANGED <<dbVars, disk, counters>>

\* breakpoint_mysql(DELETE_MYSQL), its result overwritten.
ClearBreakpoint(c) ==
    /\ step[c] = "clear"
    /\ \/ Works /\ breakpoint' = breakpoint \ {c}
       \/ Fails("clear") /\ UNCHANGED breakpoint
    /\ Goto(c, "insert")
    /\ UNCHANGED <<taskVars, requestVars, registered, refer, linked, disk>>

\* Ask the pool for the next slice; -1 when the task is lost.
Assign(c) ==
    /\ step[c] = "assign"
    /\ \/ GetSlice(c) /\ UNCHANGED <<step, offset>>
       \/ \E bytes \in Offsets : /\ TakeSlice(c, bytes)
                                 /\ offset' = [offset EXCEPT ![c] = bytes]
                                 /\ Goto(c, "progress")
       \/ /\ call[c] = "none" /\ m_q = NoTask /\ UNCHANGED taskVars
          /\ offset' = [offset EXCEPT ![c] = -1]
          /\ Goto(c, "progress")
    /\ UNCHANGED <<kind, m_slice_id, asked, dbVars, disk, counters>>

ProgressNeverEmpty(c) ==        \* no branch for files of 0 bytes
    /\ step[c] = "progress"
    /\ Goto(c, "save")
    /\ UNCHANGED <<taskVars, requestVars, dbVars, disk, counters>>
\* GetAllSize: 0 for an empty file, which is complete at once (-1: no task).
Progress(c) ==
    /\ step[c] = "progress"
    /\ Goto(c, IF m_q # NoTask /\ m_count = 0 THEN "insert" ELSE "save")
    /\ UNCHANGED <<taskVars, requestVars, dbVars, disk, counters>>

\* breakpoint_mysql(INSERT_MYSQL or UPDATE_MYSQL), then the answer.
Answer(bytes) == CASE bytes = -1 -> Submit
                   [] bytes < -1 -> Wait
                   [] OTHER      -> bytes \div SLICE_SIZE
SaveBreakpoint(c) ==
    /\ step[c] = "save"
    /\ \/ /\ Works /\ Reply(c, Answer(offset[c]))
          /\ breakpoint' = IF kind[c] = "u" THEN breakpoint \cup {c} ELSE breakpoint
       \/ Fails("save") /\ Error(c) /\ UNCHANGED breakpoint
    /\ UNCHANGED <<taskVars, registered, refer, linked, disk>>

\* The server stops at any point and starts again; the tables, the
\* disk and what the clients were asked for remain.
ServerRestart ==
    /\ restarts < MaxRestarts
    /\ restarts' = restarts + 1
    /\ Restart
    /\ step' = [c \in Clients |-> "idle"]
    /\ kind' = [c \in Clients |-> "u"]
    /\ m_slice_id' = [c \in Clients |-> -1]
    /\ offset' = [c \in Clients |-> -1]
    /\ UNCHANGED <<asked, dbVars, disk, faults>>

Handle(c) ==
    \/ FileExist(c) \/ UpdateRefer(c) \/ InsertFile(c) \/ LinkFile(c)
    \/ Add(c) \/ FindSlice(c) \/ Mark(c) \/ OpenSlice(c) \/ WriteSlice(c)
    \/ Receive(c) \/ ClearBreakpoint(c)
    \/ Assign(c) \/ Progress(c) \/ SaveBreakpoint(c)

Request(c) == \E k \in {"u", "w", "d"} : Send(c, k)

\* Everybody has the file: the only state in which nothing may happen.
AllLinked == linked = Clients /\ UNCHANGED vars

Next == \/ ServerRestart \/ AllLinked
        \/ \E c \in Clients : Request(c) \/ Handle(c)

Spec == UploadInit /\ [][Next]_vars

\* A worker that took a request executes it to the end (the threads are
\* scheduled), and a steady client does send its next request.
FairSpec == /\ Spec
            /\ \A c \in Clients : WF_vars(Handle(c))
            /\ \A c \in Steady : WF_vars(Request(c))

-----------------------------------------------------------------------------
\* The type invariant; a request that stores a slice carries a slice of the file.
RequestTypeOK ==
    /\ step \in [Clients -> Steps]
    /\ kind \in [Clients -> {"u", "w", "d"}]
    /\ m_slice_id \in [Clients -> Slices \cup {-1}]
    /\ offset \in [Clients -> Offsets \cup {-1}]
    /\ asked \in [Clients -> Slices \cup {Done, Submit, Wait}]
    /\ registered \in BOOLEAN /\ refer \in Nat
    /\ linked \subseteq Clients
    /\ breakpoint \subseteq Clients
    /\ disk \in [Slices -> {"absent", "truncated", "whole"}]
    /\ faults \in 0 .. MaxFaults /\ restarts \in 0 .. MaxRestarts
    /\ \A c \in Clients :
         (step[c] \in {"find", "mark", "open", "write", "recv"} \/ kind[c] = "d")
            => m_slice_id[c] \in Slices
TypeOK == TaskTypeOK /\ RequestTypeOK

Writing(s) == {c \in Clients : step[c] \in {"mark", "open", "write"} /\ m_slice_id[c] = s}

\* While no call failed, no slice is lost between the task, which marks it
\* received first, and the directory: a received slice is whole on disk or its
\* writer is still at work (http_conn.cpp:1664-1690).
ReceivedIsStored ==
    (faults = 0 /\ m_q # NoTask) =>
        \A s \in m_rec[m_q] : disk[s] = "whole" \/ Writing(s) # {}

Undisturbed == faults = 0 /\ restarts = 0

\* The same of a file that files has a row for, up to the first restart: a
\* restart kills writers, and a file is then registered with a slice missing.
RegisteredIsStored ==
    (Undisturbed /\ registered) =>
        \A s \in Slices : disk[s] = "whole" \/ Writing(s) # {}

\* The comparison of the sizes outside the lock (task.cpp:37) misses no
\* completion: once all slices are received, the file is registered, or a
\* worker is on its way to register it.
CompletionNotLost ==
    (Undisturbed /\ m_q # NoTask /\ m_rec[m_q] = Slices /\ m_count > 0 /\ ~ registered) =>
        \E c \in Clients :
            \/ step[c] \in {"open", "write", "recv", "clear", "insert"}
            \/ step[c] = "mark" /\ call[c] # "none"

\* Until a call fails or the server restarts, refer counts exactly the users'
\* rows and the workers between the two statements, also when several workers
\* find the upload complete or the file existing at once.
ReferExact ==
    Undisturbed =>
        refer = Cardinality(linked) + Cardinality({c \in Clients : step[c] = "link"})

\* Whatever fails or restarts (but for the SELECT of file_exist), refer is
\* never below the number of users' rows: deletions, which remove the file when
\* refer reaches 0, cannot remove one that a user still has.
ReferNeverLow ==
    Cardinality(linked) + Cardinality({c \in Clients : step[c] = "link"}) <= refer

\* A client that stays gets the file linked to its path, whatever the others
\* do: leave with slices they were asked for, or complete the file meanwhile.
SteadyClientFinishes == \A c \in Steady : <>(c \in linked)
=============================================================================

----------------------------- MODULE FileStore -----------------------------
(***************************************************************************)
(* What becomes of a stored file: deleting, copying, downloading it and    *)
(* cancelling a transfer (delfile_request, copyfile_request,               *)
(* downloadsingle_request, delbreakpoint_request), beside the uploads of   *)
(* the module Upload.  Each such request (a job) comes on a connection of  *)
(* its own and is served by a worker statement by statement; any number of *)
(* them may be one user's, for the same path, and served at once.          *)
(*                                                                         *)
(* A user's rows in user_file are at the path the upload saves to          *)
(* ("saved", the variable linked) and at a path it is copied to ("copy",   *)
(* more than one without keys); both are in one directory, which may be    *)
(* deleted as a whole.  Downloads and breakpoints are those of the path    *)
(* "saved".                                                                *)
(***************************************************************************)
EXTENDS Upload

CONSTANT Jobs    \* the requests beside the uploads, each served once

ASSUME StoreAssumption == IsFiniteSet(Jobs)

VARIABLES
    user,      \* of each job: the client whose paths it is for
    job,       \* of each job: the statement to execute next
    target,    \* of each job: the paths a deletion is for
    todo,      \* of each job: rows a deletion has selected and not worked off
    want,      \* of each job: the slice a download asks for
    copies,    \* of each client: the rows at its path "copy"
    orphan,    \* clients whose slice is being written to a removed directory
    mishaps    \* history: what went wrong with the accounts of references

jobVars == <<user, job, target, todo, want>>
storeVars == <<jobVars, copies, orphan, mishaps>>
allVars == <<vars, storeVars>>

Places == {"saved", "copy"}
JobSteps == {"new", "rows", "refer", "remove", "purge", "copy",
             "discard", "forget", "content", "point", "open", "done"}

\* How many rows of user_file the client has at these paths.
RowsAt(c, paths) == (IF "saved" \in paths /\ c \in linked THEN 1 ELSE 0)
                      + (IF "copy" \in paths THEN copies[c] ELSE 0)

StoreInit ==
    /\ UploadInit
    /\ user \in [Jobs -> Clients]
    /\ job = [j \in Jobs |-> "new"]
    /\ target = [j \in Jobs |-> {}]
    /\ todo = [j \in Jobs |-> 0]
    /\ want = [j \in Jobs |-> 0]
    /\ copies = [c \in Clients |-> 0]
    /\ orphan = {} /\ mishaps = {}

-----------------------------------------------------------------------------
Advance(j, next) == job' = [job EXCEPT ![j] = next] /\ UNCHANGED user

Finish(j) == /\ Advance(j, "done")
             /\ target' = [target EXCEPT ![j] = {}]
             /\ todo' = [todo EXCEPT ![j] = 0]
             /\ want' = [want EXCEPT ![j] = 0]

Begin(j, next) == job[j] = "new" /\ Advance(j, next)

Unchanged(others) == UNCHANGED <<taskVars, step, requestVars, others>>

\* A row that is NULL is used: the process ends, and is started again.  Jobs
\* that were being served are lost; the others may still come.
Dies ==
    /\ ServerRestart
    /\ job' = [j \in Jobs |-> IF job[j] = "new" THEN "new" ELSE "done"]
    /\ target' = [j \in Jobs |-> {}]
    /\ todo' = [j \in Jobs |-> 0]
    /\ want' = [j \in Jobs |-> 0]
    /\ orphan' = {}
    /\ UNCHANGED <<user, copies, mishaps>>

\* rm -rf of the file's directory; a slice file that is open is unlinked, and
\* the directory may be gone before fopen.
RemoveSlices ==
    /\ disk' = [s \in Slices |-> "absent"]
    /\ orphan' = orphan \cup {c \in Clients : step[c] \in {"open", "write"}}
    /\ mishaps' = mishaps \cup {"removed"}

\* delfile_request: the SELECT of the rows at a path or below it.
DeleteSelect(j, paths) ==
    /\ Begin(j, "rows")
    /\ target' = [target EXCEPT ![j] = paths]
    /\ todo' = [todo EXCEPT ![j] = RowsAt(user[j], paths)]
    /\ UNCHANGED <<vars, want, copies, orphan, mishaps>>

\* The DELETE.  Between the SELECT and it a row may have come, or been deleted by
\* another deletion, which counts refer down for it too.
DeleteRows(j) ==
    /\ job[j] = "rows"
    /\ LET gone == RowsAt(user[j], target[j]) IN
       \/ /\ Works
          /\ Advance(j, IF todo[j] > 0 THEN "refer" ELSE "purge")
          /\ linked' = IF "saved" \in target[j] THEN linked \ {user[j]} ELSE linked
          /\ copies' = IF "copy" \in target[j] THEN [copies EXCEPT ![user[j]] = 0] ELSE copies
          /\ mishaps' = mishaps \cup (IF gone > todo[j] THEN {"unseen"} ELSE {})
                                \cup (IF gone < todo[j] THEN {"twice"} ELSE {})
          /\ UNCHANGED <<target, todo, want>>
       \/ Fails("unlink") /\ Finish(j) /\ UNCHANGED <<linked, copies, mishaps>>
    /\ UNCHANGED <<registered, refer, breakpoint, disk, orphan>>
    /\ Unchanged(<<>>)

DeleteReferTwice(j) ==          \* for the DELETE, and for the row
    /\ job[j] = "refer"
    /\ \/ /\ Works /\ refer' = IF registered THEN refer - 2 ELSE refer
          /\ UNCHANGED todo
       \/ Fails("unrefer") /\ UNCHANGED refer /\ todo' = [todo EXCEPT ![j] = 0]
    /\ Advance(j, "remove")
    /\ UNCHANGED <<target, want, registered, linked, breakpoint, disk>>
    /\ UNCHANGED <<copies, orphan, mishaps>>
    /\ Unchanged(<<>>)
\* For each selected row that is a file: refer is counted down, ...
DeleteRefer(j) ==
    /\ job[j] = "refer"
    /\ \/ /\ Works /\ refer' = IF registered THEN refer - 1 ELSE refer
          /\ UNCHANGED todo
       \/ Fails("unrefer") /\ UNCHANGED refer /\ todo' = [todo EXCEPT ![j] = 0]
    /\ Advance(j, "remove")
    /\ UNCHANGED <<target, want, registered, linked, breakpoint, disk>>
    /\ UNCHANGED <<copies, orphan, mishaps>>
    /\ Unchanged(<<>>)

DeleteSlicesLast(j) ==          \* ends with the last row
    /\ job[j] = "remove"
    /\ RemoveSlices
    /\ \/ todo[j] <= 1 /\ Finish(j)
       \/ /\ todo[j] > 1
          /\ todo' = [todo EXCEPT ![j] = @ - 1]
          /\ Advance(j, "refer")
          /\ UNCHANGED <<target, want>>
    /\ UNCHANGED <<registered, refer, linked, breakpoint, counters, copies>>
    /\ Unchanged(<<>>)
\* ... and the slices are removed whatever it is, or whether the UPDATE failed
\* (todo 0), after which the request ends.
DeleteSlices(j) ==
    /\ job[j] = "remove"
    /\ RemoveSlices
    /\ \/ todo[j] = 0 /\ Finish(j)
       \/ /\ todo[j] > 0
          /\ todo' = [todo EXCEPT ![j] = @ - 1]
          /\ Advance(j, IF todo[j] > 1 THEN "refer" ELSE "purge")
          /\ UNCHANGED <<target, want>>
    /\ UNCHANGED <<registered, refer, linked, breakpoint, counters, copies>>
    /\ Unchanged(<<>>)

\* DELETE FROM files WHERE refer=0; a foreign key would refuse it while there
\* are rows in user_file.
Purge(j) ==
    /\ job[j] = "purge" /\ Finish(j)
    /\ \/ /\ Works
          /\ registered' = (registered /\ refer # 0)
          /\ UNCHANGED refer
       \/ /\ Works /\ (linked # {} \/ \E c \in Clients : copies[c] > 0)
          /\ UNCHANGED <<registered, refer>>
       \/ Fails("purge") /\ UNCHANGED <<registered, refer>>
    /\ UNCHANGED <<linked, breakpoint, disk, copies, orphan, mishaps>>
    /\ Unchanged(<<>>)

-----------------------------------------------------------------------------
\* copyfile_request: the SELECT of the row, ...
CopySelect(j) ==
    /\ user[j] \in linked
    /\ Begin(j, "copy")
    /\ UNCHANGED <<vars, target, todo, want, copies, orphan, mishaps>>

\* ... the INSERT of the copy, which a key may refuse.  refer is not increased.
CopyInsert(j) ==
    /\ job[j] = "copy" /\ Finish(j)
    /\ \/ /\ Works
          /\ copies' = [copies EXCEPT ![user[j]] = @ + 1]
          /\ mishaps' = mishaps \cup {"copied"}
       \/ /\ Works /\ (~ registered \/ copies[user[j]] > 0)
          /\ UNCHANGED <<copies, mishaps>>
       \/ Fails("copy") /\ UNCHANGED <<copies, mishaps>>
    /\ UNCHANGED <<dbVars, disk, orphan>>
    /\ Unchanged(<<>>)

\* delbreakpoint_request: without a row for the path it uses a NULL row.
CancelSelect(j) ==
    \/ /\ user[j] \in breakpoint
       /\ Begin(j, "discard")
       /\ UNCHANGED <<vars, target, todo, want, copies, orphan, mishaps>>
    \/ job[j] = "new" /\ user[j] \notin breakpoint /\ Dies

\* The directory of the file is removed, for an upload or a download.
CancelSlices(j) ==
    /\ job[j] = "discard"
    /\ RemoveSlices
    /\ Advance(j, "forget")
    /\ UNCHANGED <<target, todo, want, dbVars, counters, copies>>
    /\ Unchanged(<<>>)

CancelForget(j) ==
    /\ job[j] = "forget" /\ Finish(j)
    /\ \/ Works /\ breakpoint' = breakpoint \ {user[j]}
       \/ Fails("forget") /\ UNCHANGED breakpoint
    /\ UNCHANGED <<registered, refer, linked, disk, copies, orphan, mishaps>>
    /\ Unchanged(<<>>)

-----------------------------------------------------------------------------
\* downloadsingle_request for slice s: the row of the path, ...
DownloadRow(j, s) ==
    /\ user[j] \in linked
    /\ Begin(j, "content")
    /\ want' = [want EXCEPT ![j] = s]
    /\ UNCHANGED <<vars, target, todo, copies, orphan, mishaps>>

\* After the last slice the answer is "OK".
Deliver(j) == IF want[j] >= m_count THEN Finish(j)
              ELSE Advance(j, "open") /\ UNCHANGED <<target, todo, want>>

\* ... the row in files (without one the NULL row is used if the log is on), ...
DownloadContent(j) ==
    /\ job[j] = "content"
    /\ \/ /\ registered
          /\ \/ want[j] = 0 /\ Deliver(j)
             \/ want[j] > 0 /\ Advance(j, "point") /\ UNCHANGED <<target, todo, want>>
          /\ UNCHANGED <<vars, copies, orphan, mishaps>>
       \/ ~ registered /\ Finish(j) /\ UNCHANGED <<vars, copies, orphan, mishaps>>
       \/ ~ registered /\ Dies

\* ... breakpoint_mysql: an INSERT for slice 1, then UPDATEs, ...
DownloadPoint(j) ==
    /\ job[j] = "point"
    /\ \/ Works /\ breakpoint' = IF want[j] = 1 THEN breakpoint \cup {user[j]} ELSE breakpoint
       \/ Fails("point") /\ UNCHANGED breakpoint
    /\ Deliver(j)
    /\ UNCHANGED <<registered, refer, linked, disk, copies, orphan, mishaps>>
    /\ Unchanged(<<>>)

\* ... and the slice's file is opened and mapped, if it is there.
DownloadOpen(j) ==
    /\ job[j] = "open" /\ Finish(j)
    /\ UNCHANGED <<vars, copies, orphan, mishaps>>

Job(j) ==
    \/ \E paths \in {{"saved"}, {"copy"}, Places} : DeleteSelect(j, paths)
    \/ DeleteRows(j) \/ DeleteRefer(j) \/ DeleteSlices(j) \/ Purge(j)
    \/ CopySelect(j) \/ CopyInsert(j)
    \/ CancelSelect(j) \/ CancelSlices(j) \/ CancelForget(j)
    \/ \E s \in 0 .. m_count : DownloadRow(j, s)
    \/ DownloadContent(j) \/ DownloadPoint(j) \/ DownloadOpen(j)

-----------------------------------------------------------------------------
(* The uploads, over what the jobs leave.                                   *)

\* fopen, when the directory has been removed after mkdir.
OpenRemoved(c) ==
    /\ step[c] = "open" /\ c \in orphan
    /\ Works /\ Error(c)
    /\ orphan' = orphan \ {c}
    /\ UNCHANGED <<taskVars, dbVars, disk, jobVars, copies, mishaps>>

\* fwrite to a file that has been removed.
WriteRemoved(c) ==
    /\ step[c] = "write" /\ c \in orphan
    /\ Works /\ Goto(c, "recv")
    /\ \E first \in {"d", "u"} : kind' = [kind EXCEPT ![c] = first]
    /\ orphan' = orphan \ {c}
    /\ UNCHANGED <<taskVars, m_slice_id, offset, asked, dbVars, disk>>
    /\ UNCHANGED <<jobVars, copies, mishaps>>

\* Every other step of an upload.  An UPDATE that finds no row is noted.
UploadStep(c) ==
    /\ Request(c) \/ Handle(c)
    /\ step[c] = "write" => c \notin orphan
    /\ orphan' = IF step[c] = "open" THEN orphan \ {c} ELSE orphan
    /\ mishaps' = mishaps \cup (IF step[c] = "refer" /\ ~ registered THEN {"late"} ELSE {})
    /\ UNCHANGED <<jobVars, copies>>

StoreNext ==
    \/ Dies
    \/ \E j \in Jobs : Job(j)
    \/ \E c \in Clients : UploadStep(c) \/ OpenRemoved(c) \/ WriteRemoved(c)

StoreSpec == StoreInit /\ [][StoreNext]_allVars

-----------------------------------------------------------------------------
\* The type invariant; a deletion that counts down has rows left to count, or failed.
StoreTypeOK ==
    /\ TaskTypeOK
    /\ user \in [Jobs -> Clients]
    /\ job \in [Jobs -> JobSteps]
    /\ target \in [Jobs -> SUBSET Places]
    /\ todo \in [Jobs -> Nat]
    /\ want \in [Jobs -> 0 .. m_count]
    /\ registered \in BOOLEAN /\ refer \in Int
    /\ copies \in [Clients -> Nat] /\ orphan \subseteq Clients
    /\ mishaps \subseteq {"removed", "unseen", "twice", "copied", "late"}
    /\ \A j \in Jobs : job[j] = "refer" => todo[j] > 0

\* What refer has to count: the users linked, those about to be, and the rows
\* deleted and not yet counted down.
Counted(S) == Cardinality(S) + Cardinality({c \in Clients : step[c] = "link"})
                + Cardinality({j \in Jobs : job[j] = "refer"})

\* As long as no file was copied, no row deleted for two deletions and no upload
\* came too late, refer is never below the number of links, and a file that is
\* linked has its row, however deletions and uploads interleave (:1154), whatever
\* fails and whenever the server restarts.
ReferCovers ==
    mishaps \cap {"copied", "twice", "late"} = {} =>
        /\ Counted(linked) <= refer
        /\ linked # {} => registered

\* Until something fails or goes wrong, refer is exact also beside deletions, and
\* a file that nobody refers to any more does not stay in files: some deletion
\* is still to execute DELETE FROM files WHERE refer=0.
PurgedInTime ==
    (Undisturbed /\ mishaps \subseteq {"removed"} /\ registered) =>
        /\ refer = Counted(linked)
        /\ refer = 0 => \E j \in Jobs : job[j] \in {"refer", "remove", "purge"}

\* A download finds the slice whose file it opens, whole unless somebody is
\* writing it (again): between the two SELECTs and the open only the removal of
\* the directory, which is noted, can take it away.
ServedWhole ==
    \A j \in Jobs :
        (Undisturbed /\ mishaps = {} /\ job[j] = "open") =>
            disk[want[j]] = "whole" \/ Writing(want[j]) # {}

-----------------------------------------------------------------------------
(* What the repository's documents say, and the code does not.              *)

\* Requirements, line 77: files is keyed by content, and an attribute records the
\* number of references.  So deleting one user's path removes the slices only
\* when no other user has the file; :1144 removes them whatever refer is.
DeletionSparesOthers ==
    [][(\E j \in Jobs : job[j] = "remove" /\ DeleteSlices(j))
        => linked = {} \/ disk' = disk]_allVars
=============================================================================

# A formal model of the Disk cloud-disk server

The server keeps files of many users on one disk. It is a C++ program: one
thread waits for epoll events, reads and writes the sockets; a pool of worker
threads executes the requests against MariaDB and the file system. This
directory holds TLA+ modules that model its parts, TLC configurations that
check them, and proofs that TLAPS checks.

    tlc -config Upload.cfg MCUpload.tla      a run (PROJECT.json names them all)
    tlapm FileStoreProofs.tla                the proofs of a component

## 1. Inventory

| Part | State | Operations | Interacts by |
|---|---|---|---|
| `main`, `Config` | the values of `disk.conf` | read once at the start | starts the other parts |
| `Server` (event loop) | epoll set, `users[fd]`, `users_timer[fd]` | accept, `dealwithread`, `dealwithwrite`, signals, `deal_timer` | fills the queue of the thread pool; shares each `http_conn` with a worker, without a lock |
| timers (`sort_timer_lst`, `cb_func`) | sorted doubly linked list | add, adjust, delete, tick | called by the event loop; closes descriptors |
| `threadpool` | `m_workqueue`, its lock and semaphore | `append_p` (proactor), `append` (reactor), `run` | event loop to workers |
| `connection_pool` | `connList`, two counters, lock, semaphore | `GetConnection`, `ReleaseConnection`, `DestroyPool` | a worker takes a connection for each request (`connectionRAII`) |
| `http_conn`, transport | read and write buffers, parser state, `m_iv`, `m_inpool` | `read_once`, `process_read`, `process_write`, `write`, `init`, `close_conn` | read and written by the event loop, processed by a worker |
| `http_conn`, uploads | fields of the request | `uploadsingle_request`, `save_file`, three tables' statements | `TASKPOOL`, MariaDB, slices on disk |
| `http_conn`, other requests | | register, login, mkdir, rename, move, copy, delete, listings, downloads, cancel | MariaDB, `users` map, `<name>.filelst`, slices on disk |
| `TASKPOOL`, `taskque` | the map of tasks; a queue of slices to assign and a set of received ones per task | `AddTask`, `GetSlice`, `RecvTask`, `FindSlice`, sizes | called by all workers |
| `Log`, `block_queue` | buffer, circular queue | `write_log`, `push`, `pop`, flush thread | called by everyone |
| `locker.h` | | `sem`, `locker`, `cond` | wrappers of pthreads |
| `MD5`, `encoding.cpp`, `net_tools.cpp`, `FILEUTIL`, `file_mysql` | | computation, or not called | |

What makes each part correct:

* tasks: a slice that was not received stays queued, comes up within one
  round, and received slices are not asked for while others are missing;
* uploads: a slice that counts as received is on disk; a file is registered once
  all slices are there, and that moment is not missed; `refer` counts the
  users' links; who stays gets the file;
* connection pool: no connection with two threads, none used after it was closed,
  no thread past the semaphore without a connection;
* proactor: a connection is with one worker at a time, each queued one wakes a
  worker, only whole requests are answered, and every request is answered;
* responses: the client receives the bytes in order, all of them, and the loop ends;
* timers and connections: each descriptor is closed once, for the connection it
  was opened for; the list stays sorted;
* accounts: of several who register a name one gets it, and keeps it;
* the users' tree: a path exists once and its parent is a directory, listings lead to
  every entry, a rename takes all that is below the directory with it;
* stored content: `refer` covers the users' links, what nobody links is purged, and
  deleting one link does not take the file from another user;
* log: a line is written once, in its writer's order, and files stay short.

What is hard: workers run the statements of different requests in every order,
most of the shared state (the map of tasks, `m_rec`, `http_conn`, the tables)
is read without the lock under which it is changed, the marks of an upload are in
memory while the tables and the slices are persistent, any statement may fail
after the earlier ones took effect, and clients may stop at any point. The field
"hazards" of PROJECT.json lists these places line by line, with the properties
that cover them.

## 2. What is modelled

### TaskPool (`taskpool/`)

One key of `TASKPOOL::m_q`. `heap` holds the `taskque` objects that were created,
`m_q` the one the map points at, `m_assign` and `m_rec` are the members of each
object, `task[c]` is the pointer a worker got from its lookup. `m_count`, the
number of slices, is chosen at the start and may be 0. Each operation is
a lookup without a lock (`AddTask`, `GetSlice`, `RecvTask`) followed by the critical
section of the object (`CreateTask`, `TakeSlice`, `InsertSlice`); `CompareSize` is
the comparison `RecvTask` makes after it has unlocked. Results are parameters of
the action that returns. `Restart` loses everything. `DelTask` has no caller.
The lookups read a `std::map` while another worker may insert, a data race; the
model lets the lookup see the map before or after the insertion, since for one
key nothing else can be told apart. A real tear of the tree is not modelled.

### Upload (`uploadsingle_request` and what it calls)

Extends TaskPool; `step[c]` is the statement the worker of client `c` executes
next. Every SQL statement, file operation and task-pool call is one action, so
that other workers run between any two.

| Action | Code |
|---|---|
| `Send` | the request arrives (1171-1186) |
| `FileExist` | `file_exist`, SELECT on `files` |
| `UpdateRefer`, `InsertFile` | `insertfile_mysql` |
| `LinkFile` | `userfile_mysql` |
| `Add` | `AddTask`, for a first request |
| `FindSlice`, `Mark`, `OpenSlice`, `WriteSlice`, `Receive` | a slice: `FindSlice`, then `save_file` (mark, open, write), then the second `RecvTask` |
| `ClearBreakpoint`, `SaveBreakpoint` | `breakpoint_mysql` |
| `Assign`, `Progress` | `GetSlice`, and the branch for empty files |
| `ServerRestart` | the process ends anywhere and starts again |

Abstractions: one file; a client is one user uploading to one path; a
slice's file is "absent", "truncated" or "whole" (all clients send the same
content, as the name is its MD5); a breakpoint is the presence of its row, since the
server never reads the number. `m_string[0]` at line 1244 may be the first byte of
the data, which may be a `u`. The schema is external: `files` has the primary key
(MD5, type, size) and `user_file` refers to it (requirements, lines 77 and 81). Whether the
foreign key is really declared cannot be seen, so a link without a row may succeed or fail.
The client program is external too: the server's answers tell
it what to send next, and any client may send something else it could
have been told to, or never come back. Failing calls are `Failing`, bounded
by `MaxFaults`; restarts by `MaxRestarts`. Some invariants hold only until something
went wrong; they say so by the history of faults and restarts (`Undisturbed`).

`FileStoreProofs`, which holds the proofs about TaskPool, Upload and FileStore, shows that Upload implements TaskPool
(`Spec => TaskSpec`, checked by no separate run because it is proved).

### FileStore (`delfile_request`, `copyfile_request`, `delbreakpoint_request`, `downloadsingle_request`)

Extends Upload with what happens to the content afterwards. `Jobs` are such requests, each on a connection of its own, served once by a
worker beside the uploads, whose steps are those of Upload (`UploadStep`). `job[j]` is the statement that is executed next, `user[j]` the
client whose paths the request is for, chosen at the start: the server does not stop a user from having any number of requests served at
once, for the same path too, and a client that had no answer repeats its request. A user has a row for the content at the path of the
upload (`linked`), and `copies[c]` rows at the path of a copy. That a user uploads the file again, or from two
sessions at once, to one path is not modelled here: each such upload raises `refer` and makes a row of its own, which deletions
count down as they do copies, or, if the path is a key, the second INSERT is refused and `refer` stays too high, as after the
failures of `link` in Upload. An upload to another path is that of another client.

| Action | Code |
|---|---|
| `DeleteSelect`, `DeleteRows` | `delfile_request`, the SELECT and the DELETE on `user_file`; `todo[j]` is the number of rows the SELECT found, whatever the DELETE finds |
| `DeleteRefer`, `DeleteSlices` | for each row the UPDATE of `refer`, and `rm -rf` of the slices |
| `Purge` | `DELETE FROM files WHERE refer=0` |
| `CopySelect`, `CopyInsert` | `copyfile_request` for a file; `refer` stays |
| `CancelSelect`, `CancelSlices`, `CancelForget` | `delbreakpoint_request`; without a row the NULL row ends the process (`Dies`) |
| `DownloadRow`, `DownloadContent`, `DownloadPoint`, `DownloadOpen` | `downloadsingle_request`, and `open` in `do_request` |
| `OpenRemoved`, `WriteRemoved` | `save_file` after its directory was removed (`orphan`) |

`rm -rf` and the statement that a request executes next are steps of their own, so uploads run between them. A
removed directory is created again by the next slice (`mkdir` in `save_file`). A download opens its slice
or is told that there is none. `mishaps` notes what the accounts of references may be wrong after: "copied"
(a copy does not increase `refer`), "late" (an upload's UPDATE came after the purge), "removed" (the
slices were removed), "unseen" (the DELETE hit a row that the SELECT had not seen), "twice" (it missed one that the SELECT had seen, as another
deletion had it first: both count it down). `FileStoreProofs` proves its properties,
and that the uploads still implement TaskPool.

### Accounts and UserTree (`register_request` to `delfile_request`)

Accounts is one user name: `users` is the map in memory, `table` the rows of the table `users`, `roots` those of the root
directory in `user_file`. `Register` searches the map without a lock, `InsertUser` is the critical section of the first
INSERT, `InsertRoot` the second, `Restart` reads the map from the table (`initmysql_result`).
UserTree extends it with the rows of that user's tree, a bag of pairs of path and "is a directory" (a function to numbers; the
module Bags is left aside, as its definitions are out of the provers' reach), and
the requests on it, one action per SQL statement: `Mkdir` and `Insert`, `Put` and `Insert` (an upload, which makes no SELECT on `user_file`), `RenameSelect` and one `RenameUpdate`
for each row, in any order, `MoveFile`, `CopySelect` and `CopyInsert`, `Delete`.

A path is a sequence of names. All names have the same length and no character that is special to REGEXP, which is
not anchored, so that `Places` finds a path also further on in another one; a name may be the user's own.
The schema is not in the repository: `keyed`, chosen at the start, says whether names and paths are keys. In the
INSERT of a copy `f_path` is the column of the row being made, taken to be empty, so that all rows of a copied directory go to
`newpath`. The client is external: it asks for what a listing could have shown it to make sense (an
existing source, an existing directory as target, nothing into itself), and may be out of date.
`mishaps` names the six ways in which the code breaks the tree: "raced" (a request changed what another one under way relied on),
"failed" (a rename stopped half-way), "moved" (a directory was moved without what is in it), "copied"
(a directory with contents was copied), "taken" (the target existed: the search for it compares the wrong column, and an upload makes none) and "stray" (REGEXP selected
rows elsewhere). None can be dropped from `TreeWhole`: for each of them TLC finds a violation without it ("stray"
needs a third name, and was tried on an instance of its own). `goal` follows one rename that nothing else touches, through failures, restarts and repetitions.
It is given up when a repetition selects rows elsewhere: a repeated rename whose directory is empty by then may still find, and move, a row that
another request put where REGEXP sees it. The attempt to prove `RenameWhole` without that led to a behaviour of three names and three
requests, larger than the run's instance, in which it fails; it also showed that a rename of nothing (no row is selected) does nothing, and that a
row whose new path is its old one (a stray row of a repetition) is no duplicate key; the guards of `RenameSelect` and `RenameUpdate` say so.

### BlockQueue, Fifo and Log (`log/`)

BlockQueue is `block_queue`: `m_array`, `m_size`, `m_front`, `m_back`, and `waiting` for the consumer on `m_cond`. Each
critical section is an action; `PopWait` and `WakeSpuriously` are `cond::wait`. Fifo is what it promises, a bounded queue whose
consumer gets every item. Log extends BlockQueue with `write_log` of several threads and the flush thread:

| Action | Code |
|---|---|
| `ReadClock` | `localtime`, before the lock |
| `Count` | the first critical section: `m_count`, `m_today`, a new file |
| `Check`, `Enqueue`, `WriteDirectly` | `full()`, `push`, or `fputs` by the writer |
| `FlushPop`, `FlushWait`, `FlushWrite` | `async_write_log` |

A line is its writer and its number; its text, `fflush` and the names of files are left out. `inFile` counts the lines since the open file was opened.
`localtime` returns a shared buffer; that another thread's day is read from it is the same as to read the clock a little
earlier or later, which the model allows. Whether there is a queue (`m_is_async`) is chosen at the start.

### SqlPool (`CGImariadb/sql_connection_pool.cpp`)

The threads of the pool and the list of connections, whose number `m_MaxConn` is
chosen at the start. `GetConnection` is the unlocked look (`CheckSize`), the
semaphore (`WaitReserve`) and the locked part (`Pop`); `ReleaseConnection` the locked
part (`Release`) and the post (`Post`). `DestroyPool` runs once, at any time, from the
static destructor, while the detached threads go on; after it the process may end (`Leave`).

### Proactor (`server.cpp`, `threadpool.h`, the transport of `http_conn`)

The default mode (`actormodel` 0). The main thread: `EpollWait`, `dealwithread`,
`Recv` and `Again` (the loop of `read_once`), `append_p`, `PostQueue`, and `WriteSome`,
`WriteAll`, `WriteClose` for `dealwithwrite`. A worker: `WaitQueue`, `TakeQueue`,
`NoRequest` or `Parse`, `Respond` or `Refuse`, `Arm`. `armed[s]` is the one-shot
interest in the kernel, `events[s]` an event that `epoll_wait` has returned. A request is
`Header` and then `Body` segments, an answer up to `Parts` calls of `writev`.

The requests of the sockets in `Piecemeal` arrive segment by segment, the others'
in one piece; the workers may have no answer for those in `Refusable`. The size of
the queue, `m_max_requests`, is chosen at the start. When the worker has closed the
connection that the main thread reads, `recv` fails with EBADF and `read_once` never
leaves its loop: `Recv` is then the last thing the main thread does.

New connections, hang-ups and timers are in Connections; the reactor mode is not
modelled. Clients do not send a second request before the answer to the first. The
race on `m_read_idx` (written by the main thread, read by the worker) is modelled as
reads of the old or the new value, segment by segment.

### Response (`http_conn::write`)

The two buffers of `writev` and the counters, for one response; a byte is its
position in the response, so that a skipped or repeated byte shows. `IntMax`
is the largest int. The kernel may cut the response anywhere, any number of times; `cuts` counts the calls that ended within the
headers, for the properties. A second one goes wrong (`iov_len` is reduced by the bytes of all calls): bytes are skipped, so that `InOrder`
is claimed up to there, and a response of one buffer may come to ask `writev` for nothing, while bytes are left: it
returns 0, and the main thread turns in the loop for ever. `EveryResponseEnds` leaves out that case only (one buffer, more than one such call).

### TimerQueue and TimerList (`timer/timer.cpp`)

TimerQueue is what `sort_timer_lst` promises: a sequence of timers, into which
`add_timer` inserts, in which `adjust_timer` moves one timer towards the end, from which
`del_timer` and `tick` take one. Time is counted in TIMESLOTs, `expire` is what is left of it.
TimerList is the code: `head`, `tail`, `next`, `prev`, `heap` for the objects that exist;
each member function is one action, and so is each turn of the loop of `tick`, as only the
main thread works on the list. TimerList implements TimerQueue (`ImplementsQueue`), the
sequence being the timers met from `head` on. `PutBack` and `ClockBack` are the wall clock
(`time()`) put back; the list is then no longer in order, but stays linked.

### Connections (`server.cpp`, `close_conn`, `cb_func`)

Extends TimerQueue. The life of the connections in the event loop: `users[f]` and
`users_timer[f]` are arrays over descriptor numbers, and a number is given out again as soon as
it is closed, for a connection or for a file that a worker opens (`descriptor[f]`: a client,
`File` or `Free`). A client connects once; its timer goes by its name.

| Action | Code |
|---|---|
| `EpollWait`, `EndBatch` | `eventLoop`: what `epoll_wait` returns is dealt with one after the other, in any order, and a time-out last |
| `Signal`, `TickOne`, `TickEnd` | `dealwithsignal`, `timer_handler`: `cb_func` for each expired timer, then `alarm` |
| `Accept`, `AcceptOne`, `AcceptBusy`, `AcceptNone` | `dealclinetdata`, with `Server::timer` and `http_conn::init` |
| `Read`, `ReadForever`, `WriteSome`, `WriteAll` | `dealwithread`, `dealwithwrite` |
| `DropReset`, `DropRead`, `DropWritten`, then `Deal` | `deal_timer`: `close_conn`, then `cb_func`, which closes the number a second time, and `del_timer` |
| `NoRequest`, `Parse`, `OpenFile`, `CloseFile`, `Respond`, `Arm` | `process` in a worker |
| `Refuse`, `Unset`, `Decrement` | its `close_conn`, step by step: `m_user_count--` is a read and a write |
| `Connect`, `Request`, `HangUp`, `Clock` | the clients, and the time |

What the code does when a connection is closed under a worker is kept: its buffer is freed, its number
given to the next client, the worker's `modfd` and answer go to the slot. `mishaps` is a
history variable that notes "early" (closed while a worker had it), "refused" (closed by the worker) and
"lost" (the second close hit a worker's file). The properties that do not hold after one of these name it;
each of the names is needed, TLC finds a violation without it (for "lost" in `AnswersOwn` on an instance with three clients: a worker whose file was closed
under it closes the number a second time, which may by then be a connection's). Left out: requests in
several pieces and a full queue (Proactor has them), and SIGTERM.

## 3. The runs

| Run | Shows | Bounds |
|---|---|---|
| `Upload` | `ReceivedIsStored`, `RegisteredIsStored`, `CompletionNotLost`, `ReferExact`, `ReferNeverLow` | 2 clients, up to 2 slices, one fault (not of `select`), one restart |
| `UploadLive` | `NoSliceForgotten`, `RoundRobin`, `SteadyClientFinishes` | 2 clients, up to 2 slices, one fault of `select` or `link` |
| `FileStore` | `ReferCovers`, `PurgedInTime`, `ServedWhole` | 2 clients, up to 1 slice, 2 jobs of either client, one fault, one restart |
| `UserTree` | `AccountKept`, `TreeWhole`, `ListedOnce`, `RenameWhole` | 2 sessions, 2 passwords, 2 names, one of them the user's, up to 4 rows of depth 4, 2 requests, one fault or restart |
| `SqlPool` | `NoSharing`, `PopFindsConnection`, `NoneClosed`, `EnoughForAll` | 4 threads, 1 to 4 connections |
| `Proactor` | `OneWorker`, `WokenForEach`, `AnswersWhole`, `NotResetUnderWorker`, `Answered` | 2 sockets, 2 workers, a queue of 1 or 2, 2+2 segments, 2 answers each |
| `Response` | `InOrder`, `EveryResponseEnds` | headers 1 to 5, files up to 6 bytes, cut anywhere |
| `TimerList` | `Linked`, `ImplementsQueue` | 4 timers, 3 slots, clock put back by up to 2 |
| `Connections` | `OpenIsTimed`, `TimerAlive`, `UsersNotOverstated`, `TimersOwn`, `EventsCurrent`, `AnswersOwn`, `SilentIsClosed` | 2 clients, 2 descriptor numbers, room for one user, 2 requests, 2 slots, answers of 2 parts |
| `Log` | `LinesKept`, `FilesBounded`, `LinesInOrder`, `ImplementsFifo`, `QueueDrains` | 2 writers, 3 lines each, a queue of 2, one midnight, a new file after each counted line |

The type invariants are not checked in the runs: they are theorems (that of TimerList and `Typed` of UserTree's rows and requests
and `AccountTypeOK` are parts of the invariants of `TimerListProofs` and `UserTreeProofs`).

Two of each actor are enough for the
races of this code, all of which are between two workers, or a worker and the main thread,
over one object; two slices let a queue entry be at and behind the one handed out (that the queue holds
for any number is proved);
four timers let one be moved over none, one or two others from the head and from the inside;
two clients on two numbers with room for one user let a number be used again, a file get
it, and the server be busy; one fault and one restart at any point cover every
handler's error paths, none of which depends on an earlier failure. One slice and two jobs let a deletion meet an upload, a copy, a
download, a cancellation or another deletion, of the same user or of the other one, at every statement. Rows of depth four hold a directory with a directory with a file, or
the path of a directory within another one, and the tree is any that four rows allow, so that two requests, of the same session or of two, are
enough for one to disturb or repeat the other. Three lines in a queue of two fill it, wrap it around
and leave one to be refused. Symmetry is used in the invariant runs of MCUpload, MCFileStore, MCUserTree and MCSqlPool
(and in `DeletionSpares`, whose property is about one step), where clients, task objects, sessions, passwords
and threads are interchangeable. `CHECK_DEADLOCK FALSE` is set where the system may stop: the
proactor when all clients have had their bounded number of answers (or the code has lost a
request), the response when it is sent, the jobs, requests and lines when their bounds are used up.

Runs that expect a violation each show one place where the code does not do what
a comment or the requirements say; PROJECT.json quotes the text under "findings".

* `DeletionSpares`: one user deletes a file, and the slices are gone for the others who have it.
* `ProactorForgotten`: a request that arrived in two parts is read and never queued.

Divergences that were met on the way, are part of the models and have no run of their own:

* a slice marked received by one worker is not yet written when another one completes the set: after a restart in between the file is
  registered with a slice missing (`http_conn.cpp:1665`; requirements line 87: a row in `files` tells that the file exists);
* after a failed INSERT into `files` all slices count as received, nobody gets to the INSERT again, and the upload
  cannot be resumed (`http_conn.cpp:1225`; requirements line 22 promise that it can);
* a second `writev` that ends within the headers skips bytes, as `iov_len` is reduced by the bytes of all
  calls (`http_conn.cpp:1733`); and when the response has one buffer, that may leave nothing to send in it before all is sent, and
  the main thread calls `writev` for ever (`http_conn.cpp:1727`);
* an upload onto a path that exists makes a second row for it if the table has no key (`http_conn.cpp:1313`; requirements line 29, as below);
* a task may be created twice, as it is looked up without the lock (`taskpool.cpp:23`);
* `GetSlice` gives the same slice to two clients, and a received one when none is missing;
* after a failed `fopen` the slice is skipped for good (`http_conn.cpp:1679`);
* a failed SELECT of `file_exist` is taken for an existing file (`http_conn.cpp:1642`);
* only the client that stores the last slice loses its row of `file_breakpoint`;
* with more threads than connections a thread is given NULL instead of waiting (`sql_connection_pool.cpp:68`);
* the main thread reads into the buffer that a worker parses (`http_conn.cpp:290`);
* a request for which the queue is full is forgotten (`server.cpp:323`);
* the size of the answer is an int (`http_conn.cpp:1840`);
* `m_user_count` is counted down twice for one connection (`server.cpp:222`; the comment at
  `http_conn.cpp:150` says once), so that it goes below zero and `MAX_FD` is no bound;
* the second close may hit a file that a worker has just opened (`timer.cpp:204`);
* a worker that closes leaves the timer, which later closes the next connection on the number;
* a client that hangs up has its buffer freed under the worker, and the answer may go to the next client;
* a copied file is not counted in `refer`: deleting the copy purges the row of the original (`http_conn.cpp:1012`);
* a cancelled upload, or a deleted file, leaves its task with the marks of slices that are no longer on disk (`http_conn.cpp:1604`,
  `taskpool.cpp:42`), and a cancellation without a breakpoint ends the process (a NULL row, 1604);
* two deletions of one path by one user, side by side, each select its row before either deletes it, and each counts `refer` down
  for it: it is then -1, or too low for the other users (`http_conn.cpp:1133`; requirements line 77: the number of references). Without
  "twice" in the condition of `ReferCovers` TLC finds this;
* moving a directory leaves what is in it under the old path (`http_conn.cpp:1063`; requirements line 34 says files and directories, "-r");
* the rows of a copied directory all go to one path, or the second is refused by the key (`http_conn.cpp:1031`);
* the search for `newpath` compares `f_type` and finds nothing (`http_conn.cpp:618`; requirements line 29: "注意重名", mind equal names);
* the REGEXP that selects what is below a directory is not anchored: rows elsewhere are renamed, copied and deleted too (`http_conn.cpp:940`, 999, 1100);
* two registrations of a name at the same time may both be told "0" if the table has no key, and a failed second INSERT leaves an account without
  a root directory, whose registration is never accepted again (`http_conn.cpp:711`);
* a log line is lost when another thread takes the last place of the queue between `full()` and `push` (`log.cpp:133`), and
  lines written directly to the file overtake those in the full queue;
* a thread that read the clock before midnight opens yesterday's file again, and the count starts anew; lines in the queue are not
  counted for the file they are written to, so `m_split_lines` is no maximum (`log.cpp:93`; `FilesBounded` has the exact one);
* after "Internal server busy" the rest of the backlog waits for the next client (`server.cpp:257`).

### Fairness

* Upload: `WF(Handle(c))`, the worker of a request goes on; the requests are served by
  threads that the system schedules, the locks are held for single steps. `WF(Request(c))`
  only for `Steady` clients, the assumption of the property ("who stays").
* Proactor: `WF(MainStep)` and `WF(WorkerStep(w))`, the threads of the server
  run. Nothing is assumed of clients.
* Response: `WF(Next)`, the client reads on, so the socket takes bytes again.
* Connections: `WF(MainStep)`, the event loop runs, and `WF(Clock)`, time passes. Nothing is
  assumed of clients or workers: a silent connection is closed even if its worker hangs.

* Log: `WF(FlushPop)` and `WF(FlushWrite)`, the flush thread is scheduled when it is not waiting. Nobody has
  to log anything, and no wake-up is assumed but that by `push`.

No strong fairness is assumed anywhere.

## 4. What is proved

For every number of clients, requests of each, sessions, workers, slices, threads, connections, timers, descriptors, rows, names, lines and queue places, and for any number of
requests, faults and restarts:

| Module | Theorems | Along |
|---|---|---|
| FileStoreProofs, on TaskPool | `TaskTypeCorrect`, `MissingSlicesQueued`, `SlicesQueuedOnce`, `MissingSlicesFirst`, `MissingSlicesInTurn` | the invariant of each follows from the type invariant and what `Rotate` and `Stop` keep of a queue, stated as lemmas |
| FileStoreProofs, on Upload | `UploadImplementsTaskPool`, `UploadTypeCorrect`, `UploadForgetsNoSlice`, `ReferIsNeverLow`, `ReferIsExact` | every action is a step of TaskPool or leaves its variables alone, so that the theorems about TaskPool hold here; `refer` is compared with the cardinality of the links and of the workers about to link, action by action |
| | `ReceivedIsAlwaysStored`, `RegisteredIsAlwaysStored`, `CompletionIsNeverLost` | `MarksKept`: a slice marked in any task object, also one that was replaced, is stored or its writer is at work; `AllKept`: who goes to register has seen, or is one of the writers of, all slices; `SomeoneCompletes`: the last to compare the sizes sees all of them |
| FileStoreProofs, on FileStore | `StoreImplementsTaskPool`, `StoreTypeCorrect`, `ReferAlwaysCovers`, `AlwaysPurgedInTime`, `AlwaysServedWhole` | `OneRow`: until a copy is made a deletion has one row to count down, which until a row is counted down by two deletions is one that it deleted itself (`JobCounts`); `Covers` and `Exactly` compare `refer` with the links, the workers about to link and the deletions about to count, as `Counted`; `PurgeDue`: who counts down to 0 is the one to purge |
| SqlPoolProofs | `SqlPoolTypeCorrect`, `ConnectionsNotShared`, `SemaphoreCountsConnections`, `UsedConnectionsOpen`, `ConnectionsAreEnough` | the semaphore, the threads past it and those about to post add up to the length of the list; list and holders add up to the connections; only connections in the list are closed |
| ProactorProofs | `ProactorTypeCorrect`, `OneWorkerEach`, `SemaphoreCountsQueue`, `OnlyWholeRequests`, `NoResetUnderWorker` | the place of each connection (event loop, queue, worker) determines what may be armed and whether `m_inpool` is set |
| ResponseProofs | `ResponseInOrder`, `ResponseWhole` | the buffers always describe the bytes after those received, except for the length of the first after one cut, and nothing is claimed after a second one |
| TimerListProofs | `ListInvariant`, `ListAlwaysLinked`, `ListImplementsQueue` | see below |
| ConnectionsProofs, on TimerQueue | `QueueTypeOKHolds`, `ListedOnceHolds`, `InOrderHolds` | what an insertion and a deletion do to a sequence, as lemmas; while the clock is not put back no timer is set beyond `Slots`, so one that starts anew belongs at the very end, which is why the order survives (`WithinSlots`) |
| ConnectionsProofs, on Connections | `ConnectionsImplementQueue`, `TypeCorrect`, `OpenAlwaysTimed`, `TimerAlwaysAlive`, `UsersNeverOverstated` | every step is one operation of the queue or none, so that the theorems about TimerQueue hold here; a slot of `users_timer` has the timer of the last connection on its number, which no other slot has (`TimersPlaced`); the count of users is made up for by a file that was closed under its worker and whose number the worker will close again (`LostFile`) |
| | `TimersAlwaysOwn`, `EventsAlwaysCurrent`, `AnswersAlwaysOwn` | `Owned`: until a worker closes a connection or loses its file, a listed timer is that of the open connection on its number; `ArmedIsOpen`: only open connections are armed, or have events; `Answered`: of what a worker holds, and of the answer it leaves, the asker is the connection that has the number |
| LogProofs | `LogTypeCorrect`, `LinesAlwaysKept`, `LinesAlwaysInOrder`, `FilesAlwaysBounded`, `LogImplementsQueue` | `Circular`: `m_front`, `m_back` and `m_size` describe a part of the circle, so that `Queue` is a sequence that `push` appends to and `pop` takes from (any capacity); `Once` and `Ordered`: a line is in one place, and a writer's lines are ordered along file, flush thread, queue and hand; `CountBounds`: lines of the count not yet in the file are queued or in hand |
| UserTreeProofs | `TreeAlwaysWhole`, `RowsAlwaysListedOnce` | see below |
| | `RenamesAlwaysWhole` | `GoalInv`: the rows under the old name, moved, and those under the new one are the rows the rename began with, and who is to end it has selected all that is left |
| | `AccountsAlwaysKept` | `AccountInv`: of those who found the name free one has the row; he has the map's entry and the root directory, if there is one, and nobody else is about to make one |

The tree is not whole while a directory is renamed, one row after the other, and a row may be inserted, moved or deleted elsewhere at any
moment. The invariant `TreeInv` speaks of the renames that have moved a row (`Moves`): the rows, each taken to where these renames lead (`Dest`), make a whole tree
(`WholeUnder`), the renames are about disjoint parts of the tree (`Apart`), and what each request under way has read is still so (`Fits`). There is one
exception, which the invariant has to name: two renames that were selected before either moved a row, of which one leads into the other's directory, say. The first
UPDATE of the second is then no race yet, if its row is elsewhere, but each has a row left whose UPDATE is one (`Stuck`), so that neither can end
without a mishap; of such a state nothing is claimed, and it lasts until there is one. `TreeWhole` is about states
in which no rename is under way, where `TreeInv` says that the tree is whole.

`Chain`, the sequence of timers that TimerList shows to TimerQueue, is a recursive function that follows `next`, and the loop of
`add_timer` another one; what such a function yields cannot be found by an induction over it, as a pointer says nothing of those behind it. The
invariant `ListInv` therefore says that there is a sequence `q` which the pointers represent (`Represents`): it holds the timers in `heap`, each
once, `head` and `tail` are its ends, and `next` and `prev` of each timer are its neighbours. Lemmas about any pointers say what an operation makes of `q`
(`PutIn`, `TakenOut`, `MoveIs`), and from `q` it follows what the two functions yield, by the place in `q` at which they are applied (`ChainIs`, `StopFromIs`).
`Linked` alone is not inductive: it says nothing of the pointers of a new timer, which must be NULL when it is the first of an empty list and is
linked without setting them (`Represents` says it of all timers that are not in `q`).

Assumptions: those named in the modules (finite sets, positive sizes), which TLC evaluates
in every run; what the histories in the properties say (`ReferIsNeverLow` that the SELECT does
not fail, `ReferIsExact` that nothing does and there is no restart, `UsersNeverOverstated` that no worker
closed a connection, `TreeAlwaysWhole` that there was no mishap); the theorems about responses that the sizes fit into an int
(`Fits`); that at most one call has ended within the headers is a condition of the properties themselves.

Only model-checked: the liveness properties (`SteadyClientFinishes`, `Answered`, `EveryResponseEnds`, `SilentIsClosed`, `QueueDrains`, and what
`ImplementsFifo` says of fairness), as the prover does not reach fairness. And `DeletionSpares` and `ProactorForgotten` are refuted by TLC; there
is nothing to prove about them.

## 5. Plan

Done, in the order of importance: TaskPool, Upload, SqlPool, Proactor, Response, the timers
and connections (TimerQueue, TimerList, Connections), FileStore, Accounts and UserTree, the log (BlockQueue, Fifo, Log).
The properties of the runs are proved but for the liveness properties. To come: the reactor mode (its hazards are in PROJECT.json) and the
listings in `<name>.filelst`, with the same division into a model, a run and proofs.

## 6. Not modelled

* The reactor mode (`append`, `improv`, `timer_flag`): not the default; its queue is the one of Proactor.
* The parsing of lines (`parse_line` and the headers): Proactor has its control, the text is abstracted.
* The size of the read buffer: `read_once` returns false when `m_read_idx` has reached `READ_BUFFER_SIZE` (`http_conn.cpp:278`), and
  the connection is closed. The requests of Proactor fit into the buffer.
* The file `<name>.filelst`, in which the listings of a user are collected and which concurrent requests overwrite (`http_conn.cpp:786`), and
  `downloaddir_request`, which writes one.
* MD5 (arithmetic on words, no state shared), configuration (read once), character conversion (calls of
  iconv), `net_tools.cpp`, `FILEUTIL` and `file_mysql` (not called).

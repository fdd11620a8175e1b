------------------------------ MODULE Proactor ------------------------------
(***************************************************************************)
(* How a request travels in the proactor model (actormodel 0, the default):*)
(* the main thread waits for epoll events, reads a socket until it is      *)
(* drained and hands the connection to the thread pool; a worker parses    *)
(* it, answers into its buffers and asks epoll for writability; the main   *)
(* thread then writes.  The two meet in the queue and its semaphore, the   *)
(* one-shot interest of the socket, m_inpool and the http_conn itself,     *)
(* which has no lock.                                                      *)
(*                                                                         *)
(* A request is Header segments and then Body segments; m_read_idx counts  *)
(* segments, and stands for m_checked_idx and m_check_state too, which     *)
(* follow from it.  A client sends its next request after an answer, and   *)
(* does not hang up.  Timers and new connections are not in this module.   *)
(* The database connection a worker takes is (SqlPool): with the default   *)
(* sizes it is always there.                                               *)
(***************************************************************************)
EXTENDS Integers, Sequences, FiniteSets

CONSTANTS
    Workers,      \* the threads of the pool
    Sockets,      \* the connected sockets, each with its http_conn
    None,         \* no socket
    MaxQueue,     \* bound on m_max_requests
    Header,       \* segments of a request line and headers
    Body,         \* segments of a body
    Parts,        \* the writev calls that a response may take
    Piecemeal,    \* the sockets whose requests may arrive piecemeal
    Refusable,    \* the sockets process_write may have no answer for (http_conn.cpp:1853)
    MaxAnswers    \* bound on the answers of each connection

ASSUME ProactorAssumption ==
    /\ IsFiniteSet(Workers)
    /\ None \notin Sockets
    /\ MaxQueue \in Nat \ {0}
    /\ Header \in Nat \ {0} /\ Body \in Nat
    /\ Parts \in Nat \ {0}
    /\ Piecemeal \subseteq Sockets /\ Refusable \subseteq Sockets
    /\ MaxAnswers \in Nat

Whole == Header + Body

VARIABLES
    m_max_requests, \* the capacity of m_workqueue
    m_workqueue,    \* the connections that wait for a worker
    m_queuestat,    \* the semaphore the workers sleep on
    at,             \* where each worker is in threadpool::run
    request,        \* the connection each worker processes
    m_inpool,       \* of each connection: handed to the pool
    m_read_idx,     \* of each connection: segments in m_read_buf
    bytes_to_send,  \* of each connection: writev calls the answer still takes
    open,           \* of each connection: not closed
    sent,           \* of each client: segments of its request sent so far
    answers,        \* of each client: answers received
    armed,          \* of each socket: the one-shot interest: "in", "out", "none"
    events,         \* of each socket: the event epoll_wait returned, not dealt with
    loop,           \* where the main thread is in eventLoop
    sockfd          \* the socket it deals with

queueVars == <<m_max_requests, m_workqueue, m_queuestat>>
workerVars == <<at, request>>
clientVars == <<sent, answers>>
loopVars == <<events, loop, sockfd>>
vars == <<queueVars, workerVars, m_inpool, m_read_idx, bytes_to_send, open,
          clientVars, armed, loopVars>>

Init ==
    /\ m_max_requests \in 1 .. MaxQueue
    /\ m_workqueue = <<>> /\ m_queuestat = 0
    /\ at = [w \in Workers |-> "wait"]
    /\ request = [w \in Workers |-> None]
    /\ m_inpool = [s \in Sockets |-> FALSE]
    /\ m_read_idx = [s \in Sockets |-> 0]
    /\ bytes_to_send = [s \in Sockets |-> 0]
    /\ open = [s \in Sockets |-> TRUE]
    /\ sent = [s \in Sockets |-> 0]
    /\ answers = [s \in Sockets |-> 0]
    /\ armed = [s \in Sockets |-> "in"]
    /\ events = [s \in Sockets |-> "none"]
    /\ loop = "epoll" /\ sockfd = None

-----------------------------------------------------------------------------
(* The client and the kernel *)

Send(s, n) ==
    /\ open[s] /\ answers[s] < MaxAnswers
    /\ n \in 1..(Whole - sent[s])
    /\ s \in Piecemeal \/ n = Whole
    /\ sent' = [sent EXCEPT ![s] = @ + n]
    /\ UNCHANGED <<queueVars, workerVars, m_inpool, m_read_idx, bytes_to_send,
                   open, answers, armed, loopVars>>

\* A socket with unread data, or one that can be written, as long as it is armed.
Ready == {s \in Sockets : \/ armed[s] = "in" /\ sent[s] > m_read_idx[s]
                          \/ armed[s] = "out"}

-----------------------------------------------------------------------------
(* The main thread *)

\* epoll_wait returns the events of all ready sockets, and disarms them.
EpollWait ==
    /\ loop = "epoll"
    /\ \A s \in Sockets : events[s] = "none"
    /\ Ready # {}
    /\ events' = [s \in Sockets |-> IF s \in Ready THEN armed[s] ELSE "none"]
    /\ armed' = [s \in Sockets |-> IF s \in Ready THEN "none" ELSE armed[s]]
    /\ UNCHANGED <<queueVars, workerVars, m_inpool, m_read_idx, bytes_to_send,
                   open, clientVars, loop, sockfd>>

dealwithread(s) ==
    /\ loop = "epoll"
    /\ events[s] = "in"
    /\ events' = [events EXCEPT ![s] = "none"]
    /\ loop' = "recv" /\ sockfd' = s
    /\ UNCHANGED <<queueVars, workerVars, m_inpool, m_read_idx, bytes_to_send,
                   open, clientVars, armed>>

\* read_once: recv until there is nothing left.  On a connection that its
\* worker has closed meanwhile m_sockfd is -1 and recv fails for ever.
Recv(s) ==
    /\ loop = "recv" /\ sockfd = s
    /\ open[s]
    /\ sent[s] > m_read_idx[s]
    /\ m_read_idx' = [m_read_idx EXCEPT ![s] = sent[s]]
    /\ UNCHANGED <<queueVars, workerVars, m_inpool, bytes_to_send, open,
                   clientVars, armed, loopVars>>

\* EAGAIN: the interest in reading is armed again, over any other.
Again(s) ==
    /\ loop = "recv" /\ sockfd = s
    /\ open[s]
    /\ sent[s] = m_read_idx[s]
    /\ armed' = [armed EXCEPT ![s] = "in"]
    /\ loop' = "append"
    /\ UNCHANGED <<queueVars, workerVars, m_inpool, m_read_idx, bytes_to_send,
                   open, clientVars, events, sockfd>>

\* MUTANT: the connection is appended whether or not it is in the pool.
AppendAlways(s) ==
    /\ loop = "append" /\ sockfd = s
    /\ m_inpool' = [m_inpool EXCEPT ![s] = TRUE]
    /\ \/ /\ Len(m_workqueue) < m_max_requests
          /\ m_workqueue' = Append(m_workqueue, s)
          /\ loop' = "post"
       \/ /\ Len(m_workqueue) >= m_max_requests
          /\ loop' = "epoll"
          /\ UNCHANGED m_workqueue
    /\ UNCHANGED <<m_max_requests, m_queuestat, workerVars, m_read_idx, bytes_to_send, open,
                   clientVars, armed, events, sockfd>>

\* MUTANT: the semaphore is posted for a request that does not fit, too.
AppendPosting(s) ==
    /\ loop = "append" /\ sockfd = s
    /\ m_inpool' = [m_inpool EXCEPT ![s] = TRUE]
    /\ loop' = IF m_inpool[s] THEN "epoll" ELSE "post"
    /\ m_workqueue' = IF m_inpool[s] \/ Len(m_workqueue) >= m_max_requests
                      THEN m_workqueue ELSE Append(m_workqueue, s)
    /\ UNCHANGED <<m_max_requests, m_queuestat, workerVars, m_read_idx, bytes_to_send, open,
                   clientVars, armed, events, sockfd>>

\* append_p, and what becomes of its result: nothing.
append_p(s) ==
    /\ loop = "append" /\ sockfd = s
    /\ m_inpool' = [m_inpool EXCEPT ![s] = TRUE]
    /\ \/ /\ ~m_inpool[s]
          /\ Len(m_workqueue) < m_max_requests
          /\ m_workqueue' = Append(m_workqueue, s)
          /\ loop' = "post"
       \/ /\ m_inpool[s] \/ Len(m_workqueue) >= m_max_requests
          /\ loop' = "epoll"
          /\ UNCHANGED m_workqueue
    /\ UNCHANGED <<m_max_requests, m_queuestat, workerVars, m_read_idx, bytes_to_send, open,
                   clientVars, armed, events, sockfd>>

PostQueue ==
    /\ loop = "post"
    /\ m_queuestat' = m_queuestat + 1
    /\ loop' = "epoll"
    /\ UNCHANGED <<m_max_requests, m_workqueue, workerVars, m_inpool, m_read_idx, bytes_to_send,
                   open, clientVars, armed, events, sockfd>>

\* dealwithwrite, when the socket takes only part of the answer: the
\* connection counts as out of the pool already.
WriteSome(s, n) ==
    /\ loop = "epoll"
    /\ events[s] = "out"
    /\ n \in 1..(bytes_to_send[s] - 1)
    /\ bytes_to_send' = [bytes_to_send EXCEPT ![s] = n]
    /\ armed' = [armed EXCEPT ![s] = "out"]
    /\ m_inpool' = [m_inpool EXCEPT ![s] = FALSE]
    /\ events' = [events EXCEPT ![s] = "none"]
    /\ UNCHANGED <<queueVars, workerVars, m_read_idx, open, clientVars, loop, sockfd>>

\* MUTANT: what was read is forgotten, m_inpool is not.
WriteKeeping(s) ==
    /\ loop = "epoll"
    /\ events[s] = "out"
    /\ bytes_to_send' = [bytes_to_send EXCEPT ![s] = 0]
    /\ armed' = [armed EXCEPT ![s] = "in"]
    /\ m_read_idx' = [m_read_idx EXCEPT ![s] = 0]
    /\ sent' = [sent EXCEPT ![s] = 0]
    /\ answers' = [answers EXCEPT ![s] = @ + 1]
    /\ events' = [events EXCEPT ![s] = "none"]
    /\ UNCHANGED <<queueVars, workerVars, m_inpool, open, loop, sockfd>>

\* dealwithwrite, the whole of the answer, to a keep-alive client: init()
\* makes the connection ready for the next request.
WriteAll(s) ==
    /\ loop = "epoll"
    /\ events[s] = "out"
    /\ bytes_to_send' = [bytes_to_send EXCEPT ![s] = 0]
    /\ armed' = [armed EXCEPT ![s] = "in"]
    /\ m_read_idx' = [m_read_idx EXCEPT ![s] = 0]
    /\ m_inpool' = [m_inpool EXCEPT ![s] = FALSE]
    /\ sent' = [sent EXCEPT ![s] = 0]
    /\ answers' = [answers EXCEPT ![s] = @ + 1]
    /\ events' = [events EXCEPT ![s] = "none"]
    /\ UNCHANGED <<queueVars, workerVars, open, loop, sockfd>>

\* To any other client: write() returns false and deal_timer closes.
WriteClose(s) ==
    /\ loop = "epoll"
    /\ events[s] = "out"
    /\ bytes_to_send' = [bytes_to_send EXCEPT ![s] = 0]
    /\ armed' = [armed EXCEPT ![s] = "none"]
    /\ open' = [open EXCEPT ![s] = FALSE]
    /\ answers' = [answers EXCEPT ![s] = @ + 1]
    /\ events' = [events EXCEPT ![s] = "none"]
    /\ UNCHANGED <<queueVars, workerVars, m_inpool, m_read_idx, sent, loop, sockfd>>

MainStep ==
    \/ EpollWait
    \/ PostQueue
    \/ \E s \in Sockets : \/ dealwithread(s) \/ Recv(s) \/ Again(s) \/ append_p(s)
                          \/ WriteAll(s) \/ WriteClose(s)
                          \/ \E n \in 1..Parts : WriteSome(s, n)

-----------------------------------------------------------------------------
(* A worker: threadpool::run *)

Goto(w, p) == at' = [at EXCEPT ![w] = p]

\* The worker is done with its connection.
Leave(w) ==
    /\ Goto(w, "wait")
    /\ request' = [request EXCEPT ![w] = None]

WaitQueue(w) ==
    /\ at[w] = "wait"
    /\ m_queuestat > 0
    /\ m_queuestat' = m_queuestat - 1
    /\ Goto(w, "take")
    /\ UNCHANGED <<m_max_requests, m_workqueue, request, m_inpool, m_read_idx, bytes_to_send,
                   open, clientVars, armed, loopVars>>

\* Under the lock.  (WokenForEach: the queue is never found empty.)
TakeQueue(w) ==
    /\ at[w] = "take"
    /\ m_workqueue # <<>>
    /\ request' = [request EXCEPT ![w] = Head(m_workqueue)]
    /\ m_workqueue' = Tail(m_workqueue)
    /\ Goto(w, "parse")
    /\ UNCHANGED <<m_max_requests, m_queuestat, m_inpool, m_read_idx, bytes_to_send,
                   open, clientVars, armed, loopVars>>

\* process_read gives up on headers that are not complete, and on a body of
\* which nothing has come: read on.
Unparsable(s) ==
    \/ m_read_idx[s] < Header
    \/ Body > 0 /\ m_read_idx[s] = Header

NoRequest(w) ==
    LET s == request[w] IN
    /\ at[w] = "parse"
    /\ Unparsable(s)
    /\ armed' = [armed EXCEPT ![s] = "in"]
    /\ Leave(w)
    /\ UNCHANGED <<queueVars, m_inpool, m_read_idx, bytes_to_send, open,
                   clientVars, loopVars>>

\* MUTANT: the length of the content is not waited for.
ParseEarly(w) ==
    /\ at[w] = "parse"
    /\ ~Unparsable(request[w])
    /\ Goto(w, "respond")
    /\ UNCHANGED <<queueVars, request, m_inpool, m_read_idx, bytes_to_send, open,
                   clientVars, armed, loopVars>>

\* Once the body has begun, process_read turns in parse_content until the
\* main thread has read all of it.
Parse(w) ==
    /\ at[w] = "parse"
    /\ ~Unparsable(request[w])
    /\ m_read_idx[request[w]] >= Whole
    /\ Goto(w, "respond")
    /\ UNCHANGED <<queueVars, request, m_inpool, m_read_idx, bytes_to_send, open,
                   clientVars, armed, loopVars>>

\* MUTANT: the event for writing is asked for before the worker is done.
RespondArmed(w) ==
    /\ at[w] = "respond"
    /\ bytes_to_send' = [bytes_to_send EXCEPT ![request[w]] = Parts]
    /\ armed' = [armed EXCEPT ![request[w]] = "out"]
    /\ Goto(w, "arm")
    /\ UNCHANGED <<queueVars, request, m_inpool, m_read_idx, open, clientVars, loopVars>>

\* do_request and process_write.
Respond(w) ==
    /\ at[w] = "respond"
    /\ bytes_to_send' = [bytes_to_send EXCEPT ![request[w]] = Parts]
    /\ Goto(w, "arm")
    /\ UNCHANGED <<queueVars, request, m_inpool, m_read_idx, open, clientVars,
                   armed, loopVars>>

\* The same, when process_write has no answer (a file that is not there):
\* close_conn, after which modfd has no socket to arm.
Refuse(w) ==
    LET s == request[w] IN
    /\ s \in Refusable
    /\ at[w] = "respond"
    /\ open' = [open EXCEPT ![s] = FALSE]
    /\ armed' = [armed EXCEPT ![s] = "none"]
    /\ Leave(w)
    /\ UNCHANGED <<queueVars, m_inpool, m_read_idx, bytes_to_send, clientVars, loopVars>>

\* modfd(EPOLLOUT), the last thing process does.
Arm(w) ==
    /\ at[w] = "arm"
    /\ armed' = [armed EXCEPT ![request[w]] = "out"]
    /\ Leave(w)
    /\ UNCHANGED <<queueVars, m_inpool, m_read_idx, bytes_to_send, open,
                   clientVars, loopVars>>

WorkerStep(w) ==
    \/ WaitQueue(w) \/ TakeQueue(w) \/ NoRequest(w) \/ Parse(w)
    \/ Respond(w) \/ Refuse(w) \/ Arm(w)

Next ==
    \/ MainStep
    \/ \E w \in Workers : WorkerStep(w)
    \/ \E s \in Sockets, n \in 1..Whole : Send(s, n)

Spec == Init /\ [][Next]_vars

\* The threads of the server get to run.
FairSpec == Spec /\ WF_vars(MainStep) /\ \A w \in Workers : WF_vars(WorkerStep(w))

-----------------------------------------------------------------------------
At(p) == {w \in Workers : at[w] = p}
Holding == {w \in Workers : request[w] # None}
Held(s) == \E w \in Workers : request[w] = s
Queued(s) == \E i \in DOMAIN m_workqueue : m_workqueue[i] = s
Reading(s) == loop \in {"recv", "append"} /\ sockfd = s

TypeOK ==
    /\ m_max_requests \in 1 .. MaxQueue
    /\ m_workqueue \in Seq(Sockets)
    /\ m_queuestat \in Nat
    /\ at \in [Workers -> {"wait", "take", "parse", "respond", "arm"}]
    /\ request \in [Workers -> Sockets \cup {None}]
    /\ m_inpool \in [Sockets -> BOOLEAN]
    /\ m_read_idx \in [Sockets -> 0..Whole]
    /\ bytes_to_send \in [Sockets -> 0..Parts]
    /\ open \in [Sockets -> BOOLEAN]
    /\ sent \in [Sockets -> 0..Whole]
    /\ answers \in [Sockets -> Nat]
    /\ armed \in [Sockets -> {"in", "out", "none"}]
    /\ events \in [Sockets -> {"in", "out", "none"}]
    /\ loop \in {"epoll", "recv", "append", "post"}
    /\ sockfd \in Sockets \cup {None}

\* A connection is in the pool at most once: queued once, or with one worker.
OneWorker ==
    /\ \A i, j \in DOMAIN m_workqueue : m_workqueue[i] = m_workqueue[j] => i = j
    /\ \A v, w \in Holding : request[v] = request[w] => v = w
    /\ \A w \in Holding, i \in DOMAIN m_workqueue : request[w] # m_workqueue[i]

\* The semaphore wakes one worker for each queued connection: none is left
\* behind, and no worker finds the queue empty (threadpool.h:104).
WokenForEach ==
    m_queuestat + Cardinality(At("take")) + (IF loop = "post" THEN 1 ELSE 0)
        = Len(m_workqueue)

\* The main thread does not reset a connection under its worker: what has
\* been read stays read until the worker has let go of it.
ReadKept ==
    \A s \in Sockets : Held(s) \/ Queued(s) => m_read_idx'[s] >= m_read_idx[s]
NotResetUnderWorker == [][ReadKept]_vars

\* Only requests that have been read to the end are answered, and an event
\* for writing always finds an answer.
AnswersWhole ==
    \A s \in Sockets :
        /\ bytes_to_send[s] > 0 => m_read_idx[s] = Whole
        /\ armed[s] = "out" \/ events[s] = "out" => bytes_to_send[s] > 0

\* A request that has arrived is answered, or its connection closed, as long
\* as it arrived in one piece and the queue has room for every connection.  A
\* request that arrives piecemeal and has no answer would break this for all: the
\* worker closes the socket that the main thread is reading, and recv fails with
\* an error that read_once does not look at (http_conn.cpp:287), for ever.
Answered ==
    Piecemeal \cap Refusable = {} =>
        \A s \in Sockets \ Piecemeal :
            sent[s] = Whole /\ m_max_requests >= Cardinality(Sockets)
                ~> sent[s] = 0 \/ ~open[s]

\* "A read event that is detected is put into the request queue"
\* (server.cpp:321): what was read and is not answered yet gets to a worker.
ReadIsQueued ==
    \A s \in Sockets :
        Reading(s) /\ bytes_to_send[s] = 0 ~> Queued(s) \/ Held(s)
=============================================================================

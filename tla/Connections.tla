----------------------------- MODULE Connections -----------------------------
(***************************************************************************)
(* The life of the connections: the event loop accepts them, gives each a  *)
(* slot of users[] and of users_timer[] by its descriptor and a timer in   *)
(* the sorted list, and closes them when the client hangs up, when the     *)
(* answer is not kept alive, and when the timer expires; a worker closes   *)
(* one that it has no answer for.  Descriptors are used again as soon as   *)
(* they are closed, for connections and for the files that workers open.   *)
(*                                                                         *)
(* Clients connect once each; the timer of a client's connection is named  *)
(* after the client.  Requests come in one piece and the queue of the pool *)
(* has room (Proactor has the other cases).  The list of timers is that of *)
(* TimerQueue, with a clock that is not put back.                          *)
(***************************************************************************)
EXTENDS TimerQueue, FiniteSets

CONSTANTS
    NULL,         \* no client, no timer
    Free, File,   \* what else a descriptor number may stand for
    MaxFd,        \* the descriptor numbers for connections and files are 1..MaxFd
    MAX_FD,       \* how many users the server means to have at once
    Refusable,    \* the clients process_write may have no answer for
    MaxRequests,  \* bound on the requests of all clients
    Parts         \* the writev calls that an answer may take

ASSUME ConnectionsAssumption ==
    /\ IsFiniteSet(Timers)
    /\ NULL \notin Timers /\ Free \notin Timers /\ File \notin Timers
    /\ Free # File
    /\ MaxFd \in Nat /\ MAX_FD \in Nat
    /\ Refusable \subseteq Timers
    /\ MaxRequests \in Nat /\ Parts \in Nat \ {0}

\* The clients, by whose names their connections' timers go.
Clients == Timers

Fds == 1..MaxFd

\* The listening socket, as an index of events.
Listen == 0

VARIABLES
    \* the clients and the kernel
    came,           \* the clients that have connected
    backlog,        \* of them, those that are not accepted yet
    edge,           \* a client has connected since epoll_wait last told
    requests,       \* requests sent
    unread,         \* of each client: a request is in the socket
    hung,           \* of each client: "no", "fin" (closed), "reset"
    descriptor,     \* what each descriptor number stands for
    armed,          \* of each descriptor: the one-shot interest
    alarm,          \* "set", then "signal", "event", "timeout" on its way to tick
    \* the event loop
    events,         \* what epoll_wait returned and is not dealt with yet
    loop,           \* where the main thread is
    sockfd,         \* the descriptor it closes
    \* what the threads share
    m_user_count,
    m_sockfd,       \* users[f].m_sockfd
    m_inpool,       \* users[f].m_inpool
    m_read_buf,     \* users[f].m_read_buf: "none", "allocated", "freed"
    m_read_idx,     \* users[f] has read a request
    bytes_to_send,  \* users[f]: the writev calls its answer still takes
    asker,          \* users[f]: whose request its answer is for
    timer,          \* users_timer[f].timer
    \* the workers
    fd,             \* of each client: the slot its connection was given
    job,            \* of each client: what a worker does for it
    seen,           \* of each worker that closes: the m_user_count it read
    file,           \* the descriptor of the slice a worker has open, or 0
    mishaps         \* history: "refused", "early", "lost"

connectVars == <<came, backlog, edge, requests>>
clientVars == <<connectVars, unread, hung>>
kernelVars == <<descriptor, armed>>
loopVars == <<events, loop, sockfd>>
bufferVars == <<m_read_buf, m_read_idx, bytes_to_send, asker>>
userVars == <<m_sockfd, m_inpool, bufferVars>>
timerVars == <<timer, queueVars>>
jobVars == <<fd, job, seen, file>>
vars == <<clientVars, kernelVars, alarm, loopVars, m_user_count, userVars,
          timerVars, jobVars, mishaps>>

Init ==
    /\ came = {} /\ backlog = {} /\ edge = FALSE
    /\ requests = 0
    /\ unread = [c \in Clients |-> FALSE]
    /\ hung = [c \in Clients |-> "no"]
    /\ descriptor = [f \in Fds |-> Free]
    /\ armed = [f \in Fds |-> "none"]
    /\ alarm = "set"
    /\ events = [f \in Fds \cup {Listen} |-> "none"]
    /\ loop = "epoll" /\ sockfd = 0
    /\ m_user_count = 0
    /\ m_sockfd = [f \in Fds |-> -1]
    /\ m_inpool = [f \in Fds |-> FALSE]
    /\ m_read_buf = [f \in Fds |-> "none"]
    /\ m_read_idx = [f \in Fds |-> 0]
    /\ bytes_to_send = [f \in Fds |-> 0]
    /\ asker = [f \in Fds |-> NULL]
    /\ timer = [f \in Fds |-> NULL]
    /\ QueueInit
    /\ fd = [c \in Clients |-> 0]
    /\ job = [c \in Clients |-> "none"]
    /\ seen = [c \in Clients |-> 0]
    /\ file = 0
    /\ mishaps = {}

-----------------------------------------------------------------------------
(* The clients and the clock *)

Open(c) == \E f \in Fds : descriptor[f] = c
Reaches(c) == c \in backlog \/ Open(c)

Connect(c) ==
    /\ c \notin came
    /\ came' = came \cup {c} /\ backlog' = backlog \cup {c}
    /\ edge' = TRUE
    /\ UNCHANGED <<requests, unread, hung, kernelVars, alarm, loopVars,
                   m_user_count, userVars, timerVars, jobVars, mishaps>>

Request(c) ==
    /\ Reaches(c) /\ hung[c] = "no"
    /\ ~unread[c] /\ requests < MaxRequests
    /\ requests' = requests + 1
    /\ unread' = [unread EXCEPT ![c] = TRUE]
    /\ UNCHANGED <<came, backlog, edge, hung, kernelVars, alarm, loopVars,
                   m_user_count, userVars, timerVars, jobVars, mishaps>>

\* The client closes its end, after which the server reads to the end of the
\* stream, or resets the connection.
HangUp(c, how) ==
    /\ Reaches(c) /\ hung[c] = "no"
    /\ hung' = [hung EXCEPT ![c] = how]
    /\ UNCHANGED <<came, backlog, edge, requests, unread, kernelVars, alarm,
                   loopVars, m_user_count, userVars, timerVars, jobVars, mishaps>>

\* TIMESLOT seconds pass; tick looks at the clock only once.
Clock ==
    /\ loop # "tick"
    /\ PassTime
    /\ alarm' = IF alarm = "set" THEN "signal" ELSE alarm
    /\ UNCHANGED <<clientVars, kernelVars, loopVars, m_user_count, userVars,
                   timer, jobVars, mishaps>>

-----------------------------------------------------------------------------
(* The event loop *)

\* The event the kernel has for a descriptor.
Ready(f) ==
    LET c == descriptor[f] IN
    IF armed[f] = "none" \/ c \notin Clients THEN "none"
    ELSE IF hung[c] = "reset" THEN "hup"
    ELSE IF armed[f] = "out" THEN "out"
    ELSE IF unread[c] \/ hung[c] = "fin" THEN "in"
    ELSE "none"

\* modfd: nothing happens to a descriptor that is not of a connection.
modfd(f, ev) == IF m_sockfd[f] # -1 /\ descriptor[f] \in Clients
                THEN [armed EXCEPT ![f] = ev] ELSE armed

EpollWait ==
    /\ loop = "epoll"
    /\ edge \/ alarm = "signal" \/ \E f \in Fds : Ready(f) # "none"
    /\ events' = [f \in Fds \cup {Listen} |->
                     IF f = Listen THEN (IF edge THEN "in" ELSE "none") ELSE Ready(f)]
    /\ edge' = FALSE
    /\ armed' = [f \in Fds |-> IF Ready(f) = "none" THEN armed[f] ELSE "none"]
    /\ alarm' = IF alarm = "signal" THEN "event" ELSE alarm
    /\ loop' = "batch"
    /\ UNCHANGED <<came, backlog, requests, unread, hung, descriptor, sockfd,
                   m_user_count, userVars, timerVars, jobVars, mishaps>>

\* dealwithsignal.
Signal ==
    /\ loop = "batch"
    /\ alarm = "event"
    /\ alarm' = "timeout"
    /\ UNCHANGED <<clientVars, kernelVars, loopVars, m_user_count, userVars,
                   timerVars, jobVars, mishaps>>

\* MUTANT: the timers go before the events that were returned with the signal.
EndBatchEarly ==
    /\ loop = "batch"
    /\ alarm # "event"
    /\ alarm = "timeout" \/ \A f \in DOMAIN events : events[f] = "none"
    /\ loop' = IF alarm = "timeout" THEN "tick" ELSE "epoll"
    /\ UNCHANGED <<clientVars, kernelVars, alarm, events, sockfd, m_user_count,
                   userVars, timerVars, jobVars, mishaps>>

\* All events are dealt with; a time-out comes last.
EndBatch ==
    /\ loop = "batch"
    /\ \A f \in DOMAIN events : events[f] = "none"
    /\ alarm # "event"
    /\ loop' = IF alarm = "timeout" THEN "tick" ELSE "epoll"
    /\ UNCHANGED <<clientVars, kernelVars, alarm, events, sockfd, m_user_count,
                   userVars, timerVars, jobVars, mishaps>>

\* dealclinetdata begins; it goes on until accept fails.
Accept ==
    /\ loop = "batch"
    /\ events[Listen] = "in"
    /\ events' = [events EXCEPT ![Listen] = "none"]
    /\ loop' = "accept"
    /\ UNCHANGED <<clientVars, kernelVars, alarm, sockfd, m_user_count,
                   userVars, timerVars, jobVars, mishaps>>

FreeFds == {f \in Fds : descriptor[f] = Free}

\* The kernel gives out the lowest number that is free.
Lowest(f) == f \in FreeFds /\ \A g \in FreeFds : f <= g

\* accept, and Server::timer: the slot is initialised and a timer added.
AcceptOne(c, f) ==
    /\ loop = "accept"
    /\ c \in backlog
    /\ Lowest(f)
    /\ m_user_count < MAX_FD
    /\ backlog' = backlog \ {c}
    /\ descriptor' = [descriptor EXCEPT ![f] = c]
    /\ armed' = [armed EXCEPT ![f] = "in"]
    /\ m_user_count' = m_user_count + 1
    /\ m_sockfd' = [m_sockfd EXCEPT ![f] = f]
    /\ m_inpool' = [m_inpool EXCEPT ![f] = FALSE]
    /\ m_read_buf' = [m_read_buf EXCEPT ![f] = "allocated"]
    /\ m_read_idx' = [m_read_idx EXCEPT ![f] = 0]
    /\ bytes_to_send' = [bytes_to_send EXCEPT ![f] = 0]
    /\ asker' = [asker EXCEPT ![f] = NULL]
    /\ timer' = [timer EXCEPT ![f] = c]
    /\ add_timer(c)
    /\ fd' = [fd EXCEPT ![c] = f]
    /\ UNCHANGED <<came, edge, requests, unread, hung, alarm, loopVars,
                   job, seen, file, mishaps>>

\* "Internal server busy": the client is sent away, and the loop is left
\* although others may be waiting.
AcceptBusy(c) ==
    /\ loop = "accept"
    /\ c \in backlog
    /\ FreeFds # {}
    /\ m_user_count >= MAX_FD
    /\ backlog' = backlog \ {c}
    /\ loop' = "batch"
    /\ UNCHANGED <<came, edge, requests, unread, hung, kernelVars, alarm, events,
                   sockfd, m_user_count, userVars, timerVars, jobVars, mishaps>>

\* accept fails: nobody is waiting, or there is no descriptor left.
AcceptNone ==
    /\ loop = "accept"
    /\ backlog = {} \/ FreeFds = {}
    /\ loop' = "batch"
    /\ UNCHANGED <<clientVars, kernelVars, alarm, events, sockfd, m_user_count,
                   userVars, timerVars, jobVars, mishaps>>

Handled(f) == events' = [events EXCEPT ![f] = "none"]

\* Something that is closed while a worker has it, or that is no connection.
Mishap(f) ==
    LET c == descriptor[f] IN
    (IF c \in Clients /\ job[c] # "none" THEN {"early"} ELSE {})
        \cup (IF c = File THEN {"lost"} ELSE {})

\* close: the descriptor is free, epoll forgets it, and what a client has
\* sent is gone with its socket.
Close(f) ==
    LET c == descriptor[f] IN
    /\ descriptor' = [descriptor EXCEPT ![f] = Free]
    /\ armed' = [armed EXCEPT ![f] = "none"]
    /\ unread' = IF c \in Clients THEN [unread EXCEPT ![c] = FALSE] ELSE unread
    /\ hung' = IF c \in Clients THEN [hung EXCEPT ![c] = "no"] ELSE hung

\* adjust_timer: the time of the connection starts anew.
Adjust(f) == adjust_timer(timer[f]) /\ UNCHANGED timer

\* dealwithread, when there is nothing but data to read: read_once arms the
\* descriptor again, the connection goes to the pool unless it is there, and
\* its time starts anew.
Read(f) ==
    LET c == descriptor[f] IN
    /\ loop = "batch"
    /\ events[f] = "in"
    /\ m_sockfd[f] # -1 /\ c \in Clients /\ hung[c] = "no"
    /\ Handled(f)
    /\ unread' = [unread EXCEPT ![c] = FALSE]
    /\ m_read_idx' = [m_read_idx EXCEPT ![f] = IF unread[c] THEN 1 ELSE @]
    /\ armed' = modfd(f, "in")
    /\ m_inpool' = [m_inpool EXCEPT ![f] = TRUE]
    /\ job' = IF m_inpool[f] THEN job ELSE [job EXCEPT ![c] = "pool"]
    /\ Adjust(f)
    /\ UNCHANGED <<came, backlog, edge, requests, hung, descriptor, alarm, loop, sockfd,
                   m_user_count, m_sockfd, m_read_buf, bytes_to_send, asker,
                   fd, seen, file, mishaps>>

\* The same, when m_sockfd is not of a connection any more: recv fails, and
\* read_once looks at no error but EAGAIN (http_conn.cpp:287).
ReadForever(f) ==
    /\ loop = "batch"
    /\ events[f] = "in"
    /\ m_sockfd[f] = -1 \/ descriptor[f] \notin Clients
    /\ loop' = "stuck"
    /\ UNCHANGED <<clientVars, kernelVars, alarm, events, sockfd, m_user_count,
                   userVars, timerVars, jobVars, mishaps>>

\* The first half of deal_timer: close_conn.
Drop(f) ==
    /\ loop = "batch"
    /\ Handled(f)
    /\ loop' = "deal" /\ sockfd' = f
    /\ m_read_buf' = [m_read_buf EXCEPT ![f] = "freed"]
    /\ \/ /\ m_sockfd[f] = -1
          /\ UNCHANGED <<kernelVars, unread, hung, m_user_count, m_sockfd, mishaps>>
       \/ /\ m_sockfd[f] # -1
          /\ Close(f)
          /\ m_user_count' = m_user_count - 1
          /\ m_sockfd' = [m_sockfd EXCEPT ![f] = -1]
          /\ mishaps' = mishaps \cup Mishap(f)
    /\ UNCHANGED <<connectVars, alarm, m_inpool, timerVars, jobVars>>

\* EPOLLHUP or EPOLLERR.
DropReset(f) ==
    /\ events[f] = "hup"
    /\ Drop(f)
    /\ UNCHANGED <<m_read_idx, bytes_to_send, asker>>

\* read_once reads to the end of the stream and returns false, whatever came
\* before the end.
DropRead(f) ==
    LET c == descriptor[f] IN
    /\ events[f] = "in"
    /\ m_sockfd[f] # -1 /\ c \in Clients /\ hung[c] # "no"
    /\ Drop(f)
    /\ m_read_idx' = [m_read_idx EXCEPT ![f] = IF unread[c] THEN 1 ELSE @]
    /\ UNCHANGED <<bytes_to_send, asker>>

\* MUTANT: the timer is left in the list.
DealKeeping ==
    /\ loop = "deal"
    /\ loop' = "batch"
    /\ Close(sockfd)
    /\ m_user_count' = m_user_count - 1
    /\ mishaps' = mishaps \cup Mishap(sockfd)
    /\ UNCHANGED <<connectVars, alarm, events, sockfd, userVars, timerVars, jobVars>>

\* The second half: cb_func closes the same number again, and counts the
\* user a second time; del_timer.
Deal ==
    /\ loop = "deal"
    /\ loop' = "batch"
    /\ Close(sockfd)
    /\ m_user_count' = m_user_count - 1
    /\ mishaps' = mishaps \cup Mishap(sockfd)
    /\ del_timer(timer[sockfd])
    /\ UNCHANGED <<connectVars, alarm, events, sockfd, userVars, timer, jobVars>>

\* init(): the slot is ready for the next request.
Reset(f) ==
    /\ m_inpool' = [m_inpool EXCEPT ![f] = FALSE]
    /\ m_read_idx' = [m_read_idx EXCEPT ![f] = 0]
    /\ bytes_to_send' = [bytes_to_send EXCEPT ![f] = 0]
    /\ asker' = [asker EXCEPT ![f] = NULL]

Writable(f) ==
    /\ loop = "batch"
    /\ events[f] = "out"
    /\ m_sockfd[f] # -1 /\ descriptor[f] \in Clients

\* dealwithwrite, when the socket takes a part of the answer.
WriteSome(f, n) ==
    /\ Writable(f)
    /\ hung[descriptor[f]] # "reset"
    /\ n \in 1..(bytes_to_send[f] - 1)
    /\ Handled(f)
    /\ bytes_to_send' = [bytes_to_send EXCEPT ![f] = n]
    /\ armed' = modfd(f, "out")
    /\ m_inpool' = [m_inpool EXCEPT ![f] = FALSE]
    /\ Adjust(f)
    /\ UNCHANGED <<clientVars, descriptor, alarm, loop, sockfd, m_user_count,
                   m_sockfd, m_read_buf, m_read_idx, asker, jobVars, mishaps>>

\* All of it, or nothing was left, and the client is kept alive.
WriteAll(f) ==
    /\ events[f] = "out" /\ loop = "batch"
    /\ \/ bytes_to_send[f] = 0
       \/ Writable(f) /\ hung[descriptor[f]] # "reset"
    /\ Handled(f)
    /\ armed' = modfd(f, "in")
    /\ Reset(f)
    /\ Adjust(f)
    /\ UNCHANGED <<clientVars, descriptor, alarm, loop, sockfd, m_user_count,
                   m_sockfd, m_read_buf, jobVars, mishaps>>

\* All of it to a client that is not kept alive, or writev fails; what is left
\* then does not matter, as the slot is initialised before it is used again.
DropWritten(f) ==
    /\ events[f] = "out"
    /\ bytes_to_send[f] > 0
    /\ Drop(f)
    /\ bytes_to_send' = [bytes_to_send EXCEPT ![f] = 0]
    /\ UNCHANGED <<m_read_idx, asker>>

\* MUTANT: a connection that is in the pool is spared.
TickSparing(t) ==
    /\ loop = "tick"
    /\ tick(t)
    /\ IF m_inpool[fd[t]] THEN UNCHANGED <<kernelVars, unread, hung, m_user_count, mishaps>>
       ELSE /\ Close(fd[t])
            /\ m_user_count' = m_user_count - 1
            /\ mishaps' = mishaps \cup Mishap(fd[t])
    /\ UNCHANGED <<connectVars, alarm, loopVars, userVars, timer, jobVars>>

\* MUTANT: the user is not counted down, as close_conn will have done it.
TickUncounted(t) ==
    /\ loop = "tick"
    /\ tick(t)
    /\ Close(fd[t])
    /\ mishaps' = mishaps \cup Mishap(fd[t])
    /\ UNCHANGED <<connectVars, alarm, loopVars, m_user_count, userVars, timer, jobVars>>

\* timer_handler: the timers that have expired, one after the other.
TickOne(t) ==
    /\ loop = "tick"
    /\ tick(t)
    /\ Close(fd[t])
    /\ m_user_count' = m_user_count - 1
    /\ mishaps' = mishaps \cup Mishap(fd[t])
    /\ UNCHANGED <<connectVars, alarm, loopVars, userVars, timer, jobVars>>

\* MUTANT: the alarm is not set again.
TickEndOnce ==
    /\ loop = "tick"
    /\ m_timer_lst # <<>> => expire[Head(m_timer_lst)] > 0
    /\ loop' = "epoll"
    /\ UNCHANGED <<clientVars, kernelVars, alarm, events, sockfd, m_user_count, userVars,
                   timerVars, jobVars, mishaps>>

TickEnd ==
    /\ loop = "tick"
    /\ m_timer_lst # <<>> => expire[Head(m_timer_lst)] > 0
    /\ loop' = "epoll"
    /\ alarm' = "set"
    /\ UNCHANGED <<clientVars, kernelVars, events, sockfd, m_user_count, userVars,
                   timerVars, jobVars, mishaps>>

MainStep ==
    \/ EpollWait \/ Signal \/ EndBatch
    \/ Accept \/ AcceptNone
    \/ \E c \in Clients : AcceptBusy(c) \/ \E f \in Fds : AcceptOne(c, f)
    \/ \E f \in Fds : \/ Read(f) \/ ReadForever(f) \/ DropReset(f) \/ DropRead(f)
                      \/ WriteAll(f) \/ DropWritten(f)
                      \/ \E n \in 1..Parts : WriteSome(f, n)
    \/ Deal \/ TickEnd
    \/ \E t \in Clients : TickOne(t)

-----------------------------------------------------------------------------
(* The workers: http_conn::process for the connection of c *)

Goto(c, p) == job' = [job EXCEPT ![c] = p]

\* There is nothing to parse when the slot was initialised meanwhile.
NoRequest(c) ==
    /\ job[c] = "pool"
    /\ m_read_idx[fd[c]] = 0
    /\ armed' = modfd(fd[c], "in")
    /\ Goto(c, "none")
    /\ UNCHANGED <<clientVars, descriptor, alarm, loopVars, m_user_count, userVars,
                   timerVars, fd, seen, file, mishaps>>

\* MUTANT: writability is asked for before there is an answer.
ParseArmed(c) ==
    /\ job[c] = "pool"
    /\ m_read_idx[fd[c]] > 0
    /\ armed' = modfd(fd[c], "out")
    /\ Goto(c, "busy")
    /\ UNCHANGED <<clientVars, descriptor, alarm, loopVars, m_user_count, userVars,
                   timerVars, fd, seen, file, mishaps>>

Parse(c) ==
    /\ job[c] = "pool"
    /\ m_read_idx[fd[c]] > 0
    /\ Goto(c, "busy")
    /\ UNCHANGED <<clientVars, kernelVars, alarm, loopVars, m_user_count, userVars,
                   timerVars, fd, seen, file, mishaps>>

\* do_request opens files, and they get numbers of the same kind.
OpenFile(c, f) ==
    /\ job[c] = "busy" /\ file = 0
    /\ Lowest(f)
    /\ descriptor' = [descriptor EXCEPT ![f] = File]
    /\ file' = f
    /\ Goto(c, "file")
    /\ UNCHANGED <<clientVars, armed, alarm, loopVars, m_user_count, userVars,
                   timerVars, fd, seen, mishaps>>

CloseFile(c) ==
    /\ job[c] = "file"
    /\ Close(file)
    /\ file' = 0
    /\ Goto(c, "busy")
    /\ UNCHANGED <<connectVars, alarm, loopVars, m_user_count, userVars,
                   timerVars, fd, seen, mishaps>>

\* process_write.
Respond(c) ==
    /\ job[c] = "busy"
    /\ bytes_to_send' = [bytes_to_send EXCEPT ![fd[c]] = Parts]
    /\ asker' = [asker EXCEPT ![fd[c]] = c]
    /\ Goto(c, "arm")
    /\ UNCHANGED <<clientVars, kernelVars, alarm, loopVars, m_user_count, m_sockfd,
                   m_inpool, m_read_buf, m_read_idx, timerVars, fd, seen, file, mishaps>>

\* The same, with no answer: close_conn, step by step, as the main thread
\* may use the number again in between.  The timer stays.
Refuse(c) ==
    LET f == fd[c] IN
    /\ job[c] = "busy" /\ c \in Refusable
    /\ m_read_buf' = [m_read_buf EXCEPT ![f] = "freed"]
    /\ \/ /\ m_sockfd[f] = -1
          /\ Goto(c, "arm")
          /\ UNCHANGED <<kernelVars, unread, hung, mishaps>>
       \/ /\ m_sockfd[f] # -1
          /\ Goto(c, "closed")
          /\ Close(f)
          /\ mishaps' = mishaps \cup {"refused"}
    /\ UNCHANGED <<connectVars, alarm, loopVars, m_user_count, m_sockfd, m_inpool,
                   m_read_idx, bytes_to_send, asker, timerVars, fd, seen, file>>

Unset(c) ==
    /\ job[c] = "closed"
    /\ m_sockfd' = [m_sockfd EXCEPT ![fd[c]] = -1]
    /\ seen' = [seen EXCEPT ![c] = m_user_count]
    /\ Goto(c, "count")
    /\ UNCHANGED <<clientVars, kernelVars, alarm, loopVars, m_user_count, m_inpool,
                   bufferVars, timerVars, fd, file, mishaps>>

\* m_user_count is a plain int that two threads change.
Decrement(c) ==
    /\ job[c] = "count"
    /\ m_user_count' = seen[c] - 1
    /\ seen' = [seen EXCEPT ![c] = 0]
    /\ Goto(c, "arm")
    /\ UNCHANGED <<clientVars, kernelVars, alarm, loopVars, userVars,
                   timerVars, fd, file, mishaps>>

\* modfd for writing, the last thing process does.
Arm(c) ==
    /\ job[c] = "arm"
    /\ armed' = modfd(fd[c], "out")
    /\ Goto(c, "none")
    /\ UNCHANGED <<clientVars, descriptor, alarm, loopVars, m_user_count, userVars,
                   timerVars, fd, seen, file, mishaps>>

WorkerStep(c) ==
    \/ NoRequest(c) \/ Parse(c) \/ CloseFile(c) \/ Respond(c) \/ Refuse(c)
    \/ Unset(c) \/ Decrement(c) \/ Arm(c)
    \/ \E f \in Fds : OpenFile(c, f)

Next ==
    \/ MainStep
    \/ \E c \in Clients : WorkerStep(c)
    \/ \E c \in Clients : \/ Connect(c) \/ Request(c)
                          \/ \E how \in {"fin", "reset"} : HangUp(c, how)
    \/ Clock

Spec == Init /\ [][Next]_vars

\* The event loop runs, and time passes.
FairSpec == Spec /\ WF_vars(MainStep) /\ WF_vars(Clock)

-----------------------------------------------------------------------------
TypeOK ==
    /\ came \subseteq Clients /\ backlog \subseteq came /\ edge \in BOOLEAN
    /\ requests \in 0..MaxRequests
    /\ unread \in [Clients -> BOOLEAN]
    /\ hung \in [Clients -> {"no", "fin", "reset"}]
    /\ descriptor \in [Fds -> Clients \cup {Free, File}]
    /\ armed \in [Fds -> {"none", "in", "out"}]
    /\ alarm \in {"set", "signal", "event", "timeout"}
    /\ events \in [Fds \cup {Listen} -> {"none", "in", "out", "hup"}]
    /\ loop \in {"epoll", "batch", "accept", "deal", "tick", "stuck"}
    /\ sockfd \in Fds \cup {0}
    /\ m_user_count \in Int
    /\ m_sockfd \in [Fds -> Fds \cup {-1}]
    /\ m_inpool \in [Fds -> BOOLEAN]
    /\ m_read_buf \in [Fds -> {"none", "allocated", "freed"}]
    /\ m_read_idx \in [Fds -> 0..1]
    /\ bytes_to_send \in [Fds -> 0..Parts]
    /\ asker \in [Fds -> Clients \cup {NULL}]
    /\ timer \in [Fds -> Clients \cup {NULL}]
    /\ m_timer_lst \in Seq(Clients)
    /\ expire \in [Clients -> 0..Slots]
    /\ back = 0
    /\ fd \in [Clients -> Fds \cup {0}]
    /\ job \in [Clients -> {"none", "pool", "busy", "file", "closed", "count", "arm"}]
    /\ seen \in [Clients -> Int]
    /\ file \in Fds \cup {0}
    /\ mishaps \subseteq {"refused", "early", "lost"}

\* A connection that is open has its own timer, which is in the list: it
\* will be closed some time.
OpenIsTimed ==
    \A f \in Fds : descriptor[f] \in Clients =>
        timer[f] = descriptor[f] /\ timer[f] \in Listed

\* users_timer keeps the pointer of a timer that was deleted (server.cpp:225);
\* it is never followed: whatever is dealt with has a timer that exists.
TimerAlive ==
    \A f \in Fds : events[f] # "none" \/ (loop = "deal" /\ sockfd = f) =>
        timer[f] \in Listed

\* The server turns nobody away while it has room (server.cpp:254): the
\* count of users is never above the connections that are open.  A worker
\* that closes changes the count beside the main thread, and may undo this.
UsersNotOverstated ==
    "refused" \notin mishaps =>
        m_user_count <= Cardinality({f \in Fds : descriptor[f] \in Clients})

\* A timer that will expire belongs to the connection that is open on its
\* descriptor, so that tick closes no other, unless a worker has closed its
\* connection or lost its file to the second close of deal_timer.
TimersOwn ==
    mishaps \cap {"refused", "lost"} = {} =>
        \A c \in Listed : descriptor[fd[c]] = c \/ (loop = "deal" /\ timer[sockfd] = c)

\* An event that waits in the batch is of a connection that is still open:
\* it is not dealt with for the next one on the same number.
EventsCurrent ==
    mishaps \cap {"refused", "lost"} = {} =>
        \A f \in Fds : events[f] # "none" =>
            /\ descriptor[f] \in Clients /\ m_sockfd[f] = f
            /\ m_read_buf[f] = "allocated"

\* A client is sent the answer to its own request, unless a connection was
\* closed while a worker had it, or by the worker, or a file was closed in the
\* worker's stead: the worker then closes what has the number next, and leaves
\* an answer behind that is nobody's.
AnswersOwn ==
    mishaps = {} =>
        \A f \in Fds : events[f] = "out" => asker[f] = descriptor[f]

\* A connection whose client falls silent is closed: the requests are bounded, so
\* that every client falls silent.
SilentIsClosed ==
    \A c \in Clients : Open(c) ~> ~Open(c) \/ mishaps \cap {"refused", "lost"} # {}
=============================================================================

------------------------------ MODULE SqlPool ------------------------------
(***************************************************************************)
(* connection_pool: the worker threads take a database connection before   *)
(* they process a request and give it back afterwards (connectionRAII).    *)
(* GetConnection looks at the list before it waits on the semaphore, takes *)
(* the lock only after it; ReleaseConnection posts after it has dropped    *)
(* the lock.  Each locked section is one step, the rest interleaves.       *)
(***************************************************************************)
EXTENDS Integers, Sequences, FiniteSets

CONSTANTS
    Threads,    \* the worker threads
    MaxConn     \* bound on sql_num, the connections that init opens

ASSUME SqlPoolAssumption ==
    /\ IsFiniteSet(Threads)
    /\ MaxConn \in Nat \ {0}

NULL == 0               \* no connection
Conns == 1 .. MaxConn   \* a connection is the number under which it was opened

VARIABLES
    m_MaxConn,   \* the connections of the pool
    connList,    \* the free connections
    m_FreeConn,  \* how many are free,
    m_CurConn,   \* and how many in use, as GetFreeConn and the log see it
    reserve,     \* the semaphore
    at,          \* where each thread is in connectionRAII
    mysql,       \* the connection of the request each thread processes
    closed       \* the connections passed to mysql_close

poolVars == <<m_MaxConn, connList, m_FreeConn, m_CurConn, closed>>
vars == <<poolVars, reserve, at, mysql>>

\* init: one connection after the other, then the semaphore.  A connection
\* that cannot be opened ends the process before any thread runs.
Init ==
    /\ m_MaxConn \in Conns
    /\ connList = [i \in 1 .. m_MaxConn |-> i]
    /\ m_FreeConn = m_MaxConn
    /\ m_CurConn = 0
    /\ reserve = m_MaxConn
    /\ at = [t \in Threads |-> "idle"]
    /\ mysql = [t \in Threads |-> NULL]
    /\ closed = {}

-----------------------------------------------------------------------------
(* GetConnection *)

\* The look at the list, outside the lock: an empty one returns NULL.
CheckSize(t) ==
    /\ at[t] = "idle"
    /\ at' = [at EXCEPT ![t] = IF connList = <<>> THEN "using" ELSE "wait"]
    /\ UNCHANGED <<poolVars, reserve, mysql>>

\* MUTANT: the result of a wait that does not block is not looked at.
WaitNot(t) ==
    /\ at[t] = "wait"
    /\ reserve' = IF reserve > 0 THEN reserve - 1 ELSE 0
    /\ at' = [at EXCEPT ![t] = "pop"]
    /\ UNCHANGED <<poolVars, mysql>>

WaitReserve(t) ==
    /\ at[t] = "wait"
    /\ reserve > 0
    /\ reserve' = reserve - 1
    /\ at' = [at EXCEPT ![t] = "pop"]
    /\ UNCHANGED <<poolVars, mysql>>

\* MUTANT: the connection stays in the list.
PopKeeping(t) ==
    /\ at[t] = "pop"
    /\ connList # <<>>
    /\ mysql' = [mysql EXCEPT ![t] = Head(connList)]
    /\ m_FreeConn' = m_FreeConn - 1
    /\ m_CurConn' = m_CurConn + 1
    /\ at' = [at EXCEPT ![t] = "using"]
    /\ UNCHANGED <<m_MaxConn, connList, reserve, closed>>

\* Under the lock.  Popping an empty list aborts the process: no step.
Pop(t) ==
    /\ at[t] = "pop"
    /\ connList # <<>>
    /\ mysql' = [mysql EXCEPT ![t] = Head(connList)]
    /\ connList' = Tail(connList)
    /\ m_FreeConn' = m_FreeConn - 1
    /\ m_CurConn' = m_CurConn + 1
    /\ at' = [at EXCEPT ![t] = "using"]
    /\ UNCHANGED <<m_MaxConn, reserve, closed>>

-----------------------------------------------------------------------------
(* ReleaseConnection *)

\* Under the lock.
Release(t) ==
    /\ at[t] = "using"
    /\ mysql[t] # NULL
    /\ connList' = Append(connList, mysql[t])
    /\ m_FreeConn' = m_FreeConn + 1
    /\ m_CurConn' = m_CurConn - 1
    /\ mysql' = [mysql EXCEPT ![t] = NULL]
    /\ at' = [at EXCEPT ![t] = "post"]
    /\ UNCHANGED <<m_MaxConn, reserve, closed>>

\* A thread that was given NULL has nothing to give back.
ReleaseNull(t) ==
    /\ at[t] = "using"
    /\ mysql[t] = NULL
    /\ at' = [at EXCEPT ![t] = "idle"]
    /\ UNCHANGED <<poolVars, reserve, mysql>>

\* MUTANT: the post is forgotten.
PostNothing(t) ==
    /\ at[t] = "post"
    /\ at' = [at EXCEPT ![t] = "idle"]
    /\ UNCHANGED <<poolVars, reserve, mysql>>

Post(t) ==
    /\ at[t] = "post"
    /\ reserve' = reserve + 1
    /\ at' = [at EXCEPT ![t] = "idle"]
    /\ UNCHANGED <<poolVars, mysql>>

-----------------------------------------------------------------------------
\* MUTANT: every connection is closed, the ones in use too.
DestroyAll ==
    /\ closed = {}
    /\ closed' = 1 .. m_MaxConn
    /\ connList' = <<>>
    /\ m_FreeConn' = 0 /\ m_CurConn' = 0
    /\ UNCHANGED <<m_MaxConn, reserve, at, mysql>>

\* DestroyPool, from the destructor of the static pool when the process
\* leaves main: the detached worker threads still run.
DestroyPool ==
    /\ closed = {}
    /\ connList # <<>>
    /\ closed' = {connList[i] : i \in DOMAIN connList}
    /\ connList' = <<>>
    /\ m_FreeConn' = 0 /\ m_CurConn' = 0
    /\ UNCHANGED <<m_MaxConn, reserve, at, mysql>>

\* Then the process may end, whatever its threads wait for.
Leave == closed # {} /\ UNCHANGED vars

Next ==
    \/ \E t \in Threads : \/ CheckSize(t) \/ WaitReserve(t) \/ Pop(t)
                          \/ Release(t) \/ ReleaseNull(t) \/ Post(t)
    \/ DestroyPool \/ Leave

Spec == Init /\ [][Next]_vars

-----------------------------------------------------------------------------
At(p) == {t \in Threads : at[t] = p}
Holders == {t \in Threads : mysql[t] # NULL}

TypeOK ==
    /\ m_MaxConn \in Conns
    /\ connList \in Seq(Conns)
    /\ m_FreeConn \in Int /\ m_CurConn \in Int
    /\ reserve \in Nat
    /\ at \in [Threads -> {"idle", "wait", "pop", "using", "post"}]
    /\ mysql \in [Threads -> Conns \cup {NULL}]
    /\ closed \subseteq Conns

\* A connection is in one place: once in the list, or with one thread.
NoSharing ==
    /\ \A i, j \in DOMAIN connList : connList[i] = connList[j] => i = j
    /\ \A t, u \in Holders : mysql[t] = mysql[u] => t = u
    /\ \A t \in Holders, i \in DOMAIN connList : mysql[t] # connList[i]

\* A thread let through by the semaphore finds a connection in the list
\* (sql_connection_pool.cpp:75 takes the front unseen), as long as the pool
\* is not destroyed.
PopFindsConnection ==
    closed = {} => \A t \in At("pop") : connList # <<>>

\* A connection that a thread uses or may be given has not been closed,
\* even when the pool is destroyed under the threads.
NoneClosed ==
    /\ \A t \in Holders : mysql[t] \notin closed
    /\ \A i \in DOMAIN connList : connList[i] \notin closed

\* With no more threads than connections, as the default configuration has
\* it (config.cpp: threadnum 8, sql_num 8), no thread is ever given NULL and
\* none sleeps on the semaphore, whatever the others do.
EnoughForAll ==
    closed = {} /\ Cardinality(Threads) <= m_MaxConn =>
        /\ \A t \in At("using") : mysql[t] # NULL
        /\ At("wait") # {} => reserve > 0
=============================================================================

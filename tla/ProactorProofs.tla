--------------------------- MODULE ProactorProofs ---------------------------
(***************************************************************************)
(* Proofs about Proactor, for every number of workers and sockets, every   *)
(* capacity of the queue and every way requests are cut into segments: a   *)
(* connection is with one worker at most, the semaphore counts the queue,  *)
(* and an answer is made of a whole request that stays as it was read.     *)
(***************************************************************************)
EXTENDS Proactor, SequenceTheorems, FiniteSetTheorems, TLAPS

Writable(s) == armed[s] = "out" \/ events[s] = "out"

\* m_inpool covers the time a connection is queued or with a worker.  It is
\* given up only when the socket was armed for writing, which the worker
\* does last; and then no read of the socket is under way that could append
\* it again.
Handover ==
    /\ \A w \in Workers : request[w] # None <=> at[w] \in {"parse", "respond", "arm"}
    /\ \A s \in Sockets :
        /\ Held(s) \/ Queued(s) => m_inpool[s]
        /\ Writable(s) => ~Held(s) /\ ~Queued(s)
        /\ Writable(s) => m_inpool[s] \/ (events[s] # "in" /\ ~Reading(s))

\* What the worker and the main thread know of the request and its answer.
AnswerInv ==
    /\ \A s \in Sockets : bytes_to_send[s] > 0 => m_read_idx[s] = Whole
    /\ \A s \in Sockets : Writable(s) => bytes_to_send[s] > 0
    /\ \A w \in Workers :
        /\ at[w] \in {"respond", "arm"} => m_read_idx[request[w]] = Whole
        /\ at[w] = "arm" => bytes_to_send[request[w]] > 0

Inv == TypeOK /\ Handover /\ OneWorker /\ AnswerInv

LEMMA WholeIsNat == Whole \in Nat /\ Whole > 0
BY ProactorAssumption DEF Whole

LEMMA ProactorInitInv == Init => Inv
<1> SUFFICES ASSUME Init PROVE Inv
  OBVIOUS
<1> USE ProactorAssumption, WholeIsNat
<1>1. TypeOK
  BY DEF Init, TypeOK
<1>2. Handover
  BY DEF Init, Handover, Held, Queued, Writable, Reading
<1>3. OneWorker /\ AnswerInv
  BY DEF Init, OneWorker, AnswerInv, Holding, Writable
<1> QED
  BY <1>1, <1>2, <1>3 DEF Inv

-----------------------------------------------------------------------------
(* One lemma for each kind of step. *)

\* The steps of the main thread and the client that leave the queue, the
\* workers and m_inpool alone.
LEMMA MainInv ==
    ASSUME Inv,
           \/ EpollWait \/ PostQueue
           \/ \E s \in Sockets : \/ dealwithread(s) \/ Recv(s) \/ Again(s)
                                 \/ WriteAll(s) \/ WriteClose(s)
                                 \/ \E n \in 1..Parts : WriteSome(s, n)
           \/ \E s \in Sockets, n \in 1..Whole : Send(s, n)
    PROVE  Inv'
<1> USE ProactorAssumption, WholeIsNat
<1> USE DEF queueVars, workerVars, clientVars, loopVars
<1>0. TypeOK /\ Handover /\ OneWorker /\ AnswerInv
  BY DEF Inv
<1>a. ASSUME UNCHANGED <<m_workqueue, request>>
      PROVE  OneWorker' /\ \A s : (Held(s)' <=> Held(s)) /\ (Queued(s)' <=> Queued(s))
  BY <1>0, <1>a DEF OneWorker, Holding, Held, Queued
<1>1. CASE EpollWait
  <2>0. /\ UNCHANGED <<m_max_requests, m_workqueue, m_queuestat, at, request, m_inpool, m_read_idx,
                       bytes_to_send, open, sent, answers, loop, sockfd>>
        /\ loop = "epoll" /\ \A s \in Sockets : events[s] = "none"
        /\ events' = [s \in Sockets |-> IF s \in Ready THEN armed[s] ELSE "none"]
        /\ armed' = [s \in Sockets |-> IF s \in Ready THEN "none" ELSE armed[s]]
    BY <1>1 DEF EpollWait
  <2>1. TypeOK'
    BY <1>0, <2>0 DEF TypeOK
  <2>2. \A s \in Sockets : Writable(s)' => Writable(s) /\ events'[s] # "in" /\ ~Reading(s)'
    BY <1>0, <2>0 DEF Writable, Ready, Reading, TypeOK
  <2>3. Handover'
    BY <1>0, <2>0, <2>2, <1>a DEF Handover
  <2>4. AnswerInv'
    BY <1>0, <2>0, <2>2 DEF AnswerInv
  <2> QED
    BY <2>0, <2>1, <2>3, <2>4, <1>a DEF Inv
<1>2. CASE PostQueue
  <2>1. TypeOK'
    BY <1>0, <1>2 DEF PostQueue, TypeOK
  <2>2. Handover'
    BY <1>0, <1>2, <1>a DEF PostQueue, Handover, Writable, Reading
  <2>3. AnswerInv'
    BY <1>0, <1>2 DEF PostQueue, AnswerInv, Writable
  <2> QED
    BY <1>2, <2>1, <2>2, <2>3, <1>a DEF Inv, PostQueue
<1>3. ASSUME NEW s \in Sockets, dealwithread(s) PROVE Inv'
  <2>1. TypeOK'
    BY <1>0, <1>3 DEF dealwithread, TypeOK
  <2>2. Handover'
    BY <1>0, <1>3, <1>a DEF dealwithread, Handover, Writable, Reading, TypeOK
  <2>3. AnswerInv'
    BY <1>0, <1>3 DEF dealwithread, AnswerInv, Writable, TypeOK
  <2> QED
    BY <1>3, <2>1, <2>2, <2>3, <1>a DEF Inv, dealwithread
<1>4. ASSUME NEW s \in Sockets, Recv(s) PROVE Inv'
  <2>1. TypeOK'
    BY <1>0, <1>4 DEF Recv, TypeOK
  <2>2. Handover'
    BY <1>0, <1>4, <1>a DEF Recv, Handover, Writable, Reading
  <2>3. m_read_idx[s] # Whole /\ m_read_idx' = [m_read_idx EXCEPT ![s] = sent[s]]
    BY <1>0, <1>4 DEF Recv, TypeOK
  <2>4. AnswerInv'
    BY <1>0, <1>4, <2>3 DEF Recv, AnswerInv, Writable, TypeOK, Handover
  <2> QED
    BY <1>4, <2>1, <2>2, <2>4, <1>a DEF Inv, Recv
<1>5. ASSUME NEW s \in Sockets, Again(s) PROVE Inv'
  <2>1. TypeOK'
    BY <1>0, <1>5 DEF Again, TypeOK
  <2>2. Handover'
    BY <1>0, <1>5, <1>a DEF Again, Handover, Writable, Reading, TypeOK
  <2>3. AnswerInv'
    BY <1>0, <1>5 DEF Again, AnswerInv, Writable, TypeOK
  <2> QED
    BY <1>5, <2>1, <2>2, <2>3, <1>a DEF Inv, Again
<1>6. ASSUME NEW s \in Sockets, WriteAll(s) PROVE Inv'
  <2>0. ~Held(s) /\ ~Queued(s)
    BY <1>0, <1>6 DEF WriteAll, Handover, Writable
  <2>1. TypeOK'
    <3>1. /\ sent' \in [Sockets -> 0..Whole] /\ m_read_idx' \in [Sockets -> 0..Whole]
          /\ bytes_to_send' \in [Sockets -> 0..Parts] /\ answers' \in [Sockets -> Nat]
      BY <1>0, <1>6, SMTT(20) DEF WriteAll, TypeOK
    <3> QED
      BY <1>0, <1>6, <3>1 DEF WriteAll, TypeOK
  <2>2. Handover'
    BY <1>0, <1>6, <2>0, <1>a DEF WriteAll, Handover, Writable, Reading, TypeOK
  <2>3. AnswerInv'
    BY <1>0, <1>6, <2>0 DEF WriteAll, AnswerInv, Writable, TypeOK, Held, Handover
  <2> QED
    BY <1>6, <2>1, <2>2, <2>3, <1>a DEF Inv, WriteAll
<1>7. ASSUME NEW s \in Sockets, WriteClose(s) PROVE Inv'
  <2>0. ~Held(s) /\ ~Queued(s)
    BY <1>0, <1>7 DEF WriteClose, Handover, Writable
  <2>1. TypeOK'
    BY <1>0, <1>7 DEF WriteClose, TypeOK
  <2>2. Handover'
    BY <1>0, <1>7, <2>0, <1>a DEF WriteClose, Handover, Writable, Reading, TypeOK
  <2>3. AnswerInv'
    BY <1>0, <1>7, <2>0 DEF WriteClose, AnswerInv, Writable, TypeOK, Held, Handover
  <2> QED
    BY <1>7, <2>1, <2>2, <2>3, <1>a DEF Inv, WriteClose
<1>8. ASSUME NEW s \in Sockets, NEW n \in 1..Parts, WriteSome(s, n) PROVE Inv'
  <2>0. ~Held(s) /\ ~Queued(s)
    BY <1>0, <1>8 DEF WriteSome, Handover, Writable
  <2>1. TypeOK'
    BY <1>0, <1>8, SMTT(20) DEF WriteSome, TypeOK
  <2>2. Handover'
    BY <1>0, <1>8, <2>0, <1>a DEF WriteSome, Handover, Writable, Reading, TypeOK
  <2>3. AnswerInv'
    <3>1. /\ n > 0 /\ bytes_to_send[s] > 0
          /\ \A w \in Workers : request[w] # s
      BY <1>0, <1>8, <2>0 DEF WriteSome, TypeOK, Held
    <3>2. /\ bytes_to_send' = [bytes_to_send EXCEPT ![s] = n]
          /\ armed' = [armed EXCEPT ![s] = "out"]
          /\ events' = [events EXCEPT ![s] = "none"]
          /\ UNCHANGED <<m_read_idx, at, request>>
      BY <1>8 DEF WriteSome
    <3> QED
      BY <1>0, <3>1, <3>2 DEF AnswerInv, Writable, TypeOK, Handover
  <2> QED
    BY <1>8, <2>1, <2>2, <2>3, <1>a DEF Inv, WriteSome
<1>9. ASSUME NEW s \in Sockets, NEW n \in 1..Whole, Send(s, n) PROVE Inv'
  <2>1. TypeOK'
    <3>1. sent[s] \in 0..Whole /\ n \in 1..(Whole - sent[s]) /\ sent' = [sent EXCEPT ![s] = @ + n]
      BY <1>0, <1>9 DEF Send, TypeOK
    <3>2. sent[s] + n \in 0..Whole
      BY <3>1
    <3>3. sent' \in [Sockets -> 0..Whole]
      BY <1>0, <3>1, <3>2 DEF TypeOK
    <3> QED
      BY <1>0, <1>9, <3>3 DEF Send, TypeOK
  <2>2. Handover'
    BY <1>0, <1>9, <1>a DEF Send, Handover, Writable, Reading
  <2>3. AnswerInv'
    BY <1>0, <1>9 DEF Send, AnswerInv, Writable
  <2> QED
    BY <1>9, <2>1, <2>2, <2>3, <1>a DEF Inv, Send
<1> QED
  BY <1>1, <1>2, <1>3, <1>4, <1>5, <1>6, <1>7, <1>8, <1>9

\* The connection that is appended is in nobody's hands.
LEMMA AppendInv ==
    ASSUME Inv, NEW s \in Sockets, append_p(s)
    PROVE  Inv'
<1> USE ProactorAssumption, WholeIsNat
<1> USE DEF queueVars, workerVars, clientVars, loopVars
<1>0. TypeOK /\ Handover /\ OneWorker /\ AnswerInv
  BY DEF Inv
<1>1. /\ loop = "append" /\ sockfd = s
      /\ m_inpool' = [m_inpool EXCEPT ![s] = TRUE]
      /\ UNCHANGED <<m_max_requests, m_queuestat, at, request, m_read_idx, bytes_to_send, open,
                     sent, answers, armed, events, sockfd>>
  BY DEF append_p
<1>2. AnswerInv'
  BY <1>0, <1>1 DEF AnswerInv, Writable
<1>3. CASE loop' = "epoll" /\ m_workqueue' = m_workqueue
  <2>1. TypeOK'
    BY <1>0, <1>1, <1>3 DEF TypeOK
  <2>2. Handover'
    BY <1>0, <1>1, <1>3 DEF Handover, Writable, Reading, Held, Queued, TypeOK
  <2>3. OneWorker'
    BY <1>0, <1>1, <1>3 DEF OneWorker, Holding
  <2> QED
    BY <1>2, <2>1, <2>2, <2>3 DEF Inv
<1>4. CASE ~m_inpool[s] /\ loop' = "post" /\ m_workqueue' = Append(m_workqueue, s)
  <2>1. ~Held(s) /\ ~Queued(s) /\ ~Writable(s)
    BY <1>0, <1>1, <1>4 DEF Handover, Reading
  <2>2. /\ m_workqueue' \in Seq(Sockets)
        /\ Len(m_workqueue) \in Nat /\ DOMAIN m_workqueue = 1..Len(m_workqueue)
        /\ DOMAIN m_workqueue' = 1..(Len(m_workqueue) + 1)
        /\ \A i \in 1..Len(m_workqueue) : m_workqueue'[i] = m_workqueue[i]
        /\ m_workqueue'[Len(m_workqueue) + 1] = s
    BY <1>0, <1>4, AppendProperties, LenProperties DEF TypeOK
  <2>3. TypeOK'
    BY <1>0, <1>1, <1>4, <2>2 DEF TypeOK
  <2>4. \A r \in Sockets : /\ Held(r)' <=> Held(r)
                           /\ Queued(r)' => Queued(r) \/ r = s
                           /\ Writable(r)' <=> Writable(r)
                           /\ ~Reading(r)'
    BY <1>1, <1>4, <2>2 DEF Held, Queued, Writable, Reading
  <2>5. Handover'
    BY <1>0, <1>1, <2>1, <2>4 DEF Handover, TypeOK
  <2>6. OneWorker'
    <3>1. \A i \in DOMAIN m_workqueue' :
            i # Len(m_workqueue) + 1 => i \in DOMAIN m_workqueue /\ m_workqueue'[i] = m_workqueue[i]
      BY <2>2
    <3>2. \A i \in DOMAIN m_workqueue : m_workqueue[i] # s
      BY <2>1 DEF Queued
    <3>3. \A i, j \in DOMAIN m_workqueue' : m_workqueue'[i] = m_workqueue'[j] => i = j
      BY <1>0, <2>2, <3>1, <3>2 DEF OneWorker
    <3>4. \A w \in Holding', i \in DOMAIN m_workqueue' : request'[w] # m_workqueue'[i]
      BY <1>0, <1>1, <2>1, <2>2, <3>1 DEF OneWorker, Held, Holding
    <3> QED
      BY <1>0, <1>1, <3>3, <3>4 DEF OneWorker, Holding
  <2> QED
    BY <1>2, <2>3, <2>5, <2>6 DEF Inv
<1> QED
  BY <1>3, <1>4 DEF append_p

\* The connection goes from the queue to the worker.
LEMMA TakeInv ==
    ASSUME Inv, NEW w \in Workers, TakeQueue(w)
    PROVE  Inv'
<1> USE ProactorAssumption, WholeIsNat
<1> USE DEF clientVars, loopVars
<1>0. TypeOK /\ Handover /\ OneWorker /\ AnswerInv
  BY DEF Inv
<1> DEFINE s == Head(m_workqueue)
<1>1. /\ at[w] = "take" /\ at' = [at EXCEPT ![w] = "parse"]
      /\ m_workqueue # <<>> /\ m_workqueue' = Tail(m_workqueue)
      /\ request' = [request EXCEPT ![w] = s]
      /\ UNCHANGED <<m_max_requests, m_queuestat, m_inpool, m_read_idx, bytes_to_send, open, sent,
                     answers, armed, events, loop, sockfd>>
  BY DEF TakeQueue, Goto
<1>2. /\ s \in Sockets /\ s = m_workqueue[1] /\ 1 \in DOMAIN m_workqueue
      /\ m_workqueue' \in Seq(Sockets)
      /\ \A i \in DOMAIN m_workqueue' :
           /\ i \in Nat /\ i > 0
           /\ i + 1 \in DOMAIN m_workqueue /\ m_workqueue'[i] = m_workqueue[i + 1]
  <2>1. /\ m_workqueue \in Seq(Sockets)
        /\ Len(m_workqueue) \in Nat /\ Len(m_workqueue) > 0
        /\ DOMAIN m_workqueue = 1..Len(m_workqueue)
    BY <1>0, <1>1, LenProperties, EmptySeq DEF TypeOK
  <2>2. /\ Tail(m_workqueue) \in Seq(Sockets)
        /\ Len(Tail(m_workqueue)) = Len(m_workqueue) - 1
        /\ \A i \in 1..Len(Tail(m_workqueue)) : Tail(m_workqueue)[i] = m_workqueue[i + 1]
        /\ Head(m_workqueue) \in Sockets
    BY <1>1, <2>1, HeadTailProperties
  <2>3. DOMAIN Tail(m_workqueue) = 1..Len(Tail(m_workqueue))
    BY <2>2, LenProperties
  <2>4. Head(m_workqueue) = m_workqueue[1]
    BY <2>1
  <2> QED
    BY <1>1, <2>1, <2>2, <2>3, <2>4
<1> HIDE DEF s
<1>3. request[w] = None /\ s # None /\ Queued(s) /\ ~Held(s)
  BY <1>0, <1>1, <1>2 DEF Handover, OneWorker, Queued, Held, Holding
<1>4. TypeOK'
  BY <1>0, <1>1, <1>2 DEF TypeOK
<1>5. \A r \in Sockets : /\ Held(r)' => Held(r) \/ r = s
                         /\ Queued(r)' => Queued(r)
                         /\ Writable(r)' <=> Writable(r)
                         /\ Reading(r)' <=> Reading(r)
  <2>1. \A r \in Sockets : Held(r)' => Held(r) \/ r = s
    BY <1>0, <1>1 DEF Held, TypeOK
  <2>2. \A r \in Sockets : Queued(r)' => Queued(r)
    BY <1>2 DEF Queued
  <2> QED
    BY <1>1, <2>1, <2>2 DEF Writable, Reading
<1>6. Handover'
  BY <1>0, <1>1, <1>3, <1>5, SMTT(20) DEF Handover, TypeOK
<1>7. OneWorker'
  <2>1. \A i, j \in DOMAIN m_workqueue' : m_workqueue'[i] = m_workqueue'[j] => i = j
    <3> SUFFICES ASSUME NEW i \in DOMAIN m_workqueue', NEW j \in DOMAIN m_workqueue',
                        m_workqueue'[i] = m_workqueue'[j]
                 PROVE  i = j
      OBVIOUS
    <3>1. i + 1 = j + 1
      BY <1>0, <1>2 DEF OneWorker
    <3> QED
      BY <1>2, <3>1
  <2>2. \A i \in DOMAIN m_workqueue' : m_workqueue'[i] # s
    <3> SUFFICES ASSUME NEW i \in DOMAIN m_workqueue' PROVE m_workqueue'[i] # s
      OBVIOUS
    <3>1. i + 1 # 1
      BY <1>2
    <3> QED
      BY <1>0, <1>2, <3>1 DEF OneWorker
  <2>3. \A v \in Holding' :
          \/ v = w /\ request'[v] = s
          \/ v # w /\ v \in Holding /\ request'[v] = request[v]
    <3>1. request \in [Workers -> Sockets \cup {None}]
      BY <1>0 DEF TypeOK
    <3>2. \A v \in Workers : \/ v = w /\ request'[v] = s
                             \/ v # w /\ request'[v] = request[v]
      BY <1>1, <3>1
    <3> QED
      BY <3>2 DEF Holding
  <2>4. \A v \in Holding : request[v] # s
    BY <1>0, <1>2 DEF OneWorker
  <2>5. \A v \in Holding', i \in DOMAIN m_workqueue' : request'[v] # m_workqueue'[i]
    BY <1>0, <1>2, <2>2, <2>3 DEF OneWorker
  <2>6. \A u, v \in Holding' : request'[u] = request'[v] => u = v
    BY <1>0, <2>3, <2>4 DEF OneWorker
  <2> QED
    BY <2>1, <2>5, <2>6 DEF OneWorker
<1>8. AnswerInv'
  BY <1>0, <1>1, <1>5 DEF AnswerInv, TypeOK
<1> QED
  BY <1>4, <1>6, <1>7, <1>8 DEF Inv

\* A worker between taking a connection and letting go of it.
LEMMA WorkerInv ==
    ASSUME Inv, NEW w \in Workers,
           WaitQueue(w) \/ Parse(w) \/ Respond(w)
    PROVE  Inv'
<1> USE ProactorAssumption, WholeIsNat
<1> USE DEF queueVars, clientVars, loopVars, Goto
<1>0. TypeOK /\ Handover /\ OneWorker /\ AnswerInv
  BY DEF Inv
<1>1. UNCHANGED <<m_max_requests, m_workqueue, request, m_inpool, m_read_idx, open, sent, answers,
                  armed, events, loop, sockfd>>
  BY DEF WaitQueue, Parse, Respond
<1>2. OneWorker' /\ \A s \in Sockets :
        /\ (Held(s)' <=> Held(s)) /\ (Queued(s)' <=> Queued(s))
        /\ (Writable(s)' <=> Writable(s)) /\ (Reading(s)' <=> Reading(s))
  BY <1>0, <1>1 DEF OneWorker, Holding, Held, Queued, Writable, Reading
<1>3. CASE WaitQueue(w)
  <2>1. TypeOK'
    BY <1>0, <1>3 DEF WaitQueue, TypeOK
  <2>2. Handover' /\ AnswerInv'
    BY <1>0, <1>1, <1>2, <1>3 DEF WaitQueue, Handover, AnswerInv, TypeOK
  <2> QED
    BY <1>2, <2>1, <2>2 DEF Inv
<1>4. CASE Parse(w)
  <2>1. TypeOK'
    BY <1>0, <1>4 DEF Parse, TypeOK
  <2>2. Handover'
    BY <1>0, <1>1, <1>2, <1>4 DEF Parse, Handover, TypeOK
  <2>3. request[w] \in Sockets /\ m_read_idx[request[w]] = Whole
    BY <1>0, <1>4 DEF Parse, Handover, TypeOK
  <2>4. AnswerInv'
    BY <1>0, <1>1, <1>2, <1>4, <2>3 DEF Parse, AnswerInv, TypeOK
  <2> QED
    BY <1>2, <2>1, <2>2, <2>4 DEF Inv
<1>5. CASE Respond(w)
  <2>0. request[w] \in Sockets /\ m_read_idx[request[w]] = Whole
    BY <1>0, <1>5 DEF Respond, Handover, TypeOK, AnswerInv
  <2>1. TypeOK'
    <3>1. Parts \in 0..Parts
      OBVIOUS
    <3>2. bytes_to_send' \in [Sockets -> 0..Parts]
      BY <1>0, <1>5, <3>1 DEF Respond, TypeOK
    <3> QED
      BY <1>0, <1>5, <3>2 DEF Respond, TypeOK
  <2>2. Handover'
    BY <1>0, <1>1, <1>2, <1>5 DEF Respond, Handover, TypeOK
  <2>3. AnswerInv'
    BY <1>0, <1>1, <1>2, <1>5, <2>0 DEF Respond, AnswerInv, TypeOK, Handover
  <2> QED
    BY <1>2, <2>1, <2>2, <2>3 DEF Inv
<1> QED
  BY <1>3, <1>4, <1>5

\* A worker lets go of its connection.
LEMMA LeaveInv ==
    ASSUME Inv, NEW w \in Workers,
           NoRequest(w) \/ Refuse(w) \/ Arm(w)
    PROVE  Inv'
<1> USE ProactorAssumption, WholeIsNat
<1> USE DEF queueVars, clientVars, loopVars
<1>0. TypeOK /\ Handover /\ OneWorker /\ AnswerInv
  BY DEF Inv
<1>s. PICK s \in Sockets : s = request[w]
  BY <1>0 DEF NoRequest, Refuse, Arm, Handover, TypeOK
<1>1. /\ at' = [at EXCEPT ![w] = "wait"] /\ request' = [request EXCEPT ![w] = None]
      /\ at[w] \in {"parse", "respond", "arm"}
      /\ UNCHANGED <<m_max_requests, m_workqueue, m_queuestat, m_inpool, m_read_idx, bytes_to_send,
                     sent, answers, events, loop, sockfd>>
      /\ open' = open \/ open' = [open EXCEPT ![s] = FALSE]
  BY <1>s DEF NoRequest, Refuse, Arm, Leave, Goto
<1>2. PICK interest \in {"in", "out", "none"} :
        /\ armed' = [armed EXCEPT ![s] = interest]
        /\ interest = "out" => at[w] = "arm"
  BY <1>s DEF NoRequest, Refuse, Arm
<1>3. /\ s \in Sockets /\ s # None /\ w \in Holding /\ Held(s) /\ ~Queued(s) /\ m_inpool[s]
  BY <1>s, <1>0, <1>1 DEF Handover, TypeOK, Holding, Held, OneWorker, Queued
<1>4. TypeOK'
  BY <1>0, <1>1, <1>2, <1>3 DEF TypeOK
<1>5. \A v \in Workers : v # w => request'[v] = request[v] /\ at'[v] = at[v] /\ request[v] # s
  BY <1>s, <1>0, <1>1, <1>3 DEF OneWorker, TypeOK, Holding
<1>6. \A r \in Sockets : /\ Held(r)' => Held(r) /\ r # s
                         /\ Queued(r)' <=> Queued(r)
                         /\ Reading(r)' <=> Reading(r)
                         /\ r # s => (Writable(r)' <=> Writable(r))
  BY <1>s, <1>0, <1>1, <1>2, <1>3, <1>5 DEF Held, Queued, Reading, Writable, TypeOK
<1>7. Handover'
  <2>1. \A v \in Workers : request'[v] # None <=> at'[v] \in {"parse", "respond", "arm"}
    BY <1>0, <1>1, <1>5 DEF Handover, TypeOK
  <2>2. \A r \in Sockets :
          /\ Held(r)' \/ Queued(r)' => m_inpool'[r]
          /\ Writable(r)' => ~Held(r)' /\ ~Queued(r)'
          /\ Writable(r)' => m_inpool'[r] \/ (events'[r] # "in" /\ ~Reading(r)')
    BY <1>0, <1>1, <1>3, <1>6 DEF Handover
  <2> QED
    BY <2>1, <2>2 DEF Handover
<1>8. OneWorker'
  <2>1. \A v \in Holding' : v # w /\ v \in Holding /\ request'[v] = request[v]
    BY <1>0, <1>1 DEF Holding, TypeOK
  <2> QED
    BY <1>0, <1>1, <2>1 DEF OneWorker
<1>9. AnswerInv'
  <2>1. Writable(s)' => bytes_to_send[s] > 0
    <3>1. CASE armed'[s] = "out"
      <4>1. at[w] = "arm"
        BY <1>0, <1>2, <1>3, <3>1 DEF TypeOK
      <4> QED
        BY <1>s, <1>0, <4>1 DEF AnswerInv
    <3>2. CASE events'[s] = "out"
      BY <1>0, <1>1, <1>3, <3>2 DEF AnswerInv, Writable
    <3> QED
      BY <3>1, <3>2 DEF Writable
  <2>2. \A r \in Sockets : Writable(r)' => bytes_to_send[r] > 0
    <3> TAKE r \in Sockets
    <3>1. CASE r = s
      BY <2>1, <3>1
    <3>2. CASE r # s
      BY <1>0, <1>6, <3>2 DEF AnswerInv
    <3> QED
      BY <3>1, <3>2
  <2> QED
    BY <1>0, <1>1, <1>5, <2>2 DEF AnswerInv, TypeOK
<1> QED
  BY <1>4, <1>7, <1>8, <1>9 DEF Inv

LEMMA ProactorNextInv == Inv /\ [Next]_vars => Inv'
<1> SUFFICES ASSUME Inv, [Next]_vars PROVE Inv'
  OBVIOUS
<1>1. CASE UNCHANGED vars
  <2> USE <1>1 DEF vars, queueVars, workerVars, clientVars, loopVars
  <2>1. TypeOK'
    BY DEF Inv, TypeOK
  <2>2. Handover'
    BY DEF Inv, Handover, Held, Queued, Writable, Reading
  <2>3. OneWorker' /\ AnswerInv'
    BY DEF Inv, OneWorker, AnswerInv, Holding, Writable
  <2> QED
    BY <2>1, <2>2, <2>3 DEF Inv
<1>2. CASE MainStep
  BY <1>2, MainInv, AppendInv DEF MainStep
<1>3. ASSUME NEW w \in Workers, WorkerStep(w) PROVE Inv'
  BY <1>3, TakeInv, WorkerInv, LeaveInv DEF WorkerStep
<1>4. ASSUME NEW s \in Sockets, NEW n \in 1..Whole, Send(s, n) PROVE Inv'
  BY <1>4, MainInv
<1> QED
  BY <1>1, <1>2, <1>3, <1>4 DEF Next

LEMMA ProactorInvariant == Spec => []Inv
BY ProactorInitInv, ProactorNextInv, PTL DEF Spec

-----------------------------------------------------------------------------
\* Type correctness: m_read_idx and bytes_to_send stay within the request
\* and the answer.
THEOREM ProactorTypeCorrect == Spec => []TypeOK
<1>1. Inv => TypeOK
  BY DEF Inv
<1> QED
  BY <1>1, ProactorInvariant, PTL

\* m_inpool keeps a connection from being queued twice or with two workers
\* (server.cpp:319, 359), for all that read_once arms the socket again.
THEOREM OneWorkerEach == Spec => []OneWorker
<1>1. Inv => OneWorker
  BY DEF Inv
<1> QED
  BY <1>1, ProactorInvariant, PTL

\* Only requests read to the end are answered (http_conn.cpp:419, 1871).
THEOREM OnlyWholeRequests == Spec => []AnswersWhole
<1>1. Inv => AnswersWhole
  BY DEF Inv, AnswerInv, AnswersWhole, Writable
<1> QED
  BY <1>1, ProactorInvariant, PTL
-----------------------------------------------------------------------------
\* What the move of one worker does to the number of workers about to take.
LEMMA TakersMove ==
    ASSUME TypeOK, NEW w \in Workers, NEW q, at[w] # q, at' = [at EXCEPT ![w] = q]
    PROVE  /\ Cardinality(At("take")) \in Nat
           /\ Cardinality(At("take")') =
                IF q = "take" THEN Cardinality(At("take")) + 1
                ELSE IF at[w] = "take" THEN Cardinality(At("take")) - 1
                ELSE Cardinality(At("take"))
<1>1. IsFiniteSet(At("take")) /\ Cardinality(At("take")) \in Nat
  BY ProactorAssumption, FS_Subset, FS_CardinalityType DEF At
<1>2. CASE q = "take"
  <2>1. At("take")' = At("take") \cup {w} /\ w \notin At("take")
    BY <1>2 DEF At, TypeOK
  <2> QED
    BY <2>1, <1>1, <1>2, FS_AddElement
<1>3. CASE q # "take" /\ at[w] = "take"
  <2>1. At("take")' = At("take") \ {w} /\ w \in At("take")
    BY <1>3 DEF At, TypeOK
  <2> QED
    BY <2>1, <1>1, <1>3, FS_RemoveElement
<1>4. CASE q # "take" /\ at[w] # "take"
  <2>1. At("take")' = At("take")
    BY <1>4 DEF At, TypeOK
  <2> QED
    BY <2>1, <1>1, <1>4
<1> QED
  BY <1>2, <1>3, <1>4

LEMMA WokenNext == TypeOK /\ WokenForEach /\ [Next]_vars => WokenForEach'
<1> SUFFICES ASSUME TypeOK, WokenForEach, [Next]_vars PROVE WokenForEach'
  OBVIOUS
<1> USE DEF queueVars, workerVars, clientVars, loopVars, Goto
<1>0. m_queuestat \in Nat /\ Cardinality(At("take")) \in Nat /\ Len(m_workqueue) \in Nat
  BY ProactorAssumption, FS_Subset, FS_CardinalityType, LenProperties DEF At, TypeOK
\* A step that neither wakes nor queues.
<1>a. ASSUME UNCHANGED <<m_workqueue, m_queuestat>>, loop # "post", loop' # "post",
             Cardinality(At("take")') = Cardinality(At("take"))
      PROVE  WokenForEach'
  BY <1>a DEF WokenForEach
<1>b. at' = at => Cardinality(At("take")') = Cardinality(At("take"))
  <2>1. at' = at => At("take")' = At("take")
    BY DEF At
  <2> QED
    BY <2>1
\* A worker that goes on, with the main thread where it is.
<1>c. ASSUME NEW w \in Workers, NEW q, q # "take", at[w] # q, at[w] # "take",
             at' = [at EXCEPT ![w] = q], UNCHANGED <<m_workqueue, m_queuestat, loop>>
      PROVE  WokenForEach'
  <2>1. Cardinality(At("take")') = Cardinality(At("take"))
    BY <1>c, TakersMove
  <2> QED
    BY <1>c, <2>1 DEF WokenForEach
<1>1. CASE UNCHANGED vars
  BY <1>1, <1>b DEF vars, WokenForEach
<1>2. CASE MainStep
  <2>1. CASE PostQueue
    <3>1. /\ loop = "post" /\ loop' = "epoll" /\ m_queuestat' = m_queuestat + 1
          /\ UNCHANGED <<m_workqueue, at>>
      BY <2>1 DEF PostQueue
    <3> QED
      BY <1>0, <1>b, <3>1 DEF WokenForEach
  <2>2. ASSUME NEW s \in Sockets, append_p(s) PROVE WokenForEach'
    <3>1. loop = "append" /\ UNCHANGED <<m_queuestat, at>>
      BY <2>2 DEF append_p
    <3>2. CASE m_workqueue' = Append(m_workqueue, s) /\ loop' = "post"
      <4>1. Len(m_workqueue') = Len(m_workqueue) + 1
        BY <3>2, AppendProperties DEF TypeOK
      <4> QED
        BY <1>0, <1>b, <3>1, <3>2, <4>1 DEF WokenForEach
    <3>3. CASE m_workqueue' = m_workqueue /\ loop' = "epoll"
      BY <1>b, <3>1, <3>3 DEF WokenForEach
    <3> QED
      BY <2>2, <3>2, <3>3 DEF append_p
  <2>3. CASE EpollWait \/ \E s \in Sockets :
                \/ dealwithread(s) \/ Recv(s) \/ Again(s) \/ WriteAll(s) \/ WriteClose(s)
                \/ \E n \in 1..Parts : WriteSome(s, n)
    <3>1. UNCHANGED <<m_workqueue, m_queuestat, at>> /\ loop # "post" /\ loop' # "post"
      BY <2>3 DEF EpollWait, dealwithread, Recv, Again, WriteAll, WriteClose, WriteSome
    <3> QED
      BY <1>a, <1>b, <3>1
  <2> QED
    BY <1>2, <2>1, <2>2, <2>3 DEF MainStep
<1>3. ASSUME NEW w \in Workers, WorkerStep(w) PROVE WokenForEach'
  <2>1. CASE WaitQueue(w)
    <3>1. /\ at[w] = "wait" /\ at' = [at EXCEPT ![w] = "take"]
          /\ m_queuestat > 0 /\ m_queuestat' = m_queuestat - 1
          /\ UNCHANGED <<m_workqueue, loop>>
      BY <2>1 DEF WaitQueue
    <3>2. Cardinality(At("take")') = Cardinality(At("take")) + 1
      BY <3>1, TakersMove
    <3> QED
      BY <1>0, <3>1, <3>2 DEF WokenForEach
  <2>2. CASE TakeQueue(w)
    <3>1. /\ at[w] = "take" /\ at' = [at EXCEPT ![w] = "parse"]
          /\ m_workqueue # <<>> /\ m_workqueue' = Tail(m_workqueue)
          /\ UNCHANGED <<m_queuestat, loop>>
      BY <2>2 DEF TakeQueue
    <3>2. Cardinality(At("take")') = Cardinality(At("take")) - 1
      <4>1. at[w] # "parse" /\ "parse" # "take"
        BY <3>1
      <4>2. Cardinality(At("take")') =
              IF "parse" = "take" THEN Cardinality(At("take")) + 1
              ELSE IF at[w] = "take" THEN Cardinality(At("take")) - 1
              ELSE Cardinality(At("take"))
        BY <3>1, <4>1, TakersMove
      <4> QED
        BY <3>1, <4>1, <4>2
    <3>3. Len(m_workqueue') = Len(m_workqueue) - 1
      BY <3>1, HeadTailProperties DEF TypeOK
    <3>4. m_queuestat' = m_queuestat /\ loop' = loop
      BY <3>1
    <3> QED
      BY <1>0, <3>2, <3>3, <3>4 DEF WokenForEach
  <2>3. CASE Parse(w)
    BY <2>3, <1>c DEF Parse
  <2>4. CASE Respond(w)
    BY <2>4, <1>c DEF Respond
  <2>5. CASE NoRequest(w) \/ Refuse(w) \/ Arm(w)
    BY <2>5, <1>c DEF NoRequest, Refuse, Arm, Leave
  <2> QED
    BY <1>3, <2>1, <2>2, <2>3, <2>4, <2>5 DEF WorkerStep
<1>4. ASSUME NEW s \in Sockets, NEW n \in 1..Whole, Send(s, n) PROVE WokenForEach'
  BY <1>4, <1>b DEF Send, WokenForEach
<1> QED
  BY <1>1, <1>2, <1>3, <1>4 DEF Next

\* threadpool's semaphore and queue agree (threadpool.h:79-110): as many
\* wake-ups as queued connections, at every moment.
THEOREM SemaphoreCountsQueue == Spec => []WokenForEach
<1>1. Init => WokenForEach
  <2> SUFFICES ASSUME Init PROVE WokenForEach
    OBVIOUS
  <2>1. At("take") = {}
    BY DEF Init, At
  <2>2. Cardinality(At("take")) = 0
    BY <2>1, FS_EmptySet
  <2>3. m_queuestat = 0 /\ loop # "post" /\ Len(m_workqueue) = 0
    BY DEF Init
  <2> QED
    BY <2>2, <2>3 DEF WokenForEach
<1> QED
  BY <1>1, WokenNext, ProactorTypeCorrect, PTL DEF Spec

LEMMA KeepsRead == Inv /\ [Next]_vars => [ReadKept]_vars
<1> SUFFICES ASSUME Inv, [Next]_vars, NEW s \in Sockets, Held(s) \/ Queued(s)
             PROVE  m_read_idx'[s] >= m_read_idx[s]
  BY DEF ReadKept
<1> USE WholeIsNat
<1>0. TypeOK /\ m_read_idx[s] \in Nat /\ sent[s] \in Nat
  BY SMTT(20) DEF Inv, TypeOK
<1>1. ASSUME NEW r \in Sockets, Recv(r) PROVE m_read_idx'[s] >= m_read_idx[s]
  BY <1>0, <1>1 DEF Recv, TypeOK
<1>2. ASSUME NEW r \in Sockets, WriteAll(r) PROVE m_read_idx'[s] >= m_read_idx[s]
  <2>1. r # s
    BY <1>2 DEF WriteAll, Inv, Handover, Writable
  <2> QED
    BY <1>0, <1>2, <2>1 DEF WriteAll, TypeOK
<1>3. CASE m_read_idx' = m_read_idx
  BY <1>0, <1>3
<1>4. \/ m_read_idx' = m_read_idx
      \/ \E r \in Sockets : Recv(r) \/ WriteAll(r)
  BY DEF Next, MainStep, WorkerStep, vars, EpollWait, PostQueue, dealwithread, Again,
         append_p, WriteClose, WriteSome, WaitQueue, TakeQueue, NoRequest, Parse,
         Respond, Refuse, Arm, Send
<1> QED
  BY <1>1, <1>2, <1>3, <1>4

\* The main thread's init() after an answer (http_conn.cpp:1741) never
\* takes a request from under the worker that parses it.
THEOREM NoResetUnderWorker == Spec => NotResetUnderWorker
BY ProactorInvariant, KeepsRead, PTL DEF Spec, NotResetUnderWorker
=============================================================================

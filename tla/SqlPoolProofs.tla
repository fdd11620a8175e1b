--------------------------- MODULE SqlPoolProofs ---------------------------
(***************************************************************************)
(* Proofs about SqlPool, for every number of threads and connections: no   *)
(* connection is shared, the semaphore lets through only threads that find *)
(* a connection, and as many connections as threads are enough for all.    *)
(***************************************************************************)
EXTENDS SqlPool, SequenceTheorems, FiniteSetTheorems, TLAPS

\* Only a thread that processes a request has a connection.
HoldersUse == \A t \in Threads : mysql[t] # NULL => at[t] = "using"

\* Every free connection is accounted for by the semaphore, by a thread it
\* has let through, or by one that is about to post.
Balance ==
    closed = {} => reserve + Cardinality(At("pop")) + Cardinality(At("post")) = Len(connList)

\* No connection is lost.
Whole == closed = {} => Len(connList) + Cardinality(Holders) = m_MaxConn

\* The part of EnoughForAll that the steps preserve.
NeverNull ==
    closed = {} /\ Cardinality(Threads) <= m_MaxConn =>
        \A t \in At("using") : mysql[t] # NULL

Inv == TypeOK /\ HoldersUse /\ NoSharing /\ NoneClosed /\ Balance /\ Whole /\ NeverNull

LEMMA FiniteThreads ==
    ASSUME NEW S, S \subseteq Threads
    PROVE  IsFiniteSet(S) /\ Cardinality(S) \in Nat
BY SqlPoolAssumption, FS_Subset, FS_CardinalityType

LEMMA DisjointUnion ==
    ASSUME NEW S, NEW T, IsFiniteSet(S), IsFiniteSet(T), S \cap T = {}
    PROVE  Cardinality(S \cup T) = Cardinality(S) + Cardinality(T)
<1>1. Cardinality(S \cap T) = 0
  BY FS_EmptySet
<1>2. Cardinality(S \cup T) = Cardinality(S) + Cardinality(T) - Cardinality(S \cap T)
  BY FS_Union
<1>3. Cardinality(S) \in Nat /\ Cardinality(T) \in Nat
  BY FS_CardinalityType
<1> QED
  BY <1>1, <1>2, <1>3

\* What the move of one thread does to the number of threads at a place.
LEMMA MoveCounts ==
    ASSUME TypeOK, NEW t \in Threads, NEW q, at[t] # q,
           at' = [at EXCEPT ![t] = q], NEW r
    PROVE  Cardinality(At(r)') = IF r = q THEN Cardinality(At(r)) + 1
                                 ELSE IF r = at[t] THEN Cardinality(At(r)) - 1
                                 ELSE Cardinality(At(r))
<1>1. At(r) \subseteq Threads
  BY DEF At
<1>2. IsFiniteSet(At(r))
  BY <1>1, FiniteThreads
<1>3. CASE r = q
  <2>1. At(r)' = At(r) \cup {t} /\ t \notin At(r)
    BY <1>3 DEF At, TypeOK
  <2> QED
    BY <2>1, <1>2, <1>3, FS_AddElement
<1>4. CASE r # q /\ r = at[t]
  <2>1. At(r)' = At(r) \ {t} /\ t \in At(r)
    BY <1>4 DEF At, TypeOK
  <2> QED
    BY <2>1, <1>2, <1>4, FS_RemoveElement
<1>5. CASE r # q /\ r # at[t]
  <2>1. At(r)' = At(r)
    BY <1>5 DEF At, TypeOK
  <2> QED
    BY <2>1, <1>5
<1> QED
  BY <1>3, <1>4, <1>5

-----------------------------------------------------------------------------
LEMMA PoolInitInv == Init => Inv
<1> SUFFICES ASSUME Init PROVE Inv
  OBVIOUS
<1> USE SqlPoolAssumption
<1>0. m_MaxConn \in Nat /\ m_MaxConn \in Conns
  BY DEF Init, Conns
<1>1. connList \in Seq(Conns) /\ Len(connList) = m_MaxConn
  BY <1>0 DEF Init, Conns
<1>2. TypeOK
  BY <1>0, <1>1 DEF Init, TypeOK
<1>3. At("pop") = {} /\ At("post") = {} /\ At("using") = {} /\ Holders = {}
  BY DEF Init, At, Holders
<1>4. Cardinality({}) = 0
  BY FS_EmptySet
<1>5. Balance /\ Whole
  <2>1. /\ Cardinality(At("pop")) = 0 /\ Cardinality(At("post")) = 0
        /\ Cardinality(Holders) = 0 /\ reserve = m_MaxConn
    BY <1>3, <1>4 DEF Init
  <2> QED
    BY <1>0, <1>1, <2>1 DEF Balance, Whole
<1>6. NoSharing /\ NoneClosed
  BY <1>0, <1>3 DEF Init, NoSharing, NoneClosed
<1> QED
  BY <1>2, <1>3, <1>5, <1>6 DEF Inv, HoldersUse, NeverNull, Init

\* A thread that finds the list empty has been outnumbered: all connections
\* are in other threads' hands.
LEMMA EmptyMeansOutnumbered ==
    ASSUME Inv, NEW t \in Threads, at[t] = "idle", connList = <<>>, closed = {}
    PROVE  Cardinality(Threads) > m_MaxConn
<1> USE SqlPoolAssumption
<1>1. Holders \subseteq Threads \ {t}
  BY DEF Inv, HoldersUse, Holders
<1>2. IsFiniteSet(Threads \ {t}) /\ Cardinality(Threads \ {t}) = Cardinality(Threads) - 1
  BY FS_RemoveElement
<1>3. Cardinality(Holders) <= Cardinality(Threads) - 1
  BY <1>1, <1>2, FS_Subset
<1>4. Len(connList) = 0
  OBVIOUS
<1>5. Cardinality(Holders) \in Nat /\ Cardinality(Threads) \in Nat
  BY FiniteThreads DEF Holders
<1>6. Cardinality(Holders) = m_MaxConn
  BY <1>4, <1>5 DEF Inv, Whole, TypeOK, Conns
<1> QED
  BY <1>3, <1>5, <1>6

\* Whoever waits finds the semaphore posted, when the others cannot hold
\* every connection.
LEMMA WaitersArePosted ==
    ASSUME Inv, NEW t \in Threads, at[t] = "wait", closed = {},
           Cardinality(Threads) <= m_MaxConn
    PROVE  reserve > 0
<1> USE SqlPoolAssumption
<1> DEFINE Others == Threads \ {t}
<1> DEFINE Moving == At("pop") \cup At("post")
<1>1. /\ At("pop") \subseteq Threads /\ At("post") \subseteq Threads /\ Holders \subseteq Threads
      /\ Moving \subseteq Threads
      /\ Moving \cup Holders \subseteq Others
      /\ At("pop") \cap At("post") = {} /\ Moving \cap Holders = {}
  BY DEF At, Holders, Inv, HoldersUse
<1>2. IsFiniteSet(Others) /\ Cardinality(Others) = Cardinality(Threads) - 1
  BY FS_RemoveElement
<1>3. /\ IsFiniteSet(At("pop")) /\ IsFiniteSet(At("post")) /\ IsFiniteSet(Holders)
      /\ IsFiniteSet(Moving)
      /\ Cardinality(At("pop")) \in Nat /\ Cardinality(At("post")) \in Nat
      /\ Cardinality(Holders) \in Nat /\ Cardinality(Threads) \in Nat
      /\ m_MaxConn \in Nat
  BY <1>1, FiniteThreads, FS_CardinalityType DEF Inv, TypeOK, Conns
<1>4. Cardinality(Moving) = Cardinality(At("pop")) + Cardinality(At("post"))
  BY <1>1, <1>3, DisjointUnion
<1>5. Cardinality(Moving \cup Holders) = Cardinality(Moving) + Cardinality(Holders)
  <2> HIDE DEF Moving
  <2> QED
    BY <1>1, <1>3, DisjointUnion
<1>6. Cardinality(Moving \cup Holders) <= Cardinality(Others)
  <2> HIDE DEF Moving, Others
  <2> QED
    BY <1>1, <1>2, FS_Subset
<1>7. reserve \in Nat /\ Len(connList) \in Nat
  BY LenProperties DEF Inv, TypeOK
<1>8. /\ reserve + Cardinality(At("pop")) + Cardinality(At("post")) = Len(connList)
      /\ Len(connList) + Cardinality(Holders) = m_MaxConn
  BY DEF Inv, Balance, Whole
<1> HIDE DEF Moving, Others
<1> QED
  BY <1>2, <1>3, <1>4, <1>5, <1>6, <1>7, <1>8

\* Whoever the semaphore has let through finds the list not empty.
LEMMA PoppersFind ==
    ASSUME Inv, closed = {}, NEW t \in Threads, at[t] = "pop"
    PROVE  connList # <<>>
<1>1. t \in At("pop") /\ At("pop") \subseteq Threads /\ At("post") \subseteq Threads
  BY DEF At
<1>2. /\ IsFiniteSet(At("pop"))
      /\ Cardinality(At("pop")) \in Nat /\ Cardinality(At("post")) \in Nat
  BY <1>1, FiniteThreads
<1>3. Cardinality(At("pop")) # 0
  BY <1>1, <1>2, FS_EmptySet
<1>4. reserve \in Nat
  BY DEF Inv, TypeOK
<1>5. Len(connList) # 0
  BY <1>2, <1>3, <1>4 DEF Inv, Balance
<1> QED
  BY <1>5
LEMMA PoolNextInv == Inv /\ [Next]_vars => Inv'
<1> SUFFICES ASSUME Inv, [Next]_vars PROVE Inv'
  OBVIOUS
<1> USE SqlPoolAssumption
<1>0. TypeOK /\ HoldersUse /\ NoSharing /\ NoneClosed /\ Balance /\ Whole /\ NeverNull
  BY DEF Inv
<1>a. /\ Len(connList) \in Nat /\ DOMAIN connList = 1..Len(connList)
      /\ \A r : Cardinality(At(r)) \in Nat
      /\ Cardinality(Holders) \in Nat
      /\ m_MaxConn \in Nat
  BY <1>0, FiniteThreads, LenProperties DEF TypeOK, At, Holders, Conns
<1>n. NULL \notin Conns
  BY DEF NULL, Conns
\* A step that leaves the list and the connections of the threads alone.
<1>b. ASSUME UNCHANGED <<m_MaxConn, connList, closed, mysql>>
      PROVE  NoSharing' /\ NoneClosed' /\ Whole' /\ Holders' = Holders
  BY <1>0, <1>b DEF NoSharing, NoneClosed, Whole, Holders
<1>1. CASE UNCHANGED vars
  <2>1. At("pop")' = At("pop") /\ At("post")' = At("post") /\ At("using")' = At("using")
    BY <1>1 DEF vars, At
  <2>2. NoSharing' /\ NoneClosed' /\ Whole'
    BY <1>1, <1>b DEF vars, poolVars
  <2>3. Balance'
    BY <1>0, <1>1, <2>1 DEF Balance, vars, poolVars
  <2> QED
    BY <1>0, <1>1, <2>1, <2>2, <2>3
    DEF Inv, TypeOK, HoldersUse, NeverNull, vars, poolVars
<1>2. ASSUME NEW t \in Threads, CheckSize(t) PROVE Inv'
  <2>1. PICK q \in {"using", "wait"} :
          /\ at' = [at EXCEPT ![t] = q]
          /\ q = "using" <=> connList = <<>>
    BY <1>2 DEF CheckSize
  <2>2. at[t] = "idle" /\ UNCHANGED <<poolVars, reserve, mysql>>
    BY <1>2 DEF CheckSize
  <2>3. TypeOK' /\ HoldersUse'
    BY <1>0, <2>1, <2>2 DEF TypeOK, HoldersUse, poolVars
  <2>4. NoSharing' /\ NoneClosed' /\ Whole'
    BY <2>2, <1>b DEF poolVars
  <2>5. Cardinality(At("pop")') = Cardinality(At("pop"))
    BY <1>0, <2>1, <2>2, MoveCounts
  <2>6. Cardinality(At("post")') = Cardinality(At("post"))
    BY <1>0, <2>1, <2>2, MoveCounts
  <2>7. Balance'
    BY <1>0, <2>2, <2>5, <2>6 DEF Balance, poolVars
  <2>8. NeverNull'
    <3>1. CASE q = "wait"
      BY <1>0, <2>1, <2>2, <3>1 DEF NeverNull, At, TypeOK, poolVars
    <3>2. CASE q = "using"
      <4>1. closed # {} \/ Cardinality(Threads) > m_MaxConn
        BY <2>1, <2>2, <3>2, EmptyMeansOutnumbered
      <4>2. Cardinality(Threads) \in Nat /\ m_MaxConn \in Nat
        BY <1>0, FS_CardinalityType DEF TypeOK, Conns
      <4> QED
        BY <2>2, <4>1, <4>2 DEF NeverNull, poolVars
    <3> QED
      BY <2>1, <3>1, <3>2
  <2> QED
    BY <2>3, <2>4, <2>7, <2>8 DEF Inv
<1>3. ASSUME NEW t \in Threads, WaitReserve(t) PROVE Inv'
  <2>1. /\ at[t] = "wait" /\ at' = [at EXCEPT ![t] = "pop"]
        /\ reserve > 0 /\ reserve' = reserve - 1 /\ UNCHANGED <<poolVars, mysql>>
    BY <1>3 DEF WaitReserve
  <2>2. TypeOK' /\ HoldersUse' /\ NeverNull'
    BY <1>0, <2>1 DEF TypeOK, HoldersUse, NeverNull, At, poolVars
  <2>3. NoSharing' /\ NoneClosed' /\ Whole'
    BY <2>1, <1>b DEF poolVars
  <2>4. Cardinality(At("pop")') = Cardinality(At("pop")) + 1
    BY <1>0, <2>1, MoveCounts
  <2>5. Cardinality(At("post")') = Cardinality(At("post"))
    BY <1>0, <2>1, MoveCounts
  <2>6. Balance'
    BY <1>0, <1>a, <2>1, <2>4, <2>5 DEF Balance, poolVars, TypeOK
  <2> QED
    BY <2>2, <2>3, <2>6 DEF Inv
<1>4. ASSUME NEW t \in Threads, Pop(t) PROVE Inv'
  <2>1. /\ at[t] = "pop" /\ at' = [at EXCEPT ![t] = "using"]
        /\ mysql' = [mysql EXCEPT ![t] = Head(connList)]
        /\ connList # <<>> /\ connList' = Tail(connList)
        /\ m_FreeConn' = m_FreeConn - 1 /\ m_CurConn' = m_CurConn + 1
        /\ reserve' = reserve /\ closed' = closed /\ m_MaxConn' = m_MaxConn
    BY <1>4 DEF Pop
  <2>2. /\ connList \in Seq(Conns) /\ Head(connList) \in Conns /\ Tail(connList) \in Seq(Conns)
        /\ Len(Tail(connList)) = Len(connList) - 1
        /\ \A i \in 1..Len(Tail(connList)) : Tail(connList)[i] = connList[i + 1]
        /\ Head(connList) = connList[1]
        /\ DOMAIN Tail(connList) = 1..Len(Tail(connList))
    BY <1>0, <2>1, HeadTailProperties, LenProperties DEF TypeOK
  <2>3. mysql[t] = NULL /\ t \notin Holders
    BY <1>0, <2>1 DEF HoldersUse, Holders
  <2>4. Holders' = Holders \cup {t}
    BY <1>0, <1>n, <2>1, <2>2, <2>3 DEF Holders, TypeOK
  <2>5. TypeOK' /\ HoldersUse' /\ NeverNull'
    BY <1>0, <1>n, <2>1, <2>2 DEF TypeOK, HoldersUse, NeverNull, At
  <2>6. NoSharing'
    <3>0. /\ connList # <<>> /\ Len(connList) > 0 /\ 1 \in DOMAIN connList
          /\ \A i \in DOMAIN connList' :
               i + 1 \in DOMAIN connList /\ connList'[i] = connList[i + 1] /\ i \in Nat /\ i > 0
      BY <1>a, <2>1, <2>2
    <3>1. \A i, j \in DOMAIN connList' : connList'[i] = connList'[j] => i = j
      <4> SUFFICES ASSUME NEW i \in DOMAIN connList', NEW j \in DOMAIN connList',
                          connList'[i] = connList'[j]
                   PROVE  i = j
        OBVIOUS
      <4>1. i + 1 = j + 1
        BY <1>0, <3>0 DEF NoSharing
      <4> QED
        BY <3>0, <4>1
    <3>2. \A u \in Holders', i \in DOMAIN connList' : mysql'[u] # connList'[i]
      <4> SUFFICES ASSUME NEW u \in Holders', NEW i \in DOMAIN connList'
                   PROVE  mysql'[u] # connList'[i]
        OBVIOUS
      <4>1. CASE u = t
        <5>1. mysql'[u] = connList[1]
          BY <1>0, <2>1, <2>2, <4>1 DEF TypeOK
        <5>2. i + 1 # 1
          BY <3>0
        <5> QED
          BY <1>0, <3>0, <5>1, <5>2 DEF NoSharing
      <4>2. CASE u # t
        BY <1>0, <2>1, <2>4, <3>0, <4>2 DEF NoSharing, TypeOK, Holders
      <4> QED
        BY <4>1, <4>2
    <3>3. \A u, v \in Holders' : mysql'[u] = mysql'[v] => u = v
      BY <1>0, <2>1, <2>2, <2>4, <3>0 DEF NoSharing, TypeOK, Holders
    <3> QED
      BY <3>1, <3>2, <3>3 DEF NoSharing
  <2>n. NoneClosed'
    <3>0. /\ connList # <<>> /\ Len(connList) > 0 /\ 1 \in DOMAIN connList
          /\ \A i \in DOMAIN connList' :
               i + 1 \in DOMAIN connList /\ connList'[i] = connList[i + 1]
      BY <1>a, <2>1, <2>2
    <3>1. \A u \in Holders' : mysql'[u] \notin closed
      BY <1>0, <2>1, <2>2, <2>4, <3>0 DEF NoneClosed, TypeOK
    <3> QED
      BY <1>0, <2>1, <3>0, <3>1 DEF NoneClosed
  <2>7. Cardinality(At("pop")') = Cardinality(At("pop")) - 1
    BY <1>0, <2>1, MoveCounts
  <2>8. Cardinality(At("post")') = Cardinality(At("post"))
    BY <1>0, <2>1, MoveCounts
  <2>9. Cardinality(Holders') = Cardinality(Holders) + 1
    <3>1. IsFiniteSet(Holders)
      BY FiniteThreads DEF Holders
    <3> QED
      BY <2>3, <2>4, <3>1, FS_AddElement
  <2>10. Balance' /\ Whole'
    <3>1. reserve \in Nat /\ Len(connList') = Len(connList) - 1
      BY <1>0, <2>1, <2>2 DEF TypeOK
    <3>2. Balance'
      <4> SUFFICES ASSUME closed' = {}
                   PROVE  reserve' + Cardinality(At("pop")') + Cardinality(At("post")')
                             = Len(connList')
        BY DEF Balance
      <4>1. reserve + Cardinality(At("pop")) + Cardinality(At("post")) = Len(connList)
        BY <1>0, <2>1 DEF Balance
      <4> QED
        BY <1>a, <2>1, <2>7, <2>8, <3>1, <4>1
    <3>3. Whole'
      BY <1>0, <1>a, <2>1, <2>9, <3>1 DEF Whole
    <3> QED
      BY <3>2, <3>3
  <2> QED
    BY <2>5, <2>6, <2>n, <2>10 DEF Inv
<1>5. ASSUME NEW t \in Threads, Release(t) PROVE Inv'
  <2>1. /\ at[t] = "using" /\ at' = [at EXCEPT ![t] = "post"]
        /\ mysql[t] # NULL /\ mysql' = [mysql EXCEPT ![t] = NULL]
        /\ connList' = Append(connList, mysql[t])
        /\ m_FreeConn' = m_FreeConn + 1 /\ m_CurConn' = m_CurConn - 1
        /\ reserve' = reserve /\ closed' = closed /\ m_MaxConn' = m_MaxConn
    BY <1>5 DEF Release
  <2>2. /\ mysql[t] \in Conns /\ connList' \in Seq(Conns)
        /\ Len(connList') = Len(connList) + 1
        /\ DOMAIN connList' = 1..(Len(connList) + 1)
        /\ \A i \in 1..Len(connList) : connList'[i] = connList[i]
        /\ connList'[Len(connList) + 1] = mysql[t]
    BY <1>0, <2>1, AppendProperties, LenProperties DEF TypeOK
  <2>3. t \in Holders /\ Holders' = Holders \ {t}
    BY <1>0, <2>1 DEF Holders, TypeOK
  <2>4. TypeOK' /\ HoldersUse' /\ NeverNull'
    BY <1>0, <2>1, <2>2 DEF TypeOK, HoldersUse, NeverNull, At
  <2>5. NoSharing'
    <3>1. \A i \in DOMAIN connList' :
            i # Len(connList) + 1 => i \in DOMAIN connList /\ connList'[i] = connList[i]
      BY <1>a, <2>2
    <3>2. \A i \in DOMAIN connList : connList[i] # mysql[t]
      BY <1>0, <2>3 DEF NoSharing
    <3>3. \A i, j \in DOMAIN connList' : connList'[i] = connList'[j] => i = j
      BY <1>0, <2>2, <3>1, <3>2 DEF NoSharing
    <3>4. \A u \in Holders' : u \in Holders /\ u # t /\ mysql'[u] = mysql[u] /\ mysql[u] # mysql[t]
      BY <1>0, <2>1, <2>3 DEF NoSharing, TypeOK, Holders
    <3>5. \A u, v \in Holders' : mysql'[u] = mysql'[v] => u = v
      BY <1>0, <3>4 DEF NoSharing
    <3>6. \A u \in Holders', i \in DOMAIN connList' : mysql'[u] # connList'[i]
      BY <1>0, <2>2, <3>1, <3>4 DEF NoSharing
    <3> QED
      BY <3>3, <3>5, <3>6 DEF NoSharing
  <2>n. NoneClosed'
    <3>1. \A u \in Holders' : mysql'[u] = mysql[u]
      BY <1>0, <2>1, <2>3 DEF TypeOK
    <3>2. \A i \in DOMAIN connList' : connList'[i] \notin closed
      BY <1>0, <1>a, <2>2, <2>3 DEF NoneClosed
    <3> QED
      BY <1>0, <2>1, <2>3, <3>1, <3>2 DEF NoneClosed
  <2>6. Cardinality(At("pop")') = Cardinality(At("pop"))
    BY <1>0, <2>1, MoveCounts
  <2>7. Cardinality(At("post")') = Cardinality(At("post")) + 1
    BY <1>0, <2>1, MoveCounts
  <2>8. Cardinality(Holders') = Cardinality(Holders) - 1
    <3>1. IsFiniteSet(Holders)
      BY FiniteThreads DEF Holders
    <3> QED
      BY <2>3, <3>1, FS_RemoveElement
  <2>9. Balance' /\ Whole'
    <3>1. reserve \in Nat
      BY <1>0 DEF TypeOK
    <3>2. Balance'
      <4> SUFFICES ASSUME closed' = {}
                   PROVE  reserve' + Cardinality(At("pop")') + Cardinality(At("post")')
                             = Len(connList')
        BY DEF Balance
      <4>1. reserve + Cardinality(At("pop")) + Cardinality(At("post")) = Len(connList)
        BY <1>0, <2>1 DEF Balance
      <4> QED
        BY <1>a, <2>1, <2>2, <2>6, <2>7, <3>1, <4>1
    <3>3. Whole'
      BY <1>0, <1>a, <2>1, <2>2, <2>8 DEF Whole
    <3> QED
      BY <3>2, <3>3
  <2> QED
    BY <2>4, <2>5, <2>n, <2>9 DEF Inv
<1>6. ASSUME NEW t \in Threads, ReleaseNull(t) PROVE Inv'
  <2>1. /\ at[t] = "using" /\ at' = [at EXCEPT ![t] = "idle"]
        /\ mysql[t] = NULL /\ UNCHANGED <<poolVars, reserve, mysql>>
    BY <1>6 DEF ReleaseNull
  <2>2. TypeOK' /\ HoldersUse' /\ NeverNull'
    BY <1>0, <2>1 DEF TypeOK, HoldersUse, NeverNull, At, poolVars
  <2>3. NoSharing' /\ NoneClosed' /\ Whole'
    BY <2>1, <1>b DEF poolVars
  <2>4. Cardinality(At("pop")') = Cardinality(At("pop"))
    BY <1>0, <2>1, MoveCounts, ZenonT(20)
  <2>5. Cardinality(At("post")') = Cardinality(At("post"))
    BY <1>0, <2>1, MoveCounts, ZenonT(20)
  <2>6. Balance'
    BY <1>0, <2>1, <2>4, <2>5 DEF Balance, poolVars
  <2> QED
    BY <2>2, <2>3, <2>6 DEF Inv
<1>7. ASSUME NEW t \in Threads, Post(t) PROVE Inv'
  <2>1. /\ at[t] = "post" /\ at' = [at EXCEPT ![t] = "idle"]
        /\ reserve' = reserve + 1 /\ UNCHANGED <<poolVars, mysql>>
    BY <1>7 DEF Post
  <2>2. TypeOK' /\ HoldersUse' /\ NeverNull'
    BY <1>0, <2>1 DEF TypeOK, HoldersUse, NeverNull, At, poolVars
  <2>3. NoSharing' /\ NoneClosed' /\ Whole'
    BY <2>1, <1>b DEF poolVars
  <2>4. Cardinality(At("pop")') = Cardinality(At("pop"))
    BY <1>0, <2>1, MoveCounts
  <2>5. Cardinality(At("post")') = Cardinality(At("post")) - 1
    BY <1>0, <2>1, MoveCounts
  <2>6. Balance'
    BY <1>0, <1>a, <2>1, <2>4, <2>5 DEF Balance, poolVars, TypeOK
  <2> QED
    BY <2>2, <2>3, <2>6 DEF Inv
<1>8. CASE DestroyPool
  <2>1. /\ connList # <<>> /\ connList' = <<>> /\ UNCHANGED <<m_MaxConn, reserve, at, mysql>>
        /\ m_FreeConn' = 0 /\ m_CurConn' = 0
        /\ closed' = {connList[i] : i \in DOMAIN connList}
    BY <1>8 DEF DestroyPool
  <2>2. \A i \in DOMAIN connList : connList[i] \in Conns
    BY <1>0, <1>a, ElementOfSeq DEF TypeOK
  <2>3. TypeOK' /\ HoldersUse'
    BY <1>0, <2>1, <2>2 DEF TypeOK, HoldersUse
  <2>4. NoSharing'
    BY <1>0, <2>1 DEF NoSharing, Holders
  <2>5. NoneClosed'
    BY <1>0, <2>1 DEF NoSharing, NoneClosed, Holders
  <2>6. closed' # {}
    BY <1>0, <1>a, <2>1 DEF TypeOK
  <2>7. Balance' /\ Whole' /\ NeverNull'
    BY <2>6 DEF Balance, Whole, NeverNull
  <2> QED
    BY <2>3, <2>4, <2>5, <2>7 DEF Inv
<1>9. CASE Leave
  BY <1>1, <1>9 DEF Leave
<1> QED
  BY <1>1, <1>2, <1>3, <1>4, <1>5, <1>6, <1>7, <1>8, <1>9 DEF Next

LEMMA PoolInvariant == Spec => []Inv
BY PoolInitInv, PoolNextInv, PTL DEF Spec

-----------------------------------------------------------------------------
\* The pool's state has its type: nothing but connections gets into the
\* list, and the semaphore never falls below zero.
THEOREM SqlPoolTypeCorrect == Spec => []TypeOK
<1>1. Inv => TypeOK
  BY DEF Inv
<1> QED
  BY <1>1, PoolInvariant, PTL

\* No two threads use one connection, and none uses one that is free
\* (sql_connection_pool.cpp:64-101).
THEOREM ConnectionsNotShared == Spec => []NoSharing
<1>1. Inv => NoSharing
  BY DEF Inv
<1> QED
  BY <1>1, PoolInvariant, PTL

\* connList.front() is never taken of an empty list
\* (sql_connection_pool.cpp:75), while the process is not leaving main.
THEOREM SemaphoreCountsConnections == Spec => []PopFindsConnection
<1>1. Inv => PopFindsConnection
  BY PoppersFind DEF PopFindsConnection, At
<1> QED
  BY <1>1, PoolInvariant, PTL

\* A connection that a thread uses, or may be given, was not closed, also when
\* the pool is destroyed under the threads (sql_connection_pool.cpp:104-121).
THEOREM UsedConnectionsOpen == Spec => []NoneClosed
<1>1. Inv => NoneClosed
  BY DEF Inv
<1> QED
  BY <1>1, PoolInvariant, PTL

\* As many connections as threads, which is the default configuration, are
\* enough: GetConnection never returns NULL, and never sleeps.
THEOREM ConnectionsAreEnough == Spec => []EnoughForAll
<1>1. Inv => EnoughForAll
  BY WaitersArePosted DEF EnoughForAll, At, Inv, NeverNull
<1> QED
  BY <1>1, PoolInvariant, PTL
=============================================================================

------------------------------ MODULE Response ------------------------------
(***************************************************************************)
(* Sending one response: http_conn::write and the two buffers it gathers,  *)
(* the headers (with a short body) in m_write_buf and a file mapped into   *)
(* memory.  A byte is named by its position in the response, and each      *)
(* writev hands as many bytes to the socket as it has room for.  bytes_     *)
(* to_send and bytes_have_send are ints.                                   *)
(***************************************************************************)
EXTENDS Integers, Sequences

CONSTANTS
    Headers,   \* the lengths m_write_idx may have
    Files,     \* the lengths st_size may have; 0 is an answer without file
    IntMax     \* the largest int

ASSUME ResponseAssumption ==
    /\ Headers \subseteq Nat \ {0} /\ Files \subseteq Nat
    /\ IntMax \in Nat
    /\ \A h \in Headers : h <= IntMax

VARIABLES
    m_write_idx,      \* the length of the headers
    st_size,          \* the length of the file
    bytes_to_send,
    bytes_have_send,
    m_iv_count,       \* how many of the buffers writev looks at
    m_iv,             \* the two buffers: position of the first byte, and length
    received,         \* the bytes the client has received, in order
    cuts,             \* history: writev calls that ended within the headers
    done              \* the response counts as sent

vars == <<m_write_idx, st_size, bytes_to_send, bytes_have_send, m_iv_count, m_iv,
          received, cuts, done>>

\* An int that has overflowed.
Int32(n) == ((n + IntMax + 1) % (2 * IntMax + 2)) - IntMax - 1

\* process_write: the buffers of the whole response, with a file or without.
Init ==
    /\ m_write_idx \in Headers /\ st_size \in Files
    /\ m_iv_count \in {1, 2}
    /\ m_iv_count = 1 => st_size = 0
    /\ bytes_to_send = Int32(m_write_idx + st_size)
    /\ bytes_have_send = 0
    /\ m_iv = <<[base |-> 0, len |-> m_write_idx], [base |-> m_write_idx, len |-> st_size]>>
    /\ received = <<>>
    /\ cuts = 0
    /\ done = (bytes_to_send = 0)

Gathered == IF m_iv_count = 1 THEN m_iv[1].len ELSE m_iv[1].len + m_iv[2].len

Stray == -1    \* what lies in memory before the mapped file

\* The n-th byte writev takes: of m_write_buf, or of the file.
Byte(n) ==
    LET position == m_iv[2].base + n - m_iv[1].len - 1 IN
    IF n <= m_iv[1].len THEN m_iv[1].base + n - 1
    ELSE IF position < m_write_idx THEN Stray ELSE position

\* MUTANT: the first buffer is shortened but not moved.
AdvanceLength(have, left) ==
    IF have >= m_iv[1].len
    THEN <<[m_iv[1] EXCEPT !.len = 0], [base |-> have, len |-> left]>>
    ELSE <<[m_iv[1] EXCEPT !.len = @ - have], m_iv[2]>>

\* The buffers, when "have" bytes have gone and "left" are left.
Advance(have, left) ==
    IF have >= m_iv[1].len
    THEN <<[m_iv[1] EXCEPT !.len = 0], [base |-> have, len |-> left]>>
    ELSE <<[base |-> have, len |-> m_iv[1].len - have], m_iv[2]>>

\* MUTANT: zero is not the end.
AllSentBelow(left) == left < 0

AllSent(left) == left <= 0

\* One turn of the loop in write(), in which writev takes n bytes.  A writev
\* that takes none changes nothing: at EAGAIN the next event tries again, and when
\* there is nothing to take (Gathered = 0) the loop turns for ever.
Write(n) ==
    LET have == Int32(bytes_have_send + n)
        left == Int32(bytes_to_send - n)
        within == have < m_write_idx
    IN
    /\ ~done
    /\ n \in 1..Gathered
    /\ received' = received \o [i \in 1..n |-> Byte(i)]
    /\ bytes_have_send' = have
    /\ bytes_to_send' = left
    /\ m_iv' = Advance(have, left)
    /\ cuts' = IF within THEN cuts + 1 ELSE cuts
    /\ done' = AllSent(left)
    /\ UNCHANGED <<m_write_idx, st_size, m_iv_count>>

Next == \E n \in 1..Gathered : Write(n)
Spec == Init /\ [][Next]_vars

\* The client reads on, so that the socket has room again.
FairSpec == Spec /\ WF_vars(Next)

-----------------------------------------------------------------------------
Total == m_write_idx + st_size

\* "Gather the data from the buffers in the order of m_iv and write it to
\* m_sockfd" (http_conn.cpp:1713): as long as no more than one call ends within the
\* headers, the client receives the bytes of the response in order, none skipped,
\* none repeated and none that is not one.  (:1733 compares what is left of the
\* headers with the bytes of all calls, which a second such call gets wrong.)
InOrder ==
    cuts <= 1 => /\ \A i \in DOMAIN received : received[i] = i - 1
                 /\ Len(received) <= Total

\* bytes_to_send is the "total size" of headers and file (http_conn.cpp:1840):
\* when it is down to zero the client has all of the response.
TotalSize == done /\ cuts <= 1 => Len(received) = Total

\* Every response ends, however it is cut, but for one: when a response without a
\* file is cut more than once, :1733 may take its one buffer for sent, and writev
\* is asked for nothing for ever.
EveryResponseEnds == <>(done \/ (m_iv_count = 1 /\ cuts > 1))
=============================================================================

--------------------------- MODULE ResponseProofs ---------------------------
(***************************************************************************)
(* Proofs about Response, for every length of the headers and the file, as *)
(* long as the response is shorter than IntMax: until a second writev ends *)
(* within the headers, the client receives the response, whole.            *)
(***************************************************************************)
EXTENDS Response, SequenceTheorems, TLAPS

\* No int overflows.
Fits == \A h \in Headers, f \in Files : h + f <= IntMax

\* Until the headers have gone, the first buffer is what is left of them,
\* and the second the file; then the second is what is left of the file.
Shape ==
    /\ m_iv[1] \in [base : Nat, len : Nat]
    /\ bytes_have_send < m_write_idx =>
        /\ m_iv[1].base = bytes_have_send
        /\ m_iv[1].len = m_write_idx - bytes_have_send
        /\ m_iv[2] = [base |-> m_write_idx, len |-> st_size]
        /\ bytes_have_send > 0 => cuts > 0
    /\ bytes_have_send >= m_write_idx =>
        /\ m_iv[1].len = 0
        /\ m_iv[2] = [base |-> bytes_have_send, len |-> Total - bytes_have_send]

\* What has gone is the beginning of the response, and the buffers are the rest.
Sent ==
    /\ received \in Seq(Int)
    /\ bytes_have_send = Len(received) /\ bytes_have_send \in 0..Total
    /\ bytes_to_send = Total - bytes_have_send
    /\ \A i \in 1..Len(received) : received[i] = i - 1
    /\ Shape
    /\ done = (bytes_to_send <= 0)

Inv ==
    /\ m_write_idx \in Nat \ {0} /\ st_size \in Nat /\ Total <= IntMax
    /\ m_iv_count \in {1, 2} /\ (m_iv_count = 1 => st_size = 0)
    /\ cuts \in Nat
    /\ cuts <= 1 => Sent

LEMMA NoOverflow ==
    ASSUME NEW n \in Int, -IntMax <= n, n <= IntMax
    PROVE  Int32(n) = n
<1>1. n + IntMax + 1 \in 0..(2 * IntMax + 1)
  BY ResponseAssumption
<1>2. (n + IntMax + 1) % (2 * IntMax + 2) = n + IntMax + 1
  BY <1>1, ResponseAssumption
<1> QED
  BY <1>2, ResponseAssumption DEF Int32

LEMMA ResponseInitInv == Fits /\ Init => Inv
<1> SUFFICES ASSUME Fits, Init PROVE Inv
  OBVIOUS
<1>1. /\ m_write_idx \in Nat \ {0} /\ st_size \in Nat /\ Total <= IntMax
      /\ IntMax \in Nat
  BY ResponseAssumption DEF Init, Fits, Total
<1>2. bytes_to_send = Total
  BY <1>1, NoOverflow DEF Init, Total
<1>3. received = <<>> /\ Len(received) = 0 /\ received \in Seq(Int)
  BY EmptySeq DEF Init
<1>4. Shape
  BY <1>1 DEF Init, Shape
<1>5. done = (bytes_to_send <= 0)
  BY <1>1, <1>2 DEF Init, Total
<1> QED
  BY <1>1, <1>2, <1>3, <1>4, <1>5 DEF Inv, Sent, Init, Total

\* The buffers hold what is left of the response: the n-th byte from here.
LEMMA BytesLeft ==
    ASSUME Inv, Sent, ~done
    PROVE  /\ Gathered = Total - bytes_have_send
           /\ \A n \in 1..Gathered : Byte(n) = bytes_have_send + n - 1
<1>1. /\ m_write_idx \in Nat /\ st_size \in Nat /\ bytes_have_send \in 0..Total
      /\ Total = m_write_idx + st_size /\ bytes_to_send = Total - bytes_have_send
      /\ m_iv_count \in {1, 2} /\ (m_iv_count = 1 => st_size = 0)
      /\ Shape
  BY DEF Inv, Sent, Total
<1>2. ~(bytes_to_send <= 0)
  BY DEF Sent
<1>3. bytes_have_send \in Nat /\ bytes_have_send < Total
  BY <1>1, <1>2
<1>4. CASE bytes_have_send < m_write_idx
  BY <1>1, <1>3, <1>4 DEF Gathered, Byte, Shape
<1>5. CASE bytes_have_send >= m_write_idx
  BY <1>1, <1>3, <1>5 DEF Gathered, Byte, Shape
<1> QED
  BY <1>1, <1>3, <1>4, <1>5

\* A call keeps it so, unless it is the second that ends within the headers.
LEMMA WriteSent ==
    ASSUME Inv, Sent, NEW n \in 1..Gathered, Write(n), cuts' <= 1
    PROVE  Sent'
<1>0. /\ m_write_idx \in Nat \ {0} /\ st_size \in Nat /\ bytes_have_send \in Nat
      /\ Total = m_write_idx + st_size /\ Total <= IntMax /\ IntMax \in Nat /\ cuts \in Nat
      /\ bytes_have_send = Len(received) /\ received \in Seq(Int)
      /\ bytes_to_send = Total - bytes_have_send
      /\ Shape /\ \A i \in 1..Len(received) : received[i] = i - 1
  BY ResponseAssumption DEF Inv, Sent, Total
<1>1. /\ Gathered = Total - bytes_have_send
      /\ \A k \in 1..Gathered : Byte(k) = bytes_have_send + k - 1
  BY BytesLeft DEF Write
<1> DEFINE have == bytes_have_send + n
<1> DEFINE left == Total - have
<1>2. /\ n \in Nat /\ n > 0 /\ have \in 1..Total /\ left \in 0..Total
      /\ Int32(bytes_have_send + n) = have /\ Int32(bytes_to_send - n) = left
  <2>1. n \in Nat /\ n > 0 /\ have \in 1..Total /\ left \in 0..Total
    BY <1>0, <1>1
  <2>2. bytes_to_send - n = left
    BY <1>0, <1>1
  <2> QED
    BY <1>0, <2>1, <2>2, NoOverflow
<1>3. /\ bytes_have_send' = have /\ bytes_to_send' = left
      /\ received' = received \o [i \in 1..n |-> Byte(i)]
      /\ cuts' = IF have < m_write_idx THEN cuts + 1 ELSE cuts
      /\ m_iv' = Advance(have, left)
      /\ done' = (left <= 0)
      /\ UNCHANGED <<m_write_idx, st_size, m_iv_count>>
  BY <1>2 DEF Write, AllSent
<1>4. /\ received' \in Seq(Int) /\ Len(received') = have
      /\ \A i \in 1..Len(received') : received'[i] = i - 1
  <2> DEFINE chunk == [i \in 1..n |-> Byte(i)]
  <2>1. \A i \in 1..n : chunk[i] = bytes_have_send + i - 1 /\ chunk[i] \in Int
    BY <1>0, <1>1, <1>2
  <2>2. chunk \in Seq(Int) /\ Len(chunk) = n
    BY <1>2, <2>1
  <2> HIDE DEF chunk
  <2>3. /\ received' \in Seq(Int) /\ Len(received') = have
        /\ \A i \in 1..Len(received') :
             received'[i] = IF i <= Len(received) THEN received[i] ELSE chunk[i - Len(received)]
    BY <1>0, <1>3, <2>2, ConcatProperties DEF chunk
  <2>4. \A i \in 1..Len(received') : received'[i] = i - 1
    <3> TAKE i \in 1..Len(received')
    <3>1. CASE i <= Len(received)
      BY <1>0, <2>3, <3>1
    <3>2. CASE ~(i <= Len(received))
      <4>1. i - Len(received) \in 1..n
        BY <1>0, <1>2, <2>3, <3>2
      <4> QED
        <5>1. received'[i] = chunk[i - Len(received)]
          BY <2>3, <3>2
        <5>2. chunk[i - Len(received)] = bytes_have_send + (i - Len(received)) - 1
          BY <2>1, <4>1
        <5>3. i \in Int
          BY <2>3, <1>2
        <5> QED
          BY <1>0, <5>1, <5>2, <5>3
    <3> QED
      BY <3>1, <3>2
  <2> QED
    BY <2>3, <2>4
<1>5. Shape'
  <2>0. Total' = Total /\ bytes_have_send < have
    BY <1>0, <1>2, <1>3 DEF Total
  <2>1. CASE have < m_write_idx
    <3>1. bytes_have_send < m_write_idx /\ cuts \in Nat /\ cuts < 1 /\ cuts' = cuts + 1
      BY <1>0, <1>2, <1>3, <2>0, <2>1 DEF Shape
    <3>2. /\ bytes_have_send = 0 /\ m_iv[1].len = m_write_idx
          /\ m_iv[2] = [base |-> m_write_idx, len |-> st_size]
      BY <1>0, <3>1 DEF Shape
    <3>3. m_iv' = <<[base |-> have, len |-> m_write_idx - have], m_iv[2]>>
      BY <1>0, <1>2, <1>3, <2>1, <3>2 DEF Advance
    <3>4. /\ m_iv'[1] = [base |-> have, len |-> m_write_idx - have]
          /\ m_iv'[2] = [base |-> m_write_idx, len |-> st_size]
      BY <3>2, <3>3
    <3>5. /\ have \in Nat /\ m_write_idx - have \in Nat /\ cuts' \in Nat /\ cuts' > 0
          /\ ~(have >= m_write_idx)
      BY <1>0, <1>2, <2>1, <3>1
    <3>6. m_iv'[1] \in [base : Nat, len : Nat]
      BY <3>4, <3>5
    <3> QED
      BY <1>3, <2>0, <2>1, <3>4, <3>5, <3>6 DEF Shape
  <2>2. CASE have >= m_write_idx
    <3>1. m_iv[1].len \in Nat /\ m_iv[1].len <= m_write_idx
      <4>1. m_iv[1].len \in Nat
        BY <1>0 DEF Shape
      <4>2. CASE bytes_have_send < m_write_idx
        BY <1>0, <4>1, <4>2 DEF Shape
      <4>3. CASE bytes_have_send >= m_write_idx
        BY <1>0, <4>1, <4>3 DEF Shape
      <4> QED
        BY <1>0, <4>2, <4>3
    <3>2. have >= m_iv[1].len /\ cuts' = cuts /\ cuts \in Nat
      BY <1>0, <1>2, <1>3, <2>2, <3>1, SMTT(20) DEF Shape
    <3>3. m_iv' = <<[m_iv[1] EXCEPT !.len = 0], [base |-> have, len |-> left]>>
      BY <1>3, <3>2 DEF Advance
    <3>4. /\ m_iv'[1] \in [base : Nat, len : Nat] /\ m_iv'[1].len = 0
          /\ m_iv'[2] = [base |-> have, len |-> left]
      BY <1>0, <3>3 DEF Shape
    <3> QED
      BY <1>0, <1>2, <1>3, <2>0, <2>2, <3>2, <3>4 DEF Shape
  <2> QED
    BY <1>0, <1>2, <2>1, <2>2
<1>6. Total' = Total
  BY <1>3 DEF Total
<1>7. done' = (bytes_to_send' <= 0)
  BY <1>3
<1>8. bytes_have_send' \in 0..Total' /\ bytes_to_send' = Total' - bytes_have_send'
  BY <1>0, <1>2, <1>3, <1>6
<1> HIDE DEF have, left
<1> QED
  BY <1>3, <1>4, <1>5, <1>7, <1>8 DEF Sent

LEMMA WriteInv ==
    ASSUME Inv, NEW n \in 1..Gathered, Write(n)
    PROVE  Inv'
<1>1. /\ UNCHANGED <<m_write_idx, st_size, m_iv_count>>
      /\ cuts' = cuts \/ cuts' = cuts + 1
  BY DEF Write
<1>2. cuts \in Nat /\ cuts' \in Nat /\ cuts <= cuts'
  BY <1>1 DEF Inv
<1>3. cuts' <= 1 => Sent'
  BY <1>2, WriteSent DEF Inv
<1> QED
  BY <1>1, <1>2, <1>3 DEF Inv, Total

LEMMA ResponseNextInv == Inv /\ [Next]_vars => Inv'
<1> SUFFICES ASSUME Inv, [Next]_vars PROVE Inv'
  OBVIOUS
<1>1. CASE UNCHANGED vars
  BY <1>1 DEF vars, Inv, Sent, Shape, Total
<1>2. CASE Next
  BY <1>2, WriteInv DEF Next
<1> QED
  BY <1>1, <1>2

\* What the client receives is the response, from its first byte on, however
\* writev cuts it, until a second call ends within the headers.
THEOREM ResponseInOrder == ASSUME Fits PROVE Spec => []InOrder
<1>1. Init => Inv
  BY ResponseInitInv
<1>2. Inv /\ [Next]_vars => Inv'
  BY ResponseNextInv
<1>3. Inv => InOrder
  <2> SUFFICES ASSUME Inv, Sent
               PROVE  (\A i \in DOMAIN received : received[i] = i - 1) /\ Len(received) <= Total
    BY DEF Inv, InOrder
  <2>1. DOMAIN received = 1..Len(received)
    BY LenProperties DEF Sent
  <2> QED
    BY <2>1 DEF Inv, Sent, Total
<1> QED
  BY <1>1, <1>2, <1>3, PTL DEF Spec

\* And when write() stops, the client has all of it.
THEOREM ResponseWhole == ASSUME Fits PROVE Spec => []TotalSize
<1>1. Init => Inv
  BY ResponseInitInv
<1>2. Inv /\ [Next]_vars => Inv'
  BY ResponseNextInv
<1>3. Inv => TotalSize
  <2> SUFFICES ASSUME Inv, Sent, done PROVE Len(received) = Total
    BY DEF Inv, TotalSize
  <2>1. bytes_to_send <= 0
    BY DEF Sent
  <2>2. /\ bytes_to_send = Total - bytes_have_send /\ bytes_have_send \in 0..Total
        /\ Total \in Nat /\ bytes_have_send = Len(received)
    BY DEF Inv, Sent, Total
  <2> QED
    BY <2>1, <2>2
<1> QED
  BY <1>1, <1>2, <1>3, PTL DEF Spec
=============================================================================

---------------------- MODULE EmTransportSerial_proofs ----------------------
(***************************************************************************)
(* For any number of bytes and any size of the FIFOs: the threads of a     *)
(* serial transport never outlive its port, and each direction implements  *)
(* ByteChannel.                                                            *)
(***************************************************************************)
EXTENDS EmTransportSerial, TLAPS

-----------------------------------------------------------------------------
(* Sequences of bytes                                                      *)

LEMMA TakeDropProps ==
  ASSUME NEW S, NEW s \in Seq(S), NEW n \in 0..Len(s)
  PROVE  /\ Take(s, n) \in Seq(S)
         /\ Len(Take(s, n)) = n
         /\ \A i \in 1..n : Take(s, n)[i] = s[i]
         /\ Drop(s, n) \in Seq(S)
         /\ Len(Drop(s, n)) = Len(s) - n
         /\ \A i \in 1..(Len(s) - n) : Drop(s, n)[i] = s[n + i]
BY DEF Take, Drop

LEMMA BytesProps ==
  ASSUME NEW M \in Nat, NEW k \in Nat, NEW n \in Nat, k + n <= M
  PROVE  /\ Bytes(k, n) \in Seq(1..M)
         /\ Len(Bytes(k, n)) = n
         /\ \A i \in 1..n : Bytes(k, n)[i] = k + i
BY DEF Bytes

\* The elements of s increase, and lie above lo and not above hi.
Ordered(s, lo, hi) ==
  /\ \A i \in 1..Len(s) : lo < s[i] /\ s[i] <= hi
  /\ \A i, j \in 1..Len(s) : i < j => s[i] < s[j]

LEMMA OrderedConcat ==
  ASSUME NEW s \in Seq(Nat), NEW t \in Seq(Nat),
         NEW lo \in Nat, NEW mid \in Nat, NEW hi \in Nat,
         lo <= mid, mid <= hi, Ordered(s, lo, mid), Ordered(t, mid, hi)
  PROVE  Ordered(s \o t, lo, hi)
<1> DEFINE u == s \o t
<1>1. Len(u) = Len(s) + Len(t) /\ Len(s) \in Nat /\ Len(t) \in Nat
  OBVIOUS
<1>2. \A i \in 1..Len(u) : u[i] = IF i <= Len(s) THEN s[i] ELSE t[i - Len(s)]
  OBVIOUS
<1>3. \A i \in 1..Len(s) : s[i] \in Nat
  OBVIOUS
<1>4. \A i \in 1..Len(t) : t[i] \in Nat
  OBVIOUS
<1> HIDE DEF u
<1>5. \A i \in 1..Len(u) : i > Len(s) => i - Len(s) \in 1..Len(t)
  BY <1>1
<1>6. /\ \A i \in 1..Len(s) : lo < s[i] /\ s[i] <= mid
      /\ \A i, j \in 1..Len(s) : i < j => s[i] < s[j]
      /\ \A i \in 1..Len(t) : mid < t[i] /\ t[i] <= hi
      /\ \A i, j \in 1..Len(t) : i < j => t[i] < t[j]
  BY DEF Ordered
<1>7. ASSUME NEW i \in 1..Len(u) PROVE lo < u[i] /\ u[i] <= hi
  <2>1. CASE i <= Len(s)
    <3>1. i \in 1..Len(s) /\ u[i] = s[i]
      BY <2>1, <1>1, <1>2
    <3> QED
      BY <3>1, <1>3, <1>6
  <2>2. CASE i > Len(s)
    <3>1. i - Len(s) \in 1..Len(t) /\ u[i] = t[i - Len(s)]
      BY <2>2, <1>1, <1>2, <1>5
    <3> QED
      BY <3>1, <1>4, <1>6
  <2> QED
    BY <2>1, <2>2, <1>1
<1>8. ASSUME NEW i \in 1..Len(u), NEW j \in 1..Len(u), i < j PROVE u[i] < u[j]
  <2>1. CASE j <= Len(s)
    <3>1. /\ i \in 1..Len(s) /\ u[i] = s[i]
          /\ j \in 1..Len(s) /\ u[j] = s[j]
      BY <2>1, <1>1, <1>2, <1>8
    <3> QED
      BY <3>1, <1>6, <1>8
  <2>2. CASE i > Len(s)
    <3>1. /\ i - Len(s) \in 1..Len(t) /\ u[i] = t[i - Len(s)]
          /\ j - Len(s) \in 1..Len(t) /\ u[j] = t[j - Len(s)]
          /\ i - Len(s) < j - Len(s)
      BY <2>2, <1>1, <1>2, <1>5, <1>8
    <3> QED
      BY <3>1, <1>6
  <2>3. CASE i <= Len(s) /\ j > Len(s)
    <3>1. /\ i \in 1..Len(s) /\ u[i] = s[i]
          /\ j - Len(s) \in 1..Len(t) /\ u[j] = t[j - Len(s)]
      BY <2>3, <1>1, <1>2, <1>5, SMTT(40)
    <3>2. u[i] \in Nat /\ u[j] \in Nat /\ u[i] <= mid /\ mid < u[j]
      BY <3>1, <1>3, <1>4, <1>6
    <3> QED
      BY <3>2
  <2> QED
    BY <2>1, <2>2, <2>3, <1>1
<1> QED
  BY <1>7, <1>8 DEF Ordered, u

LEMMA OrderedSplit ==
  ASSUME NEW s \in Seq(Nat), NEW lo \in Nat, NEW hi \in Nat, lo <= hi,
         Ordered(s, lo, hi), NEW n \in 0..Len(s)
  PROVE  \E mid \in Nat : /\ lo <= mid /\ mid <= hi
                          /\ Ordered(Take(s, n), lo, mid)
                          /\ Ordered(Drop(s, n), mid, hi)
<1> DEFINE mid == IF n = 0 THEN lo ELSE s[n]
<1>1. mid \in Nat /\ lo <= mid /\ mid <= hi
  BY DEF Ordered
<1>2. Len(Take(s, n)) = n /\ \A i \in 1..n : Take(s, n)[i] = s[i]
  BY TakeDropProps
<1>3. /\ Len(Drop(s, n)) = Len(s) - n
      /\ \A i \in 1..(Len(s) - n) : Drop(s, n)[i] = s[n + i]
  BY TakeDropProps
<1>4. \A i \in 1..Len(s) : s[i] \in Nat
  OBVIOUS
<1>5. Len(s) \in Nat
  OBVIOUS
<1>6. Ordered(Take(s, n), lo, mid)
  <2>1. \A i \in 1..n : i \in 1..Len(s)
    BY <1>5
  <2>2. ASSUME NEW i \in 1..n PROVE lo < s[i] /\ s[i] <= mid
    <3>1. n \in 1..Len(s) /\ i \in 1..Len(s) /\ (i = n \/ i < n)
      BY <2>1, <1>5
    <3> QED
      BY <3>1, <1>4 DEF Ordered
  <2>3. \A i, j \in 1..n : i < j => s[i] < s[j]
    BY <2>1 DEF Ordered
  <2> QED
    BY <2>2, <2>3, <1>2 DEF Ordered
<1>7. Ordered(Drop(s, n), mid, hi)
  <2>1. \A i \in 1..(Len(s) - n) : n + i \in 1..Len(s) /\ (n > 0 => n < n + i)
    BY <1>5
  <2>2. ASSUME NEW i \in 1..(Len(s) - n) PROVE mid < s[n + i] /\ s[n + i] <= hi
    <3>1. CASE n = 0
      BY <3>1, <2>1, <1>4, <1>5 DEF Ordered
    <3>2. CASE n > 0
      <4>1. n \in 1..Len(s) /\ n + i \in 1..Len(s) /\ n < n + i
        BY <3>2, <2>1, <1>5
      <4> QED
        BY <4>1, <1>4 DEF Ordered
    <3> QED
      BY <3>1, <3>2
  <2>3. \A i, j \in 1..(Len(s) - n) : i < j => s[n + i] < s[n + j]
    BY <2>1, <1>4, <1>5 DEF Ordered
  <2> QED
    BY <2>2, <2>3, <1>3 DEF Ordered
<1> HIDE DEF mid
<1> QED
  BY <1>1, <1>6, <1>7

-----------------------------------------------------------------------------
(* The life of the port and its threads                                    *)

\* The places of the user between Open and the end of Close.
Changing == {"config", "quit", "join"}

\* The port exists exactly while the transport is established, or being
\* opened or closed.
PortLife ==
  /\ fCommHandle # 0 <=> (fCommEstablished \/ user \in Changing)
  /\ ~(fCommEstablished /\ user \in Changing)
  /\ user \in {"wake", "read"} => fCommEstablished

LifeInv == PortLife /\ ThreadsNeedPort

LEMMA LifeInit == Init => LifeInv
BY DEF Init, LifeInv, PortLife, ThreadsNeedPort, Changing

\* The steps of the user of the transport.
LEMMA LifeUser ==
  ASSUME LifeInv,
         \/ Open \/ Close \/ PutOutgoingData \/ Busy
         \/ \E space \in 1..FifoSize : BytesInBuffer(space)
  PROVE  LifeInv'
<1> USE DEF LifeInv, PortLife, ThreadsNeedPort, Changing, handle, comm, out
<1>1. CASE Open
  BY <1>1 DEF Open
<1>2. CASE Close
  BY <1>2 DEF Close
<1>3. CASE PutOutgoingData
  BY <1>3 DEF PutOutgoingData
<1>4. CASE HostSetConfig
  BY <1>4 DEF HostSetConfig
<1>5. CASE SignalQuit
  BY <1>5 DEF SignalQuit
<1>6. CASE JoinAndClose
  BY <1>6 DEF JoinAndClose
<1>7. CASE WakeCommWrite
  BY <1>7 DEF WakeCommWrite
<1>8. CASE GetIncomingData
  BY <1>8 DEF GetIncomingData
<1>9. ASSUME NEW space \in 1..FifoSize, BytesInBuffer(space)
      PROVE  LifeInv'
  BY <1>9 DEF BytesInBuffer
<1> QED
  BY <1>1, <1>2, <1>3, <1>4, <1>5, <1>6, <1>7, <1>8, <1>9 DEF Busy

\* The comm threads only end, and the far end touches neither.
LEMMA LifeThreads ==
  ASSUME LifeInv,
         CommRead \/ CommWrite \/ FarEndSends \/ FarEndHangsUp \/ UNCHANGED vars
  PROVE  LifeInv'
<1> USE DEF LifeInv, PortLife, ThreadsNeedPort, Changing, handle, comm, out
<1>1. CASE ReaderLoop
  BY <1>1 DEF ReaderLoop
<1>2. CASE Select
  BY <1>2 DEF Select
<1>3. CASE ReadPort
  BY <1>3 DEF ReadPort
<1>4. CASE PutIncomingData
  BY <1>4 DEF PutIncomingData
<1>5. CASE WriterStarts
  BY <1>5 DEF WriterStarts, WriterWaits
<1>6. CASE WriterWakes
  BY <1>6 DEF WriterWakes, WriterWaits
<1>7. CASE OutgoingDataSize
  BY <1>7 DEF OutgoingDataSize, WriterWaits
<1>8. CASE GetOutgoingData
  BY <1>8 DEF GetOutgoingData
<1>9. CASE WritePort
  BY <1>9 DEF WritePort, WriterWaits
<1>10. CASE FarEndSends
  BY <1>10 DEF FarEndSends
<1>11. CASE FarEndHangsUp
  BY <1>11 DEF FarEndHangsUp
<1>12. CASE UNCHANGED vars
  BY <1>12 DEF vars
<1> QED
  BY <1>1, <1>2, <1>3, <1>4, <1>5, <1>6, <1>7, <1>8, <1>9, <1>10, <1>11,
     <1>12 DEF CommRead, CommWrite

\* HostClose joins both threads before it closes the port: neither CommRead
\* nor CommWrite exists without a port, however long either takes to notice
\* that it has to quit.
THEOREM ThreadsEnd == Spec => []ThreadsNeedPort
<1>1. Init => LifeInv
  BY LifeInit
<1>2. LifeInv /\ [Next]_vars => LifeInv'
  BY LifeUser, LifeThreads DEF Next
<1>3. LifeInv => ThreadsNeedPort
  BY DEF LifeInv
<1> QED
  BY <1>1, <1>2, <1>3, PTL DEF Spec

-----------------------------------------------------------------------------
(* Types                                                                   *)

LEMMA Min2Props ==
  ASSUME NEW a \in Nat, NEW b \in Nat
  PROVE  Min2(a, b) \in 0..a /\ Min2(a, b) \in 0..b
BY DEF Min2

LEMMA Sizes == MaxOut \in Nat /\ MaxIn \in Nat /\ FifoSize \in Nat /\ 0 \in 0..FifoSize
<1>1. FifoSize \in Nat
  BY TransportAssumption
<1> QED
  BY <1>1, TransportAssumption

LEMMA TypeInit == Init => TypeOK
<1>1. \A S : << >> \in Seq(S)
  OBVIOUS
<1>2. 0 \in Nat /\ 0 \in 0..MaxOut /\ 0 \in 0..MaxIn
  BY Sizes
<1> QED
  BY <1>1, <1>2, Sizes, ZenonT(60) DEF Init, TypeOK

LEMMA TypeUser ==
  ASSUME TypeOK,
         \/ Open \/ Close \/ PutOutgoingData \/ Busy
         \/ \E space \in 1..FifoSize : BytesInBuffer(space)
  PROVE  TypeOK'
<1> USE Sizes DEF TypeOK, handle, comm, out, line
<1>1. CASE Open
  BY <1>1 DEF Open
<1>2. CASE Close
  <2>1. fCommEstablished' \in BOOLEAN /\ user' \in {"quit"}
    BY <1>2 DEF Close
  <2>2. UNCHANGED <<device, fCommHandle, fTimeToQuit, pipe, fReadBuffer,
                    fWriteBuffer, asleep, comm, out, bytesToBuffer, line,
                    portOut, nOut, got>>
    BY <1>2 DEF Close
  <2> QED
    BY <2>1, <2>2
<1>3. CASE PutOutgoingData
  <2>1. PICK n \in 1..Min2(FifoSize, MaxOut - nOut) :
          /\ fWriteBuffer' = fWriteBuffer \o Bytes(nOut, n)
          /\ nOut' = nOut + n
    BY <1>3 DEF PutOutgoingData
  <2>2. n \in Nat /\ nOut + n <= MaxOut
    BY <2>1 DEF Min2
  <2>3. Bytes(nOut, n) \in Seq(1..MaxOut)
    BY <2>2, BytesProps
  <2>4. fWriteBuffer' \in Seq(1..MaxOut) /\ nOut' \in 0..MaxOut
    BY <2>1, <2>2, <2>3
  <2> QED
    BY <1>3, <2>4 DEF PutOutgoingData
<1>4. CASE HostSetConfig
  <2>1. fCommEstablished' \in BOOLEAN /\ user' \in {"idle", "quit"}
    BY <1>4 DEF HostSetConfig
  <2>2. UNCHANGED <<device, fCommHandle, fTimeToQuit, pipe, fReadBuffer,
                    fWriteBuffer, asleep, comm, out, bytesToBuffer, line,
                    portOut, nOut, got>>
    BY <1>4 DEF HostSetConfig
  <2> QED
    BY <2>1, <2>2
<1>5. CASE SignalQuit
  <2>1. /\ fTimeToQuit' \in BOOLEAN /\ asleep' \in BOOLEAN
        /\ pipe' \in {"signalled"} /\ user' \in {"join"}
    BY <1>5 DEF SignalQuit
  <2>2. UNCHANGED <<device, fCommEstablished, fCommHandle, fReadBuffer,
                    fWriteBuffer, comm, out, bytesToBuffer, line, portOut, nOut,
                    got>>
    BY <1>5 DEF SignalQuit
  <2> QED
    BY <2>1, <2>2
<1>6. CASE JoinAndClose
  BY <1>6 DEF JoinAndClose
<1>7. CASE WakeCommWrite
  <2>1. asleep' \in BOOLEAN /\ user' \in {"idle"}
    BY <1>7 DEF WakeCommWrite
  <2>2. UNCHANGED <<handle, fReadBuffer, fWriteBuffer, comm, out, bytesToBuffer,
                    line, portOut, nOut, got>>
    BY <1>7 DEF WakeCommWrite
  <2> QED
    BY <2>1, <2>2
<1>8. CASE GetIncomingData
  <2> DEFINE n == Min2(bytesToBuffer, Len(fReadBuffer))
  <2>1. n \in 0..Len(fReadBuffer)
    <3>1. bytesToBuffer \in Nat /\ Len(fReadBuffer) \in Nat
      OBVIOUS
    <3> QED
      BY <3>1, Min2Props
  <2>2. Take(fReadBuffer, n) \in Seq(1..MaxIn) /\ Drop(fReadBuffer, n) \in Seq(1..MaxIn)
    BY <2>1, TakeDropProps
  <2>3. got' \in Seq(1..MaxIn) /\ fReadBuffer' \in Seq(1..MaxIn)
    BY <2>2, <1>8 DEF GetIncomingData
  <2> QED
    BY <1>8, <2>3 DEF GetIncomingData
<1>9. ASSUME NEW space \in 1..FifoSize, BytesInBuffer(space)
      PROVE  TypeOK'
  <2>1. Len(fReadBuffer) \in Nat /\ space \in Nat /\ space <= FifoSize
    BY <1>9
  <2>2. Min2(Len(fReadBuffer), space) \in 0..space
    BY <2>1, Min2Props
  <2>3. bytesToBuffer' \in 0..FifoSize
    BY <2>1, <2>2, <1>9 DEF BytesInBuffer
  <2> QED
    BY <1>9, <2>3 DEF BytesInBuffer
<1> QED
  BY <1>1, <1>2, <1>3, <1>4, <1>5, <1>6, <1>7, <1>8, <1>9 DEF Busy

LEMMA TypeThreads ==
  ASSUME TypeOK,
         CommRead \/ CommWrite \/ FarEndSends \/ FarEndHangsUp \/ UNCHANGED vars
  PROVE  TypeOK'
<1> USE Sizes DEF TypeOK, handle, comm, out, line
<1>1. CASE ReaderLoop
  BY <1>1 DEF ReaderLoop
<1>2. CASE Select
  BY <1>2 DEF Select
<1>3. CASE ReadPort
  <2>1. ASSUME NEW n \in 1..Len(portIn),
               rbuf' = Take(portIn, n), portIn' = Drop(portIn, n)
        PROVE  rbuf' \in Seq(1..MaxIn) /\ portIn' \in Seq(1..MaxIn)
    BY <2>1, TakeDropProps
  <2>2. rbuf' \in Seq(1..MaxIn) /\ portIn' \in Seq(1..MaxIn)
    BY <1>3, <2>1 DEF ReadPort
  <2> QED
    BY <1>3, <2>2 DEF ReadPort
<1>4. CASE PutIncomingData
  BY <1>4 DEF PutIncomingData
<1>5. CASE WriterStarts
  BY <1>5 DEF WriterStarts, WriterWaits
<1>6. CASE WriterWakes
  <2>1. /\ writer' \in {"none", "wait", "size"}
        /\ asleep' \in BOOLEAN
    BY <1>6 DEF WriterWakes, WriterWaits
  <2>2. UNCHANGED <<handle, fReadBuffer, fWriteBuffer, user, comm, len, wbuf,
                    bytesToBuffer, line, portOut, nOut, got>>
    BY <1>6 DEF WriterWakes
  <2> QED
    BY <2>1, <2>2
<1>7. CASE OutgoingDataSize
  <2>1. len' \in Nat
    BY <1>7 DEF OutgoingDataSize
  <2>2. /\ writer' \in {"none", "wait", "get"}
        /\ asleep' \in BOOLEAN
    BY <1>7 DEF OutgoingDataSize, WriterWaits
  <2>3. UNCHANGED <<handle, fReadBuffer, fWriteBuffer, user, comm, wbuf,
                    bytesToBuffer, line, portOut, nOut, got>>
    BY <1>7 DEF OutgoingDataSize
  <2> QED
    BY <2>1, <2>2, <2>3
<1>8. CASE GetOutgoingData
  <2> DEFINE n == Min2(len, Len(fWriteBuffer))
  <2>1. n \in 0..Len(fWriteBuffer)
    <3>1. len \in Nat /\ Len(fWriteBuffer) \in Nat
      OBVIOUS
    <3> QED
      BY <3>1, Min2Props
  <2>2. /\ Take(fWriteBuffer, n) \in Seq(1..MaxOut)
        /\ Drop(fWriteBuffer, n) \in Seq(1..MaxOut)
    BY <2>1, TakeDropProps
  <2>3. wbuf' \in Seq(1..MaxOut) /\ fWriteBuffer' \in Seq(1..MaxOut)
    BY <2>2, <1>8 DEF GetOutgoingData
  <2> QED
    BY <1>8, <2>3 DEF GetOutgoingData
<1>9. CASE WritePort
  <2>1. PICK n \in 0..Len(wbuf) : portOut' = portOut \o Take(wbuf, n)
    BY <1>9 DEF WritePort
  <2>2. Take(wbuf, n) \in Seq(1..MaxOut)
    BY TakeDropProps
  <2>3. portOut' \in Seq(1..MaxOut)
    BY <2>1, <2>2
  <2> QED
    BY <1>9, <2>3 DEF WritePort, WriterWaits
<1>10. CASE FarEndSends
  <2>1. nIn' \in 1..MaxIn /\ portIn' \in Seq(1..MaxIn)
    BY <1>10 DEF FarEndSends
  <2> QED
    BY <1>10, <2>1 DEF FarEndSends
<1>11. CASE FarEndHangsUp
  BY <1>11 DEF FarEndHangsUp
<1>12. CASE UNCHANGED vars
  BY <1>12 DEF vars
<1> QED
  BY <1>1, <1>2, <1>3, <1>4, <1>5, <1>6, <1>7, <1>8, <1>9, <1>10, <1>11,
     <1>12 DEF CommRead, CommWrite

\* Every buffer holds bytes of its own stream, and ReceiveRxFIFO never means
\* to read more than the FIFO can take.
THEOREM TypeCorrect == Spec => []TypeOK
<1>1. TypeOK /\ [Next]_vars => TypeOK'
  BY TypeUser, TypeThreads DEF Next
<1> QED
  BY TypeInit, <1>1, PTL DEF Spec

-----------------------------------------------------------------------------
(* Each direction implements ByteChannel                                   *)

\* The bytes on their way out: accepted by the port, taken by CommWrite, and
\* queued, in this order.
OutLine ==
  /\ writer # "write" => wbuf = << >>
  /\ \E x, y \in Nat :
       /\ x <= y /\ y <= nOut
       /\ Ordered(portOut, 0, x)
       /\ Ordered(wbuf, x, y)
       /\ Ordered(fWriteBuffer, y, nOut)

\* The bytes on their way in: read by the UART, queued, read by CommRead, and
\* waiting in the port.
InLine ==
  /\ reader # "put" => rbuf = << >>
  /\ \E x, y, z \in Nat :
       /\ x <= y /\ y <= z /\ z <= nIn
       /\ Ordered(got, 0, x)
       /\ Ordered(fReadBuffer, x, y)
       /\ Ordered(rbuf, y, z)
       /\ Ordered(portIn, z, nIn)

LEMMA LineTypes ==
  ASSUME TypeOK
  PROVE  /\ nOut \in Nat /\ nIn \in Nat
         /\ portOut \in Seq(Nat) /\ wbuf \in Seq(Nat) /\ fWriteBuffer \in Seq(Nat)
         /\ got \in Seq(Nat) /\ fReadBuffer \in Seq(Nat) /\ rbuf \in Seq(Nat)
         /\ portIn \in Seq(Nat)
<1>1. ASSUME NEW m \in Nat, NEW s \in Seq(1..m) PROVE s \in Seq(Nat)
  OBVIOUS
<1> QED
  BY <1>1, Sizes DEF TypeOK

LEMMA OrderedWiden ==
  ASSUME NEW s \in Seq(Nat), NEW lo \in Nat, NEW hi \in Nat,
         NEW lo2 \in Nat, NEW hi2 \in Nat,
         lo2 <= lo, hi <= hi2, Ordered(s, lo, hi)
  PROVE  Ordered(s, lo2, hi2)
<1>1. \A i \in 1..Len(s) : s[i] \in Nat
  OBVIOUS
<1> QED
  BY <1>1 DEF Ordered

LEMMA OrderedEmpty == \A a, b : Ordered(<< >>, a, b)
BY DEF Ordered

\* A longer ordered sequence is a delivery.
LEMMA Delivery ==
  ASSUME NEW s \in Seq(Nat), NEW t \in Seq(Nat), NEW hi \in Nat, Len(t) > 0,
         Ordered(s \o t, 0, hi)
  PROVE  /\ Len(s \o t) > Len(s)
         /\ SubSeq(s \o t, 1, Len(s)) = s
         /\ \A i, j \in 1..Len(s \o t) : i < j => (s \o t)[i] < (s \o t)[j]
         /\ (s \o t)[Len(s \o t)] <= hi
<1>1. Len(s \o t) = Len(s) + Len(t) /\ Len(s) \in Nat /\ Len(t) \in Nat
  OBVIOUS
<1>2. SubSeq(s \o t, 1, Len(s)) = s
  OBVIOUS
<1>3. Len(s \o t) \in 1..Len(s \o t)
  BY <1>1
<1> QED
  BY <1>1, <1>2, <1>3 DEF Ordered

OutStill ==
  /\ UNCHANGED <<nOut, portOut, wbuf, fWriteBuffer>>
  /\ writer' # "write" => writer # "write"

\* Only three actions move bytes out.
LEMMA OutQuiet ==
  ASSUME LifeInv, [Next]_vars, ~PutOutgoingData, ~GetOutgoingData, ~WritePort
  PROVE  OutStill
<1> USE DEF LifeInv, PortLife, ThreadsNeedPort, Changing, handle, comm, out, line,
           OutStill
<1>1. CASE Open
  BY <1>1 DEF Open
<1>2. CASE Close
  BY <1>2 DEF Close
<1>3. CASE HostSetConfig
  BY <1>3 DEF HostSetConfig
<1>4. CASE SignalQuit
  BY <1>4 DEF SignalQuit
<1>5. CASE JoinAndClose
  BY <1>5 DEF JoinAndClose
<1>6. CASE WakeCommWrite
  BY <1>6 DEF WakeCommWrite
<1>7. CASE GetIncomingData
  BY <1>7 DEF GetIncomingData
<1>8. CASE ReaderLoop
  BY <1>8 DEF ReaderLoop
<1>9. CASE Select
  BY <1>9 DEF Select
<1>10. CASE ReadPort
  BY <1>10 DEF ReadPort
<1>11. CASE PutIncomingData
  BY <1>11 DEF PutIncomingData
<1>12. CASE WriterStarts
  BY <1>12 DEF WriterStarts, WriterWaits
<1>13. CASE WriterWakes
  BY <1>13 DEF WriterWakes, WriterWaits
<1>14. CASE OutgoingDataSize
  BY <1>14 DEF OutgoingDataSize, WriterWaits
<1>15. CASE FarEndSends
  BY <1>15 DEF FarEndSends
<1>16. CASE FarEndHangsUp
  BY <1>16 DEF FarEndHangsUp
<1>17. ASSUME NEW space \in 1..FifoSize, BytesInBuffer(space)
      PROVE  OutStill
  BY <1>17 DEF BytesInBuffer
<1>18. CASE UNCHANGED vars
  BY <1>18 DEF vars
<1> HIDE DEF LifeInv, PortLife, ThreadsNeedPort, Changing, handle, comm, out, line,
            OutStill
<1> QED
  BY <1>1, <1>2, <1>3, <1>4, <1>5, <1>6, <1>7, <1>8, <1>9,
     <1>10, <1>11, <1>12, <1>13, <1>14, <1>15, <1>16, <1>17, <1>18
     DEF Next, Busy, CommRead, CommWrite

InStill ==
  /\ UNCHANGED <<nIn, got, fReadBuffer, rbuf, portIn>>
  /\ reader' # "put" => reader # "put"

\* Only five move bytes in, one of them by throwing them away.
LEMMA InQuiet ==
  ASSUME LifeInv, [Next]_vars, ~FarEndSends, ~ReadPort, ~PutIncomingData, ~GetIncomingData, ~JoinAndClose
  PROVE  InStill
<1> USE DEF LifeInv, PortLife, ThreadsNeedPort, Changing, handle, comm, out, line,
           InStill
<1>1. CASE Open
  BY <1>1 DEF Open
<1>2. CASE Close
  BY <1>2 DEF Close
<1>3. CASE HostSetConfig
  BY <1>3 DEF HostSetConfig
<1>4. CASE SignalQuit
  BY <1>4 DEF SignalQuit
<1>5. CASE PutOutgoingData
  BY <1>5 DEF PutOutgoingData
<1>6. CASE WakeCommWrite
  BY <1>6 DEF WakeCommWrite
<1>7. CASE ReaderLoop
  BY <1>7 DEF ReaderLoop
<1>8. CASE Select
  BY <1>8 DEF Select
<1>9. CASE WriterStarts
  BY <1>9 DEF WriterStarts, WriterWaits
<1>10. CASE WriterWakes
  BY <1>10 DEF WriterWakes, WriterWaits
<1>11. CASE OutgoingDataSize
  BY <1>11 DEF OutgoingDataSize, WriterWaits
<1>12. CASE GetOutgoingData
  BY <1>12 DEF GetOutgoingData
<1>13. CASE WritePort
  BY <1>13 DEF WritePort, WriterWaits
<1>14. CASE FarEndHangsUp
  BY <1>14 DEF FarEndHangsUp
<1>15. ASSUME NEW space \in 1..FifoSize, BytesInBuffer(space)
      PROVE  InStill
  BY <1>15 DEF BytesInBuffer
<1>16. CASE UNCHANGED vars
  BY <1>16 DEF vars
<1> HIDE DEF LifeInv, PortLife, ThreadsNeedPort, Changing, handle, comm, out, line,
            InStill
<1> QED
  BY <1>1, <1>2, <1>3, <1>4, <1>5, <1>6, <1>7, <1>8, <1>9,
     <1>10, <1>11, <1>12, <1>13, <1>14, <1>15, <1>16
     DEF Next, Busy, CommRead, CommWrite

OutStep == [Out!Send \/ Out!Deliver]_<<nOut, portOut>>

LEMMA OutPut ==
  ASSUME TypeOK, OutLine, PutOutgoingData
  PROVE  OutLine' /\ OutStep
<1>1. PICK n \in 1..Min2(FifoSize, MaxOut - nOut) :
        /\ fWriteBuffer' = fWriteBuffer \o Bytes(nOut, n)
        /\ nOut' = nOut + n
  BY DEF PutOutgoingData
<1>2. n \in Nat /\ n > 0 /\ nOut \in Nat /\ nOut + n <= MaxOut
  BY <1>1, Sizes DEF Min2, TypeOK
<1>3. UNCHANGED <<writer, wbuf, portOut>>
  BY DEF PutOutgoingData, out
<1>4. PICK x \in Nat, y \in Nat :
        /\ x <= y /\ y <= nOut
        /\ Ordered(portOut, 0, x)
        /\ Ordered(wbuf, x, y)
        /\ Ordered(fWriteBuffer, y, nOut)
  BY DEF OutLine
<1>5. /\ Bytes(nOut, n) \in Seq(Nat)
      /\ Ordered(Bytes(nOut, n), nOut, nOut + n)
  <2>1. /\ Bytes(nOut, n) \in Seq(1..MaxOut)
        /\ Len(Bytes(nOut, n)) = n
        /\ \A i \in 1..n : Bytes(nOut, n)[i] = nOut + i
    BY <1>2, Sizes, BytesProps, ZenonT(60)
  <2>2. Bytes(nOut, n) \in Seq(Nat)
    BY <2>1, Sizes
  <2> QED
    BY <2>1, <2>2, <1>2 DEF Ordered
<1>6. Ordered(fWriteBuffer', y, nOut')
  <2>1. /\ fWriteBuffer \in Seq(Nat)
        /\ nOut \in Nat /\ nOut + n \in Nat /\ nOut <= nOut + n
    BY <1>2, LineTypes
  <2>2. Ordered(fWriteBuffer \o Bytes(nOut, n), y, nOut + n)
    BY <1>4, <1>5, <2>1, OrderedConcat
  <2> QED
    BY <1>1, <2>2
<1>7. OutLine'
  BY <1>1, <1>2, <1>3, <1>4, <1>6 DEF OutLine
<1>8. OutStep
  BY <1>1, <1>2, <1>3 DEF OutStep, Out!Send
<1> QED
  BY <1>7, <1>8

LEMMA OutGet ==
  ASSUME TypeOK, OutLine, GetOutgoingData
  PROVE  OutLine' /\ OutStep
<1> DEFINE n == Min2(len, Len(fWriteBuffer))
<1>1. n \in 0..Len(fWriteBuffer)
  <2>1. len \in Nat /\ Len(fWriteBuffer) \in Nat
    BY DEF TypeOK
  <2> QED
    BY <2>1, Min2Props
<1>2. /\ wbuf' = Take(fWriteBuffer, n)
      /\ fWriteBuffer' = Drop(fWriteBuffer, n)
      /\ writer' = "write"
      /\ UNCHANGED <<nOut, portOut>>
  BY DEF GetOutgoingData
<1> HIDE DEF n
<1>3. PICK x \in Nat, y \in Nat :
        /\ x <= y /\ y <= nOut
        /\ Ordered(portOut, 0, x)
        /\ Ordered(fWriteBuffer, y, nOut)
  BY DEF OutLine
<1>4. PICK z \in Nat : /\ y <= z /\ z <= nOut
                       /\ Ordered(Take(fWriteBuffer, n), y, z)
                       /\ Ordered(Drop(fWriteBuffer, n), z, nOut)
  BY <1>1, <1>3, LineTypes, OrderedSplit
<1>5. Ordered(portOut, 0, y)
  BY <1>3, LineTypes, SMTT(40) DEF Ordered
<1>6. OutLine'
  BY <1>2, <1>3, <1>4, <1>5 DEF OutLine
<1>7. OutStep
  BY <1>2 DEF OutStep
<1> QED
  BY <1>6, <1>7

LEMMA OutWrite ==
  ASSUME TypeOK, OutLine, WritePort
  PROVE  OutLine' /\ OutStep
<1>1. PICK n \in 0..Len(wbuf) : portOut' = portOut \o Take(wbuf, n)
  BY DEF WritePort
<1>2. wbuf' = << >> /\ UNCHANGED <<nOut, fWriteBuffer>>
  BY DEF WritePort
<1>3. PICK x \in Nat, y \in Nat :
        /\ x <= y /\ y <= nOut
        /\ Ordered(portOut, 0, x)
        /\ Ordered(wbuf, x, y)
        /\ Ordered(fWriteBuffer, y, nOut)
  BY DEF OutLine
<1>4. Take(wbuf, n) \in Seq(Nat) /\ Len(Take(wbuf, n)) = n
  BY LineTypes, TakeDropProps
<1>5. PICK z \in Nat : /\ x <= z /\ z <= y
                       /\ Ordered(Take(wbuf, n), x, z)
  BY <1>3, LineTypes, OrderedSplit
<1>6. Ordered(portOut', 0, z)
  BY <1>1, <1>3, <1>4, <1>5, LineTypes, OrderedConcat, SMTT(40)
<1>7. OutLine'
  <2>1. z <= nOut /\ Ordered(wbuf', z, z)
    BY <1>2, <1>3, <1>5, LineTypes, OrderedEmpty
  <2>2. Ordered(fWriteBuffer', z, nOut')
    BY <1>2, <1>3, <1>5, LineTypes, SMTT(40) DEF Ordered
  <2> QED
    BY <1>2, <1>6, <2>1, <2>2, LineTypes DEF OutLine
<1>8. OutStep
  <2>1. CASE n = 0
    <3>1. portOut' = portOut
      BY <1>1, <1>4, <2>1, LineTypes
    <3> QED
      BY <3>1, <1>2 DEF OutStep
  <2>2. CASE n > 0
    <3>1. z <= nOut /\ Ordered(portOut', 0, nOut)
      <4>1. z \in Nat /\ nOut \in Nat /\ z <= nOut /\ 0 \in Nat /\ 0 <= 0
        BY <1>3, <1>5, LineTypes
      <4>2. portOut' \in Seq(Nat)
        BY <1>1, <1>4, LineTypes
      <4> QED
        BY <4>1, <4>2, <1>6, OrderedWiden
    <3>2. /\ Len(portOut') > Len(portOut)
          /\ SubSeq(portOut', 1, Len(portOut)) = portOut
          /\ \A i, j \in 1..Len(portOut') : i < j => portOut'[i] < portOut'[j]
          /\ portOut'[Len(portOut')] <= nOut
      BY <1>1, <1>4, <2>2, <3>1, LineTypes, Delivery
    <3>3. nOut' = nOut /\ nOut' >= nOut
      BY <1>2, LineTypes
    <3> QED
      BY <3>2, <3>3 DEF OutStep, Out!Deliver, Out!InOrder
  <2> QED
    BY <2>1, <2>2
<1> QED
  BY <1>7, <1>8

\* No step reorders, repeats or invents a byte on its way out.
LEMMA OutStepHolds ==
  ASSUME TypeOK, LifeInv, OutLine, [Next]_vars
  PROVE  OutLine' /\ OutStep
<1>1. CASE PutOutgoingData
  BY <1>1, OutPut
<1>2. CASE GetOutgoingData
  BY <1>2, OutGet
<1>3. CASE WritePort
  BY <1>3, OutWrite
<1>4. CASE ~PutOutgoingData /\ ~GetOutgoingData /\ ~WritePort
  <2>1. OutStill
    BY <1>4, OutQuiet
  <2> QED
    BY <2>1 DEF OutStill, OutLine, OutStep
<1> QED
  BY <1>1, <1>2, <1>3, <1>4

\* What the program writes reaches the host port in the order in which it was
\* written and at most once, across the two buffers, the two locks of
\* PutOutgoingData and CommWrite, partial writes, and closing and opening.
THEOREM OutImplementsChannel == Spec => OutChannel
<1>1. Init => OutLine /\ Out!Init
  <2>1. ASSUME Init PROVE \A a, b : /\ Ordered(portOut, a, b)
                                   /\ Ordered(wbuf, a, b)
                                   /\ Ordered(fWriteBuffer, a, b)
    BY <2>1, OrderedEmpty DEF Init
  <2>2. ASSUME Init PROVE nOut = 0 /\ wbuf = << >> /\ portOut = << >>
    BY <2>2 DEF Init
  <2> QED
    BY <2>1, <2>2 DEF OutLine, Out!Init
<1>2. TypeOK /\ LifeInv /\ OutLine /\ [Next]_vars
      => TypeOK' /\ LifeInv' /\ OutLine' /\ OutStep
  BY TypeUser, TypeThreads, LifeUser, LifeThreads, OutStepHolds DEF Next
<1>3. Init => TypeOK /\ LifeInv
  BY TypeInit, LifeInit
<1> QED
  BY <1>1, <1>2, <1>3, PTL DEF Spec, OutChannel, Out!Spec, Out!channel, OutStep

-----------------------------------------------------------------------------
InStep == [In!Send \/ In!Deliver]_<<nIn, got>>

LEMMA InSend ==
  ASSUME TypeOK, InLine, FarEndSends
  PROVE  InLine' /\ InStep
<1>1. PICK x \in Nat, y \in Nat, z \in Nat :
        /\ x <= y /\ y <= z /\ z <= nIn
        /\ Ordered(got, 0, x)
        /\ Ordered(fReadBuffer, x, y)
        /\ Ordered(rbuf, y, z)
        /\ Ordered(portIn, z, nIn)
  BY DEF InLine
<1>2. /\ nIn' = nIn + 1 /\ portIn' = portIn \o <<nIn + 1>>
      /\ UNCHANGED <<got, fReadBuffer, reader, rbuf>>
  BY LineTypes DEF FarEndSends, comm
<1>3. <<nIn + 1>> \in Seq(Nat) /\ Ordered(<<nIn + 1>>, nIn, nIn + 1)
  BY LineTypes DEF Ordered
<1>4. Ordered(portIn', z, nIn')
  <2>1. nIn \in Nat /\ nIn + 1 \in Nat /\ nIn <= nIn + 1 /\ portIn \in Seq(Nat)
    BY LineTypes
  <2>2. Ordered(portIn \o <<nIn + 1>>, z, nIn + 1)
    BY <2>1, <1>1, <1>3, OrderedConcat
  <2> QED
    BY <2>2, <1>2
<1>5. nIn' \in Nat /\ z <= nIn'
  BY <1>1, <1>2, LineTypes
<1>6. InLine'
  BY <1>1, <1>2, <1>4, <1>5 DEF InLine
<1>7. InStep
  BY <1>2, LineTypes DEF InStep, In!Send
<1> QED
  BY <1>6, <1>7

LEMMA InRead ==
  ASSUME TypeOK, InLine, ReadPort
  PROVE  InLine' /\ InStep
<1>1. PICK x \in Nat, y \in Nat, z \in Nat :
        /\ x <= y /\ y <= z /\ z <= nIn
        /\ Ordered(got, 0, x)
        /\ Ordered(fReadBuffer, x, y)
        /\ Ordered(rbuf, y, z)
        /\ Ordered(portIn, z, nIn)
  BY DEF InLine
<1>2. UNCHANGED <<nIn, got, fReadBuffer>> /\ rbuf = << >>
  BY DEF ReadPort, InLine
<1>3. InLine'
  <2>1. CASE UNCHANGED <<rbuf, portIn>> /\ reader' = "none"
    BY <2>1, <1>1, <1>2 DEF InLine
  <2>2. ASSUME NEW n \in 1..Len(portIn), rbuf' = Take(portIn, n),
               portIn' = Drop(portIn, n), reader' = "put"
        PROVE  InLine'
    <3>1. n \in 0..Len(portIn)
      BY LineTypes
    <3>2. PICK w \in Nat : /\ z <= w /\ w <= nIn
                           /\ Ordered(Take(portIn, n), z, w)
                           /\ Ordered(Drop(portIn, n), w, nIn)
      BY <1>1, <3>1, LineTypes, OrderedSplit
    <3>3. x <= z /\ Ordered(fReadBuffer, x, z)
      <4>1. x <= x /\ x <= z /\ fReadBuffer \in Seq(Nat)
        BY <1>1, LineTypes
      <4> QED
        BY <4>1, <1>1, OrderedWiden
    <3> QED
      BY <1>1, <1>2, <2>2, <3>2, <3>3 DEF InLine
  <2> QED
    BY <2>1, <2>2 DEF ReadPort
<1>4. InStep
  BY <1>2 DEF InStep
<1> QED
  BY <1>3, <1>4

LEMMA InQueue ==
  ASSUME TypeOK, InLine, PutIncomingData
  PROVE  InLine' /\ InStep
<1>1. PICK x \in Nat, y \in Nat, z \in Nat :
        /\ x <= y /\ y <= z /\ z <= nIn
        /\ Ordered(got, 0, x)
        /\ Ordered(fReadBuffer, x, y)
        /\ Ordered(rbuf, y, z)
        /\ Ordered(portIn, z, nIn)
  BY DEF InLine
<1>2. /\ fReadBuffer' = fReadBuffer \o rbuf /\ rbuf' = << >>
      /\ UNCHANGED <<nIn, got, portIn>>
  BY DEF PutIncomingData, line
<1>3. x <= z /\ Ordered(fReadBuffer', x, z) /\ Ordered(rbuf', z, z)
  BY <1>1, <1>2, LineTypes, OrderedConcat, OrderedEmpty, SMTT(40)
<1>4. InLine'
  BY <1>1, <1>2, <1>3 DEF InLine
<1>5. InStep
  BY <1>2 DEF InStep
<1> QED
  BY <1>4, <1>5

LEMMA InGet ==
  ASSUME TypeOK, InLine, GetIncomingData
  PROVE  InLine' /\ InStep
<1> DEFINE n == Min2(bytesToBuffer, Len(fReadBuffer))
<1>1. PICK x \in Nat, y \in Nat, z \in Nat :
        /\ x <= y /\ y <= z /\ z <= nIn
        /\ Ordered(got, 0, x)
        /\ Ordered(fReadBuffer, x, y)
        /\ Ordered(rbuf, y, z)
        /\ Ordered(portIn, z, nIn)
  BY DEF InLine
<1>2. n \in 0..Len(fReadBuffer)
  <2>1. bytesToBuffer \in Nat /\ Len(fReadBuffer) \in Nat
    BY DEF TypeOK
  <2> QED
    BY <2>1, Min2Props
<1>3. /\ got' = got \o Take(fReadBuffer, n)
      /\ fReadBuffer' = Drop(fReadBuffer, n)
      /\ UNCHANGED <<nIn, portIn, reader, rbuf>>
  BY DEF GetIncomingData, line, comm
<1> HIDE DEF n
<1>4. Take(fReadBuffer, n) \in Seq(Nat) /\ Len(Take(fReadBuffer, n)) = n
  BY <1>2, LineTypes, TakeDropProps
<1>5. PICK w \in Nat : /\ x <= w /\ w <= y
                       /\ Ordered(Take(fReadBuffer, n), x, w)
                       /\ Ordered(Drop(fReadBuffer, n), w, y)
  BY <1>1, <1>2, LineTypes, OrderedSplit
<1>6. Ordered(got', 0, w)
  BY <1>1, <1>3, <1>4, <1>5, LineTypes, OrderedConcat, SMTT(40)
<1>7. InLine'
  BY <1>1, <1>3, <1>5, <1>6 DEF InLine
<1>8. InStep
  <2>1. CASE n = 0
    <3>1. got' = got
      BY <1>3, <1>4, <2>1, LineTypes
    <3> QED
      BY <3>1, <1>3 DEF InStep
  <2>2. CASE n > 0
    <3>1. Ordered(got', 0, nIn)
      <4>1. nIn \in Nat /\ w <= nIn /\ 0 \in Nat /\ 0 <= 0
        BY <1>1, <1>5, LineTypes
      <4>2. got' \in Seq(Nat)
        BY <1>3, <1>4, LineTypes
      <4> QED
        BY <4>1, <4>2, <1>6, OrderedWiden
    <3>2. /\ Len(got') > Len(got)
          /\ SubSeq(got', 1, Len(got)) = got
          /\ \A i, j \in 1..Len(got') : i < j => got'[i] < got'[j]
          /\ got'[Len(got')] <= nIn
      BY <1>3, <1>4, <2>2, <3>1, LineTypes, Delivery
    <3>3. nIn' = nIn /\ nIn' >= nIn
      BY <1>3, LineTypes
    <3> QED
      BY <3>2, <3>3 DEF InStep, In!Deliver, In!InOrder
  <2> QED
    BY <1>2, <2>1, <2>2, LineTypes
<1> QED
  BY <1>7, <1>8

LEMMA InDrop ==
  ASSUME TypeOK, InLine, LifeInv, JoinAndClose
  PROVE  InLine' /\ InStep
<1>1. PICK x \in Nat, y \in Nat, z \in Nat :
        /\ x <= y /\ y <= z /\ z <= nIn
        /\ Ordered(got, 0, x)
        /\ Ordered(fReadBuffer, x, y)
        /\ Ordered(rbuf, y, z)
        /\ Ordered(portIn, z, nIn)
  BY DEF InLine
<1>2. /\ portIn' = << >>
      /\ UNCHANGED <<nIn, got, fReadBuffer, reader, rbuf>>
  BY DEF JoinAndClose, comm
<1>3. Ordered(portIn', z, nIn')
  BY <1>2, OrderedEmpty
<1>4. InLine'
  BY <1>1, <1>2, <1>3 DEF InLine
<1>5. InStep
  BY <1>2 DEF InStep
<1> QED
  BY <1>4, <1>5

\* No step reorders, repeats or invents a byte on its way in.
LEMMA InStepHolds ==
  ASSUME TypeOK, LifeInv, InLine, [Next]_vars
  PROVE  InLine' /\ InStep
<1>1. CASE FarEndSends
  BY <1>1, InSend
<1>2. CASE ReadPort
  BY <1>2, InRead
<1>3. CASE PutIncomingData
  BY <1>3, InQueue
<1>4. CASE GetIncomingData
  BY <1>4, InGet
<1>5. CASE JoinAndClose
  BY <1>5, InDrop
<1>6. CASE /\ ~FarEndSends /\ ~ReadPort /\ ~PutIncomingData
           /\ ~GetIncomingData /\ ~JoinAndClose
  <2>1. InStill
    BY <1>6, InQuiet
  <2> QED
    BY <2>1 DEF InStill, InLine, InStep
<1> QED
  BY <1>1, <1>2, <1>3, <1>4, <1>5, <1>6

\* What the far end sends reaches the UART in the order in which it was sent
\* and at most once, whether CommRead picks it up in one piece or in many,
\* and across closing and opening the transport.
THEOREM InImplementsChannel == Spec => InChannel
<1>1. Init => InLine /\ In!Init
  <2>1. ASSUME Init PROVE \A a, b : /\ Ordered(got, a, b)
                                   /\ Ordered(fReadBuffer, a, b)
                                   /\ Ordered(rbuf, a, b)
                                   /\ Ordered(portIn, a, b)
    BY <2>1, OrderedEmpty DEF Init
  <2>2. ASSUME Init PROVE nIn = 0 /\ rbuf = << >> /\ got = << >>
    BY <2>2 DEF Init
  <2> QED
    BY <2>1, <2>2 DEF InLine, In!Init
<1>2. TypeOK /\ LifeInv /\ InLine /\ [Next]_vars
      => TypeOK' /\ LifeInv' /\ InLine' /\ InStep
  BY TypeUser, TypeThreads, LifeUser, LifeThreads, InStepHolds DEF Next
<1>3. Init => TypeOK /\ LifeInv
  BY TypeInit, LifeInit
<1> QED
  BY <1>1, <1>2, <1>3, PTL DEF Spec, InChannel, In!Spec, In!channel, InStep

\* Both at once.
COROLLARY ImplementsChannels == Spec => BothChannels
BY OutImplementsChannel, InImplementsChannel DEF BothChannels

=============================================================================

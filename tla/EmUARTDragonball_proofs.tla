---------------------- MODULE EmUARTDragonball_proofs ----------------------
(***************************************************************************)
(* Proofs about EmUARTDragonball: its type invariant, the status bits and  *)
(* what the program may conclude from them, and the order of the bytes.    *)
(***************************************************************************)
EXTENDS EmUARTDragonball, SequenceTheorems, TLAPS

Controls == uControl \cup uTransmit \cup uMisc

-----------------------------------------------------------------------------
(* Sequences                                                               *)

LEMMA TakeDropProps ==
  ASSUME NEW S, NEW s \in Seq(S), NEW k \in 0..Len(s)
  PROVE  /\ Take(s, k) \in Seq(S)
         /\ Len(Take(s, k)) = k
         /\ Drop(s, k) \in Seq(S)
  BY DEF Take, Drop

\* Received bytes behind bytes of the FIFO, which may be looped back.
LEMMA ConcatProps ==
  ASSUME NEW M \in Nat, NEW s \in Seq(0..M), NEW t \in Seq(1..M)
  PROVE  /\ s \o t \in Seq(0..M)
         /\ Len(s \o t) = Len(s) + Len(t)
<1>1. t \in Seq(0..M)
  OBVIOUS
<1> QED
  BY <1>1

\* The byte behind what has been sent and what waits is in both together.
LEMMA LastProps ==
  ASSUME NEW S, NEW s \in Seq(S), NEW t \in Seq(S), NEW b \in S
  PROVE  /\ s \o Append(t, b) \in Seq(S)
         /\ (s \o Append(t, b)) \o << >> = s \o Append(t, b)
         /\ Contains(s \o Append(t, b), b)
<1> DEFINE u == s \o Append(t, b)
<1>1. u \in Seq(S) /\ Len(u) = Len(s) + Len(t) + 1
  OBVIOUS
<1>2. Len(u) \in 1..Len(u) /\ u[Len(u)] = b
  BY <1>1
<1>3. u \o << >> = u
  BY <1>1
<1> QED
  BY <1>1, <1>2, <1>3 DEF Contains

LEMMA HeadTailProps ==
  ASSUME NEW S, NEW s \in Seq(S), s # << >>
  PROVE  /\ Len(s) > 0 /\ Head(s) \in S
         /\ Tail(s) \in Seq(S) /\ Len(Tail(s)) = Len(s) - 1
  OBVIOUS

-----------------------------------------------------------------------------
(* The handlers' common parts                                              *)

LEMMA Sizes == RxSize \in Nat /\ RxSize > 0 /\ TxSize \in Nat /\ TxSize > 0
               /\ MaxOut \in Nat /\ MaxIn \in Nat
  BY UARTAssumption

LEMMA BitTypes ==
  ASSUME NEW n \in Nat
  PROVE  RxBits(n) \subseteq kRxStatus /\ TxBits(n) \subseteq kTxStatus
  BY DEF RxBits, TxBits

\* ReceiveRxFIFO reads no more than there is, nor more than there is room for.
LEMMA RoomProps ==
  ASSUME NEW used \in Nat, used <= RxSize, buffer \in Seq(1..MaxIn)
  PROVE  /\ BytesToBuffer(used) \in 0..Len(buffer)
         /\ used + BytesToBuffer(used) <= RxSize
<1>1. Len(buffer) \in Nat
  OBVIOUS
<1> QED
  BY <1>1, Sizes DEF BytesToBuffer, Min2

LEMMA ReceiveProps ==
  ASSUME buffer \in Seq(1..MaxIn),
         NEW rx \in Seq(0..MaxIn), Len(rx) <= RxSize
  PROVE  /\ ReceiveRxFIFO(rx) \in Seq(0..MaxIn)
         /\ Len(ReceiveRxFIFO(rx)) <= RxSize
         /\ Drop(buffer, BytesToBuffer(Len(rx))) \in Seq(1..MaxIn)
<1> DEFINE n == BytesToBuffer(Len(rx))
<1>1. Len(rx) \in Nat /\ Len(buffer) \in Nat
  OBVIOUS
<1>2. n \in 0..Len(buffer) /\ Len(rx) + n <= RxSize
  BY <1>1, RoomProps
<1> HIDE DEF n
<1>3. /\ Take(buffer, n) \in Seq(1..MaxIn) /\ Len(Take(buffer, n)) = n
      /\ Drop(buffer, n) \in Seq(1..MaxIn)
  BY <1>2, TakeDropProps
<1>4. /\ rx \o Take(buffer, n) \in Seq(0..MaxIn)
      /\ Len(rx \o Take(buffer, n)) = Len(rx) + n
  <2>1. MaxIn \in Nat
    BY Sizes
  <2> QED
    BY <1>3, <2>1, ConcatProps
<1>5. ReceiveRxFIFO(rx) = rx \o Take(buffer, n)
  BY DEF ReceiveRxFIFO, n
<1> QED
  BY <1>2, <1>3, <1>4, <1>5, Zenon DEF n

\* What UpdateState is responsible for.
Rest == /\ reg \subseteq Controls
        /\ status \subseteq kRxStatus \cup kTxStatus
        /\ fRxFIFO \in Seq(0..MaxIn) /\ Len(fRxFIFO) <= RxSize
        /\ buffer \in Seq(1..MaxIn)
        /\ got \in Seq(1..MaxIn)

LEMMA UpdateProps ==
  ASSUME TypeOK,
         NEW new \in SUBSET Controls,
         NEW rx \in Seq(0..MaxIn), Len(rx) <= RxSize,
         NEW refreshRxData \in BOOLEAN,
         UpdateState(new, rx, refreshRxData),
         Len(fTxFIFO') \in Nat
  PROVE  /\ Rest'
         /\ Reported(0)' \/ (refreshRxData /\ Reported(1)')
<1> DEFINE q == ReceiveRxFIFO(rx)
           get == refreshRxData /\ q # << >>
                    /\ {"UART_ENABLE", "RX_ENABLE"} \subseteq new
<1>1. /\ reg' = new
      /\ status' = RxBits(Len(q)) \cup TxBits(Len(fTxFIFO'))
      /\ buffer' = Drop(buffer, BytesToBuffer(Len(rx)))
      /\ fRxFIFO' = IF get THEN Tail(q) ELSE q
      /\ got' = IF get /\ Head(q) # 0 THEN Append(got, Head(q)) ELSE got
  BY DEF UpdateState
<1>2. /\ q \in Seq(0..MaxIn) /\ Len(q) <= RxSize
      /\ buffer' \in Seq(1..MaxIn)
  BY <1>1, ReceiveProps DEF TypeOK
<1> HIDE DEF q
<1>3. Len(q) \in Nat
  BY <1>2
<1>4. get => /\ Len(q) > 0 /\ Head(q) \in 0..MaxIn
             /\ Tail(q) \in Seq(0..MaxIn) /\ Len(Tail(q)) = Len(q) - 1
  BY <1>2, HeadTailProps
<1>5. got' \in Seq(1..MaxIn)
  <2>1. got \in Seq(1..MaxIn)
    BY DEF TypeOK
  <2>2. CASE get /\ Head(q) # 0
    <3>1. Head(q) \in 1..MaxIn
      BY <1>4, <2>2
    <3> QED
      BY <1>1, <2>1, <2>2, <3>1
  <2>3. CASE ~(get /\ Head(q) # 0)
    BY <1>1, <2>1, <2>3
  <2> QED
    BY <2>2, <2>3
<1>6. fRxFIFO' \in Seq(0..MaxIn) /\ Len(fRxFIFO') <= RxSize
  <2>1. CASE get
    BY <1>1, <1>2, <1>3, <1>4, <2>1, Sizes
  <2>2. CASE ~get
    BY <1>1, <1>2, <2>2
  <2> QED
    BY <2>1, <2>2
<1>7. Rest'
  <2>1. status' \subseteq kRxStatus \cup kTxStatus
    BY <1>1, <1>3, BitTypes
  <2> QED
    BY <1>1, <1>2, <1>5, <1>6, <2>1 DEF Rest
<1>8. Reported(0)' \/ (refreshRxData /\ Reported(1)')
  <2>1. CASE get
    <3>1. Len(fRxFIFO') + 1 = Len(q)
      BY <1>1, <1>3, <1>4, <2>1
    <3> QED
      BY <1>1, <2>1, <3>1 DEF Reported
  <2>2. CASE ~get
    <3>1. Len(fRxFIFO') + 0 = Len(q)
      BY <1>1, <1>3, <2>2
    <3> QED
      BY <1>1, <3>1 DEF Reported
  <2> QED
    BY <2>1, <2>2
<1> QED
  BY <1>7, <1>8

LEMMA FlushedProps ==
  ASSUME NEW S, NEW fifo \in Seq(S), NEW size \in Nat, Len(fifo) <= size,
         NEW new, NEW enable
  PROVE  /\ Flushed(new, enable, fifo) \in Seq(S)
         /\ Len(Flushed(new, enable, fifo)) <= size
  BY DEF Flushed

\* What is left for the caller of UpdateState.
Sending == /\ fTxFIFO \in Seq(1..MaxOut) /\ Len(fTxFIFO) <= TxSize
           /\ sent \in Seq(1..MaxOut)
           /\ nOut \in 0..MaxOut

LEMMA ChangedProps ==
  ASSUME TypeOK, NEW new \in SUBSET Controls, StateChanged(new)
  PROVE  Rest' /\ Reported(0)' /\ Sending'
<1>1. Sending'
  <2>1. fTxFIFO' \in Seq(1..MaxOut) /\ Len(fTxFIFO') <= TxSize
    BY FlushedProps, Sizes DEF StateChanged, TypeOK
  <2> QED
    BY <2>1 DEF StateChanged, TypeOK, Sending
<1>2. Len(fTxFIFO') \in Nat
  BY <1>1 DEF Sending
<1>3. /\ Flushed(new, "RX_ENABLE", fRxFIFO) \in Seq(0..MaxIn)
      /\ Len(Flushed(new, "RX_ENABLE", fRxFIFO)) <= RxSize
  BY FlushedProps, Sizes DEF TypeOK
<1>4. UpdateState(new, Flushed(new, "RX_ENABLE", fRxFIFO), FALSE)
  BY DEF StateChanged
<1>5. Rest' /\ Reported(0)'
  BY <1>2, <1>3, <1>4, UpdateProps
<1> QED
  BY <1>1, <1>5

LEMMA SendProps ==
  ASSUME TypeOK, NEW new \in SUBSET Controls, nOut < MaxOut, SendTxData(new)
  PROVE  Rest' /\ Reported(0)' /\ Sending' /\ driver' = driver
<1> DEFINE byte == nOut + 1
           loops == "LOOP" \in new /\ Len(fRxFIFO) < RxSize
           rx == IF loops THEN Append(fRxFIFO, 0) ELSE fRxFIFO
<1>1. byte \in 1..MaxOut /\ nOut' = byte /\ driver' = driver
  BY Sizes DEF TypeOK, SendTxData
<1>2. /\ fTxFIFO \in Seq(1..MaxOut) /\ sent \in Seq(1..MaxOut)
      /\ Len(fTxFIFO) <= TxSize /\ Len(fTxFIFO) \in Nat
  BY DEF TypeOK
<1>3. \/ /\ sent' = sent \o Append(fTxFIFO, byte)
         /\ fTxFIFO' = << >>
      \/ /\ Len(fTxFIFO) < TxSize
         /\ fTxFIFO' = Append(fTxFIFO, byte)
         /\ sent' = sent
      \/ UNCHANGED <<fTxFIFO, sent>>
  BY DEF SendTxData, TransmitTxFIFO
<1>4. rx \in Seq(0..MaxIn) /\ Len(rx) <= RxSize
  <2>1. fRxFIFO \in Seq(0..MaxIn) /\ Len(fRxFIFO) <= RxSize /\ 0 \in 0..MaxIn
    BY Sizes DEF TypeOK
  <2>2. Append(fRxFIFO, 0) \in Seq(0..MaxIn)
    BY <2>1
  <2>3. Len(Append(fRxFIFO, 0)) = Len(fRxFIFO) + 1 /\ Len(fRxFIFO) \in Nat
    BY <2>1
  <2>4. CASE loops
    BY <2>2, <2>3, <2>4, Sizes
  <2>5. CASE ~loops
    BY <2>1, <2>5
  <2> QED
    BY <2>4, <2>5
<1>5. UpdateState(new, rx, FALSE)
  BY DEF SendTxData
<1> HIDE DEF byte, rx
<1>6. Sending'
  <2>1. CASE sent' = sent \o Append(fTxFIFO, byte) /\ fTxFIFO' = << >>
    BY <1>1, <1>2, <2>1, LastProps, Sizes DEF Sending
  <2>2. CASE /\ Len(fTxFIFO) < TxSize
             /\ fTxFIFO' = Append(fTxFIFO, byte)
             /\ sent' = sent
    BY <1>1, <1>2, <2>2, Sizes DEF Sending
  <2>3. CASE UNCHANGED <<fTxFIFO, sent>>
    BY <1>1, <1>2, <2>3, Sizes DEF Sending
  <2> QED
    BY <1>3, <2>1, <2>2, <2>3
<1>7. Len(fTxFIFO') \in Nat
  BY <1>6 DEF Sending
<1>8. Rest' /\ Reported(0)'
  BY <1>4, <1>5, <1>7, UpdateProps
<1> QED
  BY <1>1, <1>6, <1>8

-----------------------------------------------------------------------------
(* The steps                                                               *)

LEMMA InitHolds == Init => TypeOK /\ Reported(0)
<1> SUFFICES ASSUME Init PROVE TypeOK /\ Reported(0)
  OBVIOUS
<1>1. Len(fRxFIFO) = 0 /\ Len(fTxFIFO) = 0
  BY DEF Init
<1>2. TypeOK
  <2>1. status \subseteq kRxStatus \cup kTxStatus
    BY BitTypes DEF Init
  <2>2. Len(fRxFIFO) <= RxSize /\ Len(fTxFIFO) <= TxSize
    BY <1>1, Sizes
  <2>3. nOut \in 0..MaxOut /\ nIn \in 0..MaxIn
    BY Sizes DEF Init
  <2>4. /\ fRxFIFO \in Seq(0..MaxIn) /\ fTxFIFO \in Seq(1..MaxOut)
        /\ buffer \in Seq(1..MaxIn) /\ sent \in Seq(1..MaxOut)
        /\ got \in Seq(1..MaxIn)
    BY DEF Init
  <2> QED
    BY <2>1, <2>2, <2>3, <2>4 DEF Init, TypeOK, kInitialRegisterValues
<1>3. Reported(0)
  BY <1>1 DEF Init, Reported
<1> QED
  BY <1>2, <1>3

\* What StatusHonest says of a step.
StatusStep ==
  \/ Reported(0)'
  \/ ReadData /\ Reported(1)'
  \/ UNCHANGED <<status, fRxFIFO, fTxFIFO>>

\* What the steps that leave the registers and the FIFOs alone leave alone.
Untouched == UNCHANGED <<reg, status, fRxFIFO, fTxFIFO, sent, got, nOut>>

LEMMA NextHolds ==
  ASSUME TypeOK, [Next]_vars
  PROVE  TypeOK' /\ StatusStep
<1>1. ASSUME Rest', Sending', driver' \in BOOLEAN, nIn' \in 0..MaxIn,
             transport' \in {"none", "closed", "open"}
      PROVE  TypeOK'
  BY <1>1 DEF TypeOK, Rest, Sending, Controls
<1>2. CASE WriteControl
  <2>1. PICK register \in {uControl, uTransmit, uMisc} :
          \E bits \in SUBSET register :
            /\ StateChanged((reg \ register) \cup bits)
            /\ UNCHANGED <<driver, transport, nIn>>
    BY <1>2 DEF WriteControl
  <2>2. PICK bits \in SUBSET register :
          /\ StateChanged((reg \ register) \cup bits)
          /\ UNCHANGED <<driver, transport, nIn>>
    BY <2>1
  <2>3. (reg \ register) \cup bits \in SUBSET Controls
    BY <2>1, <2>2 DEF TypeOK, Controls
  <2>4. Rest' /\ Reported(0)' /\ Sending'
    BY <2>2, <2>3, ChangedProps
  <2> QED
    BY <1>1, <2>2, <2>4 DEF TypeOK, StatusStep
<1>3. CASE WriteData
  <2>1. PICK bits \in SUBSET uTransmit :
          LET new == (reg \ uTransmit) \cup bits
          IN  IF {"UART_ENABLE", "TX_ENABLE"} \subseteq new
              THEN SendTxData(new)
              ELSE /\ UNCHANGED <<driver, fTxFIFO, sent>>
                   /\ UpdateState(new, fRxFIFO, FALSE)
                   /\ nOut' = nOut + 1
    BY <1>3 DEF WriteData
  <2> DEFINE new == (reg \ uTransmit) \cup bits
  <2>2. new \in SUBSET Controls
    BY DEF TypeOK, Controls
  <2>3. nOut < MaxOut /\ UNCHANGED <<transport, nIn>>
    BY <1>3 DEF WriteData
  <2>4. CASE {"UART_ENABLE", "TX_ENABLE"} \subseteq new
    <3>1. SendTxData(new)
      BY <2>1, <2>4
    <3> HIDE DEF new
    <3>2. Rest' /\ Reported(0)' /\ Sending' /\ driver' = driver
      BY <2>2, <2>3, <3>1, SendProps
    <3> QED
      BY <1>1, <2>3, <3>2 DEF TypeOK, StatusStep
  <2>5. CASE ~({"UART_ENABLE", "TX_ENABLE"} \subseteq new)
    <3>1. /\ UNCHANGED <<driver, fTxFIFO, sent>>
          /\ UpdateState(new, fRxFIFO, FALSE)
          /\ nOut' = nOut + 1
      BY <2>1, <2>5
    <3> HIDE DEF new
    <3>2. Sending'
      BY <2>3, <3>1, Sizes DEF TypeOK, Sending
    <3>3. /\ Len(fTxFIFO') \in Nat
          /\ fRxFIFO \in Seq(0..MaxIn) /\ Len(fRxFIFO) <= RxSize
      BY <3>2 DEF Sending, TypeOK
    <3>4. Rest' /\ Reported(0)'
      BY <2>2, <3>1, <3>3, UpdateProps
    <3> QED
      BY <1>1, <2>3, <3>1, <3>2, <3>4 DEF TypeOK, StatusStep
  <2> QED
    BY <2>4, <2>5
<1>4. ASSUME NEW refreshRxData \in BOOLEAN, UpdateState(reg, fRxFIFO, refreshRxData),
             UNCHANGED <<fTxFIFO, driver, transport, sent, nOut, nIn>>
      PROVE  TypeOK' /\ (Reported(0)' \/ (refreshRxData /\ Reported(1)'))
  <2>1. Sending'
    BY <1>4 DEF TypeOK, Sending
  <2>2. /\ reg \in SUBSET Controls
        /\ fRxFIFO \in Seq(0..MaxIn) /\ Len(fRxFIFO) <= RxSize
    BY DEF TypeOK, Controls
  <2>3. Len(fTxFIFO') \in Nat
    BY <2>1 DEF Sending
  <2>4. Rest' /\ (Reported(0)' \/ (refreshRxData /\ Reported(1)'))
    BY <1>4, <2>2, <2>3, UpdateProps
  <2>5. driver' \in BOOLEAN /\ nIn' \in 0..MaxIn
        /\ transport' \in {"none", "closed", "open"}
    BY <1>4 DEF TypeOK
  <2> QED
    BY <1>1, <2>1, <2>4, <2>5
<1>5. CASE ReadData
  BY <1>4, <1>5 DEF ReadData, StatusStep
<1>6. CASE Poll
  BY <1>4, <1>6 DEF Poll, StatusStep
<1>7. CASE Reset
  <2>1. StateChanged({}) /\ driver' = FALSE /\ UNCHANGED <<transport, nIn>>
    BY <1>7 DEF Reset, kInitialRegisterValues
  <2>2. Rest' /\ Reported(0)' /\ Sending'
    BY <2>1, ChangedProps
  <2> QED
    BY <1>1, <2>1, <2>2 DEF TypeOK, StatusStep
<1>8. ASSUME Untouched, driver' \in BOOLEAN, nIn' \in 0..MaxIn,
             transport' \in {"none", "closed", "open"}, buffer' \in Seq(1..MaxIn)
      PROVE  TypeOK' /\ StatusStep
  <2>1. Rest' /\ Sending'
    BY <1>8 DEF Untouched, TypeOK, Rest, Sending, Controls
  <2>2. StatusStep
    BY <1>8 DEF Untouched, StatusStep
  <2> QED
    BY <1>1, <1>8, <2>1, <2>2
<1>9. CASE EnableDriver
  BY <1>8, <1>9 DEF EnableDriver, Untouched, TypeOK
<1>10. CASE DisableDriver
  BY <1>8, <1>10 DEF DisableDriver, Untouched, TypeOK
<1>11. CASE SetTransportForDevice
  BY <1>8, <1>11 DEF SetTransportForDevice, Untouched, TypeOK
<1>12. CASE Receive
  <2>1. nIn' \in 1..MaxIn /\ buffer' = Append(buffer, nIn')
    BY <1>12, Sizes DEF Receive, TypeOK
  <2>2. buffer' \in Seq(1..MaxIn)
    BY <2>1 DEF TypeOK
  <2> QED
    BY <1>8, <1>12, <2>1, <2>2 DEF Receive, Untouched, TypeOK
<1>13. CASE UNCHANGED vars
  BY <1>8, <1>13 DEF vars, line, Untouched, TypeOK
<1> QED
  BY <1>2, <1>3, <1>5, <1>6, <1>7, <1>9, <1>10, <1>11, <1>12, <1>13 DEF Next

\* The FIFOs hold no more than their sizes, whatever the program, the user and
\* the transport do: Put's assertion never fails.
THEOREM TypeCorrect == Spec => []TypeOK
  BY InitHolds, NextHolds, PTL DEF Spec

\* Every handler leaves the status bits that the FIFOs call for, so that no
\* byte waits without the interrupt that was asked for, and only the read of a
\* byte leaves bits that count a byte too many.
THEOREM StatusCorrect == Spec => StatusHonest
<1>1. TypeOK /\ [Next]_vars
      => [\/ Reported(0)'
          \/ ReadData /\ Reported(1)'
          \/ UNCHANGED <<status, fRxFIFO, fTxFIFO>>]_vars
  BY NextHolds DEF StatusStep
<1> QED
  BY <1>1, InitHolds, TypeCorrect, PTL DEF Spec, StatusHonest

\* In the bits, the program sees what is in the FIFOs, or was until it read it.
StatusInv == Reported(0) \/ Reported(1)

LEMMA StatusHolds ==
  /\ Init => StatusInv
  /\ TypeOK /\ StatusInv /\ [Next]_vars => StatusInv'
<1>1. ASSUME TypeOK, StatusInv, [Next]_vars PROVE StatusInv'
  <2>1. StatusStep
    BY <1>1, NextHolds
  <2> QED
    BY <1>1, <2>1 DEF StatusStep, StatusInv, Reported
<1> QED
  BY <1>1, InitHolds DEF StatusInv

LEMMA AvailStep ==
  ASSUME TypeOK, StatusInv, [Next]_vars,
         nOut' > nOut, "TX_AVAIL" \in status,
         {"UART_ENABLE", "TX_ENABLE"} \subseteq reg,
         "LOOP" \notin reg, "IGNORE_CTS" \notin reg'
  PROVE  Contains(sent' \o fTxFIFO', nOut')
<1>1. nOut \in Nat /\ ~(nOut > nOut)
  BY DEF TypeOK
<1>2. WriteData
  <2>1. nOut' # nOut
    BY <1>1
  <2> QED
    BY <2>1 DEF Next, vars, line, WriteControl, StateChanged, ReadData, Poll,
                EnableDriver, DisableDriver, Reset, SetTransportForDevice, Receive
<1>3. PICK bits \in SUBSET uTransmit :
        LET new == (reg \ uTransmit) \cup bits
        IN  IF {"UART_ENABLE", "TX_ENABLE"} \subseteq new
            THEN SendTxData(new)
            ELSE /\ UNCHANGED <<driver, fTxFIFO, sent>>
                 /\ UpdateState(new, fRxFIFO, FALSE)
                 /\ nOut' = nOut + 1
  BY <1>2 DEF WriteData
<1> DEFINE new == (reg \ uTransmit) \cup bits
           byte == nOut + 1
<1>4. {"UART_ENABLE", "TX_ENABLE"} \subseteq new /\ "LOOP" \notin new
  BY DEF uTransmit
<1>5. SendTxData(new)
  BY <1>3, <1>4
<1> HIDE DEF new
<1>6. reg' = new
  BY <1>5 DEF SendTxData, UpdateState
\* StatusInv: TX_AVAIL means that there is room.
<1>7. Len(fTxFIFO) < TxSize
  BY DEF StatusInv, Reported, RxBits, TxBits, kRxStatus
<1>8. nOut' = byte /\ byte \in 1..MaxOut
  <2>1. nOut < MaxOut
    BY <1>2 DEF WriteData
  <2> QED
    BY <1>1, <1>5, <2>1, Sizes DEF SendTxData
<1>9. \/ sent' = sent \o Append(fTxFIFO, byte) /\ fTxFIFO' = << >>
      \/ sent' = sent /\ fTxFIFO' = Append(fTxFIFO, byte)
  BY <1>4, <1>5, <1>6, <1>7 DEF SendTxData, TransmitTxFIFO
<1>10. sent \in Seq(1..MaxOut) /\ fTxFIFO \in Seq(1..MaxOut)
  BY DEF TypeOK
<1> HIDE DEF byte
<1>11. sent' \o fTxFIFO' = sent \o Append(fTxFIFO, byte)
  <2>1. (sent \o Append(fTxFIFO, byte)) \o << >> = sent \o Append(fTxFIFO, byte)
    BY <1>8, <1>10, LastProps
  <2>2. CASE sent' = sent \o Append(fTxFIFO, byte) /\ fTxFIFO' = << >>
    <3>1. sent' \o fTxFIFO' = (sent \o Append(fTxFIFO, byte)) \o << >>
      BY <2>2, Zenon
    <3> QED
      BY <2>1, <3>1, Zenon
  <2>3. CASE sent' = sent /\ fTxFIFO' = Append(fTxFIFO, byte)
    BY <2>3, Zenon
  <2> QED
    BY <1>9, <2>2, <2>3
<1>12. Contains(sent \o Append(fTxFIFO, byte), byte)
  BY <1>8, <1>10, LastProps
<1> QED
  BY <1>8, <1>11, <1>12, Zenon

\* A byte that the program writes when it has seen TX_AVAIL is not dropped,
\* however long ago that was.
THEOREM WritesAreKept == Spec => AvailHonoured
<1>1. TypeOK /\ StatusInv /\ [Next]_vars
      => [nOut' > nOut /\ "TX_AVAIL" \in status
            /\ {"UART_ENABLE", "TX_ENABLE"} \subseteq reg
            /\ "LOOP" \notin reg /\ "IGNORE_CTS" \notin reg'
          => Contains(sent' \o fTxFIFO', nOut')]_vars
  BY AvailStep
<1> QED
  BY <1>1, TypeCorrect, StatusHolds, PTL DEF Spec, AvailHonoured

-----------------------------------------------------------------------------
(* The order of a stream                                                   *)

\* The bytes of s, but for those that were looped back, are numbered upwards
\* and by hi at the most.
Rising(s, hi) ==
  /\ \A i \in 1..Len(s) : s[i] <= hi
  /\ \A i, j \in 1..Len(s) : i < j /\ s[i] # 0 /\ s[j] # 0 => s[i] < s[j]

LEMMA KeptItself == ASSUME NEW s \in Seq(Nat) PROVE Kept(s, s)
<1> SUFFICES ASSUME NEW i \in 1..Len(s), NEW j \in 1..Len(s), i <= j
             PROVE  \E k, l \in 1..Len(s) :
                      k <= l /\ (i < j => k < l) /\ s[k] = s[i] /\ s[l] = s[j]
  BY DEF Kept
<1> QED
  OBVIOUS

LEMMA RisingKept ==
  ASSUME NEW s \in Seq(Nat), NEW t \in Seq(Nat), NEW hi \in Nat,
         Kept(s, t), Rising(t, hi)
  PROVE  Rising(s, hi)
<1>1. ASSUME NEW i \in 1..Len(s) PROVE s[i] <= hi
  <2>1. CASE s[i] = 0
    BY <2>1
  <2>2. CASE s[i] # 0
    <3>1. i <= i
      OBVIOUS
    <3>2. PICK k \in 1..Len(t) : t[k] = s[i]
      BY <2>2, <3>1 DEF Kept
    <3> QED
      BY <3>2 DEF Rising
  <2> QED
    BY <2>1, <2>2
<1>2. ASSUME NEW i \in 1..Len(s), NEW j \in 1..Len(s), i < j, s[i] # 0, s[j] # 0
      PROVE  s[i] < s[j]
  <2>1. i <= j
    BY <1>2
  <2>2. PICK k \in 1..Len(t), l \in 1..Len(t) :
          k < l /\ t[k] = s[i] /\ t[l] = s[j]
    BY <1>2, <2>1 DEF Kept
  <2> QED
    BY <1>2, <2>2 DEF Rising
<1> QED
  BY <1>1, <1>2 DEF Rising

\* Bytes are kept that have their places in t, one behind the other.
LEMMA KeptPlaces ==
  ASSUME NEW s \in Seq(Nat), NEW t \in Seq(Nat), NEW place,
         \A i \in 1..Len(s) :
           s[i] # 0 => place[i] \in 1..Len(t) /\ t[place[i]] = s[i],
         \A i, j \in 1..Len(s) :
           i < j /\ s[i] # 0 /\ s[j] # 0 => place[i] < place[j]
  PROVE  Kept(s, t)
<1> SUFFICES ASSUME NEW i \in 1..Len(s), NEW j \in 1..Len(s),
                    i <= j, s[i] # 0, s[j] # 0
             PROVE  \E k, l \in 1..Len(t) :
                      k <= l /\ (i < j => k < l) /\ t[k] = s[i] /\ t[l] = s[j]
  BY DEF Kept
<1>1. /\ place[i] \in 1..Len(t) /\ t[place[i]] = s[i]
      /\ place[j] \in 1..Len(t) /\ t[place[j]] = s[j]
  OBVIOUS
<1>2. i < j \/ i = j
  OBVIOUS
<1>3. place[i] <= place[j] /\ (i < j => place[i] < place[j])
  BY <1>1, <1>2, SMTT(40)
<1> QED
  BY <1>1, <1>3

LEMMA Places ==
  ASSUME NEW s \in Seq(Nat), NEW t \in Seq(Nat)
  PROVE  /\ s \o t \in Seq(Nat)
         /\ Len(s \o t) = Len(s) + Len(t)
         /\ \A i \in 1..Len(s \o t) :
              (s \o t)[i] = IF i <= Len(s) THEN s[i] ELSE t[i - Len(s)]
BY ConcatProperties

\* Nothing is lost when bytes are put between others ...
LEMMA KeptAround ==
  ASSUME NEW a \in Seq(Nat), NEW b \in Seq(Nat), NEW c \in Seq(Nat)
  PROVE  Kept(a \o c, a \o (b \o c))
<1> DEFINE s == a \o c
           u == b \o c
           t == a \o u
           place == [i \in 1..Len(s) |-> IF i <= Len(a) THEN i ELSE i + Len(b)]
<1>1. /\ s \in Seq(Nat) /\ Len(s) = Len(a) + Len(c)
      /\ \A i \in 1..Len(s) : s[i] = IF i <= Len(a) THEN a[i] ELSE c[i - Len(a)]
  BY Places
<1>2. /\ u \in Seq(Nat) /\ Len(u) = Len(b) + Len(c)
      /\ \A i \in 1..Len(u) : u[i] = IF i <= Len(b) THEN b[i] ELSE c[i - Len(b)]
  BY Places
<1>8. u \in Seq(Nat)
  BY <1>2
<1> HIDE DEF u
<1>3. /\ t \in Seq(Nat) /\ Len(t) = Len(a) + Len(u)
      /\ \A i \in 1..Len(t) : t[i] = IF i <= Len(a) THEN a[i] ELSE u[i - Len(a)]
  BY <1>8, Places
<1> HIDE DEF s, t
<1>4. Len(a) \in Nat /\ Len(b) \in Nat /\ Len(c) \in Nat
  OBVIOUS
<1>9. Len(s) = Len(a) + Len(c) /\ Len(t) = Len(a) + Len(b) + Len(c)
      /\ Len(u) = Len(b) + Len(c)
  BY <1>1, <1>2, <1>3, <1>4
<1>5. ASSUME NEW i \in 1..Len(s)
      PROVE  place[i] \in 1..Len(t) /\ t[place[i]] = s[i]
  <2>1. CASE i <= Len(a)
    <3>1. place[i] = i /\ i \in 1..Len(t)
      BY <1>9, <1>4, <2>1
    <3> QED
      BY <1>1, <1>3, <2>1, <3>1
  <2>2. CASE ~(i <= Len(a))
    <3>1. place[i] = i + Len(b)
      BY <2>2
    <3>2. /\ i + Len(b) \in 1..Len(t) /\ ~(i + Len(b) <= Len(a))
          /\ (i + Len(b)) - Len(a) \in 1..Len(u)
          /\ ~((i + Len(b)) - Len(a) <= Len(b))
          /\ ((i + Len(b)) - Len(a)) - Len(b) = i - Len(a)
      BY <1>9, <1>4, <2>2
    <3>3. t[i + Len(b)] = u[(i + Len(b)) - Len(a)]
      BY <1>3, <3>2
    <3>4. u[(i + Len(b)) - Len(a)] = c[i - Len(a)]
      BY <1>2, <3>2
    <3> QED
      BY <1>1, <2>2, <3>1, <3>2, <3>3, <3>4
  <2> QED
    BY <2>1, <2>2
<1>6. \A i, j \in 1..Len(s) : i < j => place[i] < place[j]
  BY <1>9, <1>4
<1> HIDE DEF place
<1>7. Kept(s, t)
  BY <1>1, <1>3, <1>5, <1>6, KeptPlaces
<1> QED
  BY <1>7 DEF s, t, u

\* ... nor when a looped back byte is taken out.
LEMMA KeptWithout ==
  ASSUME NEW a \in Seq(Nat), NEW b \in Seq(Nat), NEW c \in Seq(Nat),
         Len(b) = 1, b[1] = 0
  PROVE  Kept(a \o (b \o c), a \o c)
<1> DEFINE t == a \o c
           u == b \o c
           s == a \o u
           place == [i \in 1..Len(s) |-> IF i <= Len(a) THEN i ELSE i - 1]
<1>1. /\ t \in Seq(Nat) /\ Len(t) = Len(a) + Len(c)
      /\ \A i \in 1..Len(t) : t[i] = IF i <= Len(a) THEN a[i] ELSE c[i - Len(a)]
  BY Places
<1>2. /\ u \in Seq(Nat) /\ Len(u) = Len(b) + Len(c)
      /\ \A i \in 1..Len(u) : u[i] = IF i <= Len(b) THEN b[i] ELSE c[i - Len(b)]
  BY Places
<1>8. u \in Seq(Nat)
  BY <1>2
<1> HIDE DEF u
<1>3. /\ s \in Seq(Nat) /\ Len(s) = Len(a) + Len(u)
      /\ \A i \in 1..Len(s) : s[i] = IF i <= Len(a) THEN a[i] ELSE u[i - Len(a)]
  BY <1>8, Places
<1> HIDE DEF s, t
<1>4. Len(a) \in Nat /\ Len(b) = 1 /\ Len(c) \in Nat
  OBVIOUS
<1>9. Len(s) = Len(a) + Len(c) + 1 /\ Len(t) = Len(a) + Len(c)
      /\ Len(u) = Len(c) + 1
  BY <1>1, <1>2, <1>3, <1>4
<1>10. \A i \in 1..Len(s) : /\ (i <= Len(a) => place[i] = i)
                            /\ (~(i <= Len(a)) => place[i] = i - 1)
  OBVIOUS
<1> HIDE DEF place
<1>5. ASSUME NEW i \in 1..Len(s), s[i] # 0
      PROVE  /\ place[i] \in 1..Len(t) /\ t[place[i]] = s[i]
             /\ i # Len(a) + 1
  <2> i \in Nat /\ Len(a) \in Nat
    BY <1>4, <1>9
  <2>1. CASE i <= Len(a)
    <3>1. place[i] = i /\ i # Len(a) + 1
      BY <1>10, <2>1
    <3>2. i \in 1..Len(t)
      BY <1>4, <1>9, <2>1
    <3>3. t[i] = a[i] /\ s[i] = a[i]
      BY <1>1, <1>3, <2>1, <3>2
    <3> QED
      BY <3>1, <3>2, <3>3, Zenon
  <2>2. CASE i = Len(a) + 1
    <3>1. i - Len(a) = 1 /\ 1 \in 1..Len(u) /\ 1 <= Len(b) /\ ~(i <= Len(a))
      BY <1>9, <1>4, <2>2
    <3>2. s[i] = u[1] /\ u[1] = b[1]
      BY <1>2, <1>3, <3>1
    <3> QED
      BY <1>5, <3>2
  <2>3. CASE i > Len(a) + 1
    <3>1. place[i] = i - 1
      BY <1>4, <1>10, <2>3
    <3>2. /\ i - 1 \in 1..Len(t) /\ ~(i <= Len(a)) /\ ~(i - 1 <= Len(a))
          /\ i - Len(a) \in 1..Len(u) /\ ~(i - Len(a) <= Len(b))
          /\ (i - Len(a)) - Len(b) = (i - 1) - Len(a)
      BY <1>9, <1>4, <2>3
    <3>3. s[i] = u[i - Len(a)]
      BY <1>3, <3>2
    <3>4. u[i - Len(a)] = c[(i - 1) - Len(a)]
      BY <1>2, <3>2
    <3>5. t[i - 1] = c[(i - 1) - Len(a)]
      BY <1>1, <3>2
    <3> QED
      BY <2>3, <1>4, <3>1, <3>2, <3>3, <3>4, <3>5
  <2>4. i <= Len(a) \/ i = Len(a) + 1 \/ i > Len(a) + 1
    OBVIOUS
  <2> QED
    BY <2>1, <2>2, <2>3, <2>4
<1>6. ASSUME NEW i \in 1..Len(s), NEW j \in 1..Len(s), i < j, s[i] # 0, s[j] # 0
      PROVE  place[i] < place[j]
  <2>1. i # Len(a) + 1 /\ j # Len(a) + 1
    BY <1>5, <1>6
  <2>2. /\ i <= Len(a) => place[i] = i
        /\ ~(i <= Len(a)) => place[i] = i - 1
        /\ j <= Len(a) => place[j] = j
        /\ ~(j <= Len(a)) => place[j] = j - 1
    BY <1>10
  <2>3. i \in Nat /\ j \in Nat /\ Len(a) \in Nat
    BY <1>4, <1>9
  <2> QED
    BY <1>6, <2>1, <2>2, <2>3
<1>7. Kept(s, t)
  BY <1>1, <1>3, <1>5, <1>6, KeptPlaces
<1> QED
  BY <1>7 DEF s, t, u

-----------------------------------------------------------------------------
(* The bytes that come in                                                  *)

\* All that has been received and not been dropped, in the order in which the
\* program gets it.
Stream == got \o (fRxFIFO \o buffer)

LEMMA NatSeqs ==
  ASSUME TypeOK
  PROVE  /\ got \in Seq(Nat) /\ fRxFIFO \in Seq(Nat) /\ buffer \in Seq(Nat)
         /\ sent \in Seq(Nat) /\ fTxFIFO \in Seq(Nat)
         /\ nIn \in Nat /\ nOut \in Nat
<1>1. ASSUME NEW m \in Nat, NEW s \in Seq(1..m) PROVE s \in Seq(Nat)
  OBVIOUS
<1>2. ASSUME NEW m \in Nat, NEW s \in Seq(0..m) PROVE s \in Seq(Nat)
  OBVIOUS
<1> QED
  BY <1>1, <1>2, Sizes DEF TypeOK

LEMMA NatSeqsNext ==
  ASSUME TypeOK'
  PROVE  got' \in Seq(Nat) /\ fRxFIFO' \in Seq(Nat) /\ buffer' \in Seq(Nat)
<1>1. ASSUME NEW m \in Nat, NEW s \in Seq(1..m) PROVE s \in Seq(Nat)
  OBVIOUS
<1>2. ASSUME NEW m \in Nat, NEW s \in Seq(0..m) PROVE s \in Seq(Nat)
  OBVIOUS
<1> QED
  BY <1>1, <1>2, Sizes DEF TypeOK

LEMMA Regroup == \A s, t, u \in Seq(Nat) : (s \o t) \o u = s \o (t \o u)
<1> TAKE s, t, u \in Seq(Nat)
<1> DEFINE S == Nat
<1>1. s \in Seq(S) /\ t \in Seq(S) /\ u \in Seq(S)
  OBVIOUS
<1> HIDE DEF S
<1>2. (s \o t) \o u = s \o (t \o u)
  BY <1>1, ConcatAssociative, SMTT(60)
<1> QED
  BY <1>2

LEMMA Associative ==
  ASSUME NEW s \in Seq(Nat), NEW t \in Seq(Nat), NEW u \in Seq(Nat)
  PROVE  /\ (s \o t) \o u = s \o (t \o u)
         /\ s \o t \in Seq(Nat) /\ t \o u \in Seq(Nat)
         /\ (s \o t) \o u \in Seq(Nat)
<1>1. (s \o t) \o u = s \o (t \o u)
  BY Regroup, Zenon
<1>2. s \o t \in Seq(Nat) /\ t \o u \in Seq(Nat)
  BY ConcatProperties
<1>3. (s \o t) \o u \in Seq(Nat)
  BY <1>2, ConcatProperties
<1> QED
  BY <1>1, <1>2, <1>3

LEMMA StreamIs ==
  ASSUME TypeOK
  PROVE  /\ got \o fRxFIFO \o buffer = Stream
         /\ Stream \in Seq(Nat) /\ fRxFIFO \o buffer \in Seq(Nat)
<1>1. got \in Seq(Nat) /\ fRxFIFO \in Seq(Nat) /\ buffer \in Seq(Nat)
  BY NatSeqs
<1>2. fRxFIFO \o buffer \in Seq(Nat)
      /\ (got \o fRxFIFO) \o buffer = got \o (fRxFIFO \o buffer)
      /\ (got \o fRxFIFO) \o buffer \in Seq(Nat)
  BY <1>1, Associative, ZenonT(60)
<1> QED
  BY <1>2, Zenon DEF Stream

LEMMA StreamIsNext ==
  ASSUME TypeOK'
  PROVE  /\ got' \o fRxFIFO' \o buffer' = Stream'
         /\ Stream' \in Seq(Nat) /\ fRxFIFO' \o buffer' \in Seq(Nat)
<1>1. got' \in Seq(Nat) /\ fRxFIFO' \in Seq(Nat) /\ buffer' \in Seq(Nat)
  BY NatSeqsNext
<1>2. fRxFIFO' \o buffer' \in Seq(Nat)
      /\ (got' \o fRxFIFO') \o buffer' = got' \o (fRxFIFO' \o buffer')
      /\ (got' \o fRxFIFO') \o buffer' \in Seq(Nat)
  BY <1>1, Associative, ZenonT(60)
<1> QED
  BY <1>2, Zenon DEF Stream

LEMMA TakeAndDrop ==
  ASSUME NEW s \in Seq(Nat), NEW k \in 0..Len(s)
  PROVE  Take(s, k) \o Drop(s, k) = s
<1>1. SubSeq(s, 1, k) \o SubSeq(s, k + 1, Len(s)) = SubSeq(s, 1, Len(s))
  <2>1. 1 \in 1..(Len(s) + 1) /\ k \in (1 - 1)..Len(s) /\ Len(s) \in k..Len(s)
    OBVIOUS
  <2> QED
    BY <2>1, ConcatAdjacentSubSeq, Zenon
<1>2. SubSeq(s, 1, Len(s)) = s
  BY SubSeqFull
<1> QED
  BY <1>1, <1>2, Zenon DEF Take, Drop

LEMMA HeadAndTail ==
  ASSUME NEW s \in Seq(Nat), s # << >>
  PROVE  /\ <<Head(s)>> \o Tail(s) = s
         /\ Head(s) \in Nat /\ Tail(s) \in Seq(Nat) /\ <<Head(s)>> \in Seq(Nat)
<1>1. Head(s) \in Nat /\ Tail(s) \in Seq(Nat) /\ Len(Tail(s)) = Len(s) - 1
      /\ \A i \in 1..Len(Tail(s)) : Tail(s)[i] = s[i + 1]
  BY HeadTailProperties
<1>2. Head(s) = s[1] /\ Len(s) \in Nat /\ Len(s) >= 1
  OBVIOUS
<1> DEFINE h == <<Head(s)>>
           u == h \o Tail(s)
<1>3. h \in Seq(Nat) /\ Len(h) = 1 /\ h[1] = Head(s)
  BY <1>1
<1>4. /\ u \in Seq(Nat) /\ Len(u) = 1 + Len(Tail(s))
      /\ \A i \in 1..Len(u) : u[i] = IF i <= 1 THEN h[i] ELSE Tail(s)[i - 1]
  BY <1>1, <1>3, Places
<1> HIDE DEF u
<1>5. Len(u) = Len(s)
  BY <1>1, <1>2, <1>4
<1>6. ASSUME NEW i \in 1..Len(s) PROVE u[i] = s[i]
  <2>1. CASE i = 1
    BY <1>2, <1>3, <1>4, <1>5, <2>1
  <2>2. CASE i # 1
    <3>1. i - 1 \in 1..Len(Tail(s)) /\ ~(i <= 1) /\ (i - 1) + 1 = i
      BY <1>1, <1>2, <2>2
    <3> QED
      BY <1>1, <1>4, <1>5, <3>1
  <2> QED
    BY <2>1, <2>2
<1>7. u = s
  BY <1>4, <1>5, <1>6, SeqEqual
<1> QED
  BY <1>1, <1>3, <1>7 DEF u

\* ReceiveRxFIFO moves bytes along.
LEMMA ReceivedInOrder ==
  ASSUME buffer \in Seq(1..MaxIn), buffer \in Seq(Nat),
         NEW rx \in Seq(Nat), Len(rx) <= RxSize
  PROVE  /\ ReceiveRxFIFO(rx) \in Seq(Nat)
         /\ Drop(buffer, BytesToBuffer(Len(rx))) \in Seq(Nat)
         /\ ReceiveRxFIFO(rx) \o Drop(buffer, BytesToBuffer(Len(rx)))
              = rx \o buffer
<1> DEFINE n == BytesToBuffer(Len(rx))
<1>1. n \in 0..Len(buffer)
  BY RoomProps
<1>2. ReceiveRxFIFO(rx) = rx \o Take(buffer, n)
  BY DEF ReceiveRxFIFO
<1> HIDE DEF n
<1>3. Take(buffer, n) \in Seq(Nat) /\ Drop(buffer, n) \in Seq(Nat)
  BY <1>1, TakeDropProps
<1>4. /\ (rx \o Take(buffer, n)) \o Drop(buffer, n)
            = rx \o (Take(buffer, n) \o Drop(buffer, n))
      /\ rx \o Take(buffer, n) \in Seq(Nat)
  BY <1>3, Associative
<1>5. Take(buffer, n) \o Drop(buffer, n) = buffer
  BY <1>1, TakeAndDrop
<1> QED
  BY <1>2, <1>3, <1>4, <1>5, Zenon DEF n

\* UpdateState gives the program the first byte of the FIFO or none, and loses
\* nothing of what was received.
LEMMA UpdateInOrder ==
  ASSUME TypeOK,
         NEW new, NEW rx \in Seq(Nat), Len(rx) <= RxSize,
         NEW refreshRxData \in BOOLEAN,
         UpdateState(new, rx, refreshRxData)
  PROVE  /\ Kept(got \o (rx \o buffer), Stream')
         /\ Kept(Stream', got \o (rx \o buffer))
         /\ got' = got \/ \E b \in Nat : got' = Append(got, b)
         /\ ~refreshRxData => got' = got /\ fRxFIFO' \o buffer' = rx \o buffer
<1> DEFINE q == ReceiveRxFIFO(rx)
           get == refreshRxData /\ q # << >>
                    /\ {"UART_ENABLE", "RX_ENABLE"} \subseteq new
<1>1. /\ buffer' = Drop(buffer, BytesToBuffer(Len(rx)))
      /\ fRxFIFO' = IF get THEN Tail(q) ELSE q
      /\ got' = IF get /\ Head(q) # 0 THEN Append(got, Head(q)) ELSE got
  BY DEF UpdateState
<1>2. /\ q \in Seq(Nat) /\ buffer' \in Seq(Nat) /\ q \o buffer' = rx \o buffer
      /\ got \in Seq(Nat)
  BY <1>1, NatSeqs, ReceivedInOrder DEF TypeOK
<1>3. got \o (rx \o buffer) \in Seq(Nat)
  BY NatSeqs, Associative
<1> HIDE DEF q
<1>4. CASE ~get
  <2>1. fRxFIFO' = q /\ got' = got
    BY <1>1, <1>4
  <2>2. Stream' = got \o (rx \o buffer)
    BY <1>2, <2>1, Zenon DEF Stream
  <2>3. fRxFIFO' \o buffer' = rx \o buffer
    BY <1>2, <2>1, Zenon
  <2> QED
    BY <1>3, <2>1, <2>2, <2>3, KeptItself, Zenon
<1>5. CASE get
  <2> DEFINE h == <<Head(q)>>
             rest == Tail(q)
  <2>1. /\ h \o rest = q /\ Head(q) \in Nat
        /\ rest \in Seq(Nat) /\ h \in Seq(Nat)
        /\ Len(h) = 1 /\ h[1] = Head(q)
    BY <1>2, <1>5, HeadAndTail
  <2>2. /\ fRxFIFO' = rest
        /\ got' = IF Head(q) # 0 THEN Append(got, Head(q)) ELSE got
    BY <1>1, <1>5
  <2> HIDE DEF get
  <2>3. got \o (rx \o buffer) = got \o (h \o (rest \o buffer'))
    <3>1. (h \o rest) \o buffer' = h \o (rest \o buffer')
      BY <1>2, <2>1, Associative
    <3> QED
      BY <1>2, <2>1, <3>1, Zenon
  <2>4. rest \o buffer' \in Seq(Nat)
    BY <1>2, <2>1, Associative
  <2>5. refreshRxData
    BY <1>5 DEF get
  <2>6. CASE Head(q) # 0
    <3>1. Append(got, Head(q)) = got \o h
      BY <1>2, <2>1, AppendIsConcat
    <3>2. got' = Append(got, Head(q))
      BY <2>2, <2>6
    <3> HIDE DEF h, rest
    <3>3. (got \o h) \o (rest \o buffer') = got \o (h \o (rest \o buffer'))
      <4> DEFINE behind == rest \o buffer'
      <4>1. got \in Seq(Nat) /\ h \in Seq(Nat) /\ behind \in Seq(Nat)
        BY <1>2, <2>1, <2>4
      <4> HIDE DEF behind
      <4>2. (got \o h) \o behind = got \o (h \o behind)
        BY <4>1, Regroup, ZenonT(60)
      <4> QED
        BY <4>2 DEF behind
    <3>4. Stream' = got \o (rx \o buffer)
      BY <2>2, <2>3, <3>1, <3>2, <3>3, Zenon DEF Stream
    <3> QED
      BY <1>3, <2>1, <2>5, <3>2, <3>4, KeptItself, Zenon
  <2>7. CASE Head(q) = 0
    <3>1. got' = got
      BY <2>2, <2>7
    <3>2. Len(h) = 1 /\ h[1] = 0
      BY <2>1, <2>7
    <3> HIDE DEF h, rest
    <3>3. Stream' = got \o (rest \o buffer')
      BY <2>2, <3>1, Zenon DEF Stream
    <3>4. /\ Kept(got \o (rest \o buffer'), got \o (h \o (rest \o buffer')))
          /\ Kept(got \o (h \o (rest \o buffer')), got \o (rest \o buffer'))
      BY <1>2, <2>1, <2>4, <3>2, KeptAround, KeptWithout
    <3> QED
      BY <2>3, <2>5, <3>1, <3>3, <3>4, Zenon
  <2> QED
    BY <2>6, <2>7
<1> QED
  BY <1>4, <1>5

LEMMA KeptTransitive ==
  ASSUME NEW s \in Seq(Nat), NEW t \in Seq(Nat), NEW u \in Seq(Nat),
         Kept(s, t), Kept(t, u)
  PROVE  Kept(s, u)
<1> SUFFICES ASSUME NEW i \in 1..Len(s), NEW j \in 1..Len(s),
                    i <= j, s[i] # 0, s[j] # 0
             PROVE  \E k, l \in 1..Len(u) :
                      k <= l /\ (i < j => k < l) /\ u[k] = s[i] /\ u[l] = s[j]
  BY DEF Kept
<1>1. PICK k \in 1..Len(t), l \in 1..Len(t) :
        k <= l /\ (i < j => k < l) /\ t[k] = s[i] /\ t[l] = s[j]
  BY DEF Kept
<1>2. t[k] # 0 /\ t[l] # 0
  BY <1>1
<1>3. PICK m \in 1..Len(u), n \in 1..Len(u) :
        m <= n /\ (k < l => m < n) /\ u[m] = t[k] /\ u[n] = t[l]
  BY <1>1, <1>2 DEF Kept
<1> QED
  BY <1>1, <1>3

\* The first part of a rising stream, and one that goes on, rise.
LEMMA RisingParts ==
  ASSUME NEW s \in Seq(Nat), NEW t \in Seq(Nat), NEW hi \in Nat,
         Rising(s \o t, hi)
  PROVE  Rising(s, hi)
<1> DEFINE u == s \o t
<1>1. /\ Len(u) = Len(s) + Len(t)
      /\ \A i \in 1..Len(u) : u[i] = IF i <= Len(s) THEN s[i] ELSE t[i - Len(s)]
  BY Places
<1>2. Rising(u, hi)
  OBVIOUS
<1> HIDE DEF u
<1>3. Len(s) \in Nat /\ Len(t) \in Nat
  OBVIOUS
<1>4. \A i \in 1..Len(s) : i \in 1..Len(u) /\ i <= Len(s)
  BY <1>1, <1>3
<1>5. \A i \in 1..Len(s) : u[i] = s[i]
  BY <1>1, <1>4
<1> QED
  BY <1>2, <1>4, <1>5 DEF Rising

LEMMA RisingOn ==
  ASSUME NEW s \in Seq(Nat), NEW hi \in Nat, Rising(s, hi)
  PROVE  Rising(Append(s, hi + 1), hi + 1)
<1> DEFINE u == Append(s, hi + 1)
<1>1. /\ u \in Seq(Nat) /\ Len(u) = Len(s) + 1
      /\ \A i \in 1..Len(s) : u[i] = s[i]
      /\ u[Len(s) + 1] = hi + 1
  BY AppendProperties
<1>2. \A i \in 1..Len(s) : s[i] \in Nat /\ s[i] <= hi
  BY DEF Rising
<1>3. Len(s) \in Nat
  OBVIOUS
<1> HIDE DEF u
<1>4. ASSUME NEW i \in 1..Len(u) PROVE i \in 1..Len(s) \/ i = Len(s) + 1
  BY <1>1, <1>3
<1>5. ASSUME NEW i \in 1..Len(u) PROVE u[i] <= hi + 1
  <2>1. CASE i \in 1..Len(s)
    <3>1. u[i] = s[i] /\ s[i] \in Nat /\ s[i] <= hi
      BY <1>1, <1>2, <2>1
    <3> QED
      BY <3>1
  <2>2. CASE i = Len(s) + 1
    <3>1. u[i] = hi + 1
      BY <1>1, <2>2
    <3> QED
      BY <3>1
  <2> QED
    BY <1>4, <2>1, <2>2
<1>6. ASSUME NEW i \in 1..Len(u), NEW j \in 1..Len(u), i < j, u[i] # 0, u[j] # 0
      PROVE  u[i] < u[j]
  <2>1. i \in 1..Len(s)
    BY <1>1, <1>3, <1>6
  <2>2. CASE j \in 1..Len(s)
    <3>1. u[i] = s[i] /\ u[j] = s[j]
      BY <1>1, <2>1, <2>2
    <3> QED
      BY <1>6, <2>1, <2>2, <3>1 DEF Rising
  <2>3. CASE j = Len(s) + 1
    <3>1. u[j] = hi + 1
      BY <1>1, <2>3
    <3>2. u[i] = s[i] /\ s[i] \in Nat /\ s[i] <= hi
      BY <1>1, <1>2, <2>1
    <3> QED
      BY <3>1, <3>2
  <2> QED
    BY <1>4, <2>2, <2>3
<1> QED
  BY <1>5, <1>6 DEF Rising, u

LEMMA RisingEmpty ==
  ASSUME NEW hi \in Nat PROVE Rising(<< >>, hi) /\ << >> \in Seq(Nat)
BY DEF Rising

\* What the program has read, what the FIFO holds and what waits in the
\* transport are one stream of bytes in the order in which they came.
RxLine == Rising(Stream, nIn)

\* t is s and more, in order and with numbers of hi at the most.
Continues(s, t, hi) ==
  /\ Len(t) > Len(s)
  /\ SubSeq(t, 1, Len(s)) = s
  /\ \A i, j \in 1..Len(t) : i < j => t[i] < t[j]
  /\ t[Len(t)] <= hi

LEMMA MoreContinues ==
  ASSUME NEW M \in Nat, NEW hi \in Nat, NEW s \in Seq(Nat), NEW u \in Seq(Nat),
         u # << >>, s \o u \in Seq(1..M), Rising(s \o u, hi)
  PROVE  Continues(s, s \o u, hi)
<1> DEFINE t == s \o u
<1>1. /\ Len(t) = Len(s) + Len(u)
      /\ \A i \in 1..Len(t) : t[i] = IF i <= Len(s) THEN s[i] ELSE u[i - Len(s)]
  BY Places
<1>2. Len(s) \in Nat /\ Len(u) \in Nat /\ Len(u) > 0
  BY EmptySeq
<1>7. t \in Seq(1..M) /\ Rising(t, hi)
  OBVIOUS
<1> HIDE DEF t
<1>3. Len(t) > Len(s) /\ Len(t) \in 1..Len(t)
  BY <1>1, <1>2
<1>4. \A i \in 1..Len(s) : i \in 1..Len(t) /\ t[i] = s[i]
  BY <1>1, <1>2
<1>5. SubSeq(t, 1, Len(s)) = s
  <2> DEFINE p == SubSeq(t, 1, Len(s))
  <2>1. t \in Seq(Nat) /\ Len(s) <= Len(t)
    BY <1>1, <1>2, <1>7
  <2>2. p \in Seq(Nat) /\ Len(p) = Len(s) /\ \A i \in 1..Len(s) : p[i] = t[i]
    BY <1>2, <2>1
  <2> HIDE DEF p
  <2>3. p = s
    BY <1>4, <2>2, SeqEqual
  <2> QED
    BY <2>3 DEF p
<1>6. \A i \in 1..Len(t) : t[i] # 0
  BY <1>7
<1> QED
  BY <1>3, <1>5, <1>6, <1>7 DEF Rising, Continues, t

\* A handler of step [Next]_vars ends in UpdateState of registers new, and the
\* receive FIFO is as it was, has got a looped back byte, or was flushed.
Updates(new, rx, refreshRxData) ==
  /\ new \in SUBSET Controls /\ refreshRxData \in BOOLEAN
  /\ UpdateState(new, rx, refreshRxData)
  /\ \/ rx = fRxFIFO
     \/ rx = Append(fRxFIFO, 0) /\ Len(fRxFIFO) < RxSize /\ ~refreshRxData
     \/ rx = << >> /\ "RX_ENABLE" \in reg \ new /\ ~refreshRxData
  /\ nIn' = nIn

Updated == \E new, rx, refreshRxData : Updates(new, rx, refreshRxData)

\* A step ends in UpdateState, or the port is replaced, or a byte arrives, or
\* nothing comes in.
LEMMA RxCases ==
  ASSUME TypeOK, [Next]_vars
  PROVE  \/ Updated
         \/ buffer' = << >> /\ UNCHANGED <<got, fRxFIFO, status, nIn>>
         \/ /\ nIn' = nIn + 1 /\ buffer' = Append(buffer, nIn + 1)
            /\ UNCHANGED <<got, fRxFIFO>>
         \/ UNCHANGED <<got, fRxFIFO, buffer, nIn>>
<1>1. ASSUME NEW new \in SUBSET Controls, StateChanged(new), nIn' = nIn
      PROVE  Updated
  <2>1. UpdateState(new, Flushed(new, "RX_ENABLE", fRxFIFO), FALSE)
    BY <1>1 DEF StateChanged
  <2>2. CASE "RX_ENABLE" \in reg \ new
    <3>1. Flushed(new, "RX_ENABLE", fRxFIFO) = << >>
      BY <2>2 DEF Flushed
    <3>2. Updates(new, << >>, FALSE)
      BY <1>1, <2>1, <2>2, <3>1 DEF Updates
    <3> QED
      BY <3>2, Zenon DEF Updated
  <2>3. CASE ~("RX_ENABLE" \in reg \ new)
    <3>1. Flushed(new, "RX_ENABLE", fRxFIFO) = fRxFIFO
      BY <2>3 DEF Flushed
    <3>2. Updates(new, fRxFIFO, FALSE)
      BY <1>1, <2>1, <3>1 DEF Updates
    <3> QED
      BY <3>2, Zenon DEF Updated
  <2> QED
    BY <2>2, <2>3
<1>2. CASE WriteControl
  <2>1. PICK register \in {uControl, uTransmit, uMisc} :
          \E bits \in SUBSET register :
            /\ StateChanged((reg \ register) \cup bits)
            /\ UNCHANGED <<driver, transport, nIn>>
    BY <1>2 DEF WriteControl
  <2>2. PICK bits \in SUBSET register :
          /\ StateChanged((reg \ register) \cup bits)
          /\ UNCHANGED <<driver, transport, nIn>>
    BY <2>1
  <2>3. (reg \ register) \cup bits \in SUBSET Controls
    BY <2>1, <2>2 DEF TypeOK, Controls
  <2>4. Updated
    BY <1>1, <2>2, <2>3
  <2> QED
    BY <2>4
<1>3. CASE WriteData
  <2>1. PICK bits \in SUBSET uTransmit :
          LET new == (reg \ uTransmit) \cup bits
          IN  IF {"UART_ENABLE", "TX_ENABLE"} \subseteq new
              THEN SendTxData(new)
              ELSE UpdateState(new, fRxFIFO, FALSE)
    BY <1>3 DEF WriteData
  <2> DEFINE new == (reg \ uTransmit) \cup bits
  <2>2. new \in SUBSET Controls /\ nIn' = nIn
    BY <1>3 DEF TypeOK, Controls, WriteData
  <2>3. \/ UpdateState(new, fRxFIFO, FALSE)
        \/ UpdateState(new, Append(fRxFIFO, 0), FALSE) /\ Len(fRxFIFO) < RxSize
    BY <2>1 DEF SendTxData
  <2> HIDE DEF new
  <2>4. Updates(new, fRxFIFO, FALSE) \/ Updates(new, Append(fRxFIFO, 0), FALSE)
    BY <2>2, <2>3 DEF Updates
  <2>5. Updated
    BY <2>4, Zenon DEF Updated
  <2> QED
    BY <2>5
<1>4. CASE ReadData \/ Poll
  <2>1. reg \in SUBSET Controls
    BY DEF TypeOK, Controls
  <2>2. PICK refreshRxData \in BOOLEAN : UpdateState(reg, fRxFIFO, refreshRxData)
    BY <1>4 DEF ReadData, Poll
  <2>3. nIn' = nIn
    BY <1>4 DEF ReadData, Poll
  <2>4. Updates(reg, fRxFIFO, refreshRxData)
    BY <2>1, <2>2, <2>3 DEF Updates
  <2>5. Updated
    BY <2>4, Zenon DEF Updated
  <2> QED
    BY <2>5
<1>5. CASE Reset
  <2>1. StateChanged({}) /\ nIn' = nIn
    BY <1>5 DEF Reset, kInitialRegisterValues
  <2>2. Updated
    BY <1>1, <2>1
  <2> QED
    BY <2>2
<1>6. CASE EnableDriver \/ DisableDriver \/ UNCHANGED vars
  BY <1>6 DEF EnableDriver, DisableDriver, vars, line
<1>7. CASE SetTransportForDevice
  BY <1>7 DEF SetTransportForDevice
<1>8. CASE Receive
  BY <1>8 DEF Receive
<1> QED
  BY <1>2, <1>3, <1>4, <1>5, <1>6, <1>7, <1>8 DEF Next

\* What RxKept says of a step.
RxKeptStep ==
  \/ Kept(got \o fRxFIFO \o buffer, got' \o fRxFIFO' \o buffer')
  \/ /\ "RX_ENABLE" \in reg \ reg'
     /\ got' = got /\ fRxFIFO' \o buffer' = buffer
  \/ /\ buffer' = << >>
     /\ UNCHANGED <<got, fRxFIFO, status>>

RxStep == [Rx!Send \/ Rx!Deliver]_<<nIn, got>>

\* A step that adds nothing to the stream and gives the program a byte at most.
LEMMA RxDelivers ==
  ASSUME TypeOK, TypeOK', RxLine, nIn' = nIn, Kept(Stream', Stream),
         got' = got \/ \E b \in Nat : got' = Append(got, b)
  PROVE  RxLine' /\ RxStep
<1>1. Stream \in Seq(Nat) /\ Stream' \in Seq(Nat) /\ nIn \in Nat
      /\ got \in Seq(Nat) /\ got' \in Seq(Nat)
  BY NatSeqs, StreamIs, NatSeqsNext, StreamIsNext
<1>2. Rising(Stream', nIn)
  BY <1>1, RisingKept DEF RxLine
<1>3. RxLine'
  BY <1>2 DEF RxLine
<1>4. CASE got' = got
  BY <1>3, <1>4 DEF RxStep
<1>5. CASE \E b \in Nat : got' = Append(got, b)
  <2>1. PICK b \in Nat : got' = Append(got, b)
    BY <1>5
  <2>2. got' = got \o <<b>> /\ <<b>> \in Seq(Nat) /\ <<b>> # << >>
    BY <1>1, <2>1, AppendIsConcat
  <2>3. fRxFIFO' \o buffer' \in Seq(Nat)
    BY StreamIsNext
  <2>4. Rising(got', nIn)
    BY <1>1, <1>2, <2>3, RisingParts DEF Stream
  <2>5. got' \in Seq(1..MaxIn) /\ MaxIn \in Nat
    BY Sizes DEF TypeOK
  <2>6. Continues(got, got', nIn)
    <3> DEFINE e == <<b>>
    <3>1. got' = got \o e /\ e \in Seq(Nat) /\ e # << >>
      BY <2>2
    <3> HIDE DEF e
    <3>2. /\ got \in Seq(Nat) /\ nIn \in Nat
          /\ got \o e \in Seq(1..MaxIn) /\ Rising(got \o e, nIn)
      BY <1>1, <2>4, <2>5, <3>1, Zenon
    <3>3. Continues(got, got \o e, nIn)
      BY <2>5, <3>1, <3>2, MoreContinues
    <3> QED
      BY <3>1, <3>3, Zenon
  <2>7. nIn' >= nIn
    BY <1>1
  <2>8. Rx!Deliver
    BY <2>6, <2>7 DEF Rx!Deliver, Rx!InOrder, Continues
  <2> QED
    BY <1>3, <2>8, Zenon DEF RxStep
<1> QED
  BY <1>3, <1>4, <1>5

LEMMA RxUpdated ==
  ASSUME TypeOK, TypeOK', RxLine, Updated
  PROVE  RxLine' /\ RxKeptStep /\ RxStep
<1>1. PICK new, rx, refreshRxData : Updates(new, rx, refreshRxData)
  BY DEF Updated
<1>2. /\ refreshRxData \in BOOLEAN /\ UpdateState(new, rx, refreshRxData)
      /\ nIn' = nIn /\ reg' = new
  BY <1>1 DEF Updates, UpdateState
<1>3. /\ got \in Seq(Nat) /\ fRxFIFO \in Seq(Nat) /\ buffer \in Seq(Nat)
      /\ Len(fRxFIFO) <= RxSize /\ RxSize \in Nat
  BY NatSeqs, Sizes DEF TypeOK
<1>4. /\ got \o fRxFIFO \o buffer = Stream /\ Stream \in Seq(Nat)
      /\ got' \o fRxFIFO' \o buffer' = Stream' /\ Stream' \in Seq(Nat)
  BY StreamIs, StreamIsNext
<1>5. ASSUME rx \in Seq(Nat), Len(rx) <= RxSize
      PROVE  /\ Kept(got \o (rx \o buffer), Stream')
             /\ Kept(Stream', got \o (rx \o buffer))
             /\ got' = got \/ \E b \in Nat : got' = Append(got, b)
             /\ ~refreshRxData => got' = got /\ fRxFIFO' \o buffer' = rx \o buffer
  BY <1>2, <1>5, UpdateInOrder
<1>6. ASSUME rx \in Seq(Nat), Len(rx) <= RxSize,
             Kept(got \o (rx \o buffer), Stream)
      PROVE  RxLine' /\ RxStep
  <2>1. got \o (rx \o buffer) \in Seq(Nat)
    BY <1>3, <1>6, Associative
  <2>2. Kept(Stream', Stream)
    BY <1>4, <1>5, <1>6, <2>1, KeptTransitive
  <2> QED
    BY <1>2, <1>5, <1>6, <2>2, RxDelivers
<1>7. CASE rx = fRxFIFO
  <2>1. got \o (rx \o buffer) = Stream
    BY <1>7 DEF Stream
  <2>2. Kept(Stream, Stream)
    BY <1>4, KeptItself
  <2>3. rx \in Seq(Nat) /\ Len(rx) <= RxSize
    BY <1>3, <1>7
  <2>4. RxLine' /\ RxStep
    BY <1>6, <2>1, <2>2, <2>3
  <2>5. Kept(Stream, Stream')
    BY <1>5, <2>1, <2>3
  <2> QED
    BY <1>4, <2>4, <2>5 DEF RxKeptStep
<1>8. CASE rx = Append(fRxFIFO, 0) /\ Len(fRxFIFO) < RxSize /\ ~refreshRxData
  <2> DEFINE zero == <<0>>
  <2>1. /\ zero \in Seq(Nat) /\ Len(zero) = 1 /\ zero[1] = 0
        /\ rx \in Seq(Nat) /\ Len(rx) <= RxSize
    BY <1>3, <1>8
  <2>2. rx = fRxFIFO \o zero
    BY <1>3, <1>8, AppendIsConcat
  <2> HIDE DEF zero
  <2> DEFINE before == got \o fRxFIFO
             behind == zero \o buffer
  <2>3. got \o (rx \o buffer) = before \o behind
    <3>0. got \in Seq(Nat) /\ fRxFIFO \in Seq(Nat) /\ buffer \in Seq(Nat)
      BY <1>3
    <3>1. (fRxFIFO \o zero) \o buffer = fRxFIFO \o behind
      BY <2>1, <3>0, Regroup, ZenonT(60)
    <3>2. behind \in Seq(Nat)
      BY <2>1, <3>0, Associative
    <3> HIDE DEF behind
    <3>3. (got \o fRxFIFO) \o behind = got \o (fRxFIFO \o behind)
      BY <3>0, <3>2, Regroup, ZenonT(60)
    <3> QED
      BY <2>2, <3>1, <3>3, Zenon
  <2>4. before \in Seq(Nat)
    BY <1>3, Associative
  <2>5. before \o buffer = Stream
    BY <1>4
  <2> HIDE DEF before
  <2>6. Kept(before \o buffer, before \o behind) /\ Kept(before \o behind, before \o buffer)
    BY <1>3, <2>1, <2>4, KeptAround, KeptWithout
  <2> HIDE DEF behind
  <2>7. Kept(Stream, got \o (rx \o buffer)) /\ Kept(got \o (rx \o buffer), Stream)
    BY <2>3, <2>5, <2>6, Zenon
  <2>8. RxLine' /\ RxStep
    BY <1>6, <2>1, <2>7
  <2>9. Kept(Stream, Stream')
    <3>1. got \o (rx \o buffer) \in Seq(Nat)
      BY <1>3, <2>1, Associative
    <3> QED
      BY <1>4, <1>5, <2>1, <2>7, <3>1, KeptTransitive
  <2> QED
    BY <1>4, <2>8, <2>9 DEF RxKeptStep
<1>9. CASE rx = << >> /\ "RX_ENABLE" \in reg \ new /\ ~refreshRxData
  <2>1. rx \in Seq(Nat) /\ Len(rx) <= RxSize
    BY <1>3, <1>9, EmptySeq
  <2>2. rx \o buffer = buffer
    BY <1>3, <1>9, ConcatEmptySeq
  <2>3. Kept(got \o (rx \o buffer), Stream)
    BY <1>3, <2>2, KeptAround DEF Stream
  <2>4. RxLine' /\ RxStep
    BY <1>6, <2>1, <2>3
  <2>5. got' = got /\ fRxFIFO' \o buffer' = buffer
    BY <1>5, <1>9, <2>1, <2>2
  <2> QED
    BY <1>2, <1>9, <2>4, <2>5 DEF RxKeptStep
<1> QED
  BY <1>1, <1>7, <1>8, <1>9 DEF Updates

LEMMA RxHolds ==
  ASSUME TypeOK, TypeOK', RxLine, [Next]_vars
  PROVE  RxLine' /\ RxKeptStep /\ RxStep
<1>1. /\ got \in Seq(Nat) /\ fRxFIFO \in Seq(Nat) /\ buffer \in Seq(Nat)
      /\ nIn \in Nat
      /\ got \o fRxFIFO \o buffer = Stream /\ Stream \in Seq(Nat)
      /\ got' \o fRxFIFO' \o buffer' = Stream' /\ Stream' \in Seq(Nat)
  BY NatSeqs, StreamIs, StreamIsNext
<1>2. CASE buffer' = << >> /\ UNCHANGED <<got, fRxFIFO, status, nIn>>
  <2> DEFINE read == got \o fRxFIFO
  <2>1. read \in Seq(Nat) /\ read \o buffer = Stream
    BY <1>1, Associative
  <2>2. Stream' = read
    <3>1. Stream' = read \o << >>
      BY <1>1, <1>2
    <3> HIDE DEF read
    <3> QED
      BY <2>1, <3>1, ConcatEmptySeq
  <2> HIDE DEF read
  <2>3. Rising(read \o buffer, nIn)
    BY <2>1, Zenon DEF RxLine
  <2>4. Rising(read, nIn)
    BY <1>1, <2>1, <2>3, RisingParts
  <2>5. RxLine'
    BY <1>2, <2>2, <2>4 DEF RxLine
  <2> QED
    BY <1>2, <2>5 DEF RxKeptStep, RxStep
<1>3. CASE /\ nIn' = nIn + 1 /\ buffer' = Append(buffer, nIn + 1)
           /\ UNCHANGED <<got, fRxFIFO>>
  <2> DEFINE e == <<nIn + 1>>
  <2>1. e \in Seq(Nat) /\ nIn + 1 \in Nat /\ buffer' = buffer \o e
    <3> DEFINE n == nIn + 1
    <3>1. n \in Nat /\ buffer \in Seq(Nat) /\ buffer' = Append(buffer, n)
      BY <1>1, <1>3
    <3> HIDE DEF n
    <3>2. Append(buffer, n) = buffer \o <<n>> /\ <<n>> \in Seq(Nat)
      BY <3>1, AppendIsConcat
    <3> QED
      BY <3>1, <3>2, Zenon DEF n
  <2>2. Append(Stream, nIn + 1) = Stream \o e
    BY <1>1, <2>1, AppendIsConcat
  <2> HIDE DEF e
  <2> DEFINE read == got \o fRxFIFO
  <2>3. read \in Seq(Nat) /\ Stream = read \o buffer /\ Stream' = read \o (buffer \o e)
    BY <1>1, <1>3, <2>1, Associative
  <2> HIDE DEF read
  <2>4. (read \o buffer) \o e = read \o (buffer \o e)
    BY <1>1, <2>1, <2>3, Regroup, ZenonT(60)
  <2>5. Stream' = Stream \o e
    BY <2>3, <2>4, Zenon
  <2>6. RxLine'
    <3>1. Rising(Append(Stream, nIn + 1), nIn + 1)
      BY <1>1, RisingOn DEF RxLine
    <3> QED
      BY <1>3, <2>2, <2>5, <3>1, Zenon DEF RxLine
  <2>7. Kept(Stream, Stream')
    <3> DEFINE none == << >>
    <3>1. none \in Seq(Nat) /\ Stream \o none = Stream /\ e \o none = e
      BY <1>1, <2>1, ConcatEmptySeq, EmptySeq
    <3> HIDE DEF none
    <3>2. Kept(Stream \o none, Stream \o (e \o none))
      BY <1>1, <2>1, <3>1, KeptAround
    <3> QED
      BY <2>5, <3>1, <3>2, Zenon
  <2>8. Rx!Send
    BY <1>1, <1>3 DEF Rx!Send
  <2> QED
    BY <1>1, <2>6, <2>7, <2>8 DEF RxKeptStep, RxStep
<1>4. CASE UNCHANGED <<got, fRxFIFO, buffer, nIn>>
  <2>1. Stream' = Stream
    BY <1>4 DEF Stream
  <2>2. Kept(Stream, Stream')
    BY <1>1, <2>1, KeptItself
  <2> QED
    BY <1>1, <1>4, <2>1, <2>2 DEF RxLine, RxKeptStep, RxStep
<1> QED
  BY <1>2, <1>3, <1>4, RxCases, RxUpdated

-----------------------------------------------------------------------------
(* The bytes that go out                                                   *)

\* What has been sent and what waits was written in this order.
TxLine == Rising(sent \o fTxFIFO, nOut)

\* How a step changes what goes out.
TxCases ==
  \/ UNCHANGED <<sent, fTxFIFO>> /\ nOut' \in {nOut, nOut + 1}
  \/ /\ sent' = sent /\ nOut' = nOut
     /\ fTxFIFO' = << >> /\ "TX_ENABLE" \in reg \ reg'
  \/ /\ sent' = sent \o Append(fTxFIFO, nOut + 1) /\ fTxFIFO' = << >>
     /\ nOut' = nOut + 1
  \/ /\ sent' = sent /\ fTxFIFO' = Append(fTxFIFO, nOut + 1)
     /\ nOut' = nOut + 1

LEMMA TxSteps == ASSUME TypeOK, [Next]_vars PROVE TxCases
<1>1. ASSUME NEW new, StateChanged(new) PROVE TxCases
  <2>1. /\ fTxFIFO' = Flushed(new, "TX_ENABLE", fTxFIFO)
        /\ reg' = new /\ sent' = sent /\ nOut' = nOut
    BY <1>1 DEF StateChanged, UpdateState
  <2> QED
    BY <2>1 DEF Flushed, TxCases
<1>2. CASE WriteControl
  BY <1>1, <1>2 DEF WriteControl
<1>3. CASE WriteData
  <2>1. PICK bits \in SUBSET uTransmit :
          LET new == (reg \ uTransmit) \cup bits
          IN  IF {"UART_ENABLE", "TX_ENABLE"} \subseteq new
              THEN SendTxData(new)
              ELSE UNCHANGED <<fTxFIFO, sent>> /\ nOut' = nOut + 1
    BY <1>3 DEF WriteData
  <2> QED
    BY <2>1 DEF SendTxData, TransmitTxFIFO, TxCases
<1>4. CASE Reset
  BY <1>1, <1>4 DEF Reset
<1>5. CASE \/ ReadData \/ Poll \/ EnableDriver \/ DisableDriver
           \/ SetTransportForDevice \/ Receive \/ UNCHANGED vars
  BY <1>5 DEF ReadData, Poll, EnableDriver, DisableDriver,
              SetTransportForDevice, Receive, vars, line, TxCases
<1> QED
  BY <1>2, <1>3, <1>4, <1>5 DEF Next

TxKeptStep ==
  \/ IsPrefix(sent \o fTxFIFO, sent' \o fTxFIFO')
  \/ "TX_ENABLE" \in reg \ reg' /\ sent' = sent

TxStep == [Tx!Send \/ Tx!Deliver]_<<nOut, sent>>

LEMMA PrefixOfConcat ==
  ASSUME NEW s \in Seq(Nat), NEW t \in Seq(Nat)
  PROVE  IsPrefix(s, s \o t)
<1> DEFINE u == s \o t
           p == SubSeq(u, 1, Len(s))
<1>1. /\ u \in Seq(Nat) /\ Len(u) = Len(s) + Len(t)
      /\ \A i \in 1..Len(u) : u[i] = IF i <= Len(s) THEN s[i] ELSE t[i - Len(s)]
  BY Places
<1>2. Len(s) \in Nat /\ Len(t) \in Nat
  OBVIOUS
<1> HIDE DEF u
<1>3. Len(s) <= Len(u) /\ \A i \in 1..Len(s) : u[i] = s[i]
  BY <1>1, <1>2
<1>4. p \in Seq(Nat) /\ Len(p) = Len(s) /\ \A i \in 1..Len(s) : p[i] = u[i]
  BY <1>1, <1>2, <1>3
<1> HIDE DEF p
<1>5. p = s
  BY <1>3, <1>4, SeqEqual
<1>6. SubSeq(s, 1, Len(s)) = s
  BY SubSeqFull
<1> QED
  BY <1>3, <1>5, <1>6 DEF IsPrefix, p, u

LEMMA TxHolds ==
  ASSUME TypeOK, TypeOK', TxLine, [Next]_vars
  PROVE  TxLine' /\ TxKeptStep /\ TxStep
<1> DEFINE line0 == sent \o fTxFIFO
           byte == nOut + 1
<1>1. /\ sent \in Seq(Nat) /\ fTxFIFO \in Seq(Nat) /\ nOut \in Nat
      /\ byte \in Nat
  BY NatSeqs
<1>2. line0 \in Seq(Nat) /\ Rising(line0, nOut)
  BY <1>1, Associative DEF TxLine
<1>3. line0 \o << >> = line0 /\ sent \o << >> = sent
  <2> HIDE DEF line0
  <2> QED
    BY <1>1, <1>2, ConcatEmptySeq
<1>4. /\ sent \o Append(fTxFIFO, byte) = Append(line0, byte)
      /\ Append(line0, byte) = line0 \o <<byte>> /\ <<byte>> \in Seq(Nat)
      /\ Append(fTxFIFO, byte) \in Seq(Nat) /\ Append(fTxFIFO, byte) # << >>
  <2> HIDE DEF byte
  <2> DEFINE e == <<byte>>
  <2>1. /\ e \in Seq(Nat) /\ Append(fTxFIFO, byte) = fTxFIFO \o e
        /\ Append(fTxFIFO, byte) \in Seq(Nat) /\ Append(fTxFIFO, byte) # << >>
    <3>1. /\ Append(fTxFIFO, byte) \in Seq(Nat) /\ Append(fTxFIFO, byte) # << >>
      BY <1>1, AppendProperties
    <3>2. Append(fTxFIFO, byte) = fTxFIFO \o <<byte>>
      BY <1>1, AppendIsConcat
    <3>3. <<byte>> \in Seq(Nat)
      BY <1>1
    <3> QED
      BY <3>1, <3>2, <3>3
  <2>2. Append(line0, byte) = line0 \o e
    <3> HIDE DEF line0
    <3> QED
      BY <1>1, <1>2, AppendIsConcat
  <2> HIDE DEF e
  <2>3. line0 \o e = sent \o (fTxFIFO \o e)
    BY <1>1, <2>1, Regroup, ZenonT(60)
  <2> QED
    BY <2>1, <2>2, <2>3, Zenon DEF e
<1>5. Rising(Append(line0, byte), byte)
  BY <1>1, <1>2, RisingOn
<1>6. IsPrefix(line0, Append(line0, byte))
  <2> HIDE DEF byte
  <2> DEFINE e == <<byte>>
  <2>1. Append(line0, byte) = line0 \o e /\ e \in Seq(Nat)
    BY <1>4
  <2> HIDE DEF e, line0
  <2>2. IsPrefix(line0, line0 \o e)
    BY <1>2, <2>1, PrefixOfConcat
  <2> QED
    BY <2>1, <2>2, Zenon
<1> HIDE DEF byte
<1>7. CASE UNCHANGED <<sent, fTxFIFO>> /\ nOut' \in {nOut, nOut + 1}
  <2>1. IsPrefix(line0, line0)
    <3> DEFINE none == << >>
    <3>1. none \in Seq(Nat) /\ line0 \o none = line0
      BY <1>3, EmptySeq
    <3> HIDE DEF none, line0
    <3>2. IsPrefix(line0, line0 \o none)
      BY <1>2, <3>1, PrefixOfConcat
    <3> QED
      BY <3>1, <3>2, Zenon
  <2>2. sent' \o fTxFIFO' = line0
    BY <1>7
  <2> HIDE DEF line0
  <2>3. Rising(line0, nOut')
    <3>1. \A i \in 1..Len(line0) : line0[i] \in Nat
      BY <1>2
    <3> QED
      BY <1>1, <1>2, <1>7, <3>1 DEF Rising
  <2>4. TxLine'
    BY <2>2, <2>3, Zenon DEF TxLine
  <2>5. TxKeptStep
    BY <2>1, <2>2, Zenon DEF TxKeptStep, line0
  <2>6. TxStep
    <3>1. CASE nOut' = nOut
      BY <1>7, <3>1 DEF TxStep
    <3>2. CASE nOut' = nOut + 1
      BY <1>1, <1>7, <3>2 DEF TxStep, Tx!Send
    <3> QED
      BY <1>7, <3>1, <3>2
  <2> QED
    BY <2>4, <2>5, <2>6
<1>8. CASE /\ sent' = sent /\ nOut' = nOut
           /\ fTxFIFO' = << >> /\ "TX_ENABLE" \in reg \ reg'
  <2>1. Rising(sent, nOut)
    BY <1>1, <1>2, RisingParts
  <2>2. sent' \o fTxFIFO' = sent
    BY <1>3, <1>8
  <2>3. TxLine'
    BY <1>8, <2>1, <2>2 DEF TxLine
  <2> QED
    BY <1>8, <2>3 DEF TxKeptStep, TxStep
<1>9. CASE /\ sent' = sent \o Append(fTxFIFO, byte) /\ fTxFIFO' = << >>
           /\ nOut' = byte
  <2>1. sent' = Append(line0, byte) /\ sent' \in Seq(Nat)
    BY <1>1, <1>4, <1>9, Associative
  <2>2. sent' \o fTxFIFO' = Append(line0, byte)
    <3>1. sent' \o << >> = sent'
      BY <2>1, ConcatEmptySeq
    <3> QED
      BY <1>9, <2>1, <3>1, Zenon
  <2>3. TxLine'
    BY <1>5, <1>9, <2>2, Zenon DEF TxLine
  <2>4. TxKeptStep
    BY <1>6, <2>2, Zenon DEF TxKeptStep, line0
  <2>5. Continues(sent, sent', byte)
    <3> DEFINE more == Append(fTxFIFO, byte)
    <3>1. more \in Seq(Nat) /\ more # << >> /\ sent' = sent \o more
      BY <1>4, <1>9
    <3> HIDE DEF more
    <3>2. sent' \in Seq(1..MaxOut) /\ MaxOut \in Nat /\ Rising(sent', byte)
      BY <1>5, <2>1, Sizes DEF TypeOK
    <3>3. sent \o more \in Seq(1..MaxOut) /\ Rising(sent \o more, byte)
      BY <3>1, <3>2, Zenon
    <3>4. Continues(sent, sent \o more, byte)
      BY <1>1, <3>1, <3>2, <3>3, MoreContinues
    <3> QED
      BY <3>1, <3>4, Zenon
  <2>6. nOut' >= nOut
    BY <1>1, <1>9 DEF byte
  <2>7. Tx!Deliver
    BY <1>9, <2>5, <2>6 DEF Tx!Deliver, Tx!InOrder, Continues
  <2> QED
    BY <2>3, <2>4, <2>7, Zenon DEF TxStep
<1>10. CASE /\ sent' = sent /\ fTxFIFO' = Append(fTxFIFO, byte)
            /\ nOut' = byte
  <2>1. sent' \o fTxFIFO' = Append(line0, byte)
    BY <1>4, <1>10, Zenon
  <2>2. TxLine'
    BY <1>5, <1>10, <2>1, Zenon DEF TxLine
  <2>3. TxKeptStep
    BY <1>6, <2>1, Zenon DEF TxKeptStep, line0
  <2>4. Tx!Send
    BY <1>1, <1>10 DEF Tx!Send, byte
  <2> QED
    BY <2>2, <2>3, <2>4, Zenon DEF TxStep
<1> QED
  BY <1>7, <1>8, <1>9, <1>10, TxSteps, Zenon DEF TxCases, byte

\* TransmitTxFIFO, ReceiveRxFIFO and UpdateState, across enabling and
\* disabling, loopback, opening and closing, resets and other ports: nothing
\* that is written or received is dropped but where the code means to, and
\* what arrives at either end arrives in order and once.
THEOREM NothingIsDropped == Spec => BytesKept
<1>1. Init => TypeOK /\ TxLine /\ RxLine /\ Tx!Init /\ Rx!Init
  <2> SUFFICES ASSUME Init
               PROVE  /\ TypeOK /\ TxLine /\ RxLine
                      /\ Tx!Init /\ Rx!Init
    OBVIOUS
  <2>1. << >> \o << >> = << >>
    BY ConcatEmptySeq, EmptySeq
  <2>2. sent \o fTxFIFO = << >> /\ Stream = << >> /\ nOut = 0 /\ nIn = 0
    BY <2>1 DEF Init, Stream
  <2>3. TxLine /\ RxLine
    BY <2>2, RisingEmpty DEF TxLine, RxLine
  <2> QED
    BY <2>3, InitHolds DEF Init, Tx!Init, Rx!Init
<1>2. TypeOK /\ TxLine /\ RxLine /\ [Next]_vars
      => /\ TypeOK' /\ TxLine' /\ RxLine'
         /\ TxKeptStep /\ RxKeptStep /\ TxStep /\ RxStep
  BY NextHolds, TxHolds, RxHolds
<1>3. TxKeptStep => [\/ IsPrefix(sent \o fTxFIFO, sent' \o fTxFIFO')
                     \/ "TX_ENABLE" \in reg \ reg' /\ sent' = sent]_vars
  BY DEF TxKeptStep
<1>4. RxKeptStep =>
        [\/ Kept(got \o fRxFIFO \o buffer, got' \o fRxFIFO' \o buffer')
         \/ /\ "RX_ENABLE" \in reg \ reg'
            /\ got' = got /\ fRxFIFO' \o buffer' = buffer
         \/ /\ buffer' = << >>
            /\ UNCHANGED <<got, fRxFIFO, status>>]_vars
  BY DEF RxKeptStep
<1> QED
  BY <1>1, <1>2, <1>3, <1>4, PTL
     DEF Spec, BytesKept, TxKept, RxKept, TxChannel, RxChannel, Tx!Spec, Rx!Spec,
         Tx!channel, Rx!channel, TxStep, RxStep

=============================================================================

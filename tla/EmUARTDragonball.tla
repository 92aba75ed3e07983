-------------------------- MODULE EmUARTDragonball --------------------------
(***************************************************************************)
(* The UART of a Dragonball EZ: SrcShared/Hardware/EmUARTDragonball.cpp,   *)
(* as the register handlers of EmRegsEZ.cpp call it, and the opening and   *)
(* closing of its transport by EmHAL.cpp and PreferenceMgr.cpp.            *)
(*                                                                         *)
(* All of it runs on the CPU thread, or on a thread that has stopped the   *)
(* CPU thread, so that a handler is one action.  Only the transport's own  *)
(* threads run beside it; all they can do to a handler is append to the    *)
(* bytes it may read, which is the same as appending them afterwards.      *)
(*                                                                         *)
(* A byte is its number in its stream; 0 is any byte that the program has  *)
(* sent to itself in loopback mode.                                        *)
(***************************************************************************)
EXTENDS Integers, SequencesExt

CONSTANTS
  RxSize, TxSize,  \* PrvFIFOSize: 12 and 8 on this chip
  MaxOut,          \* bound on the bytes the program writes
  MaxIn            \* bound on the bytes that arrive

ASSUME UARTAssumption ==
  /\ RxSize \in Nat \ {0} /\ TxSize \in Nat \ {0}
  /\ MaxOut \in Nat /\ MaxIn \in Nat

VARIABLES
  reg,        \* the control bits that are set in the registers, and in fState
  status,     \* the status bits that are set in uReceive and uTransmit
  fRxFIFO,
  fTxFIFO,
  driver,     \* the serial line driver is enabled: GetLineDriverState
  transport,  \* gEmuPrefs' transport for the device: "none", "closed", "open"
  buffer,     \* the bytes the transport has received: BytesInBuffer
  sent,       \* the bytes the transport has been given to write
  got,        \* the received bytes the program has read out of the FIFO
  nOut, nIn   \* bytes written by the program, received by the transport

line == <<transport, buffer, nIn>>
vars == <<reg, status, fRxFIFO, fTxFIFO, driver, line, sent, got, nOut>>

\* The control bits, by register.  RTS stands for RTS or RTS_CONT, either of
\* which lets data in.  The settings that go to EmTransportSerial::SetConfig
\* are left out.
uControl  == {"UART_ENABLE", "RX_ENABLE", "TX_ENABLE"}
uTransmit == {"IGNORE_CTS"}
uMisc     == {"LOOP", "RTS"}
kInitialRegisterValues == {}

Min2(a, b) == IF a < b THEN a ELSE b
Take(s, n) == SubSeq(s, 1, n)
Drop(s, n) == SubSeq(s, n + 1, Len(s))

kRxStatus == {"RX_FIFO_FULL", "RX_FIFO_HALF", "DATA_READY"}
kTxStatus == {"TX_FIFO_EMPTY", "TX_FIFO_HALF", "TX_AVAIL"}

\* UpdateState: the status bits that FIFOs of these lengths call for.
RxBits(used) ==
  {b \in kRxStatus :
     \/ (b = "RX_FIFO_FULL" /\ used = RxSize)
     \/ (b = "RX_FIFO_HALF" /\ RxSize - used <= RxSize \div 2)
     \/ (b = "DATA_READY" /\ used > 0)}

\* Mutant: a full FIFO is available.
TxBitsFull(used) ==
  {b \in kTxStatus :
     \/ (b = "TX_FIFO_EMPTY" /\ used = 0)
     \/ (b = "TX_FIFO_HALF" /\ used < TxSize \div 2)
     \/ (b = "TX_AVAIL" /\ used <= TxSize)}

TxBits(used) ==
  {b \in kTxStatus :
     \/ (b = "TX_FIFO_EMPTY" /\ used = 0)
     \/ (b = "TX_FIFO_HALF" /\ used < TxSize \div 2)
     \/ (b = "TX_AVAIL" /\ used < TxSize)}

TypeOK ==
  /\ reg \subseteq uControl \cup uTransmit \cup uMisc
  /\ status \subseteq kRxStatus \cup kTxStatus
  /\ fRxFIFO \in Seq(0..MaxIn) /\ Len(fRxFIFO) <= RxSize
  /\ fTxFIFO \in Seq(1..MaxOut) /\ Len(fTxFIFO) <= TxSize
  /\ driver \in BOOLEAN
  /\ transport \in {"none", "closed", "open"}
  /\ buffer \in Seq(1..MaxIn)
  /\ sent \in Seq(1..MaxOut)
  /\ got \in Seq(1..MaxIn)
  /\ nOut \in 0..MaxOut /\ nIn \in 0..MaxIn

\* EmRegsEZ::Reset on a new UART.  Its fState is not initialized, which makes
\* no difference: the FIFOs are empty and no transport is open.
Init ==
  /\ reg = kInitialRegisterValues
  /\ status = RxBits(0) \cup TxBits(0)
  /\ fRxFIFO = << >> /\ fTxFIFO = << >>
  /\ driver = FALSE
  /\ transport \in {"none", "closed"}
  /\ buffer = << >> /\ sent = << >> /\ got = << >>
  /\ nOut = 0 /\ nIn = 0

-----------------------------------------------------------------------------
(* UpdateState and StateChanged                                            *)

\* GetTransport finds a transport, and it CanRead and CanWrite.
Connected(d) == d /\ transport = "open"

\* Mutant: the read is limited to the size of the FIFO, not to its room.
BytesToBufferMax(used) ==
  IF Connected(driver') /\ "RTS" \in reg THEN Min2(Len(buffer), RxSize) ELSE 0

\* Mutant: nothing is read into the last slot, as for RTS_CONT on the device.
BytesToBufferRoom(used) ==
  IF Connected(driver') /\ "RTS" \in reg /\ RxSize - used > 1
  THEN Min2(Len(buffer), RxSize - used) ELSE 0

\* ReceiveRxFIFO: how many bytes it moves to a FIFO that holds used bytes.
\* fState, which it asks for RTS, is still that of before the handler.
BytesToBuffer(used) ==
  IF Connected(driver') /\ "RTS" \in reg
  THEN Min2(Len(buffer), RxSize - used) ELSE 0

ReceiveRxFIFO(rx) == rx \o Take(buffer, BytesToBuffer(Len(rx)))

\* Mutant: the status bits are taken before the bytes come in.
UpdateStateEarly(new, rx, refreshRxData) ==
  LET q == ReceiveRxFIFO(rx)
      get == refreshRxData /\ q # << >> /\ {"UART_ENABLE", "RX_ENABLE"} \subseteq new
  IN  /\ status' = RxBits(Len(rx)) \cup TxBits(Len(fTxFIFO'))
      /\ buffer' = Drop(buffer, BytesToBuffer(Len(rx)))
      /\ fRxFIFO' = IF get THEN Tail(q) ELSE q
      /\ got' = IF get /\ Head(q) # 0 THEN Append(got, Head(q)) ELSE got
      /\ reg' = new

\* UpdateState of registers new, with rx in the receive FIFO.  The bits of the
\* receiver are those of before the byte is taken out.
UpdateState(new, rx, refreshRxData) ==
  LET q == ReceiveRxFIFO(rx)
      get == refreshRxData /\ q # << >> /\ {"UART_ENABLE", "RX_ENABLE"} \subseteq new
  IN  /\ status' = RxBits(Len(q)) \cup TxBits(Len(fTxFIFO'))
      /\ buffer' = Drop(buffer, BytesToBuffer(Len(rx)))
      /\ fRxFIFO' = IF get THEN Tail(q) ELSE q
      /\ got' = IF get /\ Head(q) # 0 THEN Append(got, Head(q)) ELSE got
      /\ reg' = new

\* Mutant: a FIFO is flushed when its half of the UART is enabled.
FlushedOnEnable(new, enable, fifo) ==
  IF enable \in new \ reg THEN << >> ELSE fifo

\* Disabling the receiver or the transmitter flushes its FIFO.
Flushed(new, enable, fifo) ==
  IF enable \in reg \ new THEN << >> ELSE fifo

\* StateChanged, when TX_DATA is not sent ...
StateChanged(new) ==
  /\ fTxFIFO' = Flushed(new, "TX_ENABLE", fTxFIFO)
  /\ UpdateState(new, Flushed(new, "RX_ENABLE", fRxFIFO), FALSE)
  /\ UNCHANGED <<sent, nOut>>

TransmitTxFIFO(fifo) ==
  /\ sent' = sent \o fifo
  /\ fTxFIFO' = << >>

\* ... and when it is, by a UART and a transmitter that are enabled: it goes
\* to the transport together with what waits before it, or into the FIFO if
\* there is no transport and CTS counts, or in loopback to the receiver.
SendTxData(new) ==
  LET byte == nOut + 1
      room == Len(fTxFIFO) < TxSize
      loop == "LOOP" \in new
      loops == loop /\ Len(fRxFIFO) < RxSize
  IN  /\ driver' = driver
      /\ \/ /\ ~loop /\ room /\ Connected(driver)
            /\ TransmitTxFIFO(Append(fTxFIFO, byte))
         \/ /\ ~loop /\ room /\ ~Connected(driver) /\ "IGNORE_CTS" \notin new
            /\ fTxFIFO' = Append(fTxFIFO, byte)
            /\ sent' = sent
         \/ /\ loop \/ ~room \/ (~Connected(driver) /\ "IGNORE_CTS" \in new)
            /\ UNCHANGED <<fTxFIFO, sent>>
      /\ UpdateState(new, IF loops THEN Append(fRxFIFO, 0) ELSE fRxFIFO, FALSE)
      /\ nOut' = byte

-----------------------------------------------------------------------------
(* What the emulated program does                                          *)

\* uartWrite to the control bits of one register.
WriteControl ==
  \E register \in {uControl, uTransmit, uMisc} : \E bits \in SUBSET register :
    /\ driver' = driver
    /\ StateChanged((reg \ register) \cup bits)
    /\ UNCHANGED <<transport, nIn>>

\* uartWrite to TX_DATA; a word goes to IGNORE_CTS as well.
WriteData ==
  \E bits \in SUBSET uTransmit :
    LET new == (reg \ uTransmit) \cup bits
    IN  /\ nOut < MaxOut
        /\ IF {"UART_ENABLE", "TX_ENABLE"} \subseteq new
           THEN SendTxData(new)
           ELSE /\ UNCHANGED <<driver, fTxFIFO, sent>>
                /\ UpdateState(new, fRxFIFO, FALSE)
                /\ nOut' = nOut + 1
        /\ UNCHANGED <<transport, nIn>>

\* uartRead of the whole of uReceive.
ReadData ==
  /\ fTxFIFO' = fTxFIFO
  /\ driver' = driver
  /\ UpdateState(reg, fRxFIFO, TRUE)
  /\ UNCHANGED <<transport, sent, nOut, nIn>>

\* CycleSlowly, and uartRead of any other register.
Poll ==
  /\ fTxFIFO' = fTxFIFO
  /\ driver' = driver
  /\ UpdateState(reg, fRxFIFO, FALSE)
  /\ UNCHANGED <<transport, sent, nOut, nIn>>

\* A write to the port that enables the line driver: LineDriverChanged.
\* Opening may fail; a port that is open stays open.
EnableDriver ==
  /\ ~driver
  /\ driver' = TRUE
  /\ \/ transport = "closed" /\ transport' = "open"
     \/ UNCHANGED transport
  /\ UNCHANGED <<reg, status, fRxFIFO, fTxFIFO, buffer, sent, got, nOut, nIn>>

DisableDriver ==
  /\ driver
  /\ driver' = FALSE
  /\ transport' = IF transport = "open" THEN "closed" ELSE transport
  /\ UNCHANGED <<reg, status, fRxFIFO, fTxFIFO, buffer, sent, got, nOut, nIn>>

-----------------------------------------------------------------------------
(* What others do                                                          *)

\* EmRegsEZ::Reset: the registers, those of the line driver included, get
\* their initial values.  No transport is told.
Reset ==
  /\ driver' = FALSE
  /\ StateChanged(kInitialRegisterValues)
  /\ UNCHANGED <<transport, nIn>>

\* The user chooses another port: EmulatorPreferences::SetTransportForDevice.
SetTransportForDevice ==
  /\ transport' \in {"none", "closed"} \cup (IF driver THEN {"open"} ELSE {})
  /\ buffer' = << >>
  /\ UNCHANGED <<reg, status, fRxFIFO, fTxFIFO, driver, sent, got, nOut, nIn>>

\* The transport's read thread.
Receive ==
  /\ transport = "open"
  /\ nIn < MaxIn
  /\ nIn' = nIn + 1
  /\ buffer' = Append(buffer, nIn')
  /\ UNCHANGED <<reg, status, fRxFIFO, fTxFIFO, driver, transport, sent, got,
                 nOut>>

Next ==
  \/ WriteControl \/ WriteData \/ ReadData \/ Poll
  \/ EnableDriver \/ DisableDriver
  \/ Reset \/ SetTransportForDevice \/ Receive

Spec == Init /\ [][Next]_vars

\* The CPU thread calls CycleSlowly again and again; the program need not do
\* anything.
FairSpec == Spec /\ WF_vars(Poll)

-----------------------------------------------------------------------------
(* Properties                                                              *)

\* The status bits are those of what the FIFOs hold, and of n bytes more that
\* the program has taken out of the receive FIFO.
Reported(n) ==
  status = RxBits(Len(fRxFIFO) + n) \cup TxBits(Len(fTxFIFO))

\* UpdateState, from whose bits UpdateUARTInterrupts takes the interrupt: every
\* handler that may change a FIFO or the bits leaves exactly the bits that the
\* FIFOs call for, whatever else it received, sent, flushed or looped back.
\* Only the read of a byte leaves the bits of before the byte was taken.
StatusHonest ==
  /\ Reported(0)
  /\ [][\/ Reported(0)'
        \/ ReadData /\ Reported(1)'
        \/ UNCHANGED <<status, fRxFIFO, fTxFIFO>>]_vars

\* The next three say what comments of the code say.  They do not hold, and no
\* run checks them.
\*
\* "This read-only bit indicates that at least one byte is present in the
\* receive FIFO"; "Something reads ... the RX_DATA register, clear the
\* DATA_READY bit".  UpdateState takes the byte out after it has set the bit.
ReadyMeansData == "DATA_READY" \in status => fRxFIFO # << >>

\* StateChanged on RX_ENABLE: "While this bit is low, the receiver is disabled
\* and the receive FIFO is flushed."  UpdateState does not ask for the bit.
DisabledIsFlushed == "RX_ENABLE" \notin reg => fRxFIFO = << >>

\* StateChanged on LOOP: "the receiver input is internally connected to the
\* transmitter and ignores the RXD pin", so that no byte of the port gets into
\* the FIFO.  UpdateState does not ask for this bit either.
LoopIgnoresPort ==
  [][{"RX_ENABLE", "LOOP"} \subseteq reg \cap reg' =>
       \A b \in 1..MaxIn : Contains(fRxFIFO', b) => Contains(fRxFIFO, b)]_vars

\* StateChanged and TransmitTxFIFO: the bytes that wait in the transmit FIFO
\* go out in their order or stay, whatever is done to the line driver, the
\* port or the other registers, until the transmitter is disabled.
TxKept ==
  [][\/ IsPrefix(sent \o fTxFIFO, sent' \o fTxFIFO')
     \/ "TX_ENABLE" \in reg \ reg' /\ sent' = sent]_vars

\* TX_AVAIL, "the transmit FIFO has at least one slot available for data", can
\* be relied on: a byte written by a program that has seen it is not dropped,
\* though the port may be opened, closed or replaced in between.
AvailHonoured ==
  [][nOut' > nOut /\ "TX_AVAIL" \in status
       /\ {"UART_ENABLE", "TX_ENABLE"} \subseteq reg
       /\ "LOOP" \notin reg /\ "IGNORE_CTS" \notin reg'
     => Contains(sent' \o fTxFIFO', nOut')]_vars

\* Every byte of s is in t, and any two of them in the same order; what the
\* program has sent to itself does not count.
Kept(s, t) ==
  \A i, j \in 1..Len(s) :
    i <= j /\ s[i] # 0 /\ s[j] # 0
      => \E k, l \in 1..Len(t) :
           k <= l /\ (i < j => k < l) /\ t[k] = s[i] /\ t[l] = s[j]

\* ReceiveRxFIFO and UpdateState: received bytes move from the transport to
\* the FIFO to the program without overtaking each other.  They are dropped
\* only where the receiver is disabled, which drops the FIFO, or the port is
\* replaced, which drops its buffer.
RxKept ==
  [][\/ Kept(got \o fRxFIFO \o buffer, got' \o fRxFIFO' \o buffer')
     \/ /\ "RX_ENABLE" \in reg \ reg'
        /\ got' = got /\ fRxFIFO' \o buffer' = buffer
     \/ /\ buffer' = << >>
        /\ UNCHANGED <<got, fRxFIFO, status>>]_vars

\* Both directions keep their order and repeat nothing.
Tx == INSTANCE ByteChannel WITH put <- nOut, arrived <- sent
TxChannel == Tx!Spec
Rx == INSTANCE ByteChannel WITH put <- nIn, arrived <- got
RxChannel == Rx!Spec

\* What is written goes out, what comes in is read: in order, once, and nothing
\* is dropped but where the code means to.
BytesKept == TxKept /\ RxKept /\ TxChannel /\ RxChannel

\* The port is open, RTS is on, and the receiver listens to the port.
Listening ==
  Connected(driver) /\ {"RX_ENABLE", "RTS"} \subseteq reg /\ "LOOP" \notin reg

\* "Data appears at the host serial port: Post the byte to the RX FIFO (if
\* there is room)": while the receiver listens, no byte stays in the transport
\* (RxKept says where it goes) unless the FIFO becomes full, though the program
\* does nothing.
InputPosted ==
  \A b \in 1..MaxIn :
    Listening /\ Contains(buffer, b)
      ~> ~Contains(buffer, b) \/ Len(fRxFIFO) = RxSize \/ ~Listening
=============================================================================

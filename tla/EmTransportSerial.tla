------------------------- MODULE EmTransportSerial -------------------------
(***************************************************************************)
(* One serial transport: SrcShared/EmTransportSerial.cpp with the host     *)
(* part in SrcAndroid/EmTransportSerialAndroid.cpp.                        *)
(*                                                                         *)
(* Three threads.  The user of the transport is the thread that runs the   *)
(* emulated UART; when another thread opens or closes the transport it has *)
(* stopped that one first (EmSession), so they count as one.  CommRead and *)
(* CommWrite move bytes between the host port and two buffers.             *)
(*                                                                         *)
(* fWriteMutex and fDataMutex are held across calls that take the other,   *)
(* so a thread's place tells which it holds.  fReadMutex is held for one   *)
(* access of fReadBuffer at a time, and is not needed as a variable.       *)
(*                                                                         *)
(* A byte is its number in the stream it belongs to.                       *)
(***************************************************************************)
EXTENDS Integers, Sequences

CONSTANTS
  MaxOut,    \* bound on the bytes the emulated program writes
  MaxIn,     \* bound on the bytes the far end sends
  FifoSize   \* the UART's FIFOs: no Read or Write moves more bytes at once

ASSUME TransportAssumption ==
  MaxOut \in Nat /\ MaxIn \in Nat /\ FifoSize \in Nat \ {0}

VARIABLES
  device,            \* "port", or "/@": the fake one that is never opened
  fCommEstablished,
  fCommHandle,       \* 0: no port, 1: a file descriptor, -1: the fake port
  fTimeToQuit,
  pipe,              \* the signal pipe: "none", "quiet" or "signalled"
  fReadBuffer,
  fWriteBuffer,
  asleep,            \* CommWrite is in fDataCondition.wait
  user,              \* where the user of the transport is
  reader, rbuf,      \* where CommRead is, and its buf
  writer, len, wbuf, \* where CommWrite is, its len and its buf
  bytesToBuffer,     \* what ReceiveRxFIFO means to read
  portIn,            \* bytes the host port has received and nobody has read
  portOut,           \* bytes the host port has accepted
  hungUp,            \* the far end has gone: read () returns 0
  nOut, nIn,         \* bytes written by the program, sent by the far end
  got                \* bytes the UART has read

comm   == <<reader, rbuf>>
out    == <<writer, len, wbuf>>
line   == <<portIn, hungUp, nIn>>
handle == <<device, fCommEstablished, fCommHandle, fTimeToQuit, pipe>>

vars == <<handle, fReadBuffer, fWriteBuffer, asleep, user, comm, out,
          bytesToBuffer, line, portOut, nOut, got>>

Min2(a, b) == IF a < b THEN a ELSE b
Take(s, n) == SubSeq(s, 1, n)
Drop(s, n) == SubSeq(s, n + 1, Len(s))
\* The n bytes that follow byte number k.
Bytes(k, n) == [i \in 1..n |-> k + i]

fWriteMutexFree == user # "wake"
fDataMutexFree  == writer \notin {"size", "get", "write"}

TypeOK ==
  /\ device \in {"port", "/@"}
  /\ fCommEstablished \in BOOLEAN
  /\ fCommHandle \in {-1, 0, 1}
  /\ fTimeToQuit \in BOOLEAN
  /\ pipe \in {"none", "quiet", "signalled"}
  /\ fReadBuffer \in Seq(1..MaxIn)
  /\ fWriteBuffer \in Seq(1..MaxOut)
  /\ asleep \in BOOLEAN
  /\ user \in {"idle", "config", "wake", "read", "quit", "join"}
  /\ reader \in {"none", "loop", "select", "read", "put"}
  /\ rbuf \in Seq(1..MaxIn)
  /\ writer \in {"none", "start", "wait", "size", "get", "write"}
  /\ len \in Nat
  /\ wbuf \in Seq(1..MaxOut)
  /\ bytesToBuffer \in 0..FifoSize
  /\ portIn \in Seq(1..MaxIn)
  /\ portOut \in Seq(1..MaxOut)
  /\ hungUp \in BOOLEAN
  /\ nOut \in 0..MaxOut
  /\ nIn \in 0..MaxIn
  /\ got \in Seq(1..MaxIn)

\* The constructors of EmTransportSerial and EmHostTransportSerial.
Init ==
  /\ device \in {"port", "/@"}
  /\ fCommEstablished = FALSE
  /\ fCommHandle = 0
  /\ fTimeToQuit = FALSE
  /\ pipe = "none"
  /\ fReadBuffer = << >> /\ fWriteBuffer = << >>
  /\ asleep = FALSE
  /\ user = "idle"
  /\ reader = "none" /\ rbuf = << >>
  /\ writer = "none" /\ len = 0 /\ wbuf = << >>
  /\ bytesToBuffer = 0
  /\ portIn = << >> /\ portOut = << >>
  /\ hungUp = FALSE
  /\ nOut = 0 /\ nIn = 0
  /\ got = << >>

-----------------------------------------------------------------------------
(* Open and Close                                                          *)

\* OpenCommPort succeeds and CreateCommThreads starts both threads.  When it
\* fails, HostClose finds nothing to undo.
Open ==
  /\ user = "idle"
  /\ ~fCommEstablished
  /\ fCommHandle' = IF device = "port" THEN 1 ELSE -1
  /\ pipe' = "quiet"
  /\ fTimeToQuit' = FALSE
  /\ reader' = "loop"
  /\ writer' = "start"
  /\ user' = "config"
  /\ hungUp' = FALSE
  /\ UNCHANGED <<device, fCommEstablished, fReadBuffer, fWriteBuffer, asleep,
                 rbuf, len, wbuf, bytesToBuffer, portIn, nIn, portOut, nOut,
                 got>>

\* HostSetConfig may fail on a real port; then Open closes what it opened.
HostSetConfig ==
  /\ user = "config"
  /\ \/ fCommEstablished' = TRUE /\ user' = "idle"
     \/ device = "port" /\ user' = "quit" /\ UNCHANGED fCommEstablished
  /\ UNCHANGED <<device, fCommHandle, fTimeToQuit, pipe, fReadBuffer,
                 fWriteBuffer, asleep, comm, out, bytesToBuffer, line,
                 portOut, nOut, got>>

Close ==
  /\ user = "idle"
  /\ fCommEstablished
  /\ fCommEstablished' = FALSE
  /\ user' = "quit"
  /\ UNCHANGED <<device, fCommHandle, fTimeToQuit, pipe, fReadBuffer,
                 fWriteBuffer, asleep, comm, out, bytesToBuffer, line,
                 portOut, nOut, got>>

\* Mutant: the write thread is not told to quit.
SignalQuitNoBroadcast ==
  /\ user = "quit"
  /\ fDataMutexFree
  /\ fTimeToQuit' = TRUE
  /\ pipe' = "signalled"
  /\ user' = "join"
  /\ UNCHANGED <<device, fCommEstablished, fCommHandle, fReadBuffer,
                 fWriteBuffer, asleep, comm, out, bytesToBuffer, line,
                 portOut, nOut, got>>

\* DestroyCommThreads, under fDataMutex.
SignalQuit ==
  /\ user = "quit"
  /\ fDataMutexFree
  /\ fTimeToQuit' = TRUE
  /\ pipe' = "signalled"
  /\ asleep' = FALSE
  /\ user' = "join"
  /\ UNCHANGED <<device, fCommEstablished, fCommHandle, fReadBuffer,
                 fWriteBuffer, comm, out, bytesToBuffer, line, portOut, nOut,
                 got>>

\* Mutant: the port is closed without waiting for CommWrite.
JoinAndCloseReaderOnly ==
  /\ user = "join"
  /\ reader = "none"
  /\ pipe' = "none"
  /\ fCommHandle' = 0
  /\ portIn' = << >>
  /\ user' = "idle"
  /\ UNCHANGED <<device, fCommEstablished, fTimeToQuit, fReadBuffer,
                 fWriteBuffer, asleep, comm, out, bytesToBuffer, hungUp, nIn,
                 portOut, nOut, got>>

\* Both joins, the closing of the pipe, and CloseCommPort.  What the closed
\* port had received is lost.
JoinAndClose ==
  /\ user = "join"
  /\ reader = "none" /\ writer = "none"
  /\ pipe' = "none"
  /\ fCommHandle' = 0
  /\ portIn' = << >>
  /\ user' = "idle"
  /\ UNCHANGED <<device, fCommEstablished, fTimeToQuit, fReadBuffer,
                 fWriteBuffer, asleep, comm, out, bytesToBuffer, hungUp, nIn,
                 portOut, nOut, got>>

-----------------------------------------------------------------------------
(* Write and Read, called by the UART                                      *)

\* PutOutgoingData queues the bytes and keeps fWriteMutex ...
PutOutgoingData ==
  /\ user = "idle"
  /\ fCommEstablished
  /\ \E n \in 1..Min2(FifoSize, MaxOut - nOut) :
       /\ fWriteBuffer' = fWriteBuffer \o Bytes(nOut, n)
       /\ nOut' = nOut + n
  /\ user' = "wake"
  /\ UNCHANGED <<handle, fReadBuffer, asleep, comm, out, bytesToBuffer, line,
                 portOut, got>>

\* ... while it takes fDataMutex to wake CommWrite.
WakeCommWrite ==
  /\ user = "wake"
  /\ fDataMutexFree
  /\ asleep' = FALSE
  /\ user' = "idle"
  /\ UNCHANGED <<handle, fReadBuffer, fWriteBuffer, comm, out, bytesToBuffer,
                 line, portOut, nOut, got>>

\* Mutant: the read is not limited to the room in the FIFO.
BytesInBufferUnlimited(space) ==
  /\ user = "idle"
  /\ fCommEstablished
  /\ bytesToBuffer' = Len(fReadBuffer)
  /\ bytesToBuffer' > 0
  /\ user' = "read"
  /\ UNCHANGED <<handle, fReadBuffer, fWriteBuffer, asleep, comm, out, line,
                 portOut, nOut, got>>

\* ReceiveRxFIFO asks how much there is, limits it to the room in the FIFO,
BytesInBuffer(space) ==
  /\ user = "idle"
  /\ fCommEstablished
  /\ bytesToBuffer' = Min2(Len(fReadBuffer), space)
  /\ bytesToBuffer' > 0
  /\ user' = "read"
  /\ UNCHANGED <<handle, fReadBuffer, fWriteBuffer, asleep, comm, out, line,
                 portOut, nOut, got>>

\* and reads that many.
GetIncomingData ==
  LET n == Min2(bytesToBuffer, Len(fReadBuffer))
  IN  /\ user = "read"
      /\ got' = got \o Take(fReadBuffer, n)
      /\ fReadBuffer' = Drop(fReadBuffer, n)
      /\ bytesToBuffer' = 0
      /\ user' = "idle"
      /\ UNCHANGED <<handle, fWriteBuffer, asleep, comm, out, line, portOut,
                     nOut>>

-----------------------------------------------------------------------------
(* CommRead                                                                *)

ReaderLoop ==
  /\ reader = "loop"
  /\ reader' = IF fTimeToQuit THEN "none" ELSE "select"
  /\ UNCHANGED <<handle, fReadBuffer, fWriteBuffer, asleep, user, rbuf, out,
                 bytesToBuffer, line, portOut, nOut, got>>

\* Mutant: select watches only the signal pipe.
PortReadableNever == FALSE
\* The port is in select's set, and has data or has hung up.
PortReadable == fCommHandle > 0 /\ (portIn # << >> \/ hungUp)

Select ==
  /\ reader = "select"
  /\ pipe = "signalled" \/ PortReadable
  /\ reader' = IF fTimeToQuit THEN "none"
               ELSE IF PortReadable THEN "read" ELSE "loop"
  /\ UNCHANGED <<handle, fReadBuffer, fWriteBuffer, asleep, user, rbuf, out,
                 bytesToBuffer, line, portOut, nOut, got>>

\* read () takes some of what is there; 0 is the end of the thread.
ReadPort ==
  /\ reader = "read"
  /\ \/ /\ portIn = << >>
        /\ reader' = "none"
        /\ UNCHANGED <<rbuf, portIn>>
     \/ \E n \in 1..Len(portIn) :
          /\ rbuf' = Take(portIn, n)
          /\ portIn' = Drop(portIn, n)
          /\ reader' = "put"
  /\ UNCHANGED <<handle, fReadBuffer, fWriteBuffer, asleep, user, out,
                 bytesToBuffer, hungUp, nIn, portOut, nOut, got>>

PutIncomingData ==
  /\ reader = "put"
  /\ fReadBuffer' = fReadBuffer \o rbuf
  /\ rbuf' = << >>
  /\ reader' = "loop"
  /\ UNCHANGED <<handle, fWriteBuffer, asleep, user, out, bytesToBuffer, line,
                 portOut, nOut, got>>

-----------------------------------------------------------------------------
(* CommWrite, which holds fDataMutex except in fDataCondition.wait         *)

\* The test of the while loop, and the wait that follows it.
WriterWaits ==
  /\ writer' = IF fTimeToQuit THEN "none" ELSE "wait"
  /\ asleep' = ~fTimeToQuit

WriterStarts ==
  /\ writer = "start"
  /\ WriterWaits
  /\ UNCHANGED <<handle, fReadBuffer, fWriteBuffer, user, comm, len, wbuf,
                 bytesToBuffer, line, portOut, nOut, got>>

WriterWakes ==
  /\ writer = "wait"
  /\ ~asleep
  /\ IF ~fTimeToQuit /\ fCommHandle > 0
     THEN writer' = "size" /\ UNCHANGED asleep
     ELSE WriterWaits
  /\ UNCHANGED <<handle, fReadBuffer, fWriteBuffer, user, comm, len, wbuf,
                 bytesToBuffer, line, portOut, nOut, got>>

OutgoingDataSize ==
  /\ writer = "size"
  /\ fWriteMutexFree
  /\ len' = Len(fWriteBuffer)
  /\ IF len' = 0
     THEN WriterWaits
     ELSE writer' = "get" /\ UNCHANGED asleep
  /\ UNCHANGED <<handle, fReadBuffer, fWriteBuffer, user, comm, wbuf,
                 bytesToBuffer, line, portOut, nOut, got>>

\* Mutant: the bytes are copied but not erased.
GetOutgoingDataKeep ==
  /\ writer = "get"
  /\ fWriteMutexFree
  /\ wbuf' = Take(fWriteBuffer, Min2(len, Len(fWriteBuffer)))
  /\ writer' = "write"
  /\ UNCHANGED <<handle, fReadBuffer, fWriteBuffer, asleep, user, comm, len,
                 bytesToBuffer, line, portOut, nOut, got>>

GetOutgoingData ==
  LET n == Min2(len, Len(fWriteBuffer))
  IN  /\ writer = "get"
      /\ fWriteMutexFree
      /\ wbuf' = Take(fWriteBuffer, n)
      /\ fWriteBuffer' = Drop(fWriteBuffer, n)
      /\ writer' = "write"
      /\ UNCHANGED <<handle, fReadBuffer, asleep, user, comm, len,
                     bytesToBuffer, line, portOut, nOut, got>>

\* write () on a port opened with O_NDELAY may accept only a part, and its
\* result is not looked at.
WritePort ==
  /\ writer = "write"
  /\ \E n \in 0..Len(wbuf) : portOut' = portOut \o Take(wbuf, n)
  /\ wbuf' = << >>
  /\ len' = 0
  /\ WriterWaits
  /\ UNCHANGED <<handle, fReadBuffer, fWriteBuffer, user, comm, bytesToBuffer,
                 line, nOut, got>>

-----------------------------------------------------------------------------
(* The far end of the line                                                 *)

FarEndSends ==
  /\ fCommHandle = 1
  /\ ~hungUp
  /\ nIn < MaxIn
  /\ nIn' = nIn + 1
  /\ portIn' = Append(portIn, nIn')
  /\ UNCHANGED <<handle, fReadBuffer, fWriteBuffer, asleep, user, comm, out,
                 bytesToBuffer, hungUp, portOut, nOut, got>>

FarEndHangsUp ==
  /\ fCommHandle = 1
  /\ ~hungUp
  /\ hungUp' = TRUE
  /\ UNCHANGED <<handle, fReadBuffer, fWriteBuffer, asleep, user, comm, out,
                 bytesToBuffer, portIn, nIn, portOut, nOut, got>>

-----------------------------------------------------------------------------
CommRead == ReaderLoop \/ Select \/ ReadPort \/ PutIncomingData
CommWrite ==
  WriterStarts \/ WriterWakes \/ OutgoingDataSize \/ GetOutgoingData \/ WritePort
\* What the user does inside a call.
Busy == HostSetConfig \/ SignalQuit \/ JoinAndClose \/ WakeCommWrite \/ GetIncomingData

Next ==
  \/ Open \/ Close \/ PutOutgoingData
  \/ \E space \in 1..FifoSize : BytesInBuffer(space)
  \/ Busy \/ CommRead \/ CommWrite
  \/ FarEndSends \/ FarEndHangsUp

Spec == Init /\ [][Next]_vars

\* The three threads are scheduled; nobody has to call, and the far end has
\* to send nothing.
FairSpec == Spec /\ WF_vars(CommRead) /\ WF_vars(CommWrite) /\ WF_vars(Busy)

-----------------------------------------------------------------------------
(* Properties                                                              *)

\* Both directions are serial lines: through all the buffers, across closing
\* and opening again, no byte overtakes another or comes twice.
Out == INSTANCE ByteChannel WITH put <- nOut, arrived <- portOut
OutChannel == Out!Spec
In == INSTANCE ByteChannel WITH put <- nIn, arrived <- got
InChannel == In!Spec
BothChannels == OutChannel /\ InChannel

\* HostClose: a comm thread never outlives the port it uses, so that neither
\* can read from or write to a descriptor that has been closed.
ThreadsNeedPort ==
  fCommHandle = 0 => reader = "none" /\ writer = "none" /\ pipe = "none"

\* DestroyCommThreads' joins return, whatever the comm threads are doing.
CloseEnds == user = "quit" ~> user = "idle"

\* A byte that has reached an open port gets to the buffer the UART reads, as
\* long as the transport stays open.
Within(b, s) == \E i \in 1..Len(s) : s[i] = b
InputArrives ==
  \A b \in 1..MaxIn :
    fCommEstablished /\ Within(b, portIn)
      ~> Within(b, got \o fReadBuffer) \/ ~fCommEstablished

\* PutOutgoingData, the "thread-safe method for adding data to the queue",
\* returns.
WriteReturns == user = "wake" ~> user = "idle"
=============================================================================

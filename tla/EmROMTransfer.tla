--------------------------- MODULE EmROMTransfer ---------------------------
(***************************************************************************)
(* Receiving a ROM image over the serial port with XModem-1k               *)
(* (EmROMTransfer.cpp).  The progress dialog calls Continue again and      *)
(* again; each call reads what has come, and answers it.  The sender is    *)
(* the program on the device, as the notes at the top of the file describe *)
(* it.                                                                     *)
(*                                                                         *)
(* A block crosses the line as two pieces: its head with SOH and its       *)
(* number, and its tail.  Block 0 holds the name and the size.             *)
(***************************************************************************)
EXTENDS Naturals, Sequences

CONSTANTS
  Blocks,      \* the number of blocks of the ROM
  kXModemEof,  \* 4
  kBufferSize, \* pieces that fit into fTempBuffer
  MaxFaults,   \* bound on what the line does
  Faults,      \* of {"head", "tail", "first", "answer"}: what the line may lose
  MaxLate      \* bound on the time-outs that race what is still under way

BlockHead(n) == [kind |-> "head", of |-> n]
Number(n) == [kind |-> "number", of |-> n]      \* a head that has lost its SOH
BlockTail(n) == [kind |-> "tail", of |-> n]
Eof == [kind |-> "eof", of |-> Blocks + 1]
Pieces == {Eof} \union [kind : {"head", "number", "tail"}, of : 0 .. Blocks]

VARIABLES
  current,     \* the sender: the block it is at; Blocks + 1 is the end
  wire,        \* pieces under way
  answers,     \* answers under way
  faults,
  late,        \* time-outs that have raced a block or an answer
  fState, fTempBuffer, fROM, fHaveFirstBlock, fHaveLastBlock, fLastValidBlock

receiver == <<fState, fTempBuffer, fROM, fHaveFirstBlock, fHaveLastBlock, fLastValidBlock>>
romVars == <<current, wire, answers, faults, late, fState, fTempBuffer, fROM, fHaveFirstBlock, fHaveLastBlock, fLastValidBlock>>

RomTypeOK ==
  /\ current \in 0 .. Blocks + 1
  /\ wire \in Seq(Pieces) /\ answers \in Seq({"C", "nak", "ack"})
  /\ fTempBuffer \in Seq(Pieces) /\ Len(fTempBuffer) <= kBufferSize
  /\ fROM \in Seq(1 .. Blocks) /\ Len(fROM) <= Blocks
  /\ fState \in {"kWaitingForTransport", "kOpen", "done"}
  /\ fLastValidBlock \in 0 .. 255 /\ late \in 0 .. MaxLate

RomInit ==
  /\ current = 0 /\ wire = << >> /\ answers = << >> /\ faults = 0 /\ late = 0
  /\ fState = "kWaitingForTransport" /\ fTempBuffer = << >> /\ fROM = << >>
  /\ fHaveFirstBlock = FALSE /\ fHaveLastBlock = FALSE /\ fLastValidBlock = 255

-----------------------------------------------------------------------------
\* The sender: it sends a block again for a nak, and the next for an ack.
Sent(n) == IF n > Blocks THEN <<Eof>> ELSE <<BlockHead(n), BlockTail(n)>>

SenderAnswered ==
  /\ answers # << >> /\ answers' = Tail(answers)
  /\ current' = IF Head(answers) = "ack" /\ current <= Blocks THEN current + 1 ELSE current
  /\ wire' = IF Head(answers) = "ack" /\ current > Blocks THEN wire ELSE wire \o Sent(current')
  /\ UNCHANGED <<faults, late, receiver>>

Fault(f) == f \in Faults /\ faults < MaxFaults /\ faults' = faults + 1

\* The line loses the end of a block, its beginning, or its first byte only; or an answer.
LinePart == /\ wire # << >> /\ UNCHANGED <<current, answers, late, receiver>>
            /\ \/ Fault("tail") /\ Head(wire).kind = "tail" /\ wire' = Tail(wire)
               \/ Fault("head") /\ Head(wire).kind = "head" /\ wire' = Tail(wire)
               \/ Fault("first") /\ Head(wire).kind = "head" /\ wire' = <<Number(Head(wire).of)>> \o Tail(wire)

AnswerLost == /\ answers # << >> /\ Fault("answer") /\ answers' = Tail(answers)
              /\ UNCHANGED <<current, wire, late, receiver>>

-----------------------------------------------------------------------------
WaitForTransport ==
  /\ fState = "kWaitingForTransport" /\ fState' = "kOpen"
  /\ answers' = <<"C">>
  /\ UNCHANGED <<current, wire, faults, late, fTempBuffer, fROM, fHaveFirstBlock, fHaveLastBlock, fLastValidBlock>>

HaveValidBlock(buffer) ==
  /\ Len(buffer) >= 2
  /\ buffer[1].kind = "head" /\ buffer[2] = BlockTail(buffer[1].of)

EofOfABlock(buffer) ==      \* mutant: looked for only once there is as much as a block
  Len(buffer) >= 2 /\ (buffer[1] = Eof \/ (buffer[1].kind = "number" /\ buffer[1].of % 256 = kXModemEof))

FirstByteIsEof(buffer) ==
  /\ buffer # << >>
  /\ buffer[1] = Eof \/ (buffer[1].kind = "number" /\ buffer[1].of % 256 = kXModemEof)

HandleNewBlockTwice(number) ==      \* mutant: the block is copied again
  /\ fROM' = IF fHaveFirstBlock THEN Append(fROM, number) ELSE fROM
  /\ fHaveFirstBlock' = TRUE
  /\ fLastValidBlock' = number % 256

\* A block that comes again, because its acknowledgement was lost, is not copied again.
HandleNewBlock(number) ==
  /\ fROM' = IF fHaveFirstBlock /\ fLastValidBlock # number % 256 THEN Append(fROM, number) ELSE fROM
  /\ fHaveFirstBlock' = TRUE
  /\ fLastValidBlock' = number % 256

\* ReadSomeData when some data has come, of which BufferPendingData takes what fits.
ReadSomeData ==
  /\ fState = "kOpen" /\ wire # << >>
  /\ \E n \in 1 .. (kBufferSize - Len(fTempBuffer)) :
       /\ n <= Len(wire)
       /\ wire' = SubSeq(wire, n + 1, Len(wire))
       /\ LET buffer == fTempBuffer \o SubSeq(wire, 1, n) IN
          CASE HaveValidBlock(buffer) ->
                 /\ HandleNewBlock(buffer[1].of)
                 /\ fTempBuffer' = << >> /\ answers' = Append(answers, "ack")
                 /\ UNCHANGED <<fState, fHaveLastBlock>>
            [] ~HaveValidBlock(buffer) /\ FirstByteIsEof(buffer) ->
                 /\ fHaveLastBlock' = TRUE /\ fState' = "done"
                 /\ fTempBuffer' = buffer /\ answers' = Append(answers, "ack")
                 /\ UNCHANGED <<fROM, fHaveFirstBlock, fLastValidBlock>>
            [] OTHER ->
                 /\ fTempBuffer' = buffer
                 /\ UNCHANGED <<answers, fState, fROM, fHaveFirstBlock, fHaveLastBlock, fLastValidBlock>>
  /\ UNCHANGED <<current, faults, late>>

\* Nothing is under way that would still be read, or answered.
Quiet == answers = << >> /\ (wire = << >> \/ Len(fTempBuffer) = kBufferSize)

\* A time-out that races a block may forget its first byte, when no more has come than that.
Beheaded(pieces) == IF Head(pieces).kind = "head" THEN <<Number(Head(pieces).of)>> \o Tail(pieces) ELSE pieces

Flushed == << >>

\* kTimeout since the last answer, whatever is under way: an answer, or a block.
CheckForTimeouts ==
  /\ fState = "kOpen"
  /\ \/ Quiet /\ UNCHANGED <<wire, late>>
     \/ /\ ~Quiet /\ late < MaxLate /\ late' = late + 1
        /\ wire' = wire \/ (wire # << >> /\ fTempBuffer = << >> /\ wire' = Beheaded(wire))
  /\ fTempBuffer' = Flushed
  /\ answers' = Append(answers, IF fROM # << >> THEN "nak" ELSE "C")
  /\ UNCHANGED <<current, faults, fState, fROM, fHaveFirstBlock, fHaveLastBlock, fLastValidBlock>>

RomNext == SenderAnswered \/ LinePart \/ AnswerLost \/ WaitForTransport \/ ReadSomeData \/ CheckForTimeouts

\* The dialog keeps calling Continue, the sender answers, and the line is not always at fault.
RomSpec == RomInit /\ [][RomNext]_romVars
           /\ WF_romVars(SenderAnswered) /\ WF_romVars(WaitForTransport)
           /\ WF_romVars(ReadSomeData) /\ WF_romVars(CheckForTimeouts)

-----------------------------------------------------------------------------
\* While no time-out has raced anything, what has been put together is the ROM so far, and all
\* of it when the sender's end has come.
BeginningOfROM ==
  late = 0 => /\ fROM = [i \in 1 .. Len(fROM) |-> i]
              /\ fHaveLastBlock /\ fTempBuffer[1] = Eof => Len(fROM) = Blocks

\* However time-outs race blocks and answers, no block is copied twice, or after a later one.
RomOrdered == \A i, j \in 1 .. Len(fROM) : i < j => fROM[i] < fROM[j]

\* HandleNewBlock copies into place what comes: the ROM is intact in both ways.
RomIntact == BeginningOfROM /\ RomOrdered

\* The transfer comes to its end, whatever was lost or asked for twice on the way.
TransferEnds == <>fHaveLastBlock

\* What the code says of itself and does not keep, so that no run checks it:
\* "Check to see whether ... it's the block number we're expecting" (HaveValidBlock), and the
\* EmAssert of HandleNewBlock: after the first, a block is the last one again or the next.
ExpectedBlocks == [][fHaveFirstBlock => fLastValidBlock' \in {fLastValidBlock, (fLastValidBlock + 1) % 256}]_romVars

\* "Return whether or now we have downloaded the entire ROM" (HaveEntireROM).
HaveEntireROM == fHaveLastBlock => Len(fROM) = Blocks
=============================================================================

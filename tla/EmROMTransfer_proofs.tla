------------------------- MODULE EmROMTransfer_proofs -------------------------
(***************************************************************************)
(* What is proved of EmROMTransfer: a ROM of any size arrives intact as    *)
(* long as no time-out races a block or an answer, and no block is ever    *)
(* copied twice or after a later one, however they race.                   *)
(***************************************************************************)
EXTENDS EmROMTransfer, SequenceTheorems, TLAPS

\* A block of two pieces fits into the receiver's buffer.
SafeLine == Blocks \in Nat /\ kBufferSize \in Nat /\ kBufferSize >= 2

\* The block that the receiver waits for; Blocks + 1 is the end.
Expected == IF fHaveFirstBlock THEN Len(fROM) + 1 ELSE 0

\* What has been put together, and what the receiver remembers of it.
Progress ==
  /\ fROM \in Seq(Nat) /\ \A i \in 1 .. Len(fROM) : fROM[i] = i
  /\ fHaveFirstBlock \in BOOLEAN /\ (~fHaveFirstBlock => fROM = << >>)
  /\ Expected <= Blocks + 1
  /\ fLastValidBlock = IF Expected = 0 THEN 255 ELSE (Expected - 1) % 256
  /\ fHaveLastBlock = FALSE

\* At most one message is under way, a block of which each end may be lost.
Heads == {BlockHead(current)} \union {h \in {Number(current)} : "first" \in Faults}

UnderWay ==
  \/ wire = << >> /\ fTempBuffer = << >>
  \/ current = Blocks + 1 /\ wire = <<Eof>> /\ fTempBuffer = << >>
  \/ /\ current <= Blocks
     /\ \/ \E h \in Heads :
             \/ fTempBuffer = << >> /\ wire = <<h, BlockTail(current)>>
             \/ fTempBuffer = <<h>> /\ wire = <<BlockTail(current)>>
             \/ fTempBuffer = <<h>> /\ wire = << >>
             \/ fTempBuffer = <<h, BlockTail(current)>> /\ wire = << >>
        \/ fTempBuffer = << >> /\ wire = <<BlockTail(current)>>
        \/ fTempBuffer = <<BlockTail(current)>> /\ wire = << >>

Answered ==
  \/ answers = << >>
  \/ wire = << >> /\ fTempBuffer = << >> /\ answers = <<"ack">> /\ current + 1 = Expected
  \/ wire = << >> /\ fTempBuffer = << >> /\ answers \in {<<"C">>, <<"nak">>}

\* The sender is at the block the receiver waits for, or at the one before it.
Receiving ==
  /\ fState = "kOpen" /\ Progress
  /\ current \in Nat /\ (current = Expected \/ current + 1 = Expected)
  /\ UnderWay /\ Answered

Waiting ==
  /\ fState = "kWaitingForTransport" /\ Progress
  /\ current = 0 /\ ~fHaveFirstBlock
  /\ wire = << >> /\ answers = << >> /\ fTempBuffer = << >>

Received ==
  /\ fState = "done" /\ fHaveLastBlock = TRUE
  /\ fROM \in Seq(Nat) /\ \A i \in 1 .. Len(fROM) : fROM[i] = i
  /\ fTempBuffer[1] = Eof => Len(fROM) = Blocks

IInv == Waiting \/ Receiving \/ Received

-----------------------------------------------------------------------------
\* What SubSeq and \o do to messages of two pieces.
LEMMA Pairs ==
  ASSUME NEW a, NEW b
  PROVE  /\ Len(<<a, b>>) = 2 /\ <<a, b>>[1] = a /\ <<a, b>>[2] = b
         /\ Head(<<a, b>>) = a /\ Tail(<<a, b>>) = <<b>>
         /\ SubSeq(<<a, b>>, 1, 1) = <<a>> /\ SubSeq(<<a, b>>, 2, 2) = <<b>>
         /\ SubSeq(<<a, b>>, 1, 2) = <<a, b>> /\ SubSeq(<<a, b>>, 3, 2) = << >>
         /\ <<a>> \o <<b>> = <<a, b>> /\ << >> \o <<a, b>> = <<a, b>>
<1> DEFINE S == {a, b}
<1>0. <<a>> \in Seq(S) /\ <<b>> \in Seq(S) /\ <<a, b>> \in Seq(S)
  OBVIOUS
<1>1. Len(<<a, b>>) = 2 /\ <<a, b>>[1] = a /\ <<a, b>>[2] = b /\ Head(<<a, b>>) = a
  OBVIOUS
<1>2. Tail(<<a, b>>) = <<b>>
  OBVIOUS
<1>s. ASSUME NEW m \in 1 .. 3, NEW n \in 1 .. 2
      PROVE  /\ SubSeq(<<a, b>>, m, n) \in Seq(S)
             /\ Len(SubSeq(<<a, b>>, m, n)) = IF m <= n THEN n - m + 1 ELSE 0
             /\ \A i \in 1 .. n - m + 1 : SubSeq(<<a, b>>, m, n)[i] = <<a, b>>[m + i - 1]
  <2>1. \A i \in m .. n : <<a, b>>[i] \in S
    OBVIOUS
  <2> QED
    BY <2>1, SubSeqProperties
<1>3. SubSeq(<<a, b>>, 1, 1) = <<a>>
  <2>1. \A i \in 1 .. 1 : SubSeq(<<a, b>>, 1, 1)[i] = <<a>>[i]
    BY <1>s
  <2>2. SubSeq(<<a, b>>, 1, 1) \in Seq(S) /\ Len(SubSeq(<<a, b>>, 1, 1)) = 1 /\ Len(<<a>>) = 1
    BY <1>s
  <2> QED
    BY <1>0, <2>1, <2>2, SeqEqual
<1>4. SubSeq(<<a, b>>, 2, 2) = <<b>>
  <2>1. \A i \in 1 .. 1 : SubSeq(<<a, b>>, 2, 2)[i] = <<b>>[i]
    BY <1>s
  <2>2. SubSeq(<<a, b>>, 2, 2) \in Seq(S) /\ Len(SubSeq(<<a, b>>, 2, 2)) = 1 /\ Len(<<b>>) = 1
    BY <1>s
  <2> QED
    BY <1>0, <2>1, <2>2, SeqEqual
<1>5. SubSeq(<<a, b>>, 1, 2) = <<a, b>>
  <2>1. \A i \in 1 .. 2 : SubSeq(<<a, b>>, 1, 2)[i] = <<a, b>>[i]
    BY <1>s
  <2>2. SubSeq(<<a, b>>, 1, 2) \in Seq(S) /\ Len(SubSeq(<<a, b>>, 1, 2)) = 2
    BY <1>s
  <2> QED
    BY <1>0, <1>1, <2>1, <2>2, SeqEqual
<1>6. SubSeq(<<a, b>>, 3, 2) = << >>
  BY SubSeqEmpty
<1>7. <<a>> \o <<b>> = <<a, b>>
  <2>1. /\ <<a>> \o <<b>> \in Seq(S) /\ Len(<<a>> \o <<b>>) = Len(<<a>>) + Len(<<b>>)
        /\ \A i \in 1 .. Len(<<a>>) + Len(<<b>>) : (<<a>> \o <<b>>)[i] =
                     IF i <= Len(<<a>>) THEN <<a>>[i] ELSE <<b>>[i - Len(<<a>>)]
    BY <1>0, ConcatProperties
  <2>2. Len(<<a>>) = 1 /\ Len(<<b>>) = 1 /\ <<a>>[1] = a /\ <<b>>[1] = b
    OBVIOUS
  <2>3. Len(<<a>> \o <<b>>) = 2 /\ (<<a>> \o <<b>>)[1] = a
    BY <2>1, <2>2
  <2>4. (<<a>> \o <<b>>)[2] = b
    <3>1. 2 \in 1 .. Len(<<a>>) + Len(<<b>>) /\ ~(2 <= Len(<<a>>)) /\ 2 - Len(<<a>>) = 1
      BY <2>2
    <3> QED
      BY <2>1, <2>2, <3>1
  <2>5. \A i \in 1 .. 2 : (<<a>> \o <<b>>)[i] = <<a, b>>[i]
    <3>1. \A i \in 1 .. 2 : i = 1 \/ i = 2
      OBVIOUS
    <3> QED
      BY <1>1, <2>3, <2>4, <3>1
  <2> QED
    BY <1>0, <1>1, <2>1, <2>3, <2>5, SeqEqual
<1>8. << >> \o <<a, b>> = <<a, b>>
  BY <1>0, ConcatEmptySeq
<1> QED
  BY <1>1, <1>2, <1>3, <1>4, <1>5, <1>6, <1>7, <1>8

LEMMA Singles ==
  ASSUME NEW a
  PROVE  /\ Len(<<a>>) = 1 /\ <<a>>[1] = a /\ Head(<<a>>) = a /\ Tail(<<a>>) = << >>
         /\ SubSeq(<<a>>, 1, 1) = <<a>> /\ SubSeq(<<a>>, 2, 1) = << >>
         /\ << >> \o <<a>> = <<a>> /\ Len(<< >>) = 0 /\ << >> \o << >> = << >>
<1>0. <<a>> \in Seq({a}) /\ << >> \in Seq({a})
  OBVIOUS
<1>1. Len(<<a>>) = 1 /\ <<a>>[1] = a /\ Head(<<a>>) = a /\ Tail(<<a>>) = << >>
  OBVIOUS
<1>2. SubSeq(<<a>>, 1, 1) = <<a>>
  <2>1. /\ SubSeq(<<a>>, 1, 1) \in Seq({a}) /\ Len(SubSeq(<<a>>, 1, 1)) = 1
        /\ \A i \in 1 .. 1 : SubSeq(<<a>>, 1, 1)[i] = <<a>>[1 + i - 1]
    <3>1. \A i \in 1 .. 1 : <<a>>[i] \in {a}
      OBVIOUS
    <3>2. 1 - 1 + 1 = 1
      OBVIOUS
    <3> QED
      BY <3>1, <3>2, SubSeqProperties
  <2>2. \A i \in 1 .. 1 : SubSeq(<<a>>, 1, 1)[i] = <<a>>[i]
    BY <2>1
  <2> QED
    BY <1>0, <1>1, <2>1, <2>2, SeqEqual
<1>3. SubSeq(<<a>>, 2, 1) = << >>
  BY SubSeqEmpty
<1>4. << >> \o <<a>> = <<a>> /\ Len(<< >>) = 0
  BY <1>0, ConcatEmptySeq
<1>5. << >> \o << >> = << >>
  BY <1>0, ConcatEmptySeq
<1> QED
  BY <1>1, <1>2, <1>3, <1>4, <1>5

\* Steps of the sender and of the line leave the receiver alone.
LEMMA ReceiverAlone ==
  ASSUME UNCHANGED receiver
  PROVE  /\ Progress => Progress' /\ Expected' = Expected
         /\ Received => Received'
BY DEF receiver, Progress, Expected, Received, Eof

LEMMA SenderKeeps == ASSUME SafeLine, IInv, SenderAnswered PROVE IInv'
<1>1. UNCHANGED receiver /\ answers # << >> /\ answers' = Tail(answers)
  BY DEF SenderAnswered
<1>2. CASE Received
  BY <1>1, <1>2, ReceiverAlone DEF IInv
<1>3. CASE Waiting
  BY <1>1, <1>3 DEF Waiting
<1>4. CASE Receiving
  <2>1. /\ wire = << >> /\ fTempBuffer = << >>
        /\ \/ answers = <<"ack">> /\ current + 1 = Expected
           \/ answers \in {<<"C">>, <<"nak">>}
    BY <1>1, <1>4 DEF Receiving, Answered
  <2>2. Progress' /\ Expected' = Expected /\ fState' = "kOpen" /\ fTempBuffer' = << >>
    BY <1>1, <1>4, <2>1, ReceiverAlone DEF Receiving, receiver
  <2>3. Expected \in Nat /\ Expected <= Blocks + 1 /\ Blocks \in Nat /\ current \in Nat
    BY <1>4 DEF Receiving, Progress, Expected, SafeLine
  <2>4. answers' = << >>
    BY <1>1, <2>1, Singles
  <2>5. /\ current' \in Nat /\ current' <= Blocks + 1
        /\ current' = Expected \/ current' + 1 = Expected
        /\ wire' = << >> \o Sent(current')
    <3>1. CASE answers = <<"ack">> /\ current + 1 = Expected
      <4>1. Head(answers) = "ack" /\ current <= Blocks
        BY <2>3, <3>1
      <4> QED
        BY <2>1, <2>3, <3>1, <4>1 DEF SenderAnswered
    <3>2. CASE answers \in {<<"C">>, <<"nak">>}
      <4>1. Head(answers) # "ack"
        BY <3>2
      <4> QED
        BY <1>4, <2>1, <2>3, <4>1 DEF SenderAnswered, Receiving
    <3> QED
      BY <2>1, <3>1, <3>2
  <2>6. UnderWay'
    <3>1. CASE current' > Blocks
      <4>1. current' = Blocks + 1 /\ wire' = <<Eof>>
        BY <2>3, <2>5, <3>1, Singles DEF Sent
      <4>2. Blocks' = Blocks /\ Eof' = Eof
        BY DEF Eof
      <4> QED
        BY <2>2, <4>1, <4>2 DEF UnderWay
    <3>2. CASE current' <= Blocks
      <4>1. wire' = <<BlockHead(current'), BlockTail(current')>>
        BY <2>3, <2>5, <3>2, Pairs DEF Sent
      <4>2. BlockHead(current)' \in Heads' /\ BlockHead(current)' = BlockHead(current')
            /\ BlockTail(current)' = BlockTail(current')
        BY DEF Heads, BlockHead, BlockTail
      <4> QED
        BY <2>2, <3>2, <4>1, <4>2 DEF UnderWay
    <3> QED
      BY <2>3, <2>5, <3>1, <3>2
  <2> QED
    BY <2>2, <2>4, <2>5, <2>6 DEF IInv, Receiving, Answered
<1> QED
  BY <1>2, <1>3, <1>4 DEF IInv

LEMMA LineKeeps == ASSUME SafeLine, IInv, LinePart PROVE IInv'
<1>1. UNCHANGED receiver /\ wire # << >> /\ UNCHANGED <<current, answers>>
  BY DEF LinePart
<1>2. CASE Received
  BY <1>1, <1>2, ReceiverAlone DEF IInv
<1>3. CASE Waiting
  BY <1>1, <1>3 DEF Waiting
<1>4. CASE Receiving
  <2>1. answers = << >>
    BY <1>1, <1>4 DEF Receiving, Answered
  <2>2. Progress' /\ Expected' = Expected /\ fState' = "kOpen" /\ fTempBuffer' = fTempBuffer
    BY <1>1, <1>4, ReceiverAlone DEF Receiving, receiver
  <2> DEFINE T == BlockTail(current)
  <2>3. T' = T /\ Heads' = Heads
    BY <1>1 DEF Heads, BlockHead, BlockTail, Number
  <2>4. T.kind = "tail" /\ Eof.kind = "eof" /\ BlockHead(current).kind = "head"
        /\ BlockHead(current).of = current /\ Number(current).kind = "number"
    BY DEF BlockTail, BlockHead, Number, Eof
  <2>5. UnderWay'
    <3>1. CASE Fault("tail") /\ Head(wire).kind = "tail" /\ wire' = Tail(wire)
      <4>0. wire # <<Eof>>
        BY <2>4, <3>1, Singles
      <4>1. ASSUME NEW h \in Heads PROVE wire # <<h, T>>
        <5>1. h.kind # "tail"
          BY <2>4 DEF Heads
        <5> QED
          BY <3>1, <5>1, Pairs
      <4>2. /\ current <= Blocks /\ wire = <<T>>
            /\ fTempBuffer = << >> \/ \E h \in Heads : fTempBuffer = <<h>>
        BY <1>1, <1>4, <4>0, <4>1, Zenon DEF Receiving, UnderWay
      <4>3. wire' = << >>
        BY <3>1, <4>2, Singles
      <4> QED
        BY <1>1, <2>2, <2>3, <4>2, <4>3 DEF UnderWay
    <3>2. CASE Fault("head") /\ Head(wire).kind = "head" /\ wire' = Tail(wire)
      <4>0. wire # <<Eof>> /\ wire # <<T>>
        BY <2>4, <3>2, Singles
      <4>1. PICK h \in Heads : current <= Blocks /\ fTempBuffer = << >> /\ wire = <<h, T>>
        BY <1>1, <1>4, <4>0, Zenon DEF Receiving, UnderWay
      <4>2. wire' = <<T>>
        BY <3>2, <4>1, Pairs
      <4> QED
        BY <1>1, <2>2, <2>3, <4>1, <4>2 DEF UnderWay
    <3>3. CASE /\ Fault("first") /\ Head(wire).kind = "head"
               /\ wire' = <<Number(Head(wire).of)>> \o Tail(wire)
      <4>0. wire # <<Eof>> /\ wire # <<T>>
        BY <2>4, <3>3, Singles
      <4>1. PICK h \in Heads : current <= Blocks /\ fTempBuffer = << >> /\ wire = <<h, T>>
        BY <1>1, <1>4, <4>0, Zenon DEF Receiving, UnderWay
      <4>2. Head(wire) = h /\ Tail(wire) = <<T>>
        BY <4>1, Pairs
      <4>3. h = BlockHead(current)
        BY <2>4, <3>3, <4>1, <4>2 DEF Heads
      <4>4. wire' = <<Number(current), T>>
        <5>1. wire' = <<Number(current)>> \o <<T>>
          BY <2>4, <3>3, <4>2, <4>3
        <5> HIDE DEF T
        <5> QED
          BY <5>1, Pairs
      <4>5. Number(current) \in Heads
        BY <3>3 DEF Heads, Fault
      <4> QED
        BY <1>1, <2>2, <2>3, <4>1, <4>4, <4>5 DEF UnderWay
    <3> QED
      BY <3>1, <3>2, <3>3 DEF LinePart
  <2> QED
    BY <1>1, <1>4, <2>1, <2>2, <2>5 DEF IInv, Receiving, Answered
<1> QED
  BY <1>2, <1>3, <1>4 DEF IInv

LEMMA LostKeeps == ASSUME SafeLine, IInv, AnswerLost PROVE IInv'
<1>1. UNCHANGED receiver /\ answers # << >> /\ answers' = Tail(answers) /\ UNCHANGED <<current, wire>>
  BY DEF AnswerLost
<1>2. CASE Received
  BY <1>1, <1>2, ReceiverAlone DEF IInv
<1>3. CASE Waiting
  BY <1>1, <1>3 DEF Waiting
<1>4. CASE Receiving
  <2>1. answers' = << >> /\ wire = << >> /\ fTempBuffer = << >>
    BY <1>1, <1>4, Singles DEF Receiving, Answered
  <2>2. Progress' /\ Expected' = Expected
    BY <1>1, <1>4, ReceiverAlone DEF Receiving
  <2> QED
    BY <1>1, <1>4, <2>1, <2>2 DEF IInv, Receiving, UnderWay, Answered, receiver
<1> QED
  BY <1>2, <1>3, <1>4 DEF IInv

LEMMA StartKeeps == ASSUME SafeLine, IInv, WaitForTransport PROVE IInv'
<1>1. Waiting
  BY DEF IInv, WaitForTransport, Receiving, Received
<1>2. /\ fState' = "kOpen" /\ answers' = <<"C">>
      /\ UNCHANGED <<current, wire, fTempBuffer, fROM, fHaveFirstBlock, fHaveLastBlock, fLastValidBlock>>
  BY DEF WaitForTransport
<1>3. Progress' /\ Expected' = 0
  BY <1>1, <1>2 DEF Waiting, Progress, Expected
<1> QED
  BY <1>1, <1>2, <1>3 DEF IInv, Waiting, Receiving, UnderWay, Answered

LEMMA TimeoutKeeps ==
  ASSUME SafeLine, IInv, CheckForTimeouts, late = 0, late' = 0
  PROVE  IInv'
<1>1. Receiving
  BY DEF IInv, CheckForTimeouts, Waiting, Received
<1>2. Quiet /\ UNCHANGED wire
  BY DEF CheckForTimeouts
<1>3. wire = << >>
  <2>1. CASE Len(fTempBuffer) = kBufferSize
    <3>1. kBufferSize \in Nat /\ kBufferSize >= 2
      BY DEF SafeLine
    <3>2. ASSUME NEW p, fTempBuffer = <<p>> PROVE FALSE
      <4>1. Len(fTempBuffer) = 1
        BY <3>2, Singles
      <4> QED
        BY <2>1, <3>1, <4>1
    <3>3. ASSUME fTempBuffer = << >> PROVE FALSE
      <4>1. Len(fTempBuffer) = 0
        BY <3>3, Singles
      <4> QED
        BY <2>1, <3>1, <4>1
    <3> QED
      BY <1>1, <3>2, <3>3, Zenon DEF Receiving, UnderWay
  <2> QED
    BY <1>2, <2>1 DEF Quiet
<1>4. /\ wire' = << >> /\ fTempBuffer' = << >> /\ fState' = "kOpen"
      /\ answers' \in {<<"C">>, <<"nak">>}
      /\ UNCHANGED <<current, fROM, fHaveFirstBlock, fHaveLastBlock, fLastValidBlock>>
  BY <1>1, <1>2, <1>3, Singles DEF CheckForTimeouts, Quiet, Flushed, Receiving
<1>5. Progress' /\ Expected' = Expected
  BY <1>1, <1>4 DEF Receiving, Progress, Expected
<1> QED
  BY <1>1, <1>4, <1>5 DEF IInv, Receiving, UnderWay, Answered

\* The numbers of two blocks that follow one another are told apart in a byte.
LEMMA Numbers == \A n \in Nat \ {0} : n % 256 # (n - 1) % 256
OBVIOUS

\* What a block that has come whole makes of the ROM: it is appended when it is the expected
\* one, and only acknowledged when it comes again.
LEMMA BlockKeeps ==
  ASSUME SafeLine, Progress, current \in Nat, current <= Blocks,
         current = Expected \/ current + 1 = Expected,
         HandleNewBlock(current), UNCHANGED fHaveLastBlock
  PROVE  Progress' /\ current + 1 = Expected'
<1>1. /\ fHaveFirstBlock' = TRUE /\ fLastValidBlock' = current % 256
      /\ fROM' = IF fHaveFirstBlock /\ fLastValidBlock # current % 256
                 THEN Append(fROM, current) ELSE fROM
  BY DEF HandleNewBlock
<1>2. fROM \in Seq(Nat) /\ Len(fROM) \in Nat /\ Blocks \in Nat /\ fHaveLastBlock' = FALSE
  BY DEF Progress, SafeLine
<1>3. Expected' = Len(fROM') + 1
  BY <1>1 DEF Expected
<1>4. CASE ~fHaveFirstBlock
  <2>1. Expected = 0 /\ current = 0 /\ fROM = << >> /\ Len(fROM) = 0
    BY <1>4 DEF Expected, Progress
  <2>2. fROM' = fROM /\ Expected' = 1
    BY <1>1, <1>3, <1>4, <2>1
  <2> QED
    BY <1>1, <1>2, <2>1, <2>2 DEF Progress
<1>5. CASE fHaveFirstBlock /\ current + 1 = Expected
  <2>1. Expected = Len(fROM) + 1 /\ current = Len(fROM)
    BY <1>2, <1>5 DEF Expected
  <2>2. fLastValidBlock = current % 256
    BY <1>2, <2>1 DEF Progress
  <2>3. fROM' = fROM /\ Expected' = Expected
    BY <1>1, <1>3, <2>1, <2>2
  <2> QED
    BY <1>1, <1>2, <1>5, <2>1, <2>2, <2>3 DEF Progress
<1>6. CASE fHaveFirstBlock /\ current = Expected
  <2>1. current = Len(fROM) + 1 /\ current \in Nat \ {0}
    BY <1>2, <1>6 DEF Expected
  <2>2. fLastValidBlock = (current - 1) % 256
    BY <1>2, <1>6, <2>1 DEF Progress
  <2>3. fROM' = Append(fROM, current)
    BY <1>1, <1>6, <2>1, <2>2, Numbers
  <2>4. /\ fROM' \in Seq(Nat) /\ Len(fROM') = current
        /\ \A i \in 1 .. Len(fROM') : fROM'[i] = i
    BY <1>2, <2>1, <2>3 DEF Progress
  <2>5. Expected' = current + 1
    BY <1>3, <2>4
  <2> QED
    BY <1>1, <1>2, <2>1, <2>4, <2>5, SMTT(40) DEF Progress
<1> QED
  BY <1>4, <1>5, <1>6 DEF Progress

\* No part of a block is the sender's end, even if it is taken for it.
LEMMA NoFalseEnd ==
  ASSUME current \in Nat, NEW h \in Heads \union {BlockTail(current)},
         NEW rest \in {<<h>>, <<h, BlockTail(current)>>}
  PROVE  rest[1] # Eof
<1>1. rest[1] = h
  BY Pairs, Singles
<1>2. h.kind \in {"head", "number", "tail"}
  BY DEF Heads, BlockHead, Number, BlockTail
<1> QED
  BY <1>1, <1>2 DEF Eof

LEMMA ReadKeeps == ASSUME SafeLine, IInv, ReadSomeData PROVE IInv'
<1>1. /\ Receiving /\ wire # << >> /\ UNCHANGED current
  BY DEF ReadSomeData, IInv, Waiting, Received
<1>2. answers = << >> /\ Blocks \in Nat /\ kBufferSize \in Nat /\ current \in Nat
  BY <1>1 DEF Receiving, Answered, SafeLine
<1> DEFINE T == BlockTail(current)
           Bytes(n) == fTempBuffer \o SubSeq(wire, 1, n)
<1>3. PICK n \in 1 .. (kBufferSize - Len(fTempBuffer)) :
        /\ n <= Len(wire) /\ wire' = SubSeq(wire, n + 1, Len(wire))
        /\ CASE HaveValidBlock(Bytes(n)) ->
                 /\ HandleNewBlock(Bytes(n)[1].of)
                 /\ fTempBuffer' = << >> /\ answers' = Append(answers, "ack")
                 /\ UNCHANGED <<fState, fHaveLastBlock>>
            [] ~HaveValidBlock(Bytes(n)) /\ FirstByteIsEof(Bytes(n)) ->
                 /\ fHaveLastBlock' = TRUE /\ fState' = "done"
                 /\ fTempBuffer' = Bytes(n) /\ answers' = Append(answers, "ack")
                 /\ UNCHANGED <<fROM, fHaveFirstBlock, fLastValidBlock>>
            [] OTHER ->
                 /\ fTempBuffer' = Bytes(n)
                 /\ UNCHANGED <<answers, fState, fROM, fHaveFirstBlock, fHaveLastBlock, fLastValidBlock>>
  BY DEF ReadSomeData
<1> DEFINE buffer == Bytes(n)
<1>4. \/ current = Blocks + 1 /\ buffer = <<Eof>>
      \/ /\ current <= Blocks
         /\ \/ \E h \in Heads : \/ buffer = <<h>> /\ wire' = <<T>>
                                \/ buffer = <<h, T>> /\ wire' = << >>
            \/ buffer = <<T>> /\ wire' = << >>
  <2>0. n \in Nat /\ n >= 1 /\ n <= Len(wire) /\ wire' = SubSeq(wire, n + 1, Len(wire))
    <3>1. Len(fTempBuffer) \in Nat
      <4> HIDE DEF T
      <4> QED
      BY <1>1, Pairs, Singles DEF Receiving, UnderWay
    <3> QED
      BY <1>2, <1>3, <3>1
  <2>1. CASE current = Blocks + 1 /\ wire = <<Eof>> /\ fTempBuffer = << >>
    <3>1. n = 1
      BY <2>0, <2>1, Singles
    <3> QED
      BY <2>1, <3>1, Singles
  <2>2. CASE current <= Blocks /\ \E h \in Heads : fTempBuffer = << >> /\ wire = <<h, T>>
    <3>1. PICK h \in Heads : fTempBuffer = << >> /\ wire = <<h, T>>
      BY <2>2
    <3> HIDE DEF T
    <3>0. Len(wire) = 2
      BY <3>1, Pairs
    <3>2. n = 1 \/ n = 2
      BY <2>0, <3>0
    <3>3. CASE n = 1
      <4>1. buffer = <<h>>
        <5>1. SubSeq(wire, 1, n) = SubSeq(<<h, T>>, 1, 1)
          BY <3>1, <3>3
        <5>2. buffer = << >> \o <<h>>
          BY <3>1, <5>1, Pairs
        <5> QED
          BY <5>2, Singles
      <4>2. wire' = <<T>>
        <5>1. wire' = SubSeq(<<h, T>>, 2, 2)
          BY <2>0, <3>0, <3>1, <3>3
        <5> QED
          BY <5>1, Pairs
      <4> HIDE DEF buffer
      <4>3. \E g \in Heads : buffer = <<g>> /\ wire' = <<T>>
        BY <4>1, <4>2
      <4> QED
        BY <2>2, <4>3, Zenon
    <3>4. CASE n = 2
      <4>1. buffer = <<h, T>>
        <5>1. SubSeq(wire, 1, n) = SubSeq(<<h, T>>, 1, 2)
          BY <3>1, <3>4
        <5>2. buffer = << >> \o <<h, T>>
          BY <3>1, <5>1, Pairs
        <5> QED
          BY <5>2, Pairs
      <4>2. wire' = << >>
        <5>1. wire' = SubSeq(<<h, T>>, 3, 2)
          BY <2>0, <3>0, <3>1, <3>4
        <5> QED
          BY <5>1, Pairs
      <4> HIDE DEF buffer
      <4> QED
        BY <2>2, <4>1, <4>2
    <3> QED
      BY <3>2, <3>3, <3>4
  <2>3. CASE current <= Blocks /\ wire = <<T>>
    <3> HIDE DEF T
    <3>1. n = 1 /\ wire' = << >> /\ SubSeq(wire, 1, n) = <<T>>
      <4>1. n = 1
        BY <2>0, <2>3, Singles
      <4> QED
        BY <2>0, <2>3, <4>1, Singles
    <3>2. CASE fTempBuffer = << >>
      BY <2>3, <3>1, <3>2, Singles
    <3>3. CASE \E h \in Heads : fTempBuffer = <<h>>
      <4>1. PICK h \in Heads : fTempBuffer = <<h>>
        BY <3>3
      <4>2. buffer = <<h, T>>
        <5>1. buffer = <<h>> \o <<T>>
          BY <3>1, <4>1
        <5> QED
          BY <5>1, Pairs
      <4> QED
        BY <2>3, <3>1, <4>2
    <3>4. fTempBuffer = << >> \/ \E h \in Heads : fTempBuffer = <<h>>
      <4>1. wire # << >>
        BY <1>1
      <4>2. \A h \in Heads : wire # <<h, T>>
        BY <2>3, Pairs, Singles
      <4>3. UnderWay
        BY <1>1 DEF Receiving
      <4>4. wire # <<Eof>>
        BY <2>3, Singles DEF T, BlockTail, Eof
      <4> QED
        BY <4>1, <4>2, <4>3, <4>4, Zenon DEF UnderWay, T
    <3> QED
      BY <3>2, <3>3, <3>4
  <2>4. UnderWay /\ wire # << >>
    BY <1>1 DEF Receiving
  <2> HIDE DEF buffer
  <2> QED
    BY <2>1, <2>2, <2>3, <2>4, Zenon DEF UnderWay
<1>5. CASE current = Blocks + 1 /\ buffer = <<Eof>>
  <2>1. ~HaveValidBlock(buffer) /\ FirstByteIsEof(buffer)
    <3> HIDE DEF buffer
    <3>1. Len(buffer) = 1 /\ buffer[1] = Eof
      BY <1>5, Singles
    <3>2. buffer # << >>
      BY <3>1, Singles
    <3> QED
      BY <3>1, <3>2 DEF HaveValidBlock, FirstByteIsEof
  <2>2. fState' = "done" /\ fHaveLastBlock' = TRUE /\ fROM' = fROM
    BY <1>3, <2>1
  <2>3. Len(fROM) = Blocks
    BY <1>1, <1>2, <1>5 DEF Receiving, Progress, Expected
  <2> HIDE DEF buffer
  <2> QED
    BY <1>1, <2>2, <2>3 DEF IInv, Received, Receiving, Progress
<1>6. CASE current <= Blocks /\ buffer = <<BlockHead(current), T>> /\ wire' = << >>
  <2>1. buffer[1] = BlockHead(current) /\ Len(buffer) = 2 /\ buffer[2] = T
    <3> HIDE DEF buffer, T
    <3> QED
      BY <1>6, Pairs
  <2>2. BlockHead(current).kind = "head" /\ BlockHead(current).of = current
    BY DEF BlockHead
  <2>3. HaveValidBlock(buffer)
    BY <2>1, <2>2 DEF HaveValidBlock
  <2>4. /\ HandleNewBlock(current)
        /\ fTempBuffer' = << >> /\ answers' = Append(answers, "ack")
        /\ UNCHANGED <<fState, fHaveLastBlock>>
    BY <1>3, <2>1, <2>2, <2>3
  <2>5. Progress' /\ current + 1 = Expected'
    BY <1>1, <1>2, <1>6, <2>4, BlockKeeps DEF Receiving
  <2>6. answers' = <<"ack">>
    BY <1>2, <2>4
  <2> QED
    BY <1>1, <1>2, <1>6, <2>4, <2>5, <2>6 DEF IInv, Receiving, UnderWay, Answered
<1>7. ASSUME current <= Blocks, ~HaveValidBlock(buffer),
             \/ \E h \in Heads : \/ buffer = <<h>> /\ wire' = <<T>>
                                 \/ buffer = <<h, T>> /\ wire' = << >>
             \/ buffer = <<T>> /\ wire' = << >>
      PROVE  IInv'
  <2>a. CASE FirstByteIsEof(buffer)
    <3>1. buffer[1] # Eof
      BY <1>2, <1>7, NoFalseEnd
    <3>2. fHaveLastBlock' = TRUE /\ fState' = "done" /\ fTempBuffer' = buffer /\ fROM' = fROM
      BY <1>3, <1>7, <2>a
    <3>3. Eof' = Eof
      BY DEF Eof
    <3> HIDE DEF buffer
    <3>4. Received'
      BY <1>1, <3>1, <3>2, <3>3 DEF Received, Receiving, Progress
    <3> QED
      BY <3>4 DEF IInv
  <2>b. CASE ~FirstByteIsEof(buffer)
    <3>2. /\ fTempBuffer' = buffer
          /\ UNCHANGED <<answers, fState, fROM, fHaveFirstBlock, fHaveLastBlock, fLastValidBlock>>
      BY <1>3, <1>7, <2>b
    <3>3. Progress' /\ Expected' = Expected
      BY <1>1, <3>2 DEF Progress, Expected, Receiving
    <3>4. T' = T /\ Heads' = Heads
      BY <1>1 DEF Heads, BlockHead, BlockTail, Number
    <3>5. UnderWay'
      <4> HIDE DEF buffer
      <4> QED
        BY <1>1, <1>7, <3>2, <3>4 DEF UnderWay
    <3> QED
      BY <1>1, <1>2, <3>2, <3>3, <3>5 DEF IInv, Receiving, Answered
  <2> QED
    BY <2>a, <2>b
<1>8. ASSUME NEW h \in Heads, HaveValidBlock(buffer), buffer = <<h, T>>
      PROVE  h = BlockHead(current)
  <2>1. h.kind = "head"
    <3> HIDE DEF buffer, T
    <3>1. buffer[1] = h
      BY <1>8, Pairs
    <3> QED
      BY <1>8, <3>1 DEF HaveValidBlock
  <2> QED
    BY <2>1 DEF Heads, Number
<1>9. ASSUME HaveValidBlock(buffer) PROVE ~(\E h \in Heads \union {T} : buffer = <<h>>)
  BY <1>9, Singles DEF HaveValidBlock
<1> HIDE DEF buffer, T
<1> QED
  BY <1>4, <1>5, <1>6, <1>7, <1>8, <1>9

\* Until a time-out races something, every message is answered before the next is sent.
Orderly == late \in Nat /\ (late = 0 => IInv)

\* A ROM of any size is put together in order, whatever the line loses of blocks and answers,
\* as long as no time-out races what is under way, and it is complete when the sender's end has
\* come (EmROMTransfer.cpp:345-486).
THEOREM Beginning == ASSUME SafeLine PROVE RomSpec => []BeginningOfROM
<1>1. RomInit => Orderly
  <2>1. ASSUME RomInit PROVE Progress
    <3>1. Expected = 0 /\ Len(fROM) = 0 /\ fROM \in Seq(Nat) /\ Blocks \in Nat
      BY <2>1, Singles DEF RomInit, Expected, SafeLine
    <3>2. fROM = << >> /\ fHaveFirstBlock = FALSE /\ fHaveLastBlock = FALSE /\ fLastValidBlock = 255
      BY <2>1 DEF RomInit
    <3>3. \A i \in 1 .. Len(fROM) : fROM[i] = i
      BY <3>1
    <3>4. Expected <= Blocks + 1
      BY <3>1
    <3>5. fLastValidBlock = IF Expected = 0 THEN 255 ELSE (Expected - 1) % 256
      BY <3>1, <3>2
    <3>6. fHaveFirstBlock \in BOOLEAN
      BY <3>2
    <3> QED
      <4> HIDE DEF Expected
      <4>1. fROM \in Seq(Nat) /\ \A i \in 1 .. Len(fROM) : fROM[i] = i
        BY <3>1, <3>3
      <4>2. ~fHaveFirstBlock => fROM = << >>
        BY <3>2
      <4>3. fHaveLastBlock = FALSE
        BY <3>2
      <4> QED
        BY <3>4, <3>5, <3>6, <4>1, <4>2, <4>3, Zenon DEF Progress
  <2>2. ASSUME RomInit PROVE Waiting
    <3>1. Progress
      BY <2>1, <2>2
    <3> QED
      BY <2>2, <3>1 DEF RomInit, Waiting
  <2>3. RomInit => late = 0
    BY DEF RomInit
  <2> QED
    BY <2>2, <2>3 DEF IInv, Orderly
<1>2. Orderly /\ [RomNext]_romVars => Orderly'
  <2>1. CASE RomNext
    <3>1. ASSUME IInv, late = 0, late' = 0 PROVE IInv'
      BY <2>1, <3>1, SenderKeeps, LineKeeps, LostKeeps, StartKeeps, ReadKeeps, TimeoutKeeps DEF RomNext
    <3>2. UNCHANGED late \/ late' = late + 1
      BY <2>1 DEF RomNext, SenderAnswered, LinePart, AnswerLost, WaitForTransport, ReadSomeData,
                  CheckForTimeouts
    <3>3. ASSUME Orderly PROVE Orderly'
      <4>1. late' \in Nat /\ (late' = 0 => late = 0)
        BY <3>2, <3>3 DEF Orderly
      <4> QED
        BY <3>1, <3>3, <4>1 DEF Orderly
    <3> QED
      BY <3>3
  <2>2. CASE UNCHANGED romVars
    <3>1. /\ UNCHANGED receiver /\ UNCHANGED <<fState, fTempBuffer, fHaveFirstBlock>>
          /\ UNCHANGED <<current, wire, answers, late>>
      BY <2>2 DEF romVars, receiver
    <3>2. Eof' = Eof /\ Heads' = Heads /\ BlockTail(current)' = BlockTail(current)
      BY <3>1 DEF Eof, Heads, BlockHead, BlockTail, Number
    <3>3. Waiting => Waiting'
      BY <3>1, ReceiverAlone DEF Waiting
    <3>4. Receiving => Receiving'
      <4>1. UnderWay => UnderWay'
        <5>1. Blocks' = Blocks /\ wire' = wire /\ fTempBuffer' = fTempBuffer /\ current' = current
          BY <3>1
        <5> DEFINE T == BlockTail(current)
        <5>2. T' = T
          BY <3>2
        <5> HIDE DEF T
        <5> QED
          BY <3>2, <5>1, <5>2 DEF UnderWay, T
      <4>2. Expected' = Expected
        BY <3>1 DEF Expected, receiver
      <4>3. Answered => Answered'
        BY <3>1, <4>2 DEF Answered
      <4> QED
        BY <3>1, <4>1, <4>2, <4>3, ReceiverAlone DEF Receiving
    <3>5. Received => Received'
      BY <3>1, ReceiverAlone
    <3> QED
      BY <3>1, <3>3, <3>4, <3>5 DEF Orderly, IInv
  <2> QED
    BY <2>1, <2>2
<1>3. Orderly => BeginningOfROM
  <2>1. ASSUME fROM \in Seq(Nat), \A i \in 1 .. Len(fROM) : fROM[i] = i
        PROVE  fROM = [i \in 1 .. Len(fROM) |-> i]
    BY <2>1
  <2> QED
    BY <2>1 DEF Orderly, IInv, Waiting, Receiving, Received, Progress, BeginningOfROM
<1> QED
  BY <1>1, <1>2, <1>3, PTL DEF RomSpec

-----------------------------------------------------------------------------
\* The order of the blocks, for which it does not matter what the line or a time-out does.
AnyPiece == [kind : {"eof", "head", "number", "tail"}, of : Nat]

\* Nothing that comes is older than n, the block taken last, and what is under way grows in age
\* towards the receiver.
After(n) ==
  /\ n <= current
  /\ \A i \in 1 .. Len(fROM) : fROM[i] <= n
  /\ \A i \in 1 .. Len(fTempBuffer) : fTempBuffer[i].of >= n
  /\ \A i \in 1 .. Len(wire) : wire[i].of >= n
  /\ fHaveFirstBlock => fLastValidBlock = n % 256

InOrder ==
  /\ current \in Nat /\ current <= Blocks + 1
  /\ wire \in Seq(AnyPiece) /\ fTempBuffer \in Seq(AnyPiece) /\ fROM \in Seq(Nat)
  /\ \A i \in 1 .. Len(wire) : wire[i].of <= current
  /\ \A i, j \in 1 .. Len(wire) : i < j => wire[i].of <= wire[j].of
  /\ \A i \in 1 .. Len(fTempBuffer), j \in 1 .. Len(wire) : fTempBuffer[i].of <= wire[j].of
  /\ \A i \in 1 .. Len(fTempBuffer) : fTempBuffer[i].of <= current
  /\ \E n \in Nat : After(n)
  /\ RomOrdered

LEMMA Aged == \A p \in AnyPiece : p.of \in Nat
BY DEF AnyPiece

\* The sender's answer is a block at its number, or its end.
LEMMA SentPieces ==
  ASSUME Blocks \in Nat, NEW n \in Nat, n <= Blocks + 1
  PROVE  /\ Sent(n) \in Seq(AnyPiece)
         /\ \A i \in 1 .. Len(Sent(n)) : Sent(n)[i].of = n
<1>1. CASE n > Blocks
  <2>1. Sent(n) = <<Eof>> /\ Eof.of = n /\ Eof \in AnyPiece
    BY <1>1 DEF Sent, Eof, AnyPiece
  <2> HIDE DEF Sent
  <2>2. <<Eof>> \in Seq(AnyPiece) /\ Len(<<Eof>>) = 1 /\ <<Eof>>[1] = Eof
    BY <2>1, Singles
  <2> QED
    BY <2>1, <2>2
<1>2. CASE n <= Blocks
  <2> DEFINE h == BlockHead(n)
             t == BlockTail(n)
  <2>1. Sent(n) = <<h, t>> /\ h.of = n /\ t.of = n /\ h \in AnyPiece /\ t \in AnyPiece
    BY <1>2 DEF Sent, BlockHead, BlockTail, AnyPiece
  <2> HIDE DEF h, t
  <2>2. <<h, t>> \in Seq(AnyPiece) /\ Len(<<h, t>>) = 2 /\ <<h, t>>[1] = h /\ <<h, t>>[2] = t
    BY <2>1, Pairs
  <2>3. \A i \in 1 .. 2 : i = 1 \/ i = 2
    OBVIOUS
  <2> QED
    BY <2>1, <2>2, <2>3
<1> QED
  BY <1>1, <1>2

\* What is sent comes after all that is under way.
LEMMA SenderInOrder == ASSUME Blocks \in Nat, InOrder, SenderAnswered PROVE InOrder'
<1> DEFINE S == Sent(current')
<1>1. /\ current' \in Nat /\ current' <= Blocks + 1 /\ current <= current'
      /\ wire' = wire \/ wire' = wire \o S
      /\ UNCHANGED <<fTempBuffer, fROM, fHaveFirstBlock, fLastValidBlock>>
  BY DEF InOrder, SenderAnswered, receiver
<1>2. S \in Seq(AnyPiece) /\ \A i \in 1 .. Len(S) : S[i].of = current'
  BY <1>1, SentPieces
<1> HIDE DEF S
<1>3. /\ wire' \in Seq(AnyPiece) /\ wire \in Seq(AnyPiece) /\ Len(wire) \in Nat /\ Len(wire') \in Nat
      /\ \A i \in 1 .. Len(wire') : \/ i \in 1 .. Len(wire) /\ wire'[i] = wire[i]
                                    \/ i > Len(wire) /\ wire'[i].of = current'
  <2>0. wire \in Seq(AnyPiece) /\ Len(wire) \in Nat
    BY DEF InOrder
  <2>1. CASE wire' = wire
    BY <2>0, <2>1
  <2>2. CASE wire' = wire \o S
    <3>1. /\ wire' \in Seq(AnyPiece) /\ Len(wire') = Len(wire) + Len(S)
          /\ \A i \in 1 .. Len(wire) + Len(S) :
                 wire'[i] = IF i <= Len(wire) THEN wire[i] ELSE S[i - Len(wire)]
      BY <1>2, <2>0, <2>2, ConcatProperties
    <3>2. Len(S) \in Nat
      BY <1>2
    <3> QED
      BY <1>2, <2>0, <3>1, <3>2
  <2> QED
    BY <1>1, <2>1, <2>2
<1>4. /\ \A i \in 1 .. Len(wire') : wire'[i].of <= current' /\ wire'[i].of \in Nat
      /\ \A i \in 1 .. Len(wire) : wire[i].of \in Nat /\ wire[i].of <= current /\ wire[i].of <= current'
  <2>1. \A i \in 1 .. Len(wire) : wire[i].of \in Nat /\ wire[i].of <= current
    <3>1. \A i \in 1 .. Len(wire) : wire[i] \in AnyPiece
      BY <1>3
    <3> QED
      BY <3>1, Aged DEF InOrder
  <2>2. \A i \in 1 .. Len(wire) : wire[i].of <= current'
    BY <1>1, <2>1 DEF InOrder
  <2>3. \A i \in 1 .. Len(wire') : wire'[i].of <= current' /\ wire'[i].of \in Nat
    BY <1>1, <1>3, <2>1, <2>2
  <2> QED
    BY <2>1, <2>2, <2>3
<1>5. \A i, j \in 1 .. Len(wire') : i < j => wire'[i].of <= wire'[j].of
  <2> SUFFICES ASSUME NEW i \in 1 .. Len(wire'), NEW j \in 1 .. Len(wire'), i < j
               PROVE  wire'[i].of <= wire'[j].of
    OBVIOUS
  <2>1. CASE j > Len(wire) /\ wire'[j].of = current'
    BY <1>4, <2>1
  <2>2. CASE j \in 1 .. Len(wire) /\ wire'[j] = wire[j]
    <3>1. i \in 1 .. Len(wire) /\ wire'[i] = wire[i]
      BY <1>3, <2>2
    <3> QED
      BY <2>2, <3>1 DEF InOrder
  <2> QED
    BY <1>3, <2>1, <2>2
<1>6. \A i \in 1 .. Len(fTempBuffer) : fTempBuffer[i].of \in Nat /\ fTempBuffer[i].of <= current'
  <2>1. \A i \in 1 .. Len(fTempBuffer) : fTempBuffer[i].of \in Nat
    <3>1. fTempBuffer \in Seq(AnyPiece)
      BY DEF InOrder
    <3>2. \A i \in 1 .. Len(fTempBuffer) : fTempBuffer[i] \in AnyPiece
      BY <3>1
    <3> QED
      BY <3>2, Aged
  <2> QED
    BY <1>1, <2>1 DEF InOrder
<1>7. \A i \in 1 .. Len(fTempBuffer), j \in 1 .. Len(wire') : fTempBuffer[i].of <= wire'[j].of
  BY <1>1, <1>3, <1>6 DEF InOrder
<1>8. \E n \in Nat : After(n)'
  <2>1. PICK n \in Nat : After(n)
    BY DEF InOrder
  <2>2. n <= current'
    BY <1>1, <2>1 DEF After, InOrder
  <2>3. \A i \in 1 .. Len(wire) : wire[i].of >= n
    BY <2>1 DEF After
  <2>4. \A i \in 1 .. Len(wire') : wire'[i].of >= n
    BY <1>1, <1>3, <2>2, <2>3
  <2> QED
    BY <1>1, <2>1, <2>2, <2>4 DEF After
<1> QED
  BY <1>1, <1>3, <1>4, <1>5, <1>6, <1>7, <1>8 DEF InOrder, RomOrdered

\* A line that passes some of what is under way, each piece with its number, keeps the order: the
\* pieces of new are pieces of wire, one after the other.
Passed(new) ==
  /\ new \in Seq(AnyPiece)
  /\ \E d \in Nat : \A i \in 1 .. Len(new) : i + d \in 1 .. Len(wire) /\ new[i].of = wire[i + d].of

LEMMA PassedInOrder ==
  ASSUME InOrder, Passed(wire'), UNCHANGED <<current, fROM, fHaveFirstBlock, fLastValidBlock>>,
         fTempBuffer' = fTempBuffer \/ fTempBuffer' = << >>
  PROVE  InOrder'
<1>1. PICK d \in Nat : \A i \in 1 .. Len(wire') : i + d \in 1 .. Len(wire) /\ wire'[i].of = wire[i + d].of
  BY DEF Passed
<1>2. wire \in Seq(AnyPiece) /\ Len(wire) \in Nat /\ wire' \in Seq(AnyPiece) /\ Len(wire') \in Nat
  BY DEF InOrder, Passed
<1>3. /\ fTempBuffer' \in Seq(AnyPiece)
      /\ \A i \in 1 .. Len(fTempBuffer') : i \in 1 .. Len(fTempBuffer) /\ fTempBuffer'[i] = fTempBuffer[i]
  <2>1. CASE fTempBuffer' = fTempBuffer
    BY <2>1 DEF InOrder
  <2>2. CASE fTempBuffer' = << >>
    <3>1. << >> \in Seq(AnyPiece) /\ Len(<< >>) = 0
      OBVIOUS
    <3> QED
      BY <2>2, <3>1
  <2> QED
    BY <2>1, <2>2
<1>4. \A i, j \in 1 .. Len(wire') : i < j => wire'[i].of <= wire'[j].of
  <2> SUFFICES ASSUME NEW i \in 1 .. Len(wire'), NEW j \in 1 .. Len(wire'), i < j
               PROVE  wire'[i].of <= wire'[j].of
    OBVIOUS
  <2>1. i + d < j + d
    BY <1>2
  <2> QED
    BY <1>1, <2>1 DEF InOrder
<1>5. \A i \in 1 .. Len(wire') : wire'[i].of <= current'
  BY <1>1 DEF InOrder
<1>6. /\ \A i \in 1 .. Len(fTempBuffer'), j \in 1 .. Len(wire') : fTempBuffer'[i].of <= wire'[j].of
      /\ \A i \in 1 .. Len(fTempBuffer') : fTempBuffer'[i].of <= current'
  BY <1>1, <1>3 DEF InOrder
<1>7. \E n \in Nat : After(n)'
  <2>1. PICK n \in Nat : After(n)
    BY DEF InOrder
  <2>2. /\ \A i \in 1 .. Len(wire') : wire'[i].of >= n
        /\ \A i \in 1 .. Len(fTempBuffer') : fTempBuffer'[i].of >= n
    BY <1>1, <1>3, <2>1 DEF After
  <2> QED
    BY <2>1, <2>2 DEF After
<1> QED
  BY <1>2, <1>3, <1>4, <1>5, <1>6, <1>7 DEF InOrder, RomOrdered

LEMMA SamePassed == ASSUME wire \in Seq(AnyPiece) PROVE Passed(wire)
<1>1. \A i \in 1 .. Len(wire) : i + 0 \in 1 .. Len(wire) /\ wire[i].of = wire[i + 0].of
  OBVIOUS
<1> QED
  BY <1>1 DEF Passed

LEMMA BeheadedPassed ==
  ASSUME wire \in Seq(AnyPiece), wire # << >>
  PROVE  Passed(<<Number(Head(wire).of)>> \o Tail(wire))
<1> DEFINE p == Number(Head(wire).of)
           new == <<p>> \o Tail(wire)
<1>1. Head(wire) = wire[1] /\ wire[1] \in AnyPiece /\ Len(wire) \in Nat /\ 1 <= Len(wire)
  OBVIOUS
<1>2. p \in AnyPiece /\ p.of = wire[1].of
  BY <1>1, Aged DEF Number, AnyPiece
<1>3. /\ Tail(wire) \in Seq(AnyPiece) /\ Len(Tail(wire)) = Len(wire) - 1
      /\ \A i \in 1 .. Len(Tail(wire)) : Tail(wire)[i] = wire[i + 1]
  BY <1>1, HeadTailProperties
<1> HIDE DEF p
<1>4. <<p>> \in Seq(AnyPiece) /\ Len(<<p>>) = 1 /\ <<p>>[1] = p
  BY <1>2, Singles
<1>5. /\ new \in Seq(AnyPiece) /\ Len(new) = Len(wire)
      /\ \A i \in 1 .. Len(wire) : new[i] = IF i <= 1 THEN <<p>>[i] ELSE Tail(wire)[i - 1]
  <2>1. /\ new \in Seq(AnyPiece) /\ Len(new) = Len(<<p>>) + Len(Tail(wire))
        /\ \A i \in 1 .. Len(<<p>>) + Len(Tail(wire)) :
               new[i] = IF i <= Len(<<p>>) THEN <<p>>[i] ELSE Tail(wire)[i - Len(<<p>>)]
    BY <1>3, <1>4, ConcatProperties
  <2>2. Len(<<p>>) + Len(Tail(wire)) = Len(wire)
    BY <1>1, <1>3, <1>4
  <2> HIDE DEF new
  <2> QED
    BY <1>4, <2>1, <2>2
<1> HIDE DEF new
<1>6. ASSUME NEW i \in 1 .. Len(new) PROVE i + 0 \in 1 .. Len(wire) /\ new[i].of = wire[i + 0].of
  <2>1. i \in 1 .. Len(wire) /\ i + 0 = i
    BY <1>5
  <2>2. CASE i = 1
    BY <1>2, <1>4, <1>5, <2>1, <2>2
  <2>3. CASE i # 1
    <3>1. i - 1 \in 1 .. Len(Tail(wire)) /\ (i - 1) + 1 = i /\ ~(i <= 1)
      BY <1>1, <1>3, <2>1, <2>3
    <3> QED
      BY <1>3, <1>5, <2>1, <3>1
  <2> QED
    BY <2>2, <2>3
<1>7. Passed(new)
  BY <1>5, <1>6 DEF Passed
<1> QED
  BY <1>7 DEF new, p

LEMMA LineInOrder == ASSUME InOrder, LinePart PROVE InOrder'
<1>1. wire \in Seq(AnyPiece) /\ wire # << >> /\ Len(wire) \in Nat
  BY DEF InOrder, LinePart
<1>2. UNCHANGED <<current, fROM, fHaveFirstBlock, fLastValidBlock, fTempBuffer>>
  BY DEF LinePart, receiver
<1>3. CASE wire' = Tail(wire)
  <2>1. /\ Tail(wire) \in Seq(AnyPiece) /\ Len(Tail(wire)) = Len(wire) - 1
        /\ \A i \in 1 .. Len(Tail(wire)) : Tail(wire)[i] = wire[i + 1]
    BY <1>1, HeadTailProperties
  <2>2. \A i \in 1 .. Len(wire') : i + 1 \in 1 .. Len(wire) /\ wire'[i].of = wire[i + 1].of
    BY <1>1, <1>3, <2>1
  <2>3. Passed(wire')
    BY <1>3, <2>1, <2>2 DEF Passed
  <2> QED
    BY <1>2, <2>3, PassedInOrder
<1>4. CASE wire' = <<Number(Head(wire).of)>> \o Tail(wire)
  BY <1>1, <1>2, <1>4, BeheadedPassed, PassedInOrder
<1> QED
  BY <1>3, <1>4 DEF LinePart

LEMMA TimeoutInOrder == ASSUME InOrder, CheckForTimeouts PROVE InOrder'
<1>1. wire \in Seq(AnyPiece) /\ Len(wire) \in Nat
  BY DEF InOrder
<1>2. UNCHANGED <<current, fROM, fHaveFirstBlock, fLastValidBlock>> /\ fTempBuffer' = << >>
  BY DEF CheckForTimeouts, Flushed
<1>3. CASE wire' = wire
  BY <1>1, <1>2, <1>3, SamePassed, PassedInOrder
<1>4. CASE wire # << >> /\ wire' = Beheaded(wire)
  <2>1. wire' = <<Number(Head(wire).of)>> \o Tail(wire) \/ wire' = wire
    BY <1>4 DEF Beheaded
  <2> QED
    BY <1>1, <1>2, <1>4, <2>1, SamePassed, BeheadedPassed, PassedInOrder
<1> QED
  BY <1>3, <1>4 DEF CheckForTimeouts

\* What the receiver has in its buffer once it has read n more pieces, and what is left.
LEMMA ReadPieces ==
  ASSUME InOrder, NEW n \in Nat, n >= 1, n <= Len(wire)
  PROVE  LET buffer == fTempBuffer \o SubSeq(wire, 1, n)
             left == SubSeq(wire, n + 1, Len(wire))
         IN  /\ Passed(left) /\ buffer \in Seq(AnyPiece)
             /\ \A i \in 1 .. Len(buffer) : buffer[i].of \in Nat /\ buffer[i].of <= current
             /\ \A i \in 1 .. Len(buffer), j \in 1 .. Len(left) : buffer[i].of <= left[j].of
             /\ \A m \in Nat : After(m) => \A i \in 1 .. Len(buffer) : m <= buffer[i].of
<1> DEFINE read == SubSeq(wire, 1, n)
           buffer == fTempBuffer \o read
           left == SubSeq(wire, n + 1, Len(wire))
<1>0. wire \in Seq(AnyPiece) /\ fTempBuffer \in Seq(AnyPiece) /\ Len(wire) \in Nat /\ Len(fTempBuffer) \in Nat
  BY DEF InOrder
<1>1. \A i \in 1 .. Len(wire) : wire[i] \in AnyPiece
  BY <1>0
<1>2. /\ read \in Seq(AnyPiece) /\ Len(read) = n
      /\ \A i \in 1 .. n : read[i] = wire[i]
  <2>1. \A i \in 1 .. n : wire[i] \in AnyPiece
    BY <1>0, <1>1
  <2>2. /\ SubSeq(wire, 1, n) \in Seq(AnyPiece)
        /\ Len(SubSeq(wire, 1, n)) = IF 1 <= n THEN n - 1 + 1 ELSE 0
        /\ \A i \in 1 .. n - 1 + 1 : SubSeq(wire, 1, n)[i] = wire[1 + i - 1]
    BY <2>1, SubSeqProperties
  <2>3. n - 1 + 1 = n /\ \A i \in 1 .. n : 1 + i - 1 = i
    OBVIOUS
  <2> QED
    BY <2>2, <2>3
<1>3. /\ left \in Seq(AnyPiece) /\ Len(left) = Len(wire) - n
      /\ \A i \in 1 .. Len(left) : left[i] = wire[i + n]
  <2> DEFINE l == Len(wire)
             f == n + 1
  <2>1. \A i \in f .. l : wire[i] \in AnyPiece
    BY <1>0, <1>1
  <2>2. f \in Nat /\ l \in Nat /\ f <= l + 1
    BY <1>0
  <2>3. /\ SubSeq(wire, f, l) \in Seq(AnyPiece)
        /\ Len(SubSeq(wire, f, l)) = IF f <= l THEN l - f + 1 ELSE 0
        /\ \A i \in 1 .. l - f + 1 : SubSeq(wire, f, l)[i] = wire[f + i - 1]
    <3> HIDE DEF f, l
    <3> QED
      BY <2>1, <2>2, SubSeqProperties
  <2>4. (IF f <= l THEN l - f + 1 ELSE 0) = l - n /\ l - f + 1 = l - n
    BY <2>2
  <2>5. \A i \in 1 .. l - n : f + i - 1 = i + n
    BY <2>2
  <2> QED
    BY <2>3, <2>4, <2>5
<1> HIDE DEF read, left
<1>4. /\ buffer \in Seq(AnyPiece) /\ Len(buffer) \in Nat
      /\ \A i \in 1 .. Len(buffer) : \/ \E k \in 1 .. Len(fTempBuffer) : buffer[i] = fTempBuffer[k]
                                     \/ \E k \in 1 .. n : buffer[i] = wire[k]
  <2>0. /\ buffer \in Seq(AnyPiece) /\ Len(buffer) = Len(fTempBuffer) + Len(read)
        /\ \A i \in 1 .. Len(fTempBuffer) + Len(read) :
               buffer[i] = IF i <= Len(fTempBuffer) THEN fTempBuffer[i] ELSE read[i - Len(fTempBuffer)]
    <3>1. read \in Seq(AnyPiece) /\ fTempBuffer \in Seq(AnyPiece)
      BY <1>0, <1>2
    <3> QED
      BY <3>1, ConcatProperties
  <2> HIDE DEF buffer
  <2>1. /\ buffer \in Seq(AnyPiece) /\ Len(buffer) = Len(fTempBuffer) + n
        /\ \A i \in 1 .. Len(fTempBuffer) + n :
               buffer[i] = IF i <= Len(fTempBuffer) THEN fTempBuffer[i] ELSE read[i - Len(fTempBuffer)]
    BY <1>2, <2>0
  <2> HIDE DEF buffer
  <2>2. ASSUME NEW i \in 1 .. Len(buffer), i <= Len(fTempBuffer)
        PROVE  \E k \in 1 .. Len(fTempBuffer) : buffer[i] = fTempBuffer[k]
    BY <1>0, <2>1, <2>2
  <2>3. ASSUME NEW i \in 1 .. Len(buffer), ~(i <= Len(fTempBuffer))
        PROVE  \E k \in 1 .. n : buffer[i] = wire[k]
    <3>1. i - Len(fTempBuffer) \in 1 .. n
      BY <1>0, <2>1, <2>3
    <3> QED
      BY <1>2, <2>1, <2>3, <3>1
  <2> QED
    BY <1>0, <2>1, <2>2, <2>3
<1> HIDE DEF buffer
<1>5. \A i \in 1 .. Len(buffer) : buffer[i].of \in Nat
  <2>1. \A i \in 1 .. Len(buffer) : buffer[i] \in AnyPiece
    BY <1>4
  <2> QED
    BY <2>1, Aged
<1>6. \A k \in 1 .. n : k \in 1 .. Len(wire)
  BY <1>0
<1>7. \A i \in 1 .. Len(buffer) : buffer[i].of <= current
  BY <1>4, <1>6 DEF InOrder
<1>8. \A i \in 1 .. Len(buffer), j \in 1 .. Len(left) : buffer[i].of <= left[j].of
  <2> SUFFICES ASSUME NEW i \in 1 .. Len(buffer), NEW j \in 1 .. Len(left)
               PROVE  buffer[i].of <= wire[j + n].of
    BY <1>3
  <2>1. j + n \in 1 .. Len(wire) /\ \A k \in 1 .. n : k < j + n
    BY <1>0, <1>3
  <2> QED
    BY <1>4, <1>6, <2>1 DEF InOrder
<1>9. \A m \in Nat : After(m) => \A i \in 1 .. Len(buffer) : m <= buffer[i].of
  BY <1>4, <1>5, <1>6 DEF After
<1>10. Passed(left)
  <2>1. \A i \in 1 .. Len(left) : i + n \in 1 .. Len(wire) /\ left[i].of = wire[i + n].of
    BY <1>0, <1>3
  <2> QED
    BY <1>3, <2>1 DEF Passed
<1> QED
  BY <1>4, <1>5, <1>7, <1>8, <1>9, <1>10 DEF buffer, left, read

\* A block is appended only when its number is not the last one's: it is a later block.
LEMMA BlockInOrder ==
  ASSUME InOrder, NEW b \in Nat, b <= current, HandleNewBlock(b), UNCHANGED current,
         NEW m \in Nat, After(m), m <= b, fTempBuffer' = << >>,
         \A i \in 1 .. Len(wire') : wire'[i].of >= b
  PROVE  /\ fROM' \in Seq(Nat) /\ RomOrdered' /\ After(b)'
<1>0. fROM \in Seq(Nat) /\ Len(fROM) \in Nat /\ \A i \in 1 .. Len(fROM) : fROM[i] \in Nat /\ fROM[i] <= m
  BY DEF InOrder, After
<1>1. CASE fROM' = fROM
  <2>1. fROM' \in Seq(Nat) /\ RomOrdered'
    BY <1>1 DEF InOrder, RomOrdered
  <2>2. \A i \in 1 .. Len(fROM') : fROM'[i] <= b
    BY <1>0, <1>1
  <2>3. fLastValidBlock' = b % 256 /\ Len(fTempBuffer') = 0
    BY DEF HandleNewBlock
  <2> QED
    BY <2>1, <2>2, <2>3 DEF After
<1>2. CASE fROM' = Append(fROM, b) /\ fHaveFirstBlock /\ fLastValidBlock # b % 256
  <2>1. m < b
    BY <1>2 DEF After
  <2>2. /\ fROM' \in Seq(Nat) /\ Len(fROM') = Len(fROM) + 1 /\ fROM'[Len(fROM) + 1] = b
        /\ \A i \in 1 .. Len(fROM) : fROM'[i] = fROM[i]
    BY <1>0, <1>2, AppendProperties
  <2>3. RomOrdered'
    <3> SUFFICES ASSUME NEW i \in 1 .. Len(fROM'), NEW j \in 1 .. Len(fROM'), i < j
                 PROVE  fROM'[i] < fROM'[j]
      BY DEF RomOrdered
    <3>1. i \in 1 .. Len(fROM) /\ fROM'[i] = fROM[i] /\ fROM[i] \in Nat /\ fROM[i] <= m
      BY <1>0, <2>2
    <3>2. CASE j = Len(fROM) + 1
      BY <2>1, <2>2, <3>1, <3>2
    <3>3. CASE j # Len(fROM) + 1
      <4>0. j \in 1 .. Len(fROM) + 1
        BY <2>2
      <4>1. j \in 1 .. Len(fROM) /\ fROM'[j] = fROM[j]
        <5>1. j \in 1 .. Len(fROM)
          BY <1>0, <3>3, <4>0
        <5> QED
          BY <2>2, <5>1
      <4>2. fROM[i] < fROM[j]
        BY <3>1, <4>1 DEF InOrder, RomOrdered
      <4> QED
        BY <3>1, <4>1, <4>2
    <3> QED
      BY <3>2, <3>3
  <2>4. \A i \in 1 .. Len(fROM') : fROM'[i] <= b
    <3> SUFFICES ASSUME NEW i \in 1 .. Len(fROM') PROVE fROM'[i] <= b
      OBVIOUS
    <3>1. CASE i = Len(fROM) + 1
      BY <2>2, <3>1
    <3>2. CASE i # Len(fROM) + 1
      <4>0. i \in 1 .. Len(fROM) + 1
        BY <2>2
      <4>1. i \in 1 .. Len(fROM)
        BY <1>0, <3>2, <4>0
      <4> QED
        BY <1>0, <2>2, <4>1
    <3> QED
      BY <3>1, <3>2
  <2>5. fLastValidBlock' = b % 256 /\ Len(fTempBuffer') = 0
    BY DEF HandleNewBlock
  <2> QED
    BY <2>2, <2>3, <2>4, <2>5 DEF After
<1> QED
  BY <1>1, <1>2 DEF HandleNewBlock

LEMMA ReadInOrder == ASSUME SafeLine, InOrder, ReadSomeData PROVE InOrder'
<1> DEFINE Bytes(n) == fTempBuffer \o SubSeq(wire, 1, n)
<1>1. PICK n \in 1 .. (kBufferSize - Len(fTempBuffer)) :
        /\ n <= Len(wire) /\ wire' = SubSeq(wire, n + 1, Len(wire))
        /\ CASE HaveValidBlock(Bytes(n)) ->
                 /\ HandleNewBlock(Bytes(n)[1].of)
                 /\ fTempBuffer' = << >> /\ answers' = Append(answers, "ack")
                 /\ UNCHANGED <<fState, fHaveLastBlock>>
            [] ~HaveValidBlock(Bytes(n)) /\ FirstByteIsEof(Bytes(n)) ->
                 /\ fHaveLastBlock' = TRUE /\ fState' = "done"
                 /\ fTempBuffer' = Bytes(n) /\ answers' = Append(answers, "ack")
                 /\ UNCHANGED <<fROM, fHaveFirstBlock, fLastValidBlock>>
            [] OTHER ->
                 /\ fTempBuffer' = Bytes(n)
                 /\ UNCHANGED <<answers, fState, fROM, fHaveFirstBlock, fHaveLastBlock, fLastValidBlock>>
  BY DEF ReadSomeData
<1>2. UNCHANGED current
  BY DEF ReadSomeData
<1> DEFINE buffer == Bytes(n)
<1>3. /\ Passed(wire') /\ buffer \in Seq(AnyPiece)
      /\ \A i \in 1 .. Len(buffer) : buffer[i].of \in Nat /\ buffer[i].of <= current
      /\ \A i \in 1 .. Len(buffer), j \in 1 .. Len(wire') : buffer[i].of <= wire'[j].of
      /\ \A m \in Nat : After(m) => \A i \in 1 .. Len(buffer) : m <= buffer[i].of
  <2>0. Len(fTempBuffer) \in Nat /\ kBufferSize \in Nat
    <3>1. fTempBuffer \in Seq(AnyPiece)
      BY DEF InOrder
    <3> QED
      BY <3>1 DEF SafeLine
  <2>1. n \in Nat /\ n >= 1
    <3>1. kBufferSize - Len(fTempBuffer) \in Int
      BY <2>0
    <3> HIDE DEF buffer, Bytes
    <3> QED
      BY <3>1
  <2> QED
    BY <1>1, <2>1, ReadPieces
<1> HIDE DEF buffer
\* Where nothing but the wire and the buffer changes.
<1>4. ASSUME NEW new, new = buffer \/ new = << >>, fTempBuffer' = new,
             fROM' \in Seq(Nat), RomOrdered', \E m \in Nat : After(m)'
      PROVE  InOrder'
  <2>0. fTempBuffer' \in Seq(AnyPiece) /\ \A i \in 1 .. Len(fTempBuffer') :
                                             i \in 1 .. Len(buffer) /\ fTempBuffer'[i] = buffer[i]
    <3>1. CASE new = buffer
      BY <1>3, <1>4, <3>1
    <3>2. CASE new = << >>
      <4>1. << >> \in Seq(AnyPiece) /\ Len(<< >>) = 0
        OBVIOUS
      <4> QED
        BY <1>4, <3>2, <4>1
    <3> QED
      BY <1>4, <3>1, <3>2
  <2>1. PICK d \in Nat : \A i \in 1 .. Len(wire') : i + d \in 1 .. Len(wire) /\ wire'[i].of = wire[i + d].of
    BY <1>3 DEF Passed
  <2>2. wire' \in Seq(AnyPiece) /\ Len(wire') \in Nat
    BY <1>3 DEF Passed
  <2>3. \A i, j \in 1 .. Len(wire') : i < j => wire'[i].of <= wire'[j].of
    <3> SUFFICES ASSUME NEW i \in 1 .. Len(wire'), NEW j \in 1 .. Len(wire'), i < j
                 PROVE  wire'[i].of <= wire'[j].of
      OBVIOUS
    <3>1. i + d < j + d
      BY <2>2
    <3> QED
      BY <2>1, <3>1 DEF InOrder
  <2>4. \A i \in 1 .. Len(wire') : wire'[i].of <= current'
    BY <1>2, <2>1 DEF InOrder
  <2>5. /\ \A i \in 1 .. Len(fTempBuffer'), j \in 1 .. Len(wire') : fTempBuffer'[i].of <= wire'[j].of
        /\ \A i \in 1 .. Len(fTempBuffer') : fTempBuffer'[i].of <= current'
    BY <1>2, <1>3, <2>0
  <2>6. current' \in Nat /\ current' <= Blocks' + 1
    BY <1>2 DEF InOrder
  <2> QED
    BY <1>4, <2>0, <2>2, <2>3, <2>4, <2>5, <2>6 DEF InOrder
<1>5. PICK m \in Nat : After(m)
  BY DEF InOrder
<1>6. CASE HaveValidBlock(buffer)
  <2>1. HandleNewBlock(buffer[1].of) /\ fTempBuffer' = << >>
    BY <1>1, <1>6 DEF buffer
  <2>2. 1 \in 1 .. Len(buffer)
    BY <1>3, <1>6 DEF HaveValidBlock
  <2>3. PICK b \in Nat : b = buffer[1].of
    BY <1>3, <2>2
  <2>4. b <= current /\ m <= b /\ \A j \in 1 .. Len(wire') : b <= wire'[j].of
    BY <1>3, <1>5, <2>2, <2>3
  <2>5. \A j \in 1 .. Len(wire') : wire'[j].of >= b
    <3>1. \A j \in 1 .. Len(wire') : wire'[j].of \in Nat
      <4>1. wire' \in Seq(AnyPiece)
        BY <1>3 DEF Passed
      <4>2. \A j \in 1 .. Len(wire') : wire'[j] \in AnyPiece
        BY <4>1
      <4> QED
        BY <4>2, Aged
    <3> QED
      BY <2>4, <3>1
  <2>6. HandleNewBlock(b)
    BY <2>1, <2>3
  <2>7. fROM' \in Seq(Nat) /\ RomOrdered' /\ After(b)'
    BY <1>2, <1>5, <2>1, <2>4, <2>5, <2>6, BlockInOrder
  <2> QED
    BY <1>4, <2>1, <2>7
<1>7. CASE ~HaveValidBlock(buffer)
  <2>1. fTempBuffer' = buffer /\ UNCHANGED <<fROM, fHaveFirstBlock, fLastValidBlock>>
    BY <1>1, <1>7 DEF buffer
  <2>2. fROM' \in Seq(Nat) /\ RomOrdered'
    BY <2>1 DEF InOrder, RomOrdered
  <2>3. After(m)'
    <3>1. PICK d \in Nat : \A i \in 1 .. Len(wire') : i + d \in 1 .. Len(wire) /\ wire'[i].of = wire[i + d].of
      BY <1>3 DEF Passed
    <3>2. \A i \in 1 .. Len(wire') : wire'[i].of >= m
      BY <1>5, <3>1 DEF After
    <3>3. \A i \in 1 .. Len(buffer) : buffer[i].of >= m
      BY <1>3, <1>5
    <3> QED
      BY <1>2, <1>5, <2>1, <3>2, <3>3 DEF After
  <2> QED
    BY <1>4, <2>1, <2>2, <2>3
<1> QED
  BY <1>6, <1>7

\* However time-outs race blocks and answers, and whatever the line loses, no block of the ROM is
\* copied twice or after a later one: HandleNewBlock's comparison of the number with the last one
\* is enough for that (EmROMTransfer.cpp:411-451).
THEOREM Ordered == ASSUME SafeLine PROVE RomSpec => []RomOrdered
<1>1. RomInit => InOrder
  <2> SUFFICES ASSUME RomInit PROVE InOrder
    OBVIOUS
  <2>1. current = 0 /\ wire = << >> /\ fTempBuffer = << >> /\ fROM = << >> /\ ~fHaveFirstBlock
    BY DEF RomInit
  <2>2. << >> \in Seq(AnyPiece) /\ << >> \in Seq(Nat) /\ Len(<< >>) = 0
    OBVIOUS
  <2>3. After(0) /\ RomOrdered
    BY <2>1, <2>2 DEF After, RomOrdered
  <2>4. current <= Blocks + 1
    BY <2>1 DEF SafeLine
  <2> QED
    BY <2>1, <2>2, <2>3, <2>4 DEF InOrder
<1>2. InOrder /\ [RomNext]_romVars => InOrder'
  <2>1. ASSUME InOrder, UNCHANGED <<current, wire, fTempBuffer, fROM, fHaveFirstBlock, fLastValidBlock>>
        PROVE  InOrder'
    <3>1. wire \in Seq(AnyPiece)
      BY <2>1 DEF InOrder
    <3> QED
      BY <2>1, <3>1, SamePassed, PassedInOrder
  <2>2. CASE SenderAnswered
    BY <2>2, SenderInOrder DEF SafeLine
  <2>3. CASE LinePart
    BY <2>3, LineInOrder
  <2>4. CASE AnswerLost
    BY <2>1, <2>4 DEF AnswerLost, receiver
  <2>5. CASE WaitForTransport
    BY <2>1, <2>5 DEF WaitForTransport
  <2>6. CASE ReadSomeData
    BY <2>6, ReadInOrder
  <2>7. CASE CheckForTimeouts
    BY <2>7, TimeoutInOrder
  <2>8. CASE UNCHANGED romVars
    BY <2>1, <2>8 DEF romVars
  <2> QED
    BY <2>2, <2>3, <2>4, <2>5, <2>6, <2>7, <2>8 DEF RomNext
<1>3. InOrder => RomOrdered
  BY DEF InOrder
<1> QED
  BY <1>1, <1>2, <1>3, PTL DEF RomSpec

-----------------------------------------------------------------------------
\* Both together, for a ROM of any size and any number of faults and racing time-outs.
THEOREM Intact == ASSUME SafeLine PROVE RomSpec => []RomIntact
<1>1. BeginningOfROM /\ RomOrdered => RomIntact
  BY DEF RomIntact
<1> QED
  BY <1>1, Beginning, Ordered, PTL
=============================================================================

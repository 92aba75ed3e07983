---------------------------- MODULE ByteChannel ----------------------------
(***************************************************************************)
(* What one direction of a serial line promises.  The sender's bytes are   *)
(* numbered from 1; the receiver gets some of them, in the order they were *)
(* sent and none twice.  Bytes may be lost: a line has no acknowledgement. *)
(***************************************************************************)
EXTENDS Naturals, Sequences

VARIABLES
  put,      \* how many bytes the sender has sent
  arrived   \* the bytes the receiver has got

channel == <<put, arrived>>

InOrder(s) == \A i, j \in 1..Len(s) : i < j => s[i] < s[j]

Init == put = 0 /\ arrived = << >>

Send == put' > put /\ arrived' = arrived

\* A byte may arrive as soon as it is sent.
Deliver ==
  /\ put' >= put
  /\ Len(arrived') > Len(arrived)
  /\ SubSeq(arrived', 1, Len(arrived)) = arrived
  /\ InOrder(arrived')
  /\ arrived'[Len(arrived')] <= put'

Spec == Init /\ [][Send \/ Deliver]_channel
=============================================================================

-------------------------- MODULE Debugging_proofs --------------------------
(***************************************************************************)
(* What is proved of the support of debuggers and scripts: of the marks of *)
(* breakpoints and tail patches (InstructionBreaks), for any number of     *)
(* breakpoints and of patched calls, recursive or not, and of the sockets  *)
(* on which debuggers and scripts come (SocketMessaging), for any number   *)
(* of scripts.                                                             *)
(***************************************************************************)
EXTENDS InstructionBreaks, SocketMessaging, FiniteSetTheorems, SequenceTheorems, TLAPS

-----------------------------------------------------------------------------
(***************************************************************************)
(* InstructionBreaks                                                       *)
(***************************************************************************)
\* The lists of the two owners, as far as the marks depend on them.
Lists ==
  /\ fCount \in [Sites -> Nat]
  /\ bp \in [Indices -> [enabled : BOOLEAN, addr : Addresses]]

IInv == Lists /\ EveryWaiterMarked

\* Marking anew leaves nobody out.
LEMMA RemarkedAll ==
  ASSUME NEW c, NEW b, NEW newC, NEW newB
  PROVE  Installed(newC) \union Enabled(newB) \subseteq Remarked(c, b, newC, newB)
BY DEF Remarked

\* A tail patch that has been called gives back one use of its entry, and no more.
LEMMA RecoverType ==
  ASSUME NEW c \in [Sites -> Nat], NEW a
  PROVE  RecoverFromTailpatch(c, a) \in [Sites -> Nat]
<1>1. CASE a \in Installed(c)
  <2>1. a \in Sites /\ c[a] - 1 \in Nat
    BY <1>1 DEF Installed
  <2> QED
    BY <1>1, <2>1 DEF RecoverFromTailpatch
<1>2. CASE a \notin Installed(c)
  BY <1>2 DEF RecoverFromTailpatch
<1> QED
  BY <1>1, <1>2

\* Entering the debugger disables at most the temporary breakpoint.
LEMMA ConditionalType ==
  ASSUME NEW b \in [Indices -> [enabled : BOOLEAN, addr : Addresses]], NEW a
  PROVE  /\ ConditionalBreak(b, a) \in [Indices -> [enabled : BOOLEAN, addr : Addresses]]
         /\ Enabled(ConditionalBreak(b, a)) \subseteq Enabled(b)
<1>1. CASE b[TempBP].addr = a
  <2> DEFINE d == [b EXCEPT ![TempBP].enabled = FALSE]
  <2>1. ConditionalBreak(b, a) = d
    BY <1>1 DEF ConditionalBreak
  <2>2. TempBP \in Indices
    BY DEF Indices
  <2>3. d \in [Indices -> [enabled : BOOLEAN, addr : Addresses]]
    BY <2>2
  <2>4. \A i \in Indices : (d[i].enabled => b[i].enabled) /\ d[i].addr = b[i].addr
    BY <2>2
  <2>5. Enabled(d) \subseteq Enabled(b)
    BY <2>4 DEF Enabled
  <2> QED
    BY <2>1, <2>3, <2>5
<1>2. CASE b[TempBP].addr # a
  BY <1>2 DEF ConditionalBreak
<1> QED
  BY <1>1, <1>2

\* One turn of Execute, whatever the opcode is.
LEMMA TurnKeeps ==
  ASSUME IInv, NEW nextPC, NEW next, NEW called \in Addresses, called = Elsewhere \/ called \in Sites,
         Turn(nextPC, next, called)
  PROVE  IInv'
<1> DEFINE hit == pc \in marked
           c1  == IF hit THEN RecoverFromTailpatch(fCount, pc) ELSE fCount
           in1 == hit /\ EntersDebugger(bp, pc)
           b1  == IF in1 THEN ConditionalBreak(bp, pc) ELSE bp
           c2  == IF called = Elsewhere THEN c1 ELSE SetupForTailpatch(c1, called)
<1>1. /\ fCount' = c2 /\ bp' = b1
      /\ marked' = IF Installed(c2) = Installed(fCount) THEN marked
                   ELSE Remarked(fCount, bp, c2, bp)
  BY DEF Turn
<1>2. c1 \in [Sites -> Nat]
  BY RecoverType DEF IInv, Lists
<1>3. c2 \in [Sites -> Nat]
  <2> HIDE DEF c1
  <2>1. CASE called = Elsewhere
    BY <1>2, <2>1
  <2>2. CASE called # Elsewhere
    BY <1>2, <2>2 DEF SetupForTailpatch
  <2> QED
    BY <2>1, <2>2
<1>4. b1 \in [Indices -> [enabled : BOOLEAN, addr : Addresses]] /\ Enabled(b1) \subseteq Enabled(bp)
  BY ConditionalType DEF IInv, Lists
<1> HIDE DEF b1, c2
<1>5. Lists'
  BY <1>1, <1>3, <1>4 DEF Lists
<1>6. Installed(c2) \union Enabled(b1) \subseteq marked'
  <2>1. CASE Installed(c2) = Installed(fCount)
    BY <1>1, <1>4, <2>1 DEF IInv, EveryWaiterMarked
  <2>2. CASE Installed(c2) # Installed(fCount)
    BY <1>1, <1>4, <2>2, RemarkedAll
  <2> QED
    BY <2>1, <2>2
<1>7. Installed(fCount') = Installed(c2) /\ Enabled(bp') = Enabled(b1)
  BY <1>1
<1>8. EveryWaiterMarked'
  BY <1>6, <1>7 DEF EveryWaiterMarked, Installed, Enabled
<1> QED
  BY <1>5, <1>8 DEF IInv

\* Changing a breakpoint.
LEMMA ChangeKeeps ==
  ASSUME IInv, NEW i \in Indices, NEW new \in [enabled : BOOLEAN, addr : Addresses],
         ChangeBreakpoint(i, new)
  PROVE  IInv'
<1>1. /\ bp' = [bp EXCEPT ![i] = new] /\ fCount' = fCount
      /\ marked' = Remarked(fCount, bp, fCount, bp')
  BY DEF ChangeBreakpoint
<1>2. Lists'
  BY <1>1 DEF IInv, Lists
<1>3. Installed(fCount) \union Enabled(bp') \subseteq marked'
  BY <1>1, RemarkedAll
<1>4. EveryWaiterMarked'
  BY <1>1, <1>3 DEF EveryWaiterMarked, Installed, Enabled
<1> QED
  BY <1>2, <1>4 DEF IInv

\* Every step.
LEMMA StepKeeps == IInv /\ [BreakNext]_breakVars => IInv'
<1> SUFFICES ASSUME IInv, [BreakNext]_breakVars PROVE IInv'
  OBVIOUS
<1>1. Elsewhere \in Addresses /\ Sites \subseteq Addresses
  BY DEF Addresses
<1>2. CASE Opcode
  BY <1>1, <1>2, TurnKeeps DEF Opcode
<1>3. CASE SystemReturn
  BY <1>1, <1>3, TurnKeeps DEF SystemReturn
<1>4. CASE Abandon
  BY <1>1, <1>4, TurnKeeps DEF Abandon
<1>5. ASSUME NEW s \in Sites, SystemCall(s) PROVE IInv'
  BY <1>1, <1>5, TurnKeeps DEF SystemCall
<1>11. ASSUME NEW s \in Sites, SkippedCall(s) PROVE IInv'
  BY <1>1, <1>11, TurnKeeps DEF SkippedCall
<1>6. CASE Continue
  BY <1>6 DEF Continue, IInv, Lists, EveryWaiterMarked, Installed, Enabled
<1>7. CASE ResetBreaks
  <2>1. fCount' = [s \in Sites |-> 0] /\ marked' = Enabled(bp) /\ bp' = bp
    BY <1>7 DEF ResetBreaks
  <2>2. Lists' /\ Installed(fCount)' = {}
    BY <2>1 DEF IInv, Lists, Installed
  <2>3. Enabled(bp)' = Enabled(bp)
    BY <2>1 DEF Enabled
  <2> QED
    BY <2>1, <2>2, <2>3 DEF IInv, EveryWaiterMarked
<1>8. ASSUME NEW i \in Indices, NEW a \in Addresses, SetBreakpoint(i, a) PROVE IInv'
  <2>1. [enabled |-> TRUE, addr |-> a] \in [enabled : BOOLEAN, addr : Addresses]
    OBVIOUS
  <2> QED
    BY <1>8, <2>1, ChangeKeeps DEF SetBreakpoint
<1>9. ASSUME NEW i \in Indices, ClearBreakpoint(i) PROVE IInv'
  <2>1. NoBreakpoint \in [enabled : BOOLEAN, addr : Addresses]
    BY <1>1 DEF NoBreakpoint
  <2> QED
    BY <1>9, <2>1, ChangeKeeps DEF ClearBreakpoint
<1>10. CASE UNCHANGED breakVars
  BY <1>10 DEF breakVars, IInv, Lists, EveryWaiterMarked, Installed, Enabled
<1> QED
  BY <1>2, <1>3, <1>4, <1>5, <1>6, <1>7, <1>8, <1>9, <1>10, <1>11 DEF BreakNext

LEMMA BreakStarts == BreakInit => IInv
<1> SUFFICES ASSUME BreakInit PROVE IInv
  OBVIOUS
<1>1. NoBreakpoint \in [enabled : BOOLEAN, addr : Addresses] /\ ~NoBreakpoint.enabled
  BY DEF NoBreakpoint, Addresses
<1>2. Lists
  BY <1>1 DEF BreakInit, Lists
<1>3. Installed(fCount) = {} /\ Enabled(bp) = {}
  BY <1>1 DEF BreakInit, Installed, Enabled
<1> QED
  BY <1>2, <1>3 DEF IInv, EveryWaiterMarked

\* DebugMgr.cpp and EmPatchMgr.cpp share one bit per address, which each clears and sets as its own
\* list changes: none of them ever takes away the bit another waits for.
THEOREM WaitersMarked == BreakSpec => []EveryWaiterMarked
<1>1. BreakInit => IInv
  BY BreakStarts
<1>2. IInv => EveryWaiterMarked
  BY DEF IInv
<1> QED
  BY <1>1, <1>2, StepKeeps, PTL DEF BreakSpec

-----------------------------------------------------------------------------
(* Tail patches and the calls they wait for                                *)

Here(a, s) == IF a = s THEN 1 ELSE 0

\* The tail patches that s still needs: of the calls under way, and of the one that just returned.
Load(p, a, s) == Pending(p, s) + Here(a, s)

LEMMA PendingType ==
  ASSUME NEW p \in Seq(Sites), NEW s
  PROVE  /\ IsFiniteSet({i \in 1..Len(p) : p[i] = s})
         /\ Pending(p, s) \in Nat
<1>1. Len(p) \in Nat
  BY LenProperties
<1>2. IsFiniteSet(1..Len(p))
  BY <1>1, FS_Interval
<1>3. IsFiniteSet({i \in 1..Len(p) : p[i] = s})
  BY <1>2, FS_Subset
<1> QED
  BY <1>3, FS_CardinalityType DEF Pending

LEMMA PendingNone == \A s : Pending(<< >>, s) = 0
<1>1. Len(<< >>) = 0
  BY EmptySeq
<1>2. \A s : {i \in 1..Len(<< >>) : << >>[i] = s} = {}
  BY <1>1
<1> QED
  BY <1>2, FS_EmptySet DEF Pending

\* One more call at the head of the stack.
LEMMA PendingMore ==
  ASSUME NEW p \in Seq(Sites), NEW q \in Seq(Sites), Len(q) = Len(p) + 1,
         \A i \in 1..Len(p) : q[i + 1] = p[i], NEW s
  PROVE  Pending(q, s) = Pending(p, s) + Here(q[1], s)
<1> DEFINE P == {i \in 1..Len(p) : p[i] = s}
           R == {i \in 2..Len(q) : q[i] = s}
           f == [i \in P |-> i + 1]
<1>1. Len(p) \in Nat /\ Len(q) = Len(p) + 1
  BY LenProperties
<1>2. f \in Bijection(P, R)
  <2>1. \A i \in P : i + 1 \in R
    BY <1>1
  <2>2. f \in [P -> R]
    BY <2>1
  <2>3. \A i, j \in P : f[i] = f[j] => i = j
    BY <1>1
  <2>4. \A j \in R : \E i \in P : f[i] = j
    <3> SUFFICES ASSUME NEW j \in R PROVE \E i \in P : f[i] = j
      OBVIOUS
    <3>1. j - 1 \in 1..Len(p) /\ (j - 1) + 1 = j
      BY <1>1
    <3>2. p[j - 1] = q[j]
      BY <3>1
    <3>3. j - 1 \in P
      BY <3>1, <3>2
    <3> QED
      BY <3>1, <3>3
  <2> HIDE DEF P, R, f
  <2> QED
    BY <2>2, <2>3, <2>4 DEF Bijection, Injection, Surjection, IsInjective
<1>3. IsFiniteSet(R) /\ Cardinality(R) = Cardinality(P)
  <2>1. IsFiniteSet(P)
    BY PendingType
  <2>2. ExistsBijection(P, R)
    BY <1>2 DEF ExistsBijection
  <2> HIDE DEF P, R
  <2> QED
    BY <2>1, <2>2, FS_Bijection
<1>4. {i \in 1..Len(q) : q[i] = s} = IF q[1] = s THEN R \union {1} ELSE R
  BY <1>1
<1>5. 1 \notin R
  OBVIOUS
<1>6. Cardinality(R \union {1}) = Cardinality(R) + 1
  BY <1>3, <1>5, FS_AddElement
<1>7. Pending(q, s) = IF q[1] = s THEN Cardinality(R) + 1 ELSE Cardinality(R)
  BY <1>4, <1>6 DEF Pending
<1>8. Pending(p, s) = Cardinality(R) /\ Pending(p, s) \in Nat
  BY <1>3, PendingType DEF Pending
<1> QED
  BY <1>7, <1>8 DEF Here

LEMMA PendingCall ==
  ASSUME NEW p \in Seq(Sites), NEW t \in Sites, NEW s
  PROVE  /\ <<t>> \o p \in Seq(Sites)
         /\ Pending(<<t>> \o p, s) = Pending(p, s) + Here(t, s)
<1> DEFINE q == <<t>> \o p
<1>1. <<t>> \in Seq(Sites) /\ Len(<<t>>) = 1 /\ <<t>>[1] = t
  OBVIOUS
<1>2. Len(p) \in Nat
  BY LenProperties
<1>3. /\ q \in Seq(Sites) /\ Len(q) = Len(p) + 1
      /\ q[1] = t /\ \A i \in 1..Len(p) : q[i + 1] = p[i]
  BY <1>1, <1>2, ConcatProperties
<1> HIDE DEF q
<1>4. Pending(q, s) = Pending(p, s) + Here(q[1], s)
  BY <1>3, PendingMore
<1> QED
  BY <1>3, <1>4 DEF q

LEMMA PendingReturn ==
  ASSUME NEW p \in Seq(Sites), p # << >>, NEW s
  PROVE  /\ Tail(p) \in Seq(Sites) /\ Head(p) \in Sites
         /\ Pending(p, s) = Pending(Tail(p), s) + Here(Head(p), s)
<1>1. /\ Head(p) \in Sites /\ Tail(p) \in Seq(Sites)
      /\ Len(p) \in Nat \ {0} /\ Len(Tail(p)) = Len(p) - 1
  BY HeadTailProperties, EmptySeq
<1>2. \A i \in 1..Len(Tail(p)) : p[i + 1] = Tail(p)[i]
  BY <1>1
<1>3. Head(p) = p[1]
  OBVIOUS
<1>4. Len(p) = Len(Tail(p)) + 1
  BY <1>1
<1> HIDE DEF Pending
<1>5. Pending(p, s) = Pending(Tail(p), s) + Here(p[1], s)
  BY <1>1, <1>2, <1>4, PendingMore
<1> QED
  BY <1>1, <1>3, <1>5

\* Each call under way has its tail patch.  What the processor meets when it comes to an entry's
\* address without a return, after a skipped call or a stop, is not the entry of a call under way.
Enough(p) == \A s \in Sites : Pending(p, s) <= fCount[s]
Single(p, a) == \A s \in Sites : Load(p, a, s) <= 1

Met ==
  /\ pending \in Seq(Sites) /\ stopped.pending \in Seq(Sites)
  /\ debugged => "stop" \notin Recursing
  /\ Enabled(bp) # {} => debugged
  /\ stopped.stopped => debugged
  /\ ~debugged => \A s \in Sites : Load(pending, pc, s) <= fCount[s] \/ Pending(pending, s) = 0
  /\ debugged => Single(pending, pc) /\ Enough(pending)
  /\ stopped.stopped => Single(stopped.pending, stopped.pc) /\ Enough(stopped.pending)

\* What a turn does to the entries: the patch at pc is called, if there is one.
LEMMA TurnCount ==
  ASSUME IInv, NEW nextPC, NEW next, NEW called \in Addresses, Turn(nextPC, next, called),
         NEW s \in Sites
  PROVE  /\ fCount[s] \in Nat
         /\ fCount'[s] = fCount[s] - (IF pc = s /\ fCount[s] > 0 THEN 1 ELSE 0) + Here(called, s)
<1> DEFINE c1 == IF pc \in marked THEN RecoverFromTailpatch(fCount, pc) ELSE fCount
<1>0. fCount \in [Sites -> Nat] /\ fCount[s] \in Nat
  BY DEF IInv, Lists
<1>1. fCount' = IF called = Elsewhere THEN c1 ELSE SetupForTailpatch(c1, called)
  BY DEF Turn
<1>2. c1 \in [Sites -> Nat]
  BY <1>0, RecoverType
<1>3. c1[s] = fCount[s] - (IF pc = s /\ fCount[s] > 0 THEN 1 ELSE 0)
  <2>1. CASE pc = s /\ fCount[s] > 0
    <3>1. pc \in Installed(fCount) /\ pc \in marked
      BY <2>1 DEF Installed, IInv, EveryWaiterMarked
    <3> QED
      BY <1>0, <2>1, <3>1 DEF RecoverFromTailpatch
  <2>2. CASE ~(pc = s /\ fCount[s] > 0)
    <3>1. pc \in Installed(fCount) => pc \in Sites /\ pc # s
      BY <2>2 DEF Installed
    <3> QED
      BY <1>0, <2>2, <3>1 DEF RecoverFromTailpatch
  <2> QED
    BY <2>1, <2>2
<1> HIDE DEF c1
<1>4. CASE called = Elsewhere
  BY <1>0, <1>1, <1>3, <1>4, BreakAssumption DEF Here
<1>5. CASE called # Elsewhere
  BY <1>0, <1>1, <1>2, <1>3, <1>5 DEF Here, SetupForTailpatch
<1> QED
  BY <1>4, <1>5

\* A turn that moves calls between the stack and the processor, adds called, and loses some.
LEMMA TurnMet ==
  ASSUME IInv, Met, NEW nextPC, NEW next \in Seq(Sites), NEW called \in Addresses,
         Turn(nextPC, next, called),
         \A s \in Sites : \/ Load(next, nextPC, s) <= Pending(pending, s) + Here(called, s)
                         \/ Pending(next, s) = 0,
         debugged => Single(next, nextPC)
  PROVE  Met'
<1>1. /\ pc' = nextPC /\ pending' = next /\ debugged' = debugged
      /\ ~stopped.stopped
  BY DEF Turn
<1>2. \/ stopped' = NotStopped
      \/ /\ stopped' = [pc |-> pc, pending |-> pending, stopped |-> TRUE]
         /\ pc \in Enabled(bp)
  BY DEF Turn, EntersDebugger
<1>3. Enabled(bp') \subseteq Enabled(bp)
  BY ConditionalType DEF Turn, IInv, Lists
<1>4. \A s \in Sites :
        /\ Pending(pending, s) \in Nat /\ Pending(next, s) \in Nat
        /\ Here(pc, s) \in Nat /\ Here(nextPC, s) \in Nat /\ Here(called, s) \in Nat
        /\ \/ Pending(next, s) + Here(nextPC, s) <= Pending(pending, s) + Here(called, s)
           \/ Pending(next, s) = 0
        /\ fCount[s] \in Nat
        /\ fCount'[s] = fCount[s] - (IF pc = s /\ fCount[s] > 0 THEN 1 ELSE 0) + Here(called, s)
  BY PendingType, TurnCount DEF Met, Here, Load
<1>5. CASE ~debugged
  <2>1. \A s \in Sites : Load(next, nextPC, s) <= fCount'[s] \/ Pending(next, s) = 0
    <3> SUFFICES ASSUME NEW s \in Sites, Pending(next, s) # 0
                 PROVE  Pending(next, s) + Here(nextPC, s) <= fCount'[s]
      BY DEF Load
    <3> DEFINE n == Pending(next, s)
               m == Pending(pending, s)
               a == Here(called, s)
               h == Here(nextPC, s)
               k == fCount[s]
               l == fCount'[s]
    <3>1. m + Here(pc, s) <= k \/ m = 0
      BY <1>5 DEF Met, Load
    <3>2. n \in Nat /\ m \in Nat /\ a \in Nat /\ h \in Nat /\ k \in Nat /\ n + h <= m + a
      BY <1>4
    <3>3. l = k - (IF pc = s /\ k > 0 THEN 1 ELSE 0) + a
      BY <1>4
    <3>4. pc = s => m + 1 <= k \/ m = 0
      BY <3>1 DEF Here
    <3>5. pc # s => m <= k
      BY <3>1, <3>2 DEF Here
    <3> HIDE DEF n, m, a, h, k, l
    <3>6. n + h <= l
      BY <3>2, <3>3, <3>4, <3>5
    <3> QED
      BY <3>6 DEF n, h, l
  <2>2. \A s \in Sites : Load(pending, pc, s)' <= fCount'[s] \/ Pending(pending, s)' = 0
    BY <1>1, <2>1 DEF Load, Here, Pending
  <2>3. stopped' = NotStopped
    BY <1>2, <1>5 DEF Met
  <2>4. /\ stopped'.pending \in Seq(Sites) /\ ~stopped'.stopped
    BY <2>3 DEF NotStopped
  <2>5. ~(Enabled(bp)' # {})
    BY <1>3, <1>5 DEF Met, Enabled
  <2> QED
    BY <1>1, <1>5, <2>2, <2>4, <2>5 DEF Met
<1>6. CASE debugged
  <2>1. \A s \in Sites : Pending(pending, s) + Here(pc, s) <= 1 /\ Pending(pending, s) <= fCount[s]
    BY <1>6 DEF Met, Single, Enough, Load
  <2>2. \A s \in Sites : Pending(pending, s) <= fCount'[s]
    BY <1>4, <2>1, SMTT(40) DEF Here
  <2>3. \A s \in Sites : Pending(next, s) <= fCount'[s]
    <3> SUFFICES ASSUME NEW s \in Sites PROVE Pending(next, s) <= fCount'[s]
      OBVIOUS
    <3> DEFINE n == Pending(next, s)
               m == Pending(pending, s)
               a == Here(called, s)
               k == fCount[s]
               l == fCount'[s]
    <3>1. n \in Nat /\ m \in Nat /\ a \in Nat /\ k \in Nat /\ (n <= m + a \/ n = 0)
      BY <1>4
    <3>2. l = k - (IF pc = s /\ k > 0 THEN 1 ELSE 0) + a
      BY <1>4
    <3>3. m <= k /\ (pc = s => m = 0)
      BY <2>1, <3>1 DEF Here
    <3> HIDE DEF n, m, a, k, l
    <3>4. n <= l
      BY <3>1, <3>2, <3>3
    <3> QED
      BY <3>4 DEF n, l
  <2>4. Single(pending, pc)' /\ Enough(pending)'
    BY <1>1, <1>6, <2>3 DEF Single, Enough, Load, Pending, Here
  <2>5. stopped'.pending \in Seq(Sites)
    <3>1. << >> \in Seq(Sites)
      BY EmptySeq
    <3>2. stopped'.pending = << >> \/ stopped'.pending = pending
      BY <1>2 DEF NotStopped
    <3> QED
      BY <3>1, <3>2 DEF Met
  <2>6. stopped'.stopped => Single(stopped.pending, stopped.pc)' /\ Enough(stopped.pending)'
    <3> SUFFICES ASSUME stopped'.stopped
                 PROVE  Single(stopped.pending, stopped.pc)' /\ Enough(stopped.pending)'
      OBVIOUS
    <3>1. stopped'.pending = pending /\ stopped'.pc = pc
      BY <1>2 DEF NotStopped
    <3>2. Single(stopped'.pending, stopped'.pc)
      BY <1>6, <3>1 DEF Met
    <3> QED
      BY <2>2, <3>1, <3>2 DEF Single, Enough, Load, Pending, Here
  <2> QED
    BY <1>1, <1>6, <2>4, <2>5, <2>6 DEF Met
<1> QED
  BY <1>5, <1>6

LEMMA StepMet == IInv /\ IInv' /\ Met /\ "skip" \notin Recursing /\ [BreakNext]_breakVars => Met'
<1> SUFFICES ASSUME IInv, IInv', Met, "skip" \notin Recursing, [BreakNext]_breakVars PROVE Met'
  OBVIOUS
<1>0. /\ Elsewhere \in Addresses /\ Sites \subseteq Addresses /\ Elsewhere \notin Sites
      /\ pending \in Seq(Sites)
  BY BreakAssumption DEF Addresses, Met
<1>1. \A s \in Sites : /\ Pending(pending, s) \in Nat
                       /\ Here(Elsewhere, s) = 0 /\ Here(pc, s) \in Nat
                       /\ debugged => Pending(pending, s) + Here(pc, s) <= 1
  BY <1>0, PendingType DEF Here, Met, Single, Load
<1>2. CASE Opcode
  <2>1. \A s \in Sites : Load(pending, Elsewhere, s) <= Pending(pending, s) + Here(Elsewhere, s)
    BY <1>1 DEF Load
  <2>2. debugged => Single(pending, Elsewhere)
    BY <1>1 DEF Single, Load, Here
  <2> QED
    BY <1>0, <1>2, <2>1, <2>2, TurnMet DEF Opcode
<1>3. CASE SystemReturn
  <2>1. /\ Tail(pending) \in Seq(Sites)
        /\ \A s \in Sites : /\ Load(Tail(pending), Head(pending), s) = Pending(pending, s)
                            /\ Pending(Tail(pending), s) \in Nat
    BY <1>0, <1>3, PendingReturn, PendingType DEF SystemReturn, Load
  <2>2. \A s \in Sites :
          Load(Tail(pending), Head(pending), s) <= Pending(pending, s) + Here(Elsewhere, s)
    BY <1>1, <2>1
  <2>3. debugged => Single(Tail(pending), Head(pending))
    BY <1>1, <2>1 DEF Single, Here
  <2> QED
    BY <1>0, <1>3, <2>1, <2>2, <2>3, TurnMet DEF SystemReturn
<1>4. CASE Abandon
  <2>1. /\ Tail(pending) \in Seq(Sites)
        /\ \A s \in Sites : /\ Pending(pending, s) = Pending(Tail(pending), s) + Here(Head(pending), s)
                            /\ Pending(Tail(pending), s) \in Nat
    BY <1>0, <1>4, PendingReturn, PendingType DEF Abandon
  <2>2. \A s \in Sites : Load(Tail(pending), Elsewhere, s) <= Pending(pending, s) + Here(Elsewhere, s)
    BY <1>1, <2>1 DEF Load, Here
  <2>3. \A s \in Sites : debugged => Pending(Tail(pending), s) <= 1
    <3> SUFFICES ASSUME NEW s \in Sites, debugged PROVE Pending(Tail(pending), s) <= 1
      OBVIOUS
    <3>1. Here(Head(pending), s) \in {0, 1}
      BY DEF Here
    <3> QED
      BY <1>1, <2>1, <3>1
  <2>4. debugged => Single(Tail(pending), Elsewhere)
    BY <1>1, <2>1, <2>3 DEF Single, Load
  <2> QED
    BY <1>0, <1>4, <2>1, <2>2, <2>4, TurnMet DEF Abandon
<1>5. ASSUME NEW t \in Sites, SystemCall(t) PROVE Met'
  <2>1. /\ <<t>> \o pending \in Seq(Sites)
        /\ \A s \in Sites : Pending(<<t>> \o pending, s) = Pending(pending, s) + Here(t, s)
    BY <1>0, PendingCall
  <2>2. \A s \in Sites : Load(<<t>> \o pending, Elsewhere, s) <= Pending(pending, s) + Here(t, s)
    BY <1>1, <2>1 DEF Load, Here
  <2>3. debugged => Single(<<t>> \o pending, Elsewhere)
    <3>1. debugged => Pending(pending, t) = 0
      BY <1>5 DEF SystemCall, Outstanding, Met
    <3> QED
      BY <1>1, <2>1, <3>1 DEF Single, Load, Here
  <2> QED
    BY <1>0, <1>5, <2>1, <2>2, <2>3, TurnMet DEF SystemCall
<1>10. ASSUME NEW t \in Sites, SkippedCall(t) PROVE Met'
  <2>1. Pending(pending, t) = 0
    BY <1>10 DEF SkippedCall, Outstanding
  <2>2. \A s \in Sites : \/ Load(pending, t, s) <= Pending(pending, s) + Here(Elsewhere, s)
                        \/ Pending(pending, s) = 0
    BY <1>1, <2>1 DEF Load, Here
  <2>3. debugged => Single(pending, t)
    BY <1>1, <2>1 DEF Single, Load, Here
  <2> QED
    BY <1>0, <1>10, <2>2, <2>3, TurnMet DEF SkippedCall
<1>6. CASE Continue
  <2>1. /\ pc' = stopped.pc /\ pending' = stopped.pending /\ stopped' = NotStopped
        /\ UNCHANGED <<debugged, fCount, bp>> /\ debugged
    BY <1>6 DEF Continue, Met
  <2>2. stopped'.pending \in Seq(Sites) /\ ~stopped'.stopped
    BY <2>1 DEF NotStopped
  <2>3. Single(pending, pc)' /\ Enough(pending)'
    BY <1>6, <2>1, SMTT(40) DEF Continue, Met, Single, Enough, Load, Pending, Here
  <2> QED
    BY <2>1, <2>2, <2>3 DEF Met, Enabled
<1>7. CASE ResetBreaks
  <2>1. /\ pc' = Elsewhere /\ pending' = << >> /\ stopped' = NotStopped
        /\ fCount' = [s \in Sites |-> 0] /\ UNCHANGED <<debugged, bp>>
    BY <1>7 DEF ResetBreaks
  <2>2. \A s \in Sites : Pending(<< >>, s) = 0 /\ Here(Elsewhere, s) = 0 /\ fCount'[s] = 0
    BY <1>1, <2>1, PendingNone
  <2>3. /\ << >> \in Seq(Sites) /\ stopped'.pending = << >> /\ ~stopped'.stopped
    BY <2>1, EmptySeq DEF NotStopped
  <2>4. \A s \in Sites : Pending(pending, s)' = 0 /\ Load(pending, pc, s)' = 0
    BY <2>1, <2>2 DEF Load, Pending, Here
  <2>5. (Enabled(bp)' # {}) => debugged
    BY <2>1 DEF Met, Enabled
  <2> QED
    BY <2>1, <2>2, <2>3, <2>4, <2>5 DEF Met, Single, Enough
<1>8. ASSUME NEW i \in Indices, NEW new, ChangeBreakpoint(i, new) PROVE Met'
  <2>1. debugged /\ UNCHANGED <<debugged, pc, pending, fCount, stopped>>
    BY <1>8 DEF ChangeBreakpoint
  <2> QED
    BY <2>1 DEF Met, Single, Enough, Load, Pending, Here
<1>9. CASE UNCHANGED breakVars
  BY <1>9 DEF breakVars, Met, Single, Enough, Load, Pending, Here, Enabled
<1> QED
  BY <1>2, <1>3, <1>4, <1>5, <1>6, <1>7, <1>8, <1>9, <1>10
  DEF BreakNext, SetBreakpoint, ClearBreakpoint

\* EmPatchMgr.cpp's use counts: every call under way is met by a tail patch of its own when it
\* returns, unless a patched call recurses either under a debugger or into one that its head patch
\* handles (EmPatchMgr::HandlePatches).  Otherwise calls may recurse, and with a debugger or
\* without one head patches may handle calls and calls may never return.
THEOREM TailpatchesMet ==
  BreakSpec /\ (debugged => "stop" \notin Recursing) /\ "skip" \notin Recursing => []NoTailpatchLost
<1> SUFFICES ASSUME "skip" \notin Recursing
             PROVE  BreakSpec /\ (debugged => "stop" \notin Recursing) => []NoTailpatchLost
  OBVIOUS
<1>1. BreakInit => IInv
  BY BreakStarts
<1>2. BreakInit /\ (debugged => "stop" \notin Recursing) => Met
  <2> SUFFICES ASSUME BreakInit, debugged => "stop" \notin Recursing PROVE Met
    OBVIOUS
  <2>1. \A s \in Sites : Pending(<< >>, s) = 0 /\ Here(Elsewhere, s) = 0 /\ fCount[s] = 0
    BY PendingNone, BreakAssumption DEF BreakInit, Here
  <2>2. << >> \in Seq(Sites) /\ stopped.pending = << >> /\ ~stopped.stopped
    BY EmptySeq DEF BreakInit, NotStopped
  <2>3. Enabled(bp) = {}
    BY DEF BreakInit, Enabled, NoBreakpoint
  <2> QED
    BY <2>1, <2>2, <2>3 DEF BreakInit, Met, Single, Enough, Load
<1>3. IInv /\ Met => NoTailpatchLost
  <2> SUFFICES ASSUME IInv, Met, NEW s \in Sites PROVE fCount[s] >= Outstanding(s)
    BY DEF NoTailpatchLost
  <2>1. Pending(pending, s) \in Nat /\ fCount[s] \in Nat /\ Here(pc, s) \in Nat
    BY PendingType DEF Met, IInv, Lists, Here
  <2>2. Pending(pending, s) <= fCount[s]
    BY <2>1 DEF Met, Enough, Load
  <2> QED
    BY <2>1, <2>2 DEF Outstanding
<1>4. IInv /\ IInv' /\ Met /\ [BreakNext]_breakVars => Met'
  BY StepMet
<1> QED
  BY <1>1, <1>2, <1>3, <1>4, StepKeeps, PTL DEF BreakSpec

-----------------------------------------------------------------------------
(***************************************************************************)
(* The invariant, part by part, of the state n of the sockets.             *)
(***************************************************************************)
\* Addresses are given out in order, and in order they stand in the two lists.
Old(n) == Len(n.gSockets)
Made(n) == Old(n) + Len(n.gSocketsToBeAdded)
Numbered(n) ==
  /\ \A i \in 1 .. Old(n) : n.gSockets[i] = i
  /\ \A i \in 1 .. Len(n.gSocketsToBeAdded) : n.gSocketsToBeAdded[i] = Old(n) + i
  /\ Made(n) <= Cardinality(Sockets)
  /\ \A s \in Sockets : n.sock[s] = Free <=> s > Made(n)

\* What a socket can be like.
Plausible(r) ==
  /\ r.state = "free" => r = Free
  /\ r.fDeleted <=> r.state = "unconnected"
  /\ r.pending => r.state = "listening"
  /\ r.state # "connected" => r.inbox = << >> /\ r.owed = 0
  /\ r.inbox # << >> => r.owed = 0
  /\ r.port # "rpc" => r.owed = 0 /\ r.inbox # <<"wait">>
Kinds(n) == \A s \in Sockets : Plausible(n.sock[s])

Listens(r, port) == r.state = "listening" /\ r.port = port
Debugs(r) == r.state = "connected" /\ r.port # "rpc"
OnlyListener(n, s, port) == s \in Sockets /\ \A r \in Sockets : Listens(n.sock[r], port) <=> r = s

\* Who listens, and where the globals say so.
ScriptsListener(n) == \E s \in Sockets : OnlyListener(n, s, "rpc")
DebugListeners(n) ==
  IF n.gConnectedDebugSocket = NULL
  THEN /\ \A p \in DebugPorts : OnlyListener(n, n.gDebuggerSocket[p], p)
       /\ \A s \in Sockets : ~ Debugs(n.sock[s])
       /\ n.gDebuggerSocket["debug1"] > Old(n) <=> n.gDebuggerSocket["debug2"] > Old(n)
  ELSE /\ \A p \in DebugPorts : n.gDebuggerSocket[p] = NULL
       /\ \A s \in Sockets, p \in DebugPorts : ~ Listens(n.sock[s], p)
       /\ \A s \in Sockets : Debugs(n.sock[s]) <=> s = n.gConnectedDebugSocket

\* The entries of the list that are not answered yet, from the place c on, are of those who wait.
Waiters(n, c) ==
  /\ c <= Len(n.gSLPTimeouts) + 1
  /\ \A i, j \in 1 .. Len(n.gSLPTimeouts) : n.gSLPTimeouts[i] = n.gSLPTimeouts[j] => i = j
  /\ \A i \in 1 .. Len(n.gSLPTimeouts) :
       n.sock[n.gSLPTimeouts[i]].state = "connected" /\ n.sock[n.gSLPTimeouts[i]].port = "rpc"
  /\ \A s \in Sockets :
       n.sock[s].owed = 1 <=> \E i \in 1 .. Len(n.gSLPTimeouts) : i >= c /\ n.gSLPTimeouts[i] = s

\* How many sockets there are: who is connected, who listens, and since sockets were deleted the
\* last time one new listener for scripts and two for debuggers.
Taken(n) == {s \in Sockets : n.sock[s].port = "rpc" /\ (n.sock[s].state = "connected" \/ n.sock[s].pending)}
NewScripts(n) == IF \E s \in Sockets : s > Old(n) /\ Listens(n.sock[s], "rpc") THEN 1 ELSE 0
NewDebug(n) == IF \E s \in Sockets : s > Old(n) /\ Listens(n.sock[s], "debug1") THEN 2 ELSE 0
Bounded(n) ==
  /\ Cardinality(Taken(n)) <= MaxScripts
  /\ Made(n) <= MaxScripts + 3 + NewScripts(n) + NewDebug(n)

Good(n, c) ==
  /\ n \in Nets /\ Numbered(n) /\ Kinds(n) /\ ScriptsListener(n) /\ DebugListeners(n)
  /\ Waiters(n, c) /\ Bounded(n)

\* After Shutdown.
Gone(n) ==
  /\ n \in Nets /\ n.gSockets = << >> /\ n.gSocketsToBeAdded = << >> /\ n.gSLPTimeouts = << >>
  /\ n.gConnectedDebugSocket = NULL /\ \A p \in DebugPorts : n.gDebuggerSocket[p] = NULL
  /\ \A s \in Sockets : n.sock[s] = Free

Threads ==
  /\ ui \in [at : {"out", "idling", "stopping", "rpc", "down"}, iter : 0 .. Cardinality(Sockets) + 1]
  /\ cpu \in [at : {"running", "entering", "signalling", "waiting for itself"}, iter : 0 .. Cardinality(Sockets) + 1]
  /\ ui.at \in {"idling", "stopping"} => ui.iter >= 1
  /\ cpu.at = "signalling" => ui.at \in {"out", "idling", "stopping"} /\ cpu.iter >= 1
  /\ cpu.at # "signalling" => cpu.iter = 0
  /\ cpu.at = "entering" => net.gConnectedDebugSocket # NULL \/ ui.at = "stopping"
  /\ ui.at = "down" => cpu.at = "running"

SocketsInv ==
  /\ Threads
  /\ IF ui.at = "down" THEN Gone(net) ELSE Good(net, cpu.iter)

\* Room for the sockets of the scripts, a listener for each of the three ports and, until the next
\* DeletePending, a new one for each; and the faults that Close and the callbacks make good.  After
\* "accept", "listen", "deferred", "race" and "crossed" the code leaves a port without a listener or a
\* list with a client that is gone, as TLC finds with each of them.
Room ==
  /\ MaxScripts \in Nat /\ \E N \in Nat : N >= MaxScripts + 6 /\ Sockets = 1 .. N
  /\ NULL \notin Sockets
  /\ SocketFaults \subseteq {"reply", "stop", "entry"}

(***************************************************************************)
(* Kept                                                                    *)
(***************************************************************************)

\* The rank numbers the places of a finite set without a gap.
LEMMA Ranks ==
  ASSUME NEW m \in Nat, NEW I \in SUBSET (1 .. m)
  PROVE  /\ Cardinality(I) \in Nat
         /\ \A i \in I : Rank(I, i) \in 1 .. Cardinality(I)
         /\ \A i, j \in I : Rank(I, i) = Rank(I, j) => i = j
         /\ \A k \in 1 .. Cardinality(I) : \E i \in I : Rank(I, i) = k
<1> DEFINE Upto(i) == {j \in I : j <= i}
           f == [i \in I |-> Rank(I, i)]
<1>1. IsFiniteSet(I) /\ Cardinality(I) \in Nat
  <2>1. IsFiniteSet(1 .. m)
    BY FS_Interval
  <2>2. IsFiniteSet(I)
    BY <2>1, FS_Subset
  <2> QED
    BY <2>2, FS_CardinalityType
<1>2. \A i \in I : IsFiniteSet(Upto(i)) /\ Cardinality(Upto(i)) \in Nat /\ Cardinality(Upto(i)) <= Cardinality(I)
  BY <1>1, FS_Subset, FS_CardinalityType
<1>3. ASSUME NEW i \in I, NEW j \in I, i < j
      PROVE  Cardinality(Upto(i)) < Cardinality(Upto(j))
  <2>1. Upto(i) \in SUBSET Upto(j) /\ j \in Upto(j) /\ j \notin Upto(i)
    <3>1. \A k \in I : k \in Int
      OBVIOUS
    <3>2. i \in Int /\ j \in Int
      BY <3>1
    <3>3. (\A k \in I : k <= i => k <= j) /\ j <= j /\ ~ (j <= i)
      BY <1>3, <3>1, <3>2
    <3> QED
      BY <3>3, Zenon
  <2>2. Cardinality(Upto(i)) <= Cardinality(Upto(j)) /\ Cardinality(Upto(i)) # Cardinality(Upto(j))
    <3> HIDE DEF Upto
    <3> QED
      BY <1>2, <2>1, FS_Subset
  <2> QED
    BY <1>2, <2>2
<1>4. \A i \in I : Rank(I, i) \in 1 .. Cardinality(I)
  <2> SUFFICES ASSUME NEW i \in I PROVE Cardinality(Upto(i)) \in 1 .. Cardinality(I)
    BY DEF Rank
  <2>1. Upto(i) # {}
    OBVIOUS
  <2>2. Cardinality(Upto(i)) # 0
    BY <1>2, <2>1, FS_EmptySet
  <2> QED
    BY <1>1, <1>2, <2>2
<1>5. \A i, j \in I : Rank(I, i) = Rank(I, j) => i = j
  <2> SUFFICES ASSUME NEW i \in I, NEW j \in I, Rank(I, i) = Rank(I, j), i # j PROVE FALSE
    OBVIOUS
  <2>1. i < j \/ j < i
    OBVIOUS
  <2> QED
    BY <1>2, <1>3, <2>1 DEF Rank
<1>6. f \in Injection(I, 1 .. Cardinality(I))
  BY <1>4, <1>5 DEF Injection, IsInjective
<1>7. f \in Surjection(I, 1 .. Cardinality(I))
  <2>1. IsFiniteSet(1 .. Cardinality(I)) /\ Cardinality(1 .. Cardinality(I)) = Cardinality(I)
    BY <1>1, FS_Interval
  <2> HIDE DEF f
  <2> QED
    BY <1>6, <2>1, FS_Injection
<1>8. \A k \in 1 .. Cardinality(I) : \E i \in I : Rank(I, i) = k
  BY <1>7 DEF Surjection
<1> QED
  BY <1>1, <1>4, <1>5, <1>8

\* What is kept of a sequence are its elements at the places kept, each once.
LEMMA KeptElements ==
  ASSUME NEW S, NEW q \in Seq(S), NEW I \in SUBSET (1 .. Len(q))
  PROVE  /\ Cardinality(I) \in Nat
         /\ Kept(q, I) \in Seq(S) /\ Len(Kept(q, I)) = Cardinality(I)
         /\ \E place \in [1 .. Cardinality(I) -> I] :
              /\ \A k \in 1 .. Cardinality(I) : Kept(q, I)[k] = q[place[k]]
              /\ \A k, l \in 1 .. Cardinality(I) : place[k] = place[l] => k = l
              /\ \A i \in I : \E k \in 1 .. Cardinality(I) : place[k] = i
<1> DEFINE place == [k \in 1 .. Cardinality(I) |-> CHOOSE i \in I : Rank(I, i) = k]
<1>1. Len(q) \in Nat
  BY LenProperties
<1>2. Cardinality(I) \in Nat /\ \A k \in 1 .. Cardinality(I) : \E i \in I : Rank(I, i) = k
  BY <1>1, Ranks
<1>3. \A k \in 1 .. Cardinality(I) : place[k] \in I /\ Rank(I, place[k]) = k
  BY <1>2
<1>4. \A i \in I : Rank(I, i) \in 1 .. Cardinality(I)
  BY <1>1, Ranks
<1>5. \A i, j \in I : Rank(I, i) = Rank(I, j) => i = j
  BY <1>1, Ranks
<1>6. Kept(q, I) = [k \in 1 .. Cardinality(I) |-> q[place[k]]]
  BY DEF Kept
<1> HIDE DEF place
<1>7. place \in [1 .. Cardinality(I) -> I]
  BY <1>3 DEF place
<1>8. \A k \in 1 .. Cardinality(I) : q[place[k]] \in S
  BY <1>1, <1>7, ElementOfSeq
<1>9. Kept(q, I) \in Seq(S) /\ Len(Kept(q, I)) = Cardinality(I)
  BY <1>2, <1>6, <1>8, IsASeq
<1>10. \A i \in I : place[Rank(I, i)] = i
  BY <1>3, <1>4, <1>5
<1> QED
  BY <1>2, <1>3, <1>4, <1>6, <1>7, <1>9, <1>10

-----------------------------------------------------------------------------
(***************************************************************************)
(* What the callbacks change.                                              *)
(***************************************************************************)
Fresh(state, port, deleted) ==
  [state |-> state, port |-> port, fDeleted |-> deleted, pending |-> FALSE,
   inbox |-> << >>, closed |-> FALSE, owed |-> 0]
Listener(port) == Fresh("listening", port, FALSE)
Dead(port) == Fresh("unconnected", port, TRUE)
Ports == DebugPorts \union {"rpc"}

LEMMA SocketNumbers ==
  ASSUME Room
  PROVE  /\ Cardinality(Sockets) \in Nat /\ Sockets = 1 .. Cardinality(Sockets)
         /\ Cardinality(Sockets) >= MaxScripts + 6
         /\ MaxScripts \in Nat /\ NULL \notin Sockets
<1> PICK N \in Nat : N >= MaxScripts + 6 /\ Sockets = 1 .. N
  BY DEF Room
<1>1. Cardinality(Sockets) = N
  BY FS_Interval
<1> QED
  BY <1>1 DEF Room

LEMMA SameSocket ==
  ASSUME NEW r \in CTCPSocket, NEW q \in CTCPSocket,
         r.state = q.state, r.port = q.port, r.fDeleted = q.fDeleted, r.pending = q.pending,
         r.inbox = q.inbox, r.closed = q.closed, r.owed = q.owed
  PROVE  r = q
BY DEF CTCPSocket

LEMMA Records ==
  /\ Free \in CTCPSocket /\ Plausible(Free)
  /\ \A port \in Ports : /\ Listener(port) \in CTCPSocket /\ Listener(port) # Free /\ Plausible(Listener(port))
                         /\ Dead(port) \in CTCPSocket /\ Dead(port) # Free /\ Plausible(Dead(port))
<1>1. Free = Fresh("free", "rpc", FALSE)
  BY DEF Free, Fresh
<1>3. \A state \in {"free", "unconnected", "listening", "connected"}, port \in Ports, deleted \in BOOLEAN :
        Fresh(state, port, deleted) \in CTCPSocket
  BY DEF Fresh, CTCPSocket, Ports
<1>4. << >> # <<"wait">>
  OBVIOUS
<1>5. Free \in CTCPSocket /\ Plausible(Free)
  <2> HIDE DEF Fresh
  <2>1. Free \in CTCPSocket
    BY <1>1, <1>3 DEF Ports
  <2>2. Free.state = "free" /\ Free.port = "rpc" /\ Free.fDeleted = FALSE /\ Free.pending = FALSE
        /\ Free.inbox = << >> /\ Free.owed = 0
    BY DEF Free
  <2> QED
    BY <1>4, <2>1, <2>2 DEF Plausible
<1>6. ASSUME NEW port \in Ports
      PROVE  /\ Listener(port) \in CTCPSocket /\ Listener(port) # Free /\ Plausible(Listener(port))
             /\ Dead(port) \in CTCPSocket /\ Dead(port) # Free /\ Plausible(Dead(port))
  <2>1. Listener(port) \in CTCPSocket /\ Dead(port) \in CTCPSocket
    BY <1>3 DEF Listener, Dead
  <2>2. /\ Listener(port).state = "listening" /\ Listener(port).fDeleted = FALSE
        /\ Listener(port).pending = FALSE /\ Listener(port).inbox = << >> /\ Listener(port).owed = 0
    BY DEF Listener, Fresh
  <2>3. /\ Dead(port).state = "unconnected" /\ Dead(port).fDeleted = TRUE
        /\ Dead(port).pending = FALSE /\ Dead(port).inbox = << >> /\ Dead(port).owed = 0
    BY DEF Dead, Fresh
  <2>4. Free.state = "free"
    BY DEF Free
  <2>5. Listener(port) # Free /\ Dead(port) # Free
    BY <2>2, <2>3, <2>4
  <2>6. Plausible(Listener(port))
    BY <1>4, <2>2 DEF Plausible
  <2>7. Plausible(Dead(port))
    BY <1>4, <2>3 DEF Plausible
  <2> QED
    BY <2>1, <2>5, <2>6, <2>7
<1> QED
  BY <1>5, <1>6

\* The records that the callbacks write.
LEMMA Written ==
  ASSUME NEW port \in Ports
  PROVE  /\ [Free EXCEPT !.state = "listening", !.port = port] = Listener(port)
         /\ \A d \in BOOLEAN :
              [[Free EXCEPT !.state = "unconnected", !.port = port, !.fDeleted = d] EXCEPT !.fDeleted = TRUE]
              = Dead(port)
<1>1. Listener(port) \in CTCPSocket /\ Dead(port) \in CTCPSocket /\ Free \in CTCPSocket
  BY Records
<1>2. Free.pending = FALSE /\ Free.inbox = << >> /\ Free.closed = FALSE /\ Free.owed = 0 /\ Free.fDeleted = FALSE
  BY DEF Free
<1>3. [Free EXCEPT !.state = "listening", !.port = port] = Listener(port)
  <2> DEFINE r == [Free EXCEPT !.state = "listening", !.port = port]
  <2>1. r \in CTCPSocket
    BY <1>1 DEF CTCPSocket, Ports
  <2>2. /\ r.state = "listening" /\ r.port = port /\ r.fDeleted = FALSE /\ r.pending = FALSE
        /\ r.inbox = << >> /\ r.closed = FALSE /\ r.owed = 0
    BY <1>1, <1>2 DEF CTCPSocket
  <2>3. /\ Listener(port).state = "listening" /\ Listener(port).port = port /\ Listener(port).fDeleted = FALSE
        /\ Listener(port).pending = FALSE /\ Listener(port).inbox = << >>
        /\ Listener(port).closed = FALSE /\ Listener(port).owed = 0
    BY DEF Listener, Fresh
  <2> HIDE DEF r
  <2> QED
    BY <1>1, <2>1, <2>2, <2>3, SameSocket DEF r
<1>4. ASSUME NEW d \in BOOLEAN
      PROVE  [[Free EXCEPT !.state = "unconnected", !.port = port, !.fDeleted = d] EXCEPT !.fDeleted = TRUE]
             = Dead(port)
  <2> DEFINE q == [Free EXCEPT !.state = "unconnected", !.port = port, !.fDeleted = d]
             r == [q EXCEPT !.fDeleted = TRUE]
  <2>1. q \in CTCPSocket
    BY <1>1 DEF CTCPSocket, Ports
  <2>2. /\ q.state = "unconnected" /\ q.port = port /\ q.pending = FALSE
        /\ q.inbox = << >> /\ q.closed = FALSE /\ q.owed = 0
    BY <1>1, <1>2 DEF CTCPSocket
  <2> HIDE DEF q
  <2>3. r \in CTCPSocket
    BY <2>1 DEF CTCPSocket
  <2>4. /\ r.state = "unconnected" /\ r.port = port /\ r.fDeleted = TRUE /\ r.pending = FALSE
        /\ r.inbox = << >> /\ r.closed = FALSE /\ r.owed = 0
    BY <2>1, <2>2 DEF CTCPSocket
  <2>5. /\ Dead(port).state = "unconnected" /\ Dead(port).port = port /\ Dead(port).fDeleted = TRUE
        /\ Dead(port).pending = FALSE /\ Dead(port).inbox = << >>
        /\ Dead(port).closed = FALSE /\ Dead(port).owed = 0
    BY DEF Dead, Fresh
  <2> HIDE DEF r
  <2>6. r = Dead(port)
    BY <1>1, <2>3, <2>4, <2>5, SameSocket
  <2> QED
    BY <2>6 DEF r, q
<1> QED
  BY <1>3, <1>4

LEMMA NetFields ==
  ASSUME NEW n \in Nets
  PROVE  /\ n.sock \in [Sockets -> CTCPSocket]
         /\ n.gSockets \in Seq(Sockets) /\ Old(n) \in Nat
         /\ n.gSocketsToBeAdded \in Seq(Sockets) /\ Len(n.gSocketsToBeAdded) \in Nat /\ Made(n) \in Nat
         /\ n.gDebuggerSocket \in [DebugPorts -> Sockets \union {NULL}]
         /\ n.gConnectedDebugSocket \in Sockets \union {NULL}
         /\ n.gSLPTimeouts \in Seq(Sockets) /\ Len(n.gSLPTimeouts) \in Nat
<1>1. /\ n.sock \in [Sockets -> CTCPSocket]
      /\ n.gSockets \in Seq(Sockets)
      /\ n.gSocketsToBeAdded \in Seq(Sockets)
      /\ n.gDebuggerSocket \in [DebugPorts -> Sockets \union {NULL}]
      /\ n.gConnectedDebugSocket \in Sockets \union {NULL}
      /\ n.gSLPTimeouts \in Seq(Sockets)
  BY DEF Nets
<1>2. Len(n.gSockets) \in Nat
  BY <1>1, LenProperties
<1>3. Len(n.gSocketsToBeAdded) \in Nat
  BY <1>1, LenProperties
<1>4. Len(n.gSLPTimeouts) \in Nat
  BY <1>1, LenProperties
<1>5. Old(n) \in Nat /\ Made(n) \in Nat
  <2>1. \A a, b \in Nat : a + b \in Nat
    OBVIOUS
  <2> QED
    BY <1>2, <1>3, <2>1, Zenon DEF Old, Made
<1> QED
  BY <1>1, <1>3, <1>4, <1>5

\* A new socket is the next one.
LEMMA FreshSocket ==
  ASSUME Room, NEW n \in Nets, Numbered(n), Made(n) < Cardinality(Sockets)
  PROVE  Unused(n) = Made(n) + 1 /\ Made(n) + 1 \in Sockets
<1> DEFINE new == Made(n) + 1
           Fits(s) == n.sock[s] = Free /\ \A r \in Sockets : r < s => n.sock[r] # Free
<1>1. Made(n) \in Nat
  BY NetFields
<1>2. new \in Sockets
  BY <1>1, SocketNumbers
<1>3. \A s \in Sockets : s \in Nat
  BY SocketNumbers
<1>4. \A s \in Sockets : Fits(s) <=> s = new
  <2>1. \A s \in Sockets : n.sock[s] = Free <=> s > Made(n)
    BY DEF Numbered
  <2>2. n.sock[new] = Free
    BY <1>1, <1>2, <2>1
  <2> SUFFICES ASSUME NEW s \in Sockets PROVE Fits(s) <=> s = new
    OBVIOUS
  <2>3. ASSUME Fits(s) PROVE s = new
    <3>1. s > Made(n)
      BY <2>1, <2>3
    <3>2. ~ (new < s)
      BY <1>2, <2>2, <2>3
    <3> QED
      BY <1>1, <1>3, <3>1, <3>2
  <2>4. Fits(new)
    <3> SUFFICES ASSUME NEW r \in Sockets, r < new PROVE n.sock[r] # Free
      BY <2>2
    <3> QED
      BY <1>1, <1>3, <2>1
  <2> HIDE DEF Fits, new
  <2> QED
    BY <2>3, <2>4
<1> HIDE DEF Fits
<1>5. Unused(n) = CHOOSE s \in Sockets : Fits(s)
  BY DEF Unused, Fits
<1> QED
  BY <1>2, <1>4, <1>5

LEMMA Listening ==
  ASSUME Room, NEW n \in Nets, Numbered(n), Made(n) < Cardinality(Sockets), NEW port \in Ports
  PROVE  LET m == Listen(n, port) IN
         /\ m \in Nets /\ Numbered(m) /\ Made(m) = Made(n) + 1 /\ Old(m) = Old(n)
         /\ Made(n) + 1 \in Sockets /\ Unused(n) = Made(n) + 1
         /\ \A s \in Sockets : m.sock[s] = IF s = Made(n) + 1 THEN Listener(port) ELSE n.sock[s]
         /\ m.gSockets = n.gSockets
         /\ m.gDebuggerSocket = n.gDebuggerSocket /\ m.gConnectedDebugSocket = n.gConnectedDebugSocket
         /\ m.gSLPTimeouts = n.gSLPTimeouts
<1> DEFINE m == Listen(n, port)
           new == Made(n) + 1
<1>1. Unused(n) = new /\ new \in Sockets
  BY FreshSocket
<1>2. /\ n.sock \in [Sockets -> CTCPSocket] /\ n.gSocketsToBeAdded \in Seq(Sockets)
      /\ Old(n) \in Nat /\ Len(n.gSocketsToBeAdded) \in Nat
  BY NetFields
<1> DEFINE sock == [n.sock EXCEPT ![new] = Listener(port)]
           added == Append(n.gSocketsToBeAdded, new)
<1>3. m = [n EXCEPT !.sock = sock, !.gSocketsToBeAdded = added]
  BY <1>1, Written DEF Listen
<1> HIDE DEF new, m
<1>4. /\ sock \in [Sockets -> CTCPSocket]
      /\ \A s \in Sockets : sock[s] = IF s = new THEN Listener(port) ELSE n.sock[s]
  BY <1>1, <1>2, Records
<1>5. /\ added \in Seq(Sockets)
      /\ Len(added) = Len(n.gSocketsToBeAdded) + 1
      /\ \A i \in 1 .. Len(n.gSocketsToBeAdded) : added[i] = n.gSocketsToBeAdded[i]
      /\ added[Len(n.gSocketsToBeAdded) + 1] = new
  BY <1>1, <1>2, AppendProperties
<1> HIDE DEF sock, added
<1>6. m \in Nets
  BY <1>3, <1>4, <1>5 DEF Nets
<1>7. /\ m.sock = sock /\ m.gSocketsToBeAdded = added /\ m.gSockets = n.gSockets
      /\ m.gDebuggerSocket = n.gDebuggerSocket /\ m.gConnectedDebugSocket = n.gConnectedDebugSocket
      /\ m.gSLPTimeouts = n.gSLPTimeouts
  BY <1>3 DEF Nets
<1>8. Old(m) = Old(n) /\ Made(m) = Made(n) + 1 /\ Made(n) \in Nat
  <2>1. \A a, b \in Nat : a + b \in Nat /\ a + (b + 1) = a + b + 1
    OBVIOUS
  <2>2. Len(m.gSockets) = Len(n.gSockets) /\ Len(m.gSocketsToBeAdded) = Len(n.gSocketsToBeAdded) + 1
    BY <1>5, <1>7
  <2>3. Len(n.gSockets) \in Nat /\ Len(n.gSocketsToBeAdded) \in Nat
    BY <1>2
  <2>4. Len(n.gSockets) + (Len(n.gSocketsToBeAdded) + 1) = Len(n.gSockets) + Len(n.gSocketsToBeAdded) + 1
        /\ Len(n.gSockets) + Len(n.gSocketsToBeAdded) \in Nat
    BY <2>1, <2>3
  <2> QED
    BY <2>2, <2>4 DEF Old, Made
<1>9. Numbered(m)
  <2>1. \A i \in 1 .. Len(added) : added[i] = Old(n) + i
    <3>1. new = Old(n) + Len(n.gSocketsToBeAdded) + 1
      BY <1>2 DEF Made, Old, new
    <3>2. \A i \in 1 .. Len(n.gSocketsToBeAdded) : n.gSocketsToBeAdded[i] = Old(n) + i
      BY DEF Numbered
    <3> SUFFICES ASSUME NEW i \in 1 .. Len(added) PROVE added[i] = Old(n) + i
      OBVIOUS
    <3>3. CASE i \in 1 .. Len(n.gSocketsToBeAdded)
      BY <1>5, <3>2, <3>3
    <3>4. CASE i = Len(n.gSocketsToBeAdded) + 1
      <4>1. added[i] = new
        BY <1>5, <3>4
      <4>2. Old(n) + i = Old(n) + Len(n.gSocketsToBeAdded) + 1
        BY <1>2, <3>4
      <4> QED
        BY <3>1, <4>1, <4>2
    <3> QED
      BY <1>2, <1>5, <3>3, <3>4
  <2>2. \A s \in Sockets : m.sock[s] = Free <=> s > Made(m)
    <3>1. \A s \in Sockets : n.sock[s] = Free <=> s > Made(n)
      BY DEF Numbered
    <3>2. Listener(port) # Free /\ \A s \in Sockets : s \in Nat
      BY Records, SocketNumbers
    <3> QED
      BY <1>4, <1>7, <1>8, <3>1, <3>2 DEF new
  <2>3. Made(m) <= Cardinality(Sockets)
    BY <1>8, SocketNumbers
  <2>4. \A i \in 1 .. Old(m) : m.gSockets[i] = i
    BY <1>7, <1>8 DEF Numbered
  <2> QED
    BY <1>7, <1>8, <2>1, <2>2, <2>3, <2>4 DEF Numbered
<1> QED
  BY <1>1, <1>4, <1>6, <1>7, <1>8, <1>9 DEF m, new

\* The lists and globals that only a new socket or a debugger changes.
SameLists(m, n) ==
  /\ m.gSockets = n.gSockets /\ m.gSocketsToBeAdded = n.gSocketsToBeAdded
  /\ m.gDebuggerSocket = n.gDebuggerSocket /\ m.gConnectedDebugSocket = n.gConnectedDebugSocket

Unconnected(port, d) == [Free EXCEPT !.state = "unconnected", !.port = port, !.fDeleted = d]

LEMMA ShutFields ==
  ASSUME NEW n \in Nets, NEW s \in Sockets
  PROVE  LET m == Shut(n, s) IN
         /\ m \in Nets /\ SameLists(m, n) /\ m.gSLPTimeouts = n.gSLPTimeouts
         /\ m.sock = [n.sock EXCEPT ![s] = Unconnected(n.sock[s].port, n.sock[s].fDeleted)]
<1> DEFINE m == Shut(n, s)
           new == Unconnected(n.sock[s].port, n.sock[s].fDeleted)
           sock == [n.sock EXCEPT ![s] = new]
<1>1. m = [n EXCEPT !.sock = sock]
  BY DEF Shut, Unconnected
<1>2. new \in CTCPSocket
  <2>1. n.sock[s] \in CTCPSocket /\ Free \in CTCPSocket
    BY NetFields, Records
  <2> QED
    BY <2>1 DEF CTCPSocket, Unconnected
<1> HIDE DEF new, m
<1>3. sock \in [Sockets -> CTCPSocket]
  BY <1>2, NetFields
<1> HIDE DEF sock
<1>4. m \in Nets
  BY <1>1, <1>3 DEF Nets
<1>5. m.sock = sock /\ SameLists(m, n) /\ m.gSLPTimeouts = n.gSLPTimeouts
  BY <1>1 DEF Nets, SameLists
<1> QED
  BY <1>4, <1>5 DEF m, sock, new

LEMMA DeleteFields ==
  ASSUME NEW n \in Nets, NEW s \in Sockets
  PROVE  LET m == Delete(n, s) IN
         /\ m \in Nets /\ SameLists(m, n) /\ m.gSLPTimeouts = n.gSLPTimeouts
         /\ m.sock = [n.sock EXCEPT ![s].fDeleted = TRUE]
<1> DEFINE m == Delete(n, s)
           sock == [n.sock EXCEPT ![s].fDeleted = TRUE]
<1>1. m = [n EXCEPT !.sock = sock]
  BY DEF Delete
<1>2. [n.sock[s] EXCEPT !.fDeleted = TRUE] \in CTCPSocket
  <2>1. n.sock[s] \in CTCPSocket
    BY NetFields
  <2> QED
    BY <2>1 DEF CTCPSocket
<1>3. sock \in [Sockets -> CTCPSocket]
  BY <1>2, NetFields
<1> HIDE DEF sock, m
<1>4. m \in Nets
  BY <1>1, <1>3 DEF Nets
<1>5. m.sock = sock /\ SameLists(m, n) /\ m.gSLPTimeouts = n.gSLPTimeouts
  BY <1>1 DEF Nets, SameLists
<1> QED
  BY <1>4, <1>5 DEF m, sock

\* A socket is shut, something else happens to the lists, and it is deleted.
LEMMA ShutThenDeleted ==
  ASSUME NEW n \in Nets, NEW s \in Sockets, NEW k \in Nets, k.sock = Shut(n, s).sock
  PROVE  \A r \in Sockets : Delete(k, s).sock[r] = IF r = s THEN Dead(n.sock[s].port) ELSE n.sock[r]
<1> DEFINE port == n.sock[s].port
           d == n.sock[s].fDeleted
<1>1. port \in Ports /\ d \in BOOLEAN
  <2>1. n.sock[s] \in CTCPSocket
    BY NetFields
  <2> QED
    BY <2>1 DEF CTCPSocket, Ports
<1> HIDE DEF port, d
<1>2. k.sock = [n.sock EXCEPT ![s] = Unconnected(port, d)]
  BY ShutFields DEF port, d
<1>3. Delete(k, s).sock = [k.sock EXCEPT ![s].fDeleted = TRUE]
  BY DeleteFields
<1>4. n.sock \in [Sockets -> CTCPSocket]
  BY NetFields
<1>5. [Unconnected(port, d) EXCEPT !.fDeleted = TRUE] = Dead(port)
  BY <1>1, Written DEF Unconnected
<1> HIDE DEF Dead
<1>6. \A r \in Sockets : k.sock[r] = IF r = s THEN Unconnected(port, d) ELSE n.sock[r]
  BY <1>2, <1>4
<1>7. k.sock \in [Sockets -> CTCPSocket]
  BY NetFields
<1>8. \A r \in Sockets : Delete(k, s).sock[r] = IF r = s THEN [k.sock[s] EXCEPT !.fDeleted = TRUE] ELSE k.sock[r]
  BY <1>3, <1>7
<1> QED
  BY <1>5, <1>6, <1>8 DEF port

\* All of a set of sockets.
LEMMA Shutting ==
  ASSUME NEW n \in Nets, NEW S \in SUBSET Sockets
  PROVE  LET m == ShutAll(n, S) IN
         /\ m \in Nets /\ SameLists(m, n) /\ m.gSLPTimeouts = n.gSLPTimeouts
         /\ \A s \in Sockets : m.sock[s] = IF s \in S THEN Dead(n.sock[s].port) ELSE n.sock[s]
<1> DEFINE m == ShutAll(n, S)
           sock == [s \in Sockets |-> IF s \in S THEN Delete(Shut(n, s), s).sock[s] ELSE n.sock[s]]
<1>1. m = [n EXCEPT !.sock = sock]
  BY DEF ShutAll
<1>2. \A s \in Sockets : sock[s] = IF s \in S THEN Dead(n.sock[s].port) ELSE n.sock[s]
  <2> SUFFICES ASSUME NEW s \in Sockets PROVE Delete(Shut(n, s), s).sock[s] = Dead(n.sock[s].port)
    OBVIOUS
  <2>1. Shut(n, s) \in Nets
    BY ShutFields
  <2> QED
    BY <2>1, ShutThenDeleted
<1>3. sock \in [Sockets -> CTCPSocket]
  <2>1. \A s \in Sockets : n.sock[s] \in CTCPSocket /\ n.sock[s].port \in Ports
    <3>1. \A s \in Sockets : n.sock[s] \in CTCPSocket
      BY NetFields
    <3> QED
      BY <3>1 DEF CTCPSocket, Ports
  <2>2. \A s \in Sockets : sock[s] \in CTCPSocket
    BY <1>2, <2>1, Records
  <2> QED
    BY <2>2
<1> HIDE DEF sock, m
<1>4. m \in Nets
  BY <1>1, <1>3 DEF Nets
<1>5. m.sock = sock /\ SameLists(m, n) /\ m.gSLPTimeouts = n.gSLPTimeouts
  BY <1>1 DEF Nets, SameLists
<1> QED
  BY <1>2, <1>4, <1>5 DEF m

LEMMA NumberedStill ==
  ASSUME NEW n, NEW m, Numbered(n), m.gSockets = n.gSockets, m.gSocketsToBeAdded = n.gSocketsToBeAdded,
         \A s \in Sockets : m.sock[s] = Free <=> n.sock[s] = Free
  PROVE  Numbered(m) /\ Made(m) = Made(n) /\ Old(m) = Old(n)
BY DEF Numbered, Made, Old

\* Who disconnects is forgotten, and nobody else.
LEMMA Forgetting ==
  ASSUME NEW n \in Nets, NEW s \in Sockets
  PROVE  LET q == n.gSLPTimeouts
             f == Forgotten(n, s) IN
         /\ f \in Seq(Sockets) /\ Len(f) \in Nat
         /\ \A r \in Sockets : (\E i \in 1 .. Len(f) : f[i] = r) <=> r # s /\ \E i \in 1 .. Len(q) : q[i] = r
         /\ (\A i, j \in 1 .. Len(q) : q[i] = q[j] => i = j) => \A i, j \in 1 .. Len(f) : f[i] = f[j] => i = j
<1> DEFINE q == n.gSLPTimeouts
           I == {i \in 1 .. Len(q) : q[i] # s}
           f == Kept(q, I)
<1>1. Forgotten(n, s) = f
  BY DEF Forgotten
<1>2. q \in Seq(Sockets) /\ I \in SUBSET (1 .. Len(q))
  BY NetFields
<1>3. \A i \in 1 .. Len(q) : i \in I <=> q[i] # s
  OBVIOUS
<1> HIDE DEF q, I
<1>4. f \in Seq(Sockets) /\ Len(f) = Cardinality(I) /\ Cardinality(I) \in Nat
  BY <1>2, KeptElements
<1>5. PICK place \in [1 .. Cardinality(I) -> I] :
        /\ \A k \in 1 .. Cardinality(I) : f[k] = q[place[k]]
        /\ \A k, l \in 1 .. Cardinality(I) : place[k] = place[l] => k = l
        /\ \A i \in I : \E k \in 1 .. Cardinality(I) : place[k] = i
  BY <1>2, KeptElements
<1> HIDE DEF f
<1>6. \A k \in 1 .. Len(f) : place[k] \in I /\ place[k] \in 1 .. Len(q) /\ f[k] = q[place[k]]
  BY <1>2, <1>4, <1>5
<1>7. ASSUME NEW r \in Sockets
      PROVE  (\E i \in 1 .. Len(f) : f[i] = r) <=> r # s /\ \E i \in 1 .. Len(q) : q[i] = r
  <2>1. ASSUME NEW i \in 1 .. Len(f), f[i] = r PROVE r # s /\ \E j \in 1 .. Len(q) : q[j] = r
    BY <1>3, <1>6, <2>1
  <2>2. ASSUME r # s, NEW i \in 1 .. Len(q), q[i] = r PROVE \E k \in 1 .. Len(f) : f[k] = r
    <3>1. i \in I
      BY <1>3, <2>2
    <3> QED
      BY <1>4, <1>5, <2>2, <3>1
  <2> QED
    BY <2>1, <2>2
<1>8. ASSUME \A i, j \in 1 .. Len(q) : q[i] = q[j] => i = j, NEW i \in 1 .. Len(f), NEW j \in 1 .. Len(f), f[i] = f[j]
      PROVE  i = j
  <2>1. place[i] = place[j]
    BY <1>6, <1>8
  <2> QED
    BY <1>4, <1>5, <2>1
<1> QED
  BY <1>1, <1>4, <1>7, <1>8 DEF q

\* Debug::CreateListeningSockets.
LEMMA Creating ==
  ASSUME Room, NEW n \in Nets, Numbered(n), Made(n) + 2 <= Cardinality(Sockets)
  PROVE  LET m == CreateListeningSockets(n) IN
         /\ m \in Nets /\ Numbered(m) /\ Made(m) = Made(n) + 2 /\ Old(m) = Old(n)
         /\ Made(n) + 1 \in Sockets /\ Made(n) + 2 \in Sockets
         /\ \A s \in Sockets : m.sock[s] = IF s = Made(n) + 1 THEN Listener("debug1")
                                           ELSE IF s = Made(n) + 2 THEN Listener("debug2") ELSE n.sock[s]
         /\ m.gDebuggerSocket["debug1"] = Made(n) + 1 /\ m.gDebuggerSocket["debug2"] = Made(n) + 2
         /\ m.gConnectedDebugSocket = n.gConnectedDebugSocket
         /\ m.gSLPTimeouts = n.gSLPTimeouts
<1> DEFINE one == Listen(n, "debug1")
           two == Listen(one, "debug2")
           m == CreateListeningSockets(n)
           globals == [debug1 |-> Unused(n), debug2 |-> Unused(one)]
<1>1. Made(n) \in Nat /\ Cardinality(Sockets) \in Nat
  BY NetFields, SocketNumbers
<1>2. Made(n) < Cardinality(Sockets) /\ Made(n) + 1 < Cardinality(Sockets) /\ Made(n) + 1 + 1 = Made(n) + 2
  BY <1>1
<1>3. "debug1" \in Ports /\ "debug2" \in Ports
  BY DEF Ports, DebugPorts
<1>4. /\ one \in Nets /\ Numbered(one) /\ Made(one) = Made(n) + 1 /\ Old(one) = Old(n)
      /\ Made(n) + 1 \in Sockets /\ Unused(n) = Made(n) + 1
      /\ \A s \in Sockets : one.sock[s] = IF s = Made(n) + 1 THEN Listener("debug1") ELSE n.sock[s]
      /\ one.gConnectedDebugSocket = n.gConnectedDebugSocket /\ one.gSLPTimeouts = n.gSLPTimeouts
  BY <1>2, <1>3, Listening
<1> HIDE DEF one
<1>5. Made(one) < Cardinality(Sockets)
  BY <1>2, <1>4
<1>6. /\ two \in Nets /\ Numbered(two) /\ Made(two) = Made(n) + 2 /\ Old(two) = Old(n)
      /\ Made(n) + 2 \in Sockets /\ Unused(one) = Made(n) + 2
      /\ \A s \in Sockets : two.sock[s] = IF s = Made(n) + 2 THEN Listener("debug2") ELSE one.sock[s]
      /\ two.gConnectedDebugSocket = n.gConnectedDebugSocket /\ two.gSLPTimeouts = n.gSLPTimeouts
  BY <1>2, <1>3, <1>4, <1>5, Listening
<1>7. globals \in [DebugPorts -> Sockets \union {NULL}]
      /\ globals["debug1"] = Made(n) + 1 /\ globals["debug2"] = Made(n) + 2
  BY <1>4, <1>6 DEF DebugPorts
<1>8. m = [two EXCEPT !.gDebuggerSocket = globals]
  BY DEF CreateListeningSockets, one
<1> HIDE DEF two, m, globals
<1>9. m \in Nets
  BY <1>6, <1>7, <1>8 DEF Nets
<1>10. /\ m.sock = two.sock /\ m.gSockets = two.gSockets /\ m.gSocketsToBeAdded = two.gSocketsToBeAdded
       /\ m.gDebuggerSocket = globals
       /\ m.gConnectedDebugSocket = two.gConnectedDebugSocket /\ m.gSLPTimeouts = two.gSLPTimeouts
  BY <1>6, <1>8 DEF Nets
<1>11. Numbered(m) /\ Made(m) = Made(two) /\ Old(m) = Old(two)
  BY <1>6, <1>10, NumberedStill
<1>12. \A s \in Sockets : two.sock[s] = IF s = Made(n) + 1 THEN Listener("debug1")
                                        ELSE IF s = Made(n) + 2 THEN Listener("debug2") ELSE n.sock[s]
  <2>1. Made(n) + 1 # Made(n) + 2
    BY <1>1
  <2> HIDE DEF Listener
  <2> QED
    BY <1>4, <1>6, <2>1
<1> QED
  BY <1>4, <1>6, <1>7, <1>9, <1>10, <1>11, <1>12 DEF m

\* A script's connection is closed.
LEMMA CloseScript ==
  ASSUME NEW n \in Nets, NEW s \in Sockets, n.sock[s].state = "connected", n.sock[s].port = "rpc"
  PROVE  LET m == CloseSocket(n, s) IN
         /\ m \in Nets /\ SameLists(m, n) /\ m.gSLPTimeouts = Forgotten(n, s)
         /\ \A r \in Sockets : m.sock[r] = IF r = s THEN Dead("rpc") ELSE n.sock[r]
<1> DEFINE a == Shut(n, s)
           b == [a EXCEPT !.gSLPTimeouts = Forgotten(a, s)]
           m == Delete(b, s)
<1>1. CloseSocket(n, s) = m
  BY DEF CloseSocket, RPCDisconnected
<1>2. a \in Nets /\ SameLists(a, n) /\ a.gSLPTimeouts = n.gSLPTimeouts
  BY ShutFields
<1>3. Forgotten(a, s) = Forgotten(n, s)
  BY <1>2 DEF Forgotten
<1>4. Forgotten(n, s) \in Seq(Sockets)
  BY Forgetting
<1> HIDE DEF a
<1>5. b \in Nets
  BY <1>2, <1>3, <1>4 DEF Nets
<1>6. b.sock = a.sock /\ b.gSLPTimeouts = Forgotten(n, s) /\ SameLists(b, a)
  BY <1>2, <1>3 DEF Nets, SameLists
<1> HIDE DEF b
<1>7. m \in Nets /\ SameLists(m, b) /\ m.gSLPTimeouts = b.gSLPTimeouts
  BY <1>5, DeleteFields
<1>8. \A r \in Sockets : m.sock[r] = IF r = s THEN Dead("rpc") ELSE n.sock[r]
  BY <1>5, <1>6, ShutThenDeleted DEF a
<1> HIDE DEF m
<1> QED
  BY <1>1, <1>2, <1>6, <1>7, <1>8 DEF SameLists

\* The debugger's connection is closed: two new sockets listen.
LEMMA CloseDebug ==
  ASSUME Room, NEW n \in Nets, NEW s \in Sockets, Numbered(n), n.sock[s].state = "connected", n.sock[s].port # "rpc",
         Made(n) + 2 <= Cardinality(Sockets)
  PROVE  LET m == CloseSocket(n, s) IN
         /\ m \in Nets /\ Numbered(m) /\ Made(m) = Made(n) + 2 /\ Old(m) = Old(n)
         /\ Made(n) + 1 \in Sockets /\ Made(n) + 2 \in Sockets /\ s # Made(n) + 1 /\ s # Made(n) + 2
         /\ \A r \in Sockets : m.sock[r] = IF r = Made(n) + 1 THEN Listener("debug1")
                                           ELSE IF r = Made(n) + 2 THEN Listener("debug2")
                                           ELSE IF r = s THEN Dead(n.sock[s].port) ELSE n.sock[r]
         /\ m.gDebuggerSocket["debug1"] = Made(n) + 1 /\ m.gDebuggerSocket["debug2"] = Made(n) + 2
         /\ m.gConnectedDebugSocket = NULL
         /\ m.gSLPTimeouts = n.gSLPTimeouts
<1> DEFINE a == Shut(n, s)
           b == [a EXCEPT !.gConnectedDebugSocket = NULL]
           d == Delete(b, s)
           m == CreateListeningSockets(d)
<1>1. CloseSocket(n, s) = m
  BY DEF CloseSocket, DebugDisconnected
<1>2. a \in Nets /\ SameLists(a, n) /\ a.gSLPTimeouts = n.gSLPTimeouts
  BY ShutFields
<1> HIDE DEF a
<1>3. b \in Nets
  BY <1>2 DEF Nets
<1>4. /\ b.sock = a.sock /\ b.gSLPTimeouts = n.gSLPTimeouts /\ b.gConnectedDebugSocket = NULL
      /\ b.gSockets = n.gSockets /\ b.gSocketsToBeAdded = n.gSocketsToBeAdded
  BY <1>2 DEF Nets, SameLists
<1> HIDE DEF b
<1>5. /\ d \in Nets /\ d.gSLPTimeouts = n.gSLPTimeouts /\ d.gConnectedDebugSocket = NULL
      /\ d.gSockets = n.gSockets /\ d.gSocketsToBeAdded = n.gSocketsToBeAdded
  BY <1>3, <1>4, DeleteFields DEF SameLists
<1>6. \A r \in Sockets : d.sock[r] = IF r = s THEN Dead(n.sock[s].port) ELSE n.sock[r]
  BY <1>3, <1>4, ShutThenDeleted DEF a
<1> HIDE DEF d
<1>7. n.sock[s] # Free /\ Dead(n.sock[s].port) # Free
  <2>1. n.sock[s].port \in Ports
    <3>1. n.sock[s] \in CTCPSocket
      BY NetFields
    <3> QED
      BY <3>1 DEF CTCPSocket, Ports
  <2> QED
    BY <2>1, Records DEF Free
<1>8. Numbered(d) /\ Made(d) = Made(n) /\ Old(d) = Old(n)
  <2>1. \A r \in Sockets : d.sock[r] = Free <=> n.sock[r] = Free
    BY <1>6, <1>7
  <2> QED
    BY <1>5, <2>1, NumberedStill
<1>9. s # Made(n) + 1 /\ s # Made(n) + 2
  <2>1. ~ (s > Made(n))
    BY <1>7 DEF Numbered
  <2> QED
    BY <2>1, NetFields
<1>10. /\ m \in Nets /\ Numbered(m) /\ Made(m) = Made(n) + 2 /\ Old(m) = Old(n)
       /\ Made(n) + 1 \in Sockets /\ Made(n) + 2 \in Sockets
       /\ \A r \in Sockets : m.sock[r] = IF r = Made(n) + 1 THEN Listener("debug1")
                                         ELSE IF r = Made(n) + 2 THEN Listener("debug2") ELSE d.sock[r]
       /\ m.gDebuggerSocket["debug1"] = Made(n) + 1 /\ m.gDebuggerSocket["debug2"] = Made(n) + 2
       /\ m.gConnectedDebugSocket = NULL
       /\ m.gSLPTimeouts = n.gSLPTimeouts
  BY <1>5, <1>8, Creating
<1> HIDE DEF m
<1>11. \A r \in Sockets : m.sock[r] = IF r = Made(n) + 1 THEN Listener("debug1")
                                      ELSE IF r = Made(n) + 2 THEN Listener("debug2")
                                      ELSE IF r = s THEN Dead(n.sock[s].port) ELSE n.sock[r]
  BY <1>6, <1>10
<1> QED
  BY <1>1, <1>9, <1>10, <1>11

-----------------------------------------------------------------------------
(***************************************************************************)
(* What each of them preserves.                                            *)
(***************************************************************************)
LEMMA FreshFields ==
  ASSUME NEW port
  PROVE  /\ Listener(port).state = "listening" /\ Listener(port).port = port /\ Listener(port).pending = FALSE
         /\ Listener(port).owed = 0 /\ Listener(port).fDeleted = FALSE
         /\ Dead(port).state = "unconnected" /\ Dead(port).port = port /\ Dead(port).pending = FALSE
         /\ Dead(port).owed = 0 /\ Dead(port).fDeleted = TRUE
BY DEF Listener, Dead, Fresh

LEMMA TakenFinite ==
  ASSUME Room, NEW n, NEW m, Cardinality(Taken(n)) <= MaxScripts, Taken(m) \subseteq Taken(n)
  PROVE  Cardinality(Taken(m)) <= MaxScripts
<1>1. IsFiniteSet(Sockets) /\ MaxScripts \in Nat
  <2>1. IsFiniteSet(1 .. Cardinality(Sockets))
    BY SocketNumbers, FS_Interval
  <2> QED
    BY <2>1, SocketNumbers
<1>2. IsFiniteSet(Taken(n))
  <2>1. Taken(n) \in SUBSET Sockets
    BY DEF Taken
  <2> QED
    BY <1>1, <2>1, FS_Subset
<1>3. IsFiniteSet(Taken(m)) /\ Cardinality(Taken(m)) <= Cardinality(Taken(n))
  BY <1>2, FS_Subset
<1>4. Cardinality(Taken(m)) \in Nat /\ Cardinality(Taken(n)) \in Nat
  BY <1>2, <1>3, FS_CardinalityType
<1> QED
  BY <1>1, <1>3, <1>4

\* Nobody stops or begins to listen or to debug.
LEMMA Undisturbed ==
  ASSUME NEW n, NEW m, Numbered(n), ScriptsListener(n), DebugListeners(n), Bounded(n),
         SameLists(m, n), Cardinality(Taken(m)) <= MaxScripts,
         \A s \in Sockets : /\ m.sock[s] = Free <=> n.sock[s] = Free
                            /\ \A port \in Ports : Listens(m.sock[s], port) <=> Listens(n.sock[s], port)
                            /\ Debugs(m.sock[s]) <=> Debugs(n.sock[s])
  PROVE  Numbered(m) /\ ScriptsListener(m) /\ DebugListeners(m) /\ Bounded(m)
<1>1. /\ m.gSockets = n.gSockets /\ m.gSocketsToBeAdded = n.gSocketsToBeAdded
      /\ m.gDebuggerSocket = n.gDebuggerSocket /\ m.gConnectedDebugSocket = n.gConnectedDebugSocket
  BY DEF SameLists
<1>2. Numbered(m) /\ Made(m) = Made(n) /\ Old(m) = Old(n)
  BY <1>1, NumberedStill
<1>3. \A s \in Sockets : Listens(m.sock[s], "rpc") <=> Listens(n.sock[s], "rpc")
  BY DEF Ports
<1>4. \A s \in Sockets : \A p \in DebugPorts : Listens(m.sock[s], p) <=> Listens(n.sock[s], p)
  BY DEF Ports
<1>5. ScriptsListener(m)
  BY <1>3 DEF ScriptsListener, OnlyListener
<1>6. DebugListeners(m)
  BY <1>1, <1>2, <1>4 DEF DebugListeners, OnlyListener
<1>7. NewScripts(m) = NewScripts(n)
  BY <1>2, <1>3 DEF NewScripts
<1>8. NewDebug(m) = NewDebug(n)
  BY <1>2, <1>4 DEF NewDebug, DebugPorts
<1>9. Bounded(m)
  BY <1>2, <1>7, <1>8 DEF Bounded
<1> QED
  BY <1>2, <1>5, <1>6, <1>9

\* A script's connection is closed while no signal is being sent.
LEMMA CloseScriptGood ==
  ASSUME Room, NEW n, Good(n, 0), NEW s \in Sockets, n.sock[s].state = "connected", n.sock[s].port = "rpc"
  PROVE  Good(CloseSocket(n, s), 0) /\ CloseSocket(n, s).gConnectedDebugSocket = n.gConnectedDebugSocket
<1> DEFINE m == CloseSocket(n, s)
           q == n.gSLPTimeouts
           f == Forgotten(n, s)
<1>1. /\ n \in Nets /\ Numbered(n) /\ Kinds(n) /\ ScriptsListener(n) /\ DebugListeners(n)
      /\ Waiters(n, 0) /\ Bounded(n)
  BY DEF Good
<1>2. /\ m \in Nets /\ SameLists(m, n) /\ m.gSLPTimeouts = f
      /\ \A r \in Sockets : m.sock[r] = IF r = s THEN Dead("rpc") ELSE n.sock[r]
  BY <1>1, CloseScript
<1> HIDE DEF m
<1>3. "rpc" \in Ports /\ Plausible(Dead("rpc")) /\ Dead("rpc") # Free
  BY Records DEF Ports
<1>4. /\ Dead("rpc").state = "unconnected" /\ Dead("rpc").port = "rpc" /\ Dead("rpc").pending = FALSE
      /\ Dead("rpc").owed = 0
  BY FreshFields
<1>5. n.sock[s] # Free
  BY DEF Free
<1> HIDE DEF Dead
<1>6. \A r \in Sockets : /\ m.sock[r] = Free <=> n.sock[r] = Free
                         /\ \A port \in Ports : Listens(m.sock[r], port) <=> Listens(n.sock[r], port)
                         /\ Debugs(m.sock[r]) <=> Debugs(n.sock[r])
  BY <1>2, <1>3, <1>4, <1>5 DEF Listens, Debugs
<1>7. Cardinality(Taken(m)) <= MaxScripts
  <2>1. Taken(m) \subseteq Taken(n)
    BY <1>2, <1>4 DEF Taken
  <2> QED
    BY <1>1, <2>1, TakenFinite DEF Bounded
<1>8. Numbered(m) /\ ScriptsListener(m) /\ DebugListeners(m) /\ Bounded(m)
  BY <1>1, <1>2, <1>6, <1>7, Undisturbed
<1>9. Kinds(m)
  BY <1>1, <1>2, <1>3 DEF Kinds
<1>10. Waiters(m, 0)
  <2>1. /\ f \in Seq(Sockets) /\ Len(f) \in Nat
        /\ \A r \in Sockets : (\E i \in 1 .. Len(f) : f[i] = r) <=> r # s /\ \E i \in 1 .. Len(q) : q[i] = r
    BY <1>1, Forgetting
  <2>2. \A i, j \in 1 .. Len(f) : f[i] = f[j] => i = j
    BY <1>1, Forgetting DEF Waiters
  <2>3. q \in Seq(Sockets) /\ Len(q) \in Nat
    BY <1>1, NetFields
  <2>4. /\ \A i \in 1 .. Len(q) : n.sock[q[i]].state = "connected" /\ n.sock[q[i]].port = "rpc"
        /\ \A r \in Sockets : n.sock[r].owed = 1 <=> \E i \in 1 .. Len(q) : i >= 0 /\ q[i] = r
    BY <1>1 DEF Waiters
  <2>5. \A i \in 1 .. Len(f) : f[i] \in Sockets
    BY <2>1, ElementOfSeq
  <2> HIDE DEF f, q
  <2>6. \A i \in 1 .. Len(f) : m.sock[f[i]].state = "connected" /\ m.sock[f[i]].port = "rpc"
    <3> SUFFICES ASSUME NEW i \in 1 .. Len(f)
                 PROVE  m.sock[f[i]].state = "connected" /\ m.sock[f[i]].port = "rpc"
      OBVIOUS
    <3>1. f[i] \in Sockets /\ f[i] # s /\ \E j \in 1 .. Len(q) : q[j] = f[i]
      BY <2>1, <2>5
    <3> QED
      BY <1>2, <2>4, <3>1
  <2>7. ASSUME NEW r \in Sockets
        PROVE  m.sock[r].owed = 1 <=> \E i \in 1 .. Len(f) : i >= 0 /\ f[i] = r
    <3>1. (\E i \in 1 .. Len(f) : i >= 0 /\ f[i] = r) <=> \E i \in 1 .. Len(f) : f[i] = r
      BY <2>1
    <3>2. (\E i \in 1 .. Len(q) : i >= 0 /\ q[i] = r) <=> \E i \in 1 .. Len(q) : q[i] = r
      BY <2>3
    <3>3. (\E i \in 1 .. Len(f) : f[i] = r) <=> r # s /\ \E i \in 1 .. Len(q) : q[i] = r
      BY <2>1
    <3>4. n.sock[r].owed = 1 <=> \E i \in 1 .. Len(q) : q[i] = r
      BY <2>4, <3>2
    <3>5. m.sock[r].owed = 1 <=> r # s /\ n.sock[r].owed = 1
      BY <1>2, <1>4
    <3> QED
      BY <3>1, <3>3, <3>4, <3>5
  <2>8. 0 <= Len(f) + 1
    BY <2>1
  <2> QED
    BY <1>2, <2>2, <2>6, <2>7, <2>8 DEF Waiters
<1> QED
  BY <1>2, <1>8, <1>9, <1>10 DEF Good, SameLists, m

\* How many sockets there are at most.
LEMMA RoomLeft ==
  ASSUME Room, NEW n \in Nets, Bounded(n)
  PROVE  /\ Made(n) <= MaxScripts + 3 + NewScripts(n) + NewDebug(n)
         /\ MaxScripts \in Nat /\ Cardinality(Sockets) \in Nat /\ Cardinality(Sockets) >= MaxScripts + 6
         /\ NewScripts(n) \in 0 .. 1 /\ NewDebug(n) \in {0, 2}
         /\ Made(n) \in Nat /\ Old(n) \in Nat
BY SocketNumbers, NetFields DEF Bounded, NewScripts, NewDebug

\* Sockets that callbacks do not touch leave the list of waiters as it is.
LEMMA WaitersStill ==
  ASSUME NEW n, NEW m, NEW c, Waiters(n, c), n.gSLPTimeouts \in Seq(Sockets), m.gSLPTimeouts = n.gSLPTimeouts,
         \A s \in Sockets : m.sock[s].owed = n.sock[s].owed,
         \A s \in Sockets : n.sock[s].state = "connected" /\ n.sock[s].port = "rpc"
                            => m.sock[s].state = "connected" /\ m.sock[s].port = "rpc"
  PROVE  Waiters(m, c)
<1>1. \A i \in 1 .. Len(n.gSLPTimeouts) : n.gSLPTimeouts[i] \in Sockets
  BY ElementOfSeq
<1> QED
  BY <1>1 DEF Waiters

\* The debugger's connection is closed.
LEMMA CloseDebugGood ==
  ASSUME Room, NEW n, NEW c, Good(n, c), NEW s \in Sockets, n.sock[s].state = "connected", n.sock[s].port # "rpc"
  PROVE  Good(CloseSocket(n, s), c)
<1> DEFINE m == CloseSocket(n, s)
           new1 == Made(n) + 1
           new2 == Made(n) + 2
<1>1. /\ n \in Nets /\ Numbered(n) /\ Kinds(n) /\ ScriptsListener(n) /\ DebugListeners(n)
      /\ Waiters(n, c) /\ Bounded(n)
  BY DEF Good
<1>2. /\ s = n.gConnectedDebugSocket /\ n.gConnectedDebugSocket # NULL
      /\ \A r \in Sockets, p \in DebugPorts : ~ Listens(n.sock[r], p)
      /\ \A r \in Sockets : Debugs(n.sock[r]) => r = s
  BY <1>1 DEF DebugListeners, Debugs
<1>3. NewDebug(n) = 0
  BY <1>2 DEF NewDebug, DebugPorts
<1>4. Made(n) + 2 <= Cardinality(Sockets)
  BY <1>1, <1>3, RoomLeft
<1>5. /\ m \in Nets /\ Numbered(m) /\ Made(m) = Made(n) + 2 /\ Old(m) = Old(n)
      /\ new1 \in Sockets /\ new2 \in Sockets /\ s # new1 /\ s # new2
      /\ \A r \in Sockets : m.sock[r] = IF r = new1 THEN Listener("debug1")
                                        ELSE IF r = new2 THEN Listener("debug2")
                                        ELSE IF r = s THEN Dead(n.sock[s].port) ELSE n.sock[r]
      /\ m.gDebuggerSocket["debug1"] = new1 /\ m.gDebuggerSocket["debug2"] = new2
      /\ m.gConnectedDebugSocket = NULL /\ m.gSLPTimeouts = n.gSLPTimeouts
  BY <1>1, <1>4, CloseDebug
<1>6. n.sock[new1] = Free /\ n.sock[new2] = Free /\ new1 # new2 /\ new1 > Old(n) /\ new2 > Old(n)
  <2>1. Made(n) \in Nat /\ Old(n) \in Nat /\ Made(n) >= Old(n)
    <3>1. \A a, b \in Nat : a + b \in Nat /\ a + b >= a
      OBVIOUS
    <3> QED
      BY <1>1, <3>1, NetFields DEF Made
  <2> QED
    BY <1>1, <1>5, <2>1 DEF Numbered
<1>7. Free.state = "free" /\ Free.port = "rpc" /\ Free.owed = 0 /\ Free.pending = FALSE
  BY DEF Free
<1>8. "debug1" \in Ports /\ "debug2" \in Ports /\ n.sock[s].port \in Ports
  <2>1. n.sock[s] \in CTCPSocket
    BY <1>1, NetFields
  <2> QED
    BY <2>1 DEF Ports, DebugPorts, CTCPSocket
<1> DEFINE one == Listener("debug1")
           two == Listener("debug2")
           old == Dead(n.sock[s].port)
<1>18. /\ one.state = "listening" /\ one.port = "debug1" /\ one.pending = FALSE /\ one.owed = 0
       /\ two.state = "listening" /\ two.port = "debug2" /\ two.pending = FALSE /\ two.owed = 0
       /\ old.state = "unconnected" /\ old.pending = FALSE /\ old.owed = 0
  BY FreshFields
<1>19. \A r \in Sockets : m.sock[r] = IF r = new1 THEN one ELSE IF r = new2 THEN two ELSE IF r = s THEN old ELSE n.sock[r]
  BY <1>5
<1> HIDE DEF m, new1, new2
<1>9. Kinds(m)
  BY <1>1, <1>5, <1>8, Records DEF Kinds
<1>10. \A r \in Sockets : /\ Listens(m.sock[r], "rpc") <=> Listens(n.sock[r], "rpc")
                          /\ Listens(m.sock[r], "debug1") <=> r = new1
                          /\ Listens(m.sock[r], "debug2") <=> r = new2
                          /\ ~ Debugs(m.sock[r])
  <2> SUFFICES ASSUME NEW r \in Sockets
               PROVE  /\ Listens(m.sock[r], "rpc") <=> Listens(n.sock[r], "rpc")
                      /\ Listens(m.sock[r], "debug1") <=> r = new1
                      /\ Listens(m.sock[r], "debug2") <=> r = new2
                      /\ ~ Debugs(m.sock[r])
    OBVIOUS
  <2>1. CASE r \notin {new1, new2, s}
    <3>1. m.sock[r] = n.sock[r]
      BY <1>5, <2>1
    <3> QED
      BY <1>2, <2>1, <3>1 DEF DebugPorts
  <2>2. CASE r = s
    <3>1. m.sock[r] = old
      BY <1>5, <1>19, <2>2
    <3> HIDE DEF old
    <3> QED
      BY <1>5, <1>18, <2>2, <3>1 DEF Listens, Debugs
  <2>3. CASE r = new1
    <3>1. m.sock[r] = one
      BY <1>19, <2>3
    <3> HIDE DEF one
    <3> QED
      BY <1>6, <1>7, <1>18, <2>3, <3>1 DEF Listens, Debugs
  <2>4. CASE r = new2
    <3>1. m.sock[r] = two
      BY <1>6, <1>19, <2>4
    <3> HIDE DEF two
    <3> QED
      BY <1>6, <1>7, <1>18, <2>4, <3>1 DEF Listens, Debugs
  <2> QED
    BY <2>1, <2>2, <2>3, <2>4
<1>11. ScriptsListener(m)
  BY <1>1, <1>10 DEF ScriptsListener, OnlyListener
<1>12. DebugListeners(m)
  <2>1. \A p \in DebugPorts : OnlyListener(m, m.gDebuggerSocket[p], p)
    BY <1>5, <1>10 DEF OnlyListener, DebugPorts
  <2> QED
    BY <1>5, <1>6, <1>10, <2>1 DEF DebugListeners
<1>13. Cardinality(Taken(m)) <= MaxScripts
  <2>1. Taken(m) \subseteq Taken(n)
    <3> HIDE DEF one, two, old
    <3> QED
      BY <1>18, <1>19 DEF Taken
  <2> QED
    BY <1>1, <2>1, TakenFinite DEF Bounded
<1>14. NewScripts(m) = NewScripts(n) /\ NewDebug(m) = 2
  BY <1>5, <1>6, <1>10 DEF NewScripts, NewDebug
<1>15. Bounded(m)
  BY <1>1, <1>3, <1>5, <1>13, <1>14, RoomLeft DEF Bounded
<1>16. Waiters(m, c)
  <2>1. Plausible(n.sock[s])
    BY <1>1 DEF Kinds
  <2>2. n.sock[s].owed = 0
    BY <2>1 DEF Plausible
  <2>3. \A r \in Sockets : m.sock[r].owed = n.sock[r].owed
    <3> HIDE DEF one, two, old
    <3> QED
      BY <1>6, <1>7, <1>18, <1>19, <2>2
  <2>4. \A r \in Sockets : n.sock[r].state = "connected" /\ n.sock[r].port = "rpc" => m.sock[r] = n.sock[r]
    BY <1>5, <1>6, <1>7
  <2>5. n.gSLPTimeouts \in Seq(Sockets)
    BY <1>1, NetFields
  <2> QED
    BY <1>1, <1>5, <2>3, <2>4, <2>5, WaitersStill
<1> QED
  BY <1>5, <1>9, <1>11, <1>12, <1>15, <1>16 DEF Good, m

\* A listener turns into a connection.
Connecting(n, s) == [n EXCEPT !.sock[s].state = "connected", !.sock[s].pending = FALSE]

LEMMA ConnectingFields ==
  ASSUME NEW n, Kinds(n), n \in Nets, NEW s \in Sockets, n.sock[s].state = "listening"
  PROVE  LET k == Connecting(n, s) IN
         /\ k \in Nets /\ SameLists(k, n) /\ k.gSLPTimeouts = n.gSLPTimeouts
         /\ \A r \in Sockets : r # s => k.sock[r] = n.sock[r]
         /\ k.sock[s].state = "connected" /\ k.sock[s].port = n.sock[s].port /\ k.sock[s].pending = FALSE
         /\ k.sock[s].owed = n.sock[s].owed /\ Plausible(k.sock[s])
         /\ k.sock[s] # Free /\ n.sock[s] # Free
<1> DEFINE k == Connecting(n, s)
           old == n.sock[s]
           new == [[old EXCEPT !.state = "connected"] EXCEPT !.pending = FALSE]
           sock == [n.sock EXCEPT ![s] = new]
<1>1. n.sock \in [Sockets -> CTCPSocket] /\ old \in CTCPSocket
  BY NetFields
<1>2. /\ new \in CTCPSocket /\ new.state = "connected" /\ new.port = old.port /\ new.pending = FALSE
      /\ new.owed = old.owed /\ new.inbox = old.inbox /\ new.fDeleted = old.fDeleted
  BY <1>1 DEF CTCPSocket
<1>3. Plausible(old) /\ old.state = "listening"
  BY DEF Kinds
<1>4. k = [n EXCEPT !.sock = sock]
  <2> DEFINE sock1 == [n.sock EXCEPT ![s].state = "connected"]
             k1 == [n EXCEPT !.sock = sock1]
             sock2 == [sock1 EXCEPT ![s].pending = FALSE]
  <2>1. k = [k1 EXCEPT !.sock = [k1.sock EXCEPT ![s].pending = FALSE]]
    BY DEF Connecting
  <2>2. k1.sock = sock1
    BY DEF Nets
  <2>3. sock1[s] = [old EXCEPT !.state = "connected"]
    BY <1>1
  <2>4. sock2 = sock
    <3>1. sock2 = [sock1 EXCEPT ![s] = new]
      BY <2>3
    <3> HIDE DEF new
    <3> QED
      BY <1>1, <3>1
  <2>5. k = [k1 EXCEPT !.sock = sock]
    BY <2>1, <2>2, <2>4
  <2> HIDE DEF sock, sock1, k
  <2> QED
    BY <2>5 DEF Nets
<1> HIDE DEF new, old, k
<1>5. sock \in [Sockets -> CTCPSocket]
  BY <1>1, <1>2
<1>6. \A r \in Sockets : sock[r] = IF r = s THEN new ELSE n.sock[r]
  BY <1>1
<1> HIDE DEF sock
<1>7. k \in Nets
  BY <1>4, <1>5 DEF Nets
<1>8. k.sock = sock /\ SameLists(k, n) /\ k.gSLPTimeouts = n.gSLPTimeouts
  BY <1>4 DEF Nets, SameLists
<1>9. new # Free /\ old # Free
  BY <1>2, <1>3 DEF Free
<1>10. Plausible(new)
  BY <1>2, <1>3, <1>9 DEF Plausible
<1> QED
  BY <1>2, <1>6, <1>7, <1>8, <1>9, <1>10 DEF old, k

\* A script connects: another socket listens in its place.
LEMMA AcceptScriptGood ==
  ASSUME Room, NEW n, NEW c, Good(n, c), NEW s \in Sockets, s <= Old(n),
         Listens(n.sock[s], "rpc"), n.sock[s].pending
  PROVE  Good(RPCConnected(Connecting(n, s)), c)
         /\ RPCConnected(Connecting(n, s)).gConnectedDebugSocket = n.gConnectedDebugSocket
<1> DEFINE k == Connecting(n, s)
           m == RPCConnected(k)
           new == Made(n) + 1
           one == Listener("rpc")
<1>1. /\ n \in Nets /\ Numbered(n) /\ Kinds(n) /\ ScriptsListener(n) /\ DebugListeners(n)
      /\ Waiters(n, c) /\ Bounded(n)
  BY DEF Good
<1>2. n.sock[s].state = "listening" /\ n.sock[s].port = "rpc"
  BY DEF Listens
<1>3. /\ k \in Nets /\ SameLists(k, n) /\ k.gSLPTimeouts = n.gSLPTimeouts
      /\ \A r \in Sockets : r # s => k.sock[r] = n.sock[r]
      /\ k.sock[s].state = "connected" /\ k.sock[s].port = "rpc" /\ k.sock[s].pending = FALSE
      /\ k.sock[s].owed = n.sock[s].owed /\ Plausible(k.sock[s])
      /\ k.sock[s] # Free /\ n.sock[s] # Free
  BY <1>1, <1>2, ConnectingFields, ZenonT(60)
<1> HIDE DEF k
<1>4. Numbered(k) /\ Made(k) = Made(n) /\ Old(k) = Old(n)
  <2>1. \A r \in Sockets : k.sock[r] = Free <=> n.sock[r] = Free
    BY <1>3
  <2> QED
    BY <1>1, <1>3, <2>1, NumberedStill DEF SameLists
<1>5. \A r \in Sockets : Listens(n.sock[r], "rpc") <=> r = s
  <2>1. PICK l \in Sockets : OnlyListener(n, l, "rpc")
    BY <1>1 DEF ScriptsListener, OnlyListener
  <2>2. l = s
    BY <2>1 DEF OnlyListener
  <2> QED
    BY <2>1, <2>2 DEF OnlyListener
<1>6. NewScripts(n) = 0
  <2>1. Old(n) \in Nat /\ s \in Nat
    BY <1>1, NetFields, SocketNumbers
  <2> QED
    BY <1>5, <2>1 DEF NewScripts
<1>7. Made(k) < Cardinality(Sockets)
  BY <1>1, <1>4, <1>6, RoomLeft
<1>8. "rpc" \in Ports
  BY DEF Ports
<1>9. /\ m \in Nets /\ Numbered(m) /\ Made(m) = Made(n) + 1 /\ Old(m) = Old(n)
      /\ new \in Sockets
      /\ \A r \in Sockets : m.sock[r] = IF r = new THEN one ELSE k.sock[r]
      /\ m.gSockets = k.gSockets
      /\ m.gDebuggerSocket = k.gDebuggerSocket /\ m.gConnectedDebugSocket = k.gConnectedDebugSocket
      /\ m.gSLPTimeouts = k.gSLPTimeouts
  BY <1>3, <1>4, <1>7, <1>8, Listening DEF RPCConnected
<1>10. one.state = "listening" /\ one.port = "rpc" /\ one.pending = FALSE /\ one.owed = 0 /\ Plausible(one)
  BY <1>8, FreshFields, Records
<1> HIDE DEF m, one
<1>11. n.sock[new] = Free /\ k.sock[new] = Free /\ new # s /\ new > Old(n)
  <2>1. Made(n) \in Nat /\ Old(n) \in Nat /\ Made(n) >= Old(n)
    <3>1. \A a, b \in Nat : a + b \in Nat /\ a + b >= a
      OBVIOUS
    <3> QED
      BY <1>1, <3>1, NetFields DEF Made
  <2>2. n.sock[new] = Free
    BY <1>1, <1>9, <2>1 DEF Numbered
  <2> QED
    BY <1>3, <1>9, <2>1, <2>2
<1> HIDE DEF new
<1>12. Free.state = "free" /\ Free.port = "rpc" /\ Free.owed = 0 /\ Free.pending = FALSE
  BY DEF Free
<1>13. \A r \in Sockets : \/ r = new /\ m.sock[r] = one
                          \/ r = s /\ r # new /\ m.sock[r] = k.sock[s]
                          \/ r # s /\ r # new /\ m.sock[r] = n.sock[r]
  BY <1>3, <1>9, <1>11
<1>14. \A r \in Sockets : /\ Listens(m.sock[r], "rpc") <=> r = new
                          /\ \A p \in DebugPorts : Listens(m.sock[r], p) <=> Listens(n.sock[r], p)
                          /\ Debugs(m.sock[r]) <=> Debugs(n.sock[r])
  <2> SUFFICES ASSUME NEW r \in Sockets
               PROVE  /\ Listens(m.sock[r], "rpc") <=> r = new
                      /\ \A p \in DebugPorts : Listens(m.sock[r], p) <=> Listens(n.sock[r], p)
                      /\ Debugs(m.sock[r]) <=> Debugs(n.sock[r])
    OBVIOUS
  <2>0. "rpc" \notin DebugPorts
    BY DEF DebugPorts
  <2>1. CASE r = new
    <3>1. m.sock[r] = one
      BY <1>9, <2>1
    <3> QED
      BY <1>10, <1>11, <1>12, <2>0, <2>1, <3>1 DEF Listens, Debugs
  <2>2. CASE r = s
    <3>1. m.sock[r] = k.sock[s]
      BY <1>11, <1>13, <2>2
    <3> QED
      BY <1>2, <1>3, <1>11, <2>0, <2>2, <3>1 DEF Listens, Debugs
  <2>3. CASE r # s /\ r # new
    <3>1. m.sock[r] = n.sock[r]
      BY <1>13, <2>3
    <3> QED
      BY <1>5, <2>3, <3>1
  <2> QED
    BY <2>1, <2>2, <2>3
<1>15. Kinds(m)
  BY <1>1, <1>3, <1>10, <1>13 DEF Kinds
<1>16. ScriptsListener(m)
  BY <1>9, <1>14 DEF ScriptsListener, OnlyListener
<1>17. m.gDebuggerSocket = n.gDebuggerSocket /\ m.gConnectedDebugSocket = n.gConnectedDebugSocket
  BY <1>3, <1>9 DEF SameLists
<1>18. DebugListeners(m)
  BY <1>1, <1>9, <1>14, <1>17 DEF DebugListeners, OnlyListener
<1>19. Cardinality(Taken(m)) <= MaxScripts
  <2>1. Taken(m) \subseteq Taken(n)
    BY <1>2, <1>10, <1>13 DEF Taken
  <2> QED
    BY <1>1, <2>1, TakenFinite DEF Bounded
<1>20. NewScripts(m) = 1 /\ NewDebug(m) = NewDebug(n)
  BY <1>9, <1>11, <1>14 DEF NewScripts, NewDebug, DebugPorts
<1>21. Bounded(m)
  BY <1>1, <1>6, <1>9, <1>19, <1>20, RoomLeft DEF Bounded
<1>22. Waiters(m, c)
  <2>1. \A r \in Sockets : m.sock[r].owed = n.sock[r].owed
    BY <1>3, <1>10, <1>11, <1>12, <1>13
  <2>2. \A r \in Sockets : n.sock[r].state = "connected" => m.sock[r] = n.sock[r]
    BY <1>2, <1>11, <1>12, <1>13
  <2>3. n.gSLPTimeouts \in Seq(Sockets) /\ m.gSLPTimeouts = n.gSLPTimeouts
    BY <1>1, <1>3, <1>9, NetFields
  <2> QED
    BY <1>1, <2>1, <2>2, <2>3, WaitersStill
<1> QED
  BY <1>9, <1>15, <1>16, <1>17, <1>18, <1>21, <1>22 DEF Good, m, k

\* Debug::DeleteListeningSockets.
LEMMA DeletingListeners ==
  ASSUME NEW n \in Nets
  PROVE  LET m == DeleteListeningSockets(n)
             S == {n.gDebuggerSocket[p] : p \in DebugPorts} \ {NULL} IN
         /\ m \in Nets /\ m.gSockets = n.gSockets /\ m.gSocketsToBeAdded = n.gSocketsToBeAdded
         /\ m.gConnectedDebugSocket = n.gConnectedDebugSocket /\ m.gSLPTimeouts = n.gSLPTimeouts
         /\ \A p \in DebugPorts : m.gDebuggerSocket[p] = NULL
         /\ \A s \in Sockets : m.sock[s] = IF s \in S THEN Dead(n.sock[s].port) ELSE n.sock[s]
<1> DEFINE S == {n.gDebuggerSocket[p] : p \in DebugPorts} \ {NULL}
           a == ShutAll(n, S)
           none == [p \in DebugPorts |-> NULL]
           m == DeleteListeningSockets(n)
<1>1. S \in SUBSET Sockets
  BY NetFields
<1>2. m = [a EXCEPT !.gDebuggerSocket = none]
  BY DEF DeleteListeningSockets
<1> HIDE DEF S
<1>3. /\ a \in Nets /\ SameLists(a, n) /\ a.gSLPTimeouts = n.gSLPTimeouts
      /\ \A s \in Sockets : a.sock[s] = IF s \in S THEN Dead(n.sock[s].port) ELSE n.sock[s]
  BY <1>1, Shutting
<1>4. none \in [DebugPorts -> Sockets \union {NULL}] /\ \A p \in DebugPorts : none[p] = NULL
  OBVIOUS
<1> HIDE DEF a, none, m
<1>5. m \in Nets
  BY <1>2, <1>3, <1>4 DEF Nets
<1>6. /\ m.sock = a.sock /\ m.gSockets = a.gSockets /\ m.gSocketsToBeAdded = a.gSocketsToBeAdded
      /\ m.gDebuggerSocket = none /\ m.gConnectedDebugSocket = a.gConnectedDebugSocket
      /\ m.gSLPTimeouts = a.gSLPTimeouts
  BY <1>2, <1>3 DEF Nets
<1> QED
  BY <1>3, <1>4, <1>5, <1>6 DEF S, m, SameLists

\* A debugger connects: nobody listens for another.
LEMMA AcceptDebugGood ==
  ASSUME Room, NEW n, NEW c, Good(n, c), NEW s \in Sockets, s <= Old(n),
         NEW port \in DebugPorts, Listens(n.sock[s], port)
  PROVE  Good(DebugConnected(Connecting(n, s), s), c)
         /\ DebugConnected(Connecting(n, s), s).gConnectedDebugSocket # NULL
<1> DEFINE k == Connecting(n, s)
           g == [k.gDebuggerSocket EXCEPT ![k.sock[s].port] = NULL]
           b == [k EXCEPT !.gConnectedDebugSocket = s, !.gDebuggerSocket = g]
           m == DebugConnected(k, s)
           S == {g[p] : p \in DebugPorts} \ {NULL}
<1>1. /\ n \in Nets /\ Numbered(n) /\ Kinds(n) /\ ScriptsListener(n) /\ DebugListeners(n)
      /\ Waiters(n, c) /\ Bounded(n)
  BY DEF Good
<1>2. n.sock[s].state = "listening" /\ n.sock[s].port = port /\ port # "rpc"
  BY DEF Listens, DebugPorts
<1>3. /\ k \in Nets /\ SameLists(k, n) /\ k.gSLPTimeouts = n.gSLPTimeouts
      /\ \A r \in Sockets : r # s => k.sock[r] = n.sock[r]
      /\ k.sock[s].state = "connected" /\ k.sock[s].port = port /\ k.sock[s].pending = FALSE
      /\ k.sock[s].owed = n.sock[s].owed /\ Plausible(k.sock[s])
      /\ k.sock[s] # Free /\ n.sock[s] # Free
  BY <1>1, <1>2, ConnectingFields, ZenonT(60)
<1>4. m = DeleteListeningSockets(b)
  BY DEF DebugConnected
<1> HIDE DEF k
<1>5. /\ n.gConnectedDebugSocket = NULL
      /\ \A p \in DebugPorts : OnlyListener(n, n.gDebuggerSocket[p], p)
      /\ \A r \in Sockets : ~ Debugs(n.sock[r])
      /\ n.gDebuggerSocket["debug1"] > Old(n) <=> n.gDebuggerSocket["debug2"] > Old(n)
  BY <1>1 DEF DebugListeners
<1>6. /\ n.gDebuggerSocket[port] = s
      /\ \A p \in DebugPorts : /\ n.gDebuggerSocket[p] \in Sockets
                               /\ \A r \in Sockets : Listens(n.sock[r], p) <=> r = n.gDebuggerSocket[p]
  BY <1>5 DEF OnlyListener
<1>7. /\ g \in [DebugPorts -> Sockets \union {NULL}]
      /\ \A p \in DebugPorts : g[p] = IF p = port THEN NULL ELSE n.gDebuggerSocket[p]
  <2>1. k.gDebuggerSocket = n.gDebuggerSocket /\ n.gDebuggerSocket \in [DebugPorts -> Sockets \union {NULL}]
    BY <1>1, <1>3, NetFields DEF SameLists
  <2> QED
    BY <1>3, <2>1
<1> HIDE DEF g
<1>8. b \in Nets
  BY <1>3, <1>7 DEF Nets
<1>9. /\ b.sock = k.sock /\ b.gSockets = k.gSockets /\ b.gSocketsToBeAdded = k.gSocketsToBeAdded
      /\ b.gDebuggerSocket = g /\ b.gConnectedDebugSocket = s /\ b.gSLPTimeouts = k.gSLPTimeouts
  BY <1>3 DEF Nets
<1> HIDE DEF b
<1>10. /\ m \in Nets /\ m.gSockets = n.gSockets /\ m.gSocketsToBeAdded = n.gSocketsToBeAdded
       /\ m.gConnectedDebugSocket = s /\ m.gSLPTimeouts = n.gSLPTimeouts
       /\ \A p \in DebugPorts : m.gDebuggerSocket[p] = NULL
       /\ \A r \in Sockets : m.sock[r] = IF r \in S THEN Dead(k.sock[r].port) ELSE k.sock[r]
  BY <1>3, <1>4, <1>8, <1>9, DeletingListeners DEF SameLists
<1> HIDE DEF m
\* S is the listener of the other port
<1>11. \A r \in Sockets : r \in S <=> \E p \in DebugPorts : p # port /\ Listens(n.sock[r], p)
  <2>1. \A r \in Sockets : r # NULL
    BY SocketNumbers
  <2> QED
    BY <1>6, <1>7, <2>1
<1>12. s \notin S
  BY <1>2, <1>11 DEF Listens
<1> HIDE DEF S
<1>13. ASSUME NEW r \in Sockets
       PROVE  \/ r = s /\ m.sock[r] = k.sock[s]
              \/ /\ r # s /\ n.sock[r].state = "listening" /\ n.sock[r].port \in DebugPorts
                 /\ m.sock[r] = Dead(n.sock[r].port)
              \/ r # s /\ m.sock[r] = n.sock[r] /\ \A p \in DebugPorts : ~ Listens(n.sock[r], p)
  <2>1. CASE r = s
    BY <1>10, <1>12, <2>1
  <2>2. CASE r # s /\ r \in S
    <3>1. m.sock[r] = Dead(n.sock[r].port)
      BY <1>3, <1>10, <2>2
    <3>2. n.sock[r].state = "listening" /\ n.sock[r].port \in DebugPorts
      BY <1>11, <2>2 DEF Listens
    <3> QED
      BY <2>2, <3>1, <3>2
  <2>3. CASE r # s /\ r \notin S
    <3>1. m.sock[r] = n.sock[r]
      BY <1>3, <1>10, <2>3
    <3>2. \A p \in DebugPorts : ~ Listens(n.sock[r], p)
      BY <1>6, <1>11, <2>3
    <3> QED
      BY <2>3, <3>1, <3>2
  <2> QED
    BY <2>1, <2>2, <2>3
<1>14. \A p \in DebugPorts : p \in Ports /\ Plausible(Dead(p)) /\ Dead(p) # Free
  BY Records DEF Ports
<1>15. \A p \in DebugPorts : /\ Dead(p).state = "unconnected" /\ Dead(p).pending = FALSE /\ Dead(p).owed = 0
  BY FreshFields
<1>16. ASSUME NEW r \in Sockets
       PROVE  /\ m.sock[r] = Free <=> n.sock[r] = Free
              /\ Listens(m.sock[r], "rpc") <=> Listens(n.sock[r], "rpc")
              /\ \A p \in DebugPorts : ~ Listens(m.sock[r], p)
              /\ Debugs(m.sock[r]) <=> r = s
              /\ Plausible(m.sock[r])
              /\ m.sock[r].owed = n.sock[r].owed
              /\ n.sock[r].state = "connected" => m.sock[r] = n.sock[r]
              /\ m.sock[r].port = "rpc" => m.sock[r].state = n.sock[r].state /\ m.sock[r].pending = n.sock[r].pending
                                           /\ n.sock[r].port = "rpc"
  <2>1. CASE r = s /\ m.sock[r] = k.sock[s]
    BY <1>2, <1>3, <2>1 DEF Listens, Debugs
  <2>2. CASE /\ r # s /\ n.sock[r].state = "listening" /\ n.sock[r].port \in DebugPorts
             /\ m.sock[r] = Dead(n.sock[r].port)
    <3>1. n.sock[r].port # "rpc" /\ n.sock[r] # Free
      BY <2>2 DEF DebugPorts, Free
    <3>2. Plausible(n.sock[r])
      BY <1>1 DEF Kinds
    <3>3. n.sock[r].owed = 0
      BY <3>1, <3>2 DEF Plausible
    <3>4. m.sock[r].port = n.sock[r].port
      BY <2>2, FreshFields
    <3>5. m.sock[r].state = "unconnected" /\ m.sock[r].owed = 0 /\ Plausible(m.sock[r]) /\ m.sock[r] # Free
      BY <1>14, <1>15, <2>2
    <3> QED
      BY <2>2, <3>1, <3>3, <3>4, <3>5 DEF Listens, Debugs
  <2>3. CASE r # s /\ m.sock[r] = n.sock[r] /\ \A p \in DebugPorts : ~ Listens(n.sock[r], p)
    BY <1>1, <1>5, <2>3 DEF Kinds
  <2> QED
    BY <1>13, <2>1, <2>2, <2>3
<1>17. Numbered(m) /\ Made(m) = Made(n) /\ Old(m) = Old(n)
  BY <1>1, <1>10, <1>16, NumberedStill
<1>18. Kinds(m)
  BY <1>16 DEF Kinds
<1>19. ScriptsListener(m)
  BY <1>1, <1>16 DEF ScriptsListener, OnlyListener
<1>20. m.gConnectedDebugSocket # NULL
  BY <1>10, SocketNumbers
<1>21. DebugListeners(m)
  BY <1>10, <1>16, <1>20 DEF DebugListeners
<1>22. Cardinality(Taken(m)) <= MaxScripts
  <2>1. Taken(m) \subseteq Taken(n)
    BY <1>16 DEF Taken
  <2> QED
    BY <1>1, <2>1, TakenFinite DEF Bounded
<1>23. NewScripts(m) = NewScripts(n)
  BY <1>16, <1>17 DEF NewScripts
<1>24. NewDebug(n) = 0 /\ NewDebug(m) = 0
  <2>1. Old(n) \in Nat /\ \A r \in Sockets : r \in Nat
    BY <1>1, NetFields, SocketNumbers
  <2>2. ~ (n.gDebuggerSocket["debug1"] > Old(n))
    <3>1. ~ (n.gDebuggerSocket[port] > Old(n))
      BY <1>6, <2>1
    <3> QED
      BY <1>5, <3>1 DEF DebugPorts
  <2>3. ~ \E r \in Sockets : r > Old(n) /\ Listens(n.sock[r], "debug1")
    BY <1>6, <2>2 DEF DebugPorts
  <2>4. ~ \E r \in Sockets : r > Old(m) /\ Listens(m.sock[r], "debug1")
    BY <1>16 DEF DebugPorts
  <2> QED
    BY <2>3, <2>4 DEF NewDebug
<1>25. Bounded(m)
  BY <1>1, <1>17, <1>22, <1>23, <1>24 DEF Bounded
<1>26. Waiters(m, c)
  <2>1. n.gSLPTimeouts \in Seq(Sockets)
    BY <1>1, NetFields
  <2> QED
    BY <1>1, <1>10, <1>16, <2>1, WaitersStill
<1> QED
  BY <1>10, <1>17, <1>18, <1>19, <1>20, <1>21, <1>25, <1>26 DEF Good, m, k

\* CSocket::AddPending.
LEMMA Adding ==
  ASSUME NEW n \in Nets, Numbered(n)
  PROVE  LET a == AddPending(n) IN
         /\ a \in Nets /\ a.sock = n.sock /\ Len(a.gSockets) = Made(n) /\ a.gSocketsToBeAdded = << >>
         /\ \A i \in 1 .. Made(n) : a.gSockets[i] = i
         /\ a.gDebuggerSocket = n.gDebuggerSocket /\ a.gConnectedDebugSocket = n.gConnectedDebugSocket
         /\ a.gSLPTimeouts = n.gSLPTimeouts
<1> DEFINE a == AddPending(n)
           q == n.gSockets \o n.gSocketsToBeAdded
<1>1. a = [n EXCEPT !.gSockets = q, !.gSocketsToBeAdded = << >>]
  BY DEF AddPending
<1>2. n.gSockets \in Seq(Sockets) /\ n.gSocketsToBeAdded \in Seq(Sockets)
      /\ Old(n) \in Nat /\ Len(n.gSocketsToBeAdded) \in Nat
  BY NetFields
<1>3. /\ q \in Seq(Sockets) /\ Len(q) = Len(n.gSockets) + Len(n.gSocketsToBeAdded)
      /\ \A i \in 1 .. Len(n.gSockets) + Len(n.gSocketsToBeAdded) :
           q[i] = IF i <= Len(n.gSockets) THEN n.gSockets[i] ELSE n.gSocketsToBeAdded[i - Len(n.gSockets)]
  BY <1>2, ConcatProperties
<1>4. Len(q) = Made(n) /\ \A i \in 1 .. Made(n) : q[i] = IF i <= Old(n) THEN n.gSockets[i] ELSE n.gSocketsToBeAdded[i - Old(n)]
  BY <1>3 DEF Made, Old
<1>5. << >> \in Seq(Sockets)
  BY EmptySeq
<1> HIDE DEF q, a
<1>6. a \in Nets
  BY <1>1, <1>3, <1>5 DEF Nets
<1>7. /\ a.sock = n.sock /\ a.gSockets = q /\ a.gSocketsToBeAdded = << >>
      /\ a.gDebuggerSocket = n.gDebuggerSocket /\ a.gConnectedDebugSocket = n.gConnectedDebugSocket
      /\ a.gSLPTimeouts = n.gSLPTimeouts
  BY <1>1 DEF Nets
<1>8. ASSUME NEW i \in 1 .. Made(n) PROVE q[i] = i
  <2>1. Made(n) = Old(n) + Len(n.gSocketsToBeAdded)
    BY DEF Made
  <2>2. CASE i <= Old(n)
    <3>1. i \in 1 .. Old(n)
      BY <1>2, <2>1, <2>2
    <3> QED
      BY <1>4, <2>2, <3>1 DEF Numbered
  <2>3. CASE ~ (i <= Old(n))
    <3>1. i - Old(n) \in 1 .. Len(n.gSocketsToBeAdded) /\ Old(n) + (i - Old(n)) = i
      BY <1>2, <2>1, <2>3
    <3>2. n.gSocketsToBeAdded[i - Old(n)] = Old(n) + (i - Old(n))
      BY <3>1 DEF Numbered
    <3> QED
      BY <1>4, <2>3, <3>1, <3>2
  <2> QED
    BY <2>2, <2>3
<1> QED
  BY <1>4, <1>6, <1>7, <1>8 DEF a

\* CSocket::DeletePending: the sockets left, L of them, become the sockets 1 .. L of m: left[k] is
\* the socket that has the number k from now on, and number[s] the new number of s.
Renumbered(n, m, L, left, number) ==
  /\ L \in 0 .. Made(n) /\ left \in [1 .. L -> Sockets]
  /\ number \in [Sockets \union {NULL} -> (1 .. L) \union {NULL}]
  /\ L = Cardinality({i \in 1 .. Made(n) : ~ n.sock[i].fDeleted})
  /\ \A k \in 1 .. L : number[left[k]] = k /\ left[k] <= Made(n) /\ ~ n.sock[left[k]].fDeleted
  /\ \A s \in Sockets : s <= Made(n) /\ ~ n.sock[s].fDeleted => number[s] \in 1 .. L /\ left[number[s]] = s
  /\ number[NULL] = NULL
  /\ m \in Nets /\ m.gSocketsToBeAdded = << >>
  /\ Old(m) = L /\ \A i \in 1 .. L : m.gSockets[i] = i
  /\ \A s \in Sockets : m.sock[s] = IF s <= L THEN n.sock[left[s]] ELSE Free
  /\ m.gConnectedDebugSocket = number[n.gConnectedDebugSocket]
  /\ \A p \in DebugPorts : m.gDebuggerSocket[p] = number[n.gDebuggerSocket[p]]
  /\ Len(m.gSLPTimeouts) = Len(n.gSLPTimeouts)
  /\ \A i \in 1 .. Len(n.gSLPTimeouts) : m.gSLPTimeouts[i] = number[n.gSLPTimeouts[i]]

LEMMA Deleting ==
  ASSUME Room, NEW n \in Nets, Numbered(n),
         \A i \in 1 .. Len(n.gSLPTimeouts) :
           n.gSLPTimeouts[i] <= Made(n) /\ ~ n.sock[n.gSLPTimeouts[i]].fDeleted
  PROVE  \E L, left, number : Renumbered(n, DeletePending(AddPending(n)), L, left, number)
<1> DEFINE a == AddPending(n)
           M == Made(n)
           q == a.gSockets
           I == {i \in 1 .. Len(q) : ~ a.sock[q[i]].fDeleted}
           L == Cardinality(I)
           left == Kept(q, I)
           Place(s) == IF Contains(left, s) THEN CHOOSE i \in 1 .. Len(left) : left[i] = s ELSE NULL
           number == [s \in Sockets \union {NULL} |-> Place(s)]
           sock == [s \in Sockets |-> IF s <= Len(left) THEN a.sock[left[s]] ELSE Free]
           sockets == [i \in 1 .. Len(left) |-> i]
           debugger == [p \in DebugPorts |-> Place(a.gDebuggerSocket[p])]
           timeouts == [i \in 1 .. Len(a.gSLPTimeouts) |-> Place(a.gSLPTimeouts[i])]
           m == DeletePending(a)
<1>1. /\ a \in Nets /\ a.sock = n.sock /\ Len(q) = M /\ a.gSocketsToBeAdded = << >>
      /\ \A i \in 1 .. M : q[i] = i
      /\ a.gDebuggerSocket = n.gDebuggerSocket /\ a.gConnectedDebugSocket = n.gConnectedDebugSocket
      /\ a.gSLPTimeouts = n.gSLPTimeouts
  BY Adding
<1>2. m = [a EXCEPT !.sock = sock, !.gSockets = sockets, !.gDebuggerSocket = debugger,
                    !.gConnectedDebugSocket = Place(a.gConnectedDebugSocket), !.gSLPTimeouts = timeouts]
  BY DEF DeletePending
<1> HIDE DEF a
<1>3. q \in Seq(Sockets)
  BY <1>1, NetFields
<1>4. M \in Nat /\ M <= Cardinality(Sockets) /\ Sockets = 1 .. Cardinality(Sockets) /\ Cardinality(Sockets) \in Nat
      /\ NULL \notin Sockets
  BY NetFields, SocketNumbers DEF Numbered
<1>5. I = {i \in 1 .. M : ~ n.sock[i].fDeleted}
  BY <1>1
<1>6. L \in Nat /\ L <= M
  <2>1. I \in SUBSET (1 .. M)
    BY <1>5
  <2>2. IsFiniteSet(1 .. M) /\ Cardinality(1 .. M) = M
    BY <1>4, FS_Interval
  <2> HIDE DEF I, M
  <2>3. IsFiniteSet(I) /\ Cardinality(I) <= M
    BY <2>1, <2>2, FS_Subset
  <2> QED
    BY <2>3, FS_CardinalityType
<1>7. left \in Seq(Sockets) /\ Len(left) = L
  <2>1. I \in SUBSET (1 .. Len(q))
    OBVIOUS
  <2> HIDE DEF I, q
  <2> QED
    BY <1>3, <2>1, KeptElements
<1>8. PICK place \in [1 .. L -> I] :
        /\ \A k \in 1 .. L : left[k] = q[place[k]]
        /\ \A k, l \in 1 .. L : place[k] = place[l] => k = l
        /\ \A i \in I : \E k \in 1 .. L : place[k] = i
  <2>1. I \in SUBSET (1 .. Len(q))
    OBVIOUS
  <2> HIDE DEF I, q
  <2> QED
    BY <1>3, <2>1, KeptElements, SMTT(60)
<1>9. \A i \in I : i \in 1 .. M /\ ~ n.sock[i].fDeleted
  BY <1>5
<1>10. \A s \in Sockets : s <= M /\ ~ n.sock[s].fDeleted => s \in I
  BY <1>4, <1>5
<1> HIDE DEF I, M, q, L, left
<1>11. \A k \in 1 .. L : left[k] = place[k] /\ left[k] \in I
  BY <1>1, <1>8, <1>9
<1>12. \A k, l \in 1 .. L : left[k] = left[l] => k = l
  BY <1>8, <1>11
<1>13. \A i \in I : \E k \in 1 .. L : left[k] = i
  BY <1>8, <1>11
<1>14. \A k \in 1 .. L : left[k] \in Sockets /\ left[k] <= M /\ ~ n.sock[left[k]].fDeleted
  <2>1. \A i \in I : i \in Sockets /\ i <= M
    BY <1>4, <1>9
  <2> QED
    BY <1>9, <1>11, <2>1
<1>15. left \in [1 .. L -> Sockets]
  BY <1>7, LenProperties
<1>16. \A s : Contains(left, s) <=> \E k \in 1 .. L : left[k] = s
  BY <1>7 DEF Contains
<1>17. \A k \in 1 .. L : Place(left[k]) = k
  <2> SUFFICES ASSUME NEW k \in 1 .. L PROVE Place(left[k]) = k
    OBVIOUS
  <2>1. Contains(left, left[k])
    BY <1>16
  <2>2. \A l \in 1 .. L : left[l] = left[k] <=> l = k
    BY <1>12
  <2>3. Place(left[k]) = CHOOSE l \in 1 .. L : left[l] = left[k]
    BY <1>7, <2>1
  <2> HIDE DEF Place
  <2> QED
    BY <2>2, <2>3
<1>18. \A s : (~ \E k \in 1 .. L : left[k] = s) => Place(s) = NULL
  BY <1>16
<1> HIDE DEF Place
<1>19. \A s : Place(s) \in (1 .. L) \union {NULL}
  BY <1>17, <1>18
<1>20. \A s \in Sockets : s <= M /\ ~ n.sock[s].fDeleted => Place(s) \in 1 .. L /\ left[Place(s)] = s
  BY <1>10, <1>13, <1>17
<1>21. Place(NULL) = NULL
  BY <1>4, <1>14, <1>18
<1>22. 1 .. L \in SUBSET Sockets
  BY <1>4, <1>6
<1>23. /\ sock \in [Sockets -> CTCPSocket]
       /\ \A s \in Sockets : sock[s] = IF s <= L THEN n.sock[left[s]] ELSE Free
  <2>1. \A s \in Sockets : s <= L => s \in 1 .. L
    BY <1>4, <1>6
  <2>2. Free \in CTCPSocket /\ n.sock \in [Sockets -> CTCPSocket]
    BY NetFields, Records
  <2>3. \A s \in Sockets : sock[s] = IF s <= L THEN n.sock[left[s]] ELSE Free
    BY <1>1, <1>7
  <2>4. \A s \in Sockets : sock[s] \in CTCPSocket
    BY <1>14, <2>1, <2>2, <2>3
  <2> QED
    BY <2>3, <2>4
<1>24. sockets \in Seq(Sockets) /\ Len(sockets) = L /\ \A i \in 1 .. L : sockets[i] = i
  <2>1. \A i \in 1 .. L : i \in Sockets
    BY <1>22
  <2> QED
    BY <1>6, <1>7, <2>1, IsASeq
<1>25. /\ debugger \in [DebugPorts -> Sockets \union {NULL}]
       /\ \A p \in DebugPorts : debugger[p] = Place(n.gDebuggerSocket[p])
  <2>1. \A s : Place(s) \in Sockets \union {NULL}
    BY <1>19, <1>22
  <2> QED
    BY <1>1, <2>1
<1>26. n.gSLPTimeouts \in Seq(Sockets) /\ Len(n.gSLPTimeouts) \in Nat
  BY NetFields
<1>27. Place(n.gConnectedDebugSocket) \in Sockets \union {NULL}
  BY <1>19, <1>22
<1>28. /\ timeouts \in Seq(Sockets) /\ Len(timeouts) = Len(n.gSLPTimeouts)
       /\ \A i \in 1 .. Len(n.gSLPTimeouts) : timeouts[i] = Place(n.gSLPTimeouts[i])
  <2>1. \A i \in 1 .. Len(n.gSLPTimeouts) : n.gSLPTimeouts[i] \in Sockets
    BY <1>26, ElementOfSeq
  <2>2. \A i \in 1 .. Len(n.gSLPTimeouts) : Place(n.gSLPTimeouts[i]) \in Sockets
    BY <1>20, <1>22, <2>1 DEF M
  <2>3. timeouts = [i \in 1 .. Len(n.gSLPTimeouts) |-> Place(n.gSLPTimeouts[i])]
    BY <1>1
  <2> HIDE DEF timeouts
  <2>4. timeouts \in Seq(Sockets)
    BY <1>26, <2>2, <2>3, IsASeq
  <2> QED
    BY <1>26, <2>3, <2>4, LenProperties
<1> HIDE DEF sock, sockets, debugger, timeouts, m
<1>29. m \in Nets
  BY <1>1, <1>2, <1>23, <1>24, <1>25, <1>27, <1>28 DEF Nets
<1>30. /\ m.sock = sock /\ m.gSockets = sockets /\ m.gSocketsToBeAdded = << >> /\ m.gDebuggerSocket = debugger
       /\ m.gConnectedDebugSocket = Place(n.gConnectedDebugSocket) /\ m.gSLPTimeouts = timeouts
  BY <1>1, <1>2 DEF Nets
<1>31. number \in [Sockets \union {NULL} -> (1 .. L) \union {NULL}] /\ \A s \in Sockets \union {NULL} : number[s] = Place(s)
  BY <1>19
<1> HIDE DEF number
<1>32. /\ L = Cardinality({i \in 1 .. Made(n) : ~ n.sock[i].fDeleted})
       /\ L \in 0 .. Made(n)
  BY <1>4, <1>5, <1>6 DEF L, M
<1>33. /\ \A k \in 1 .. L : number[left[k]] = k /\ left[k] <= Made(n) /\ ~ n.sock[left[k]].fDeleted
       /\ \A s \in Sockets : s <= Made(n) /\ ~ n.sock[s].fDeleted => number[s] \in 1 .. L /\ left[number[s]] = s
       /\ number[NULL] = NULL
  BY <1>14, <1>17, <1>20, <1>21, <1>31 DEF M
<1>34. /\ m.gConnectedDebugSocket = number[n.gConnectedDebugSocket]
       /\ \A p \in DebugPorts : m.gDebuggerSocket[p] = number[n.gDebuggerSocket[p]]
  <2>1. n.gConnectedDebugSocket \in Sockets \union {NULL}
        /\ \A p \in DebugPorts : n.gDebuggerSocket[p] \in Sockets \union {NULL}
    BY NetFields
  <2> QED
    BY <1>25, <1>30, <1>31, <2>1
<1>35. /\ Len(m.gSLPTimeouts) = Len(n.gSLPTimeouts)
       /\ \A i \in 1 .. Len(n.gSLPTimeouts) : m.gSLPTimeouts[i] = number[n.gSLPTimeouts[i]]
  <2>1. \A i \in 1 .. Len(n.gSLPTimeouts) : n.gSLPTimeouts[i] \in Sockets
    BY <1>26, ElementOfSeq
  <2> QED
    BY <1>28, <1>30, <1>31, <2>1
<1>36. /\ Old(m) = L /\ \A i \in 1 .. L : m.gSockets[i] = i
       /\ \A s \in Sockets : m.sock[s] = IF s <= L THEN n.sock[left[s]] ELSE Free
  BY <1>23, <1>24, <1>30 DEF Old
<1>37. m = DeletePending(AddPending(n)) /\ m.gSocketsToBeAdded = << >>
  BY <1>30 DEF m, a
<1>38. Renumbered(n, m, L, left, number)
  BY <1>15, <1>29, <1>31, <1>32, <1>33, <1>34, <1>35, <1>36, <1>37 DEF Renumbered
<1> QED
  BY <1>37, <1>38, Zenon

Live(r) == r.state \in {"listening", "connected"}

\* Who listens or is connected keeps its socket under the new number, and nobody else is there.
LEMMA RenumberedSockets ==
  ASSUME Room, NEW n \in Nets, Numbered(n), Kinds(n), NEW m, NEW L, NEW left, NEW number,
         Renumbered(n, m, L, left, number)
  PROVE  /\ L \in Nat /\ Made(n) \in Nat /\ L <= Made(n) /\ 1 .. L \in SUBSET Sockets
         /\ \A s \in Sockets : Live(n.sock[s]) =>
              number[s] \in 1 .. L /\ left[number[s]] = s /\ m.sock[number[s]] = n.sock[s]
         /\ \A r \in Sockets : r <= L =>
              left[r] \in Sockets /\ left[r] <= Made(n) /\ m.sock[r] = n.sock[left[r]] /\ number[left[r]] = r
              /\ Live(m.sock[r]) /\ m.sock[r] # Free
         /\ \A r \in Sockets : ~ (r <= L) => m.sock[r] = Free
         /\ Numbered(m) /\ Kinds(m) /\ Made(m) = L /\ Old(m) = L
<1>1. /\ Sockets = 1 .. Cardinality(Sockets) /\ Cardinality(Sockets) \in Nat /\ Made(n) \in Nat
      /\ n.sock \in [Sockets -> CTCPSocket] /\ Made(n) <= Cardinality(Sockets)
  BY SocketNumbers, NetFields DEF Numbered
<1>2. L \in Nat /\ L <= Made(n) /\ 1 .. L \in SUBSET Sockets
  <2>1. L \in 0 .. Made(n)
    BY DEF Renumbered
  <2>2. L \in Nat /\ L <= Made(n) /\ L <= Cardinality(Sockets)
    BY <1>1, <2>1
  <2>3. 1 .. L \in SUBSET (1 .. Cardinality(Sockets))
    BY <1>1, <2>2
  <2> QED
    BY <1>1, <2>2, <2>3
<1>3. \A s \in Sockets : n.sock[s] # Free <=> s <= Made(n)
  BY <1>1 DEF Numbered
<1>4. ASSUME NEW s \in Sockets, Live(n.sock[s])
      PROVE  number[s] \in 1 .. L /\ left[number[s]] = s /\ m.sock[number[s]] = n.sock[s]
  <2>1. Plausible(n.sock[s])
    BY DEF Kinds
  <2>2. n.sock[s] # Free
    BY <1>4 DEF Live, Free
  <2>3. n.sock[s].fDeleted \in BOOLEAN
    BY <1>1 DEF CTCPSocket
  <2>4. ~ n.sock[s].fDeleted
    BY <1>4, <2>1, <2>3 DEF Live, Plausible
  <2>5. number[s] \in 1 .. L /\ left[number[s]] = s
    BY <1>3, <2>2, <2>4 DEF Renumbered
  <2>6. number[s] \in Sockets /\ number[s] <= L
    BY <1>2, <2>5
  <2>7. \A r \in Sockets : r <= L => m.sock[r] = n.sock[left[r]]
    BY DEF Renumbered
  <2>8. m.sock[number[s]] = n.sock[left[number[s]]]
    BY <2>6, <2>7
  <2> QED
    BY <2>5, <2>8
<1>5. ASSUME NEW r \in Sockets, r <= L
      PROVE  left[r] \in Sockets /\ left[r] <= Made(n) /\ m.sock[r] = n.sock[left[r]] /\ number[left[r]] = r
             /\ Live(m.sock[r]) /\ m.sock[r] # Free /\ Plausible(m.sock[r])
  <2>1. r \in 1 .. L
    BY <1>1, <1>2, <1>5
  <2>2. left[r] \in Sockets /\ left[r] <= Made(n) /\ number[left[r]] = r /\ ~ n.sock[left[r]].fDeleted
    BY <2>1 DEF Renumbered
  <2>3. m.sock[r] = n.sock[left[r]]
    BY <1>5 DEF Renumbered
  <2>4. n.sock[left[r]] # Free /\ Plausible(n.sock[left[r]]) /\ n.sock[left[r]] \in CTCPSocket
    BY <1>1, <1>3, <2>2 DEF Kinds
  <2>5. Live(n.sock[left[r]])
    BY <2>2, <2>4 DEF Live, Plausible, CTCPSocket
  <2> QED
    BY <2>2, <2>3, <2>4, <2>5
<1>6. \A r \in Sockets : ~ (r <= L) => m.sock[r] = Free
  BY DEF Renumbered
<1>7. Old(m) = L /\ Made(m) = L
  <2>1. Old(m) = L /\ m.gSocketsToBeAdded = << >>
    BY DEF Renumbered
  <2>2. Len(m.gSocketsToBeAdded) = 0
    BY <2>1
  <2>3. Made(m) = L + 0
    BY <2>1, <2>2 DEF Made
  <2> QED
    BY <1>2, <2>1, <2>3
<1>8. Numbered(m)
  <2>1. \A i \in 1 .. Old(m) : m.gSockets[i] = i
    BY <1>7 DEF Renumbered
  <2>2. \A i \in 1 .. Len(m.gSocketsToBeAdded) : m.gSocketsToBeAdded[i] = Old(m) + i
    <3>1. Len(m.gSocketsToBeAdded) = 0
      BY DEF Renumbered
    <3> QED
      BY <3>1
  <2>3. Made(m) <= Cardinality(Sockets)
    BY <1>1, <1>2, <1>7
  <2>4. \A s \in Sockets : m.sock[s] = Free <=> s > Made(m)
    <3> SUFFICES ASSUME NEW s \in Sockets PROVE m.sock[s] = Free <=> s > L
      BY <1>7
    <3>1. s > L <=> ~ (s <= L)
      BY <1>1, <1>2
    <3> QED
      BY <1>5, <1>6, <3>1
  <2> QED
    BY <2>1, <2>2, <2>3, <2>4 DEF Numbered
<1>9. Kinds(m)
  BY <1>5, <1>6, Records DEF Kinds
<1> QED
  BY <1>1, <1>2, <1>4, <1>5, <1>6, <1>7, <1>8, <1>9

LEMMA OneMore ==
  ASSUME NEW T, IsFiniteSet(T), NEW k \in Nat, Cardinality(T) <= k, NEW x
  PROVE  /\ IsFiniteSet(T \union {x}) /\ Cardinality(T \union {x}) <= k + 1
<1>1. Cardinality(T) \in Nat
  BY FS_CardinalityType
<1>2. IsFiniteSet(T \union {x})
  BY FS_AddElement
<1>3. Cardinality(T \union {x}) = IF x \in T THEN Cardinality(T) ELSE Cardinality(T) + 1
  BY FS_AddElement
<1>4. Cardinality(T \union {x}) <= k + 1
  BY <1>1, <1>3
<1> QED
  BY <1>2, <1>4

\* After that at most MaxScripts scripts are connected, a listener waits for the next one, and two
\* listeners wait for a debugger or a debugger is connected.
LEMMA FewLeft ==
  ASSUME Room, NEW n, NEW c, Good(n, c)
  PROVE  Cardinality({i \in 1 .. Made(n) : ~ n.sock[i].fDeleted}) <= MaxScripts + 3
<1> DEFINE I == {i \in 1 .. Made(n) : ~ n.sock[i].fDeleted}
           T == Taken(n)
<1>1. /\ n \in Nets /\ Numbered(n) /\ Kinds(n) /\ ScriptsListener(n) /\ DebugListeners(n) /\ Bounded(n)
  BY DEF Good
<1>2. /\ Sockets = 1 .. Cardinality(Sockets) /\ Cardinality(Sockets) \in Nat /\ Made(n) \in Nat /\ MaxScripts \in Nat
      /\ n.sock \in [Sockets -> CTCPSocket] /\ Made(n) <= Cardinality(Sockets) /\ NULL \notin Sockets
  BY <1>1, SocketNumbers, NetFields DEF Numbered
<1>3. PICK sl \in Sockets : OnlyListener(n, sl, "rpc")
  BY <1>1 DEF ScriptsListener
<1>4. PICK d1 \in Sockets, d2 \in Sockets :
        \A s \in Sockets : Debugs(n.sock[s]) \/ (\E p \in DebugPorts : Listens(n.sock[s], p)) => s = d1 \/ s = d2
  <2>1. CASE n.gConnectedDebugSocket = NULL
    <3>1. /\ \A p \in DebugPorts : OnlyListener(n, n.gDebuggerSocket[p], p)
          /\ \A s \in Sockets : ~ Debugs(n.sock[s])
      BY <1>1, <2>1 DEF DebugListeners
    <3>2. OnlyListener(n, n.gDebuggerSocket["debug1"], "debug1") /\ OnlyListener(n, n.gDebuggerSocket["debug2"], "debug2")
      BY <3>1 DEF DebugPorts
    <3>3. n.gDebuggerSocket["debug1"] \in Sockets /\ n.gDebuggerSocket["debug2"] \in Sockets
      BY <3>2 DEF OnlyListener
    <3>4. \A s \in Sockets : (\E p \in DebugPorts : Listens(n.sock[s], p))
                               => s = n.gDebuggerSocket["debug1"] \/ s = n.gDebuggerSocket["debug2"]
      BY <3>2 DEF OnlyListener, DebugPorts
    <3> QED
      BY <3>1, <3>3, <3>4
  <2>2. CASE n.gConnectedDebugSocket # NULL
    <3>1. /\ \A s \in Sockets, p \in DebugPorts : ~ Listens(n.sock[s], p)
          /\ \A s \in Sockets : Debugs(n.sock[s]) <=> s = n.gConnectedDebugSocket
      BY <1>1, <2>2 DEF DebugListeners
    <3>2. n.gConnectedDebugSocket \in Sockets
      BY <1>1, <2>2, NetFields
    <3> QED
      BY <3>1, <3>2
  <2> QED
    BY <2>1, <2>2
<1>5. ASSUME NEW i \in I PROVE i \in T \/ i = sl \/ i = d1 \/ i = d2
  <2>1. i \in Sockets /\ i <= Made(n) /\ ~ (i > Made(n))
    <3>1. i \in 1 .. Made(n)
      OBVIOUS
    <3>2. i \in 1 .. Cardinality(Sockets) /\ i <= Made(n) /\ ~ (i > Made(n))
      BY <1>2, <3>1
    <3> QED
      BY <1>2, <3>2
  <2>2. n.sock[i] \in CTCPSocket /\ Plausible(n.sock[i]) /\ n.sock[i] # Free /\ ~ n.sock[i].fDeleted
    BY <1>1, <1>2, <2>1 DEF Kinds, Numbered
  <2>3. n.sock[i].state \in {"listening", "connected"} /\ n.sock[i].port \in DebugPorts \union {"rpc"}
    BY <2>2 DEF Plausible, CTCPSocket
  <2>4. CASE n.sock[i].port = "rpc" /\ n.sock[i].state = "listening"
    BY <1>3, <2>1, <2>4 DEF OnlyListener, Listens
  <2>5. CASE n.sock[i].port = "rpc" /\ n.sock[i].state = "connected"
    BY <2>1, <2>5 DEF Taken
  <2>6. CASE n.sock[i].port # "rpc"
    <3>1. n.sock[i].port \in DebugPorts
      BY <2>3, <2>6
    <3>2. Debugs(n.sock[i]) \/ Listens(n.sock[i], n.sock[i].port)
      BY <2>3, <2>6 DEF Debugs, Listens
    <3> QED
      BY <1>4, <2>1, <3>1, <3>2
  <2>7. \/ n.sock[i].port = "rpc" /\ n.sock[i].state = "listening"
        \/ n.sock[i].port = "rpc" /\ n.sock[i].state = "connected"
        \/ n.sock[i].port # "rpc"
    BY <2>3
  <2> QED
    BY <2>4, <2>5, <2>6, <2>7, Zenon
<1>6. IsFiniteSet(T) /\ Cardinality(T) \in Nat /\ Cardinality(T) <= MaxScripts
  <2>1. IsFiniteSet(Sockets)
    <3>1. Sockets = 1 .. Cardinality(Sockets) /\ 1 \in Int /\ Cardinality(Sockets) \in Int
      BY <1>2
    <3>2. IsFiniteSet(1 .. Cardinality(Sockets))
      BY ONLY <3>1, FS_Interval
    <3> QED
      BY ONLY <3>1, <3>2
  <2>2. T \in SUBSET Sockets
    BY DEF Taken
  <2>3. IsFiniteSet(T)
    BY <2>1, <2>2, FS_Subset
  <2> QED
    BY <1>1, <2>3, FS_CardinalityType DEF Bounded
<1> HIDE DEF T, I
<1>7. IsFiniteSet(T \union {sl}) /\ Cardinality(T \union {sl}) <= MaxScripts + 1
  BY <1>2, <1>6, OneMore
<1>8. IsFiniteSet((T \union {sl}) \union {d1}) /\ Cardinality((T \union {sl}) \union {d1}) <= MaxScripts + 2
  <2>1. MaxScripts + 1 \in Nat /\ (MaxScripts + 1) + 1 = MaxScripts + 2
    BY <1>2
  <2> QED
    BY <1>7, <2>1, OneMore
<1>9. /\ IsFiniteSet(((T \union {sl}) \union {d1}) \union {d2})
      /\ Cardinality(((T \union {sl}) \union {d1}) \union {d2}) <= MaxScripts + 3
  <2>1. MaxScripts + 2 \in Nat /\ (MaxScripts + 2) + 1 = MaxScripts + 3
    BY <1>2
  <2> QED
    BY <1>8, <2>1, OneMore
<1>10. I \in SUBSET (((T \union {sl}) \union {d1}) \union {d2})
  BY <1>5
<1>11. IsFiniteSet(I) /\ Cardinality(I) <= Cardinality(((T \union {sl}) \union {d1}) \union {d2})
  BY <1>9, <1>10, FS_Subset
<1>12. Cardinality(I) \in Nat /\ Cardinality(((T \union {sl}) \union {d1}) \union {d2}) \in Nat
  BY <1>9, <1>11, FS_CardinalityType
<1>13. Cardinality(I) <= MaxScripts + 3
  BY <1>2, <1>9, <1>11, <1>12
<1> QED
  BY <1>13 DEF I

\* A listener keeps listening, alone, under its new number.
LEMMA ListenerRenumbered ==
  ASSUME Room, NEW n \in Nets, Numbered(n), Kinds(n), NEW m, NEW L, NEW left, NEW number,
         Renumbered(n, m, L, left, number), NEW port \in Ports, NEW s, OnlyListener(n, s, port)
  PROVE  OnlyListener(m, number[s], port) /\ number[s] \in 1 .. L
<1>1. /\ \A x \in Sockets : Live(n.sock[x]) =>
              number[x] \in 1 .. L /\ left[number[x]] = x /\ m.sock[number[x]] = n.sock[x]
      /\ \A r \in Sockets : r <= L =>
              left[r] \in Sockets /\ m.sock[r] = n.sock[left[r]] /\ number[left[r]] = r
      /\ \A r \in Sockets : ~ (r <= L) => m.sock[r] = Free
      /\ 1 .. L \in SUBSET Sockets
  BY RenumberedSockets
<1>2. s \in Sockets /\ Listens(n.sock[s], port)
  BY DEF OnlyListener
<1>3. Live(n.sock[s])
  BY <1>2 DEF Live, Listens
<1>4. number[s] \in 1 .. L /\ number[s] \in Sockets /\ m.sock[number[s]] = n.sock[s]
  BY <1>1, <1>2, <1>3
<1>5. ASSUME NEW r \in Sockets PROVE Listens(m.sock[r], port) <=> r = number[s]
  <2>1. CASE r <= L
    <3>1. left[r] \in Sockets /\ m.sock[r] = n.sock[left[r]] /\ number[left[r]] = r
      BY <1>1, <2>1
    <3>2. Listens(n.sock[left[r]], port) => left[r] = s
      BY <3>1 DEF OnlyListener
    <3> QED
      BY <1>2, <1>4, <3>1, <3>2
  <2>2. CASE ~ (r <= L)
    <3>1. ~ Listens(m.sock[r], port)
      BY <1>1, <2>2 DEF Listens, Free
    <3> QED
      BY <1>2, <1>4, <3>1
  <2> QED
    BY <2>1, <2>2
<1> QED
  BY <1>4, <1>5 DEF OnlyListener

LEMMA DebuggerRenumbered ==
  ASSUME Room, NEW n \in Nets, Numbered(n), Kinds(n), DebugListeners(n), NEW m, NEW L, NEW left, NEW number,
         Renumbered(n, m, L, left, number)
  PROVE  DebugListeners(m) /\ (m.gConnectedDebugSocket = NULL <=> n.gConnectedDebugSocket = NULL)
<1>1. /\ \A x \in Sockets : Live(n.sock[x]) =>
              number[x] \in 1 .. L /\ left[number[x]] = x /\ m.sock[number[x]] = n.sock[x]
      /\ \A r \in Sockets : r <= L =>
              left[r] \in Sockets /\ m.sock[r] = n.sock[left[r]] /\ number[left[r]] = r
      /\ \A r \in Sockets : ~ (r <= L) => m.sock[r] = Free
      /\ 1 .. L \in SUBSET Sockets /\ L \in Nat /\ Old(m) = L
  BY RenumberedSockets
<1>2. /\ number[NULL] = NULL /\ m.gConnectedDebugSocket = number[n.gConnectedDebugSocket]
      /\ \A p \in DebugPorts : m.gDebuggerSocket[p] = number[n.gDebuggerSocket[p]]
  BY DEF Renumbered
<1>3. NULL \notin Sockets /\ n.gConnectedDebugSocket \in Sockets \union {NULL}
  BY SocketNumbers, NetFields
<1>4. ~ Debugs(Free) /\ \A p : ~ Listens(Free, p)
  BY DEF Free, Debugs, Listens
<1>5. CASE n.gConnectedDebugSocket = NULL
  <2>1. m.gConnectedDebugSocket = NULL
    BY <1>2, <1>5
  <2>2. /\ \A p \in DebugPorts : OnlyListener(n, n.gDebuggerSocket[p], p)
        /\ \A s \in Sockets : ~ Debugs(n.sock[s])
    BY <1>5 DEF DebugListeners
  <2>3. \A p \in DebugPorts : OnlyListener(m, m.gDebuggerSocket[p], p) /\ m.gDebuggerSocket[p] \in 1 .. L
    BY <1>2, <2>2, ListenerRenumbered DEF Ports
  <2>4. \A r \in Sockets : ~ Debugs(m.sock[r])
    BY <1>1, <1>4, <2>2
  <2>5. m.gDebuggerSocket["debug1"] \in 1 .. L /\ m.gDebuggerSocket["debug2"] \in 1 .. L
    BY <2>3 DEF DebugPorts
  <2>6. ~ (m.gDebuggerSocket["debug1"] > L) /\ ~ (m.gDebuggerSocket["debug2"] > L)
    BY <1>1, <2>5
  <2> QED
    BY <1>1, <1>5, <2>1, <2>3, <2>4, <2>6 DEF DebugListeners
<1>6. CASE n.gConnectedDebugSocket # NULL
  <2> DEFINE x == n.gConnectedDebugSocket
  <2>1. x \in Sockets
    BY <1>3, <1>6
  <2>2. /\ \A p \in DebugPorts : n.gDebuggerSocket[p] = NULL
        /\ \A s \in Sockets, p \in DebugPorts : ~ Listens(n.sock[s], p)
        /\ \A s \in Sockets : Debugs(n.sock[s]) <=> s = x
    BY <1>6 DEF DebugListeners
  <2> HIDE DEF x
  <2>3. Debugs(n.sock[x]) /\ Live(n.sock[x])
    BY <2>1, <2>2 DEF Debugs, Live
  <2>4. number[x] \in Sockets /\ left[number[x]] = x /\ m.sock[number[x]] = n.sock[x]
    BY <1>1, <2>1, <2>3
  <2>5. m.gConnectedDebugSocket = number[x] /\ m.gConnectedDebugSocket # NULL
    BY <1>2, <1>3, <2>4 DEF x
  <2>6. ASSUME NEW r \in Sockets
        PROVE  (Debugs(m.sock[r]) <=> r = number[x]) /\ \A p \in DebugPorts : ~ Listens(m.sock[r], p)
    <3>1. CASE r <= L
      <4>1. left[r] \in Sockets /\ m.sock[r] = n.sock[left[r]] /\ number[left[r]] = r
        BY <1>1, <3>1
      <4>2. Debugs(n.sock[left[r]]) => left[r] = x
        BY <2>2, <4>1
      <4> QED
        BY <2>2, <2>3, <2>4, <4>1, <4>2
    <3>2. CASE ~ (r <= L)
      <4>1. m.sock[r] = Free
        BY <1>1, <3>2
      <4> QED
        BY <1>4, <2>3, <2>4, <4>1
    <3> QED
      BY <3>1, <3>2
  <2>7. \A p \in DebugPorts : m.gDebuggerSocket[p] = NULL
    BY <1>2, <2>2
  <2> QED
    BY <1>6, <2>5, <2>6, <2>7 DEF DebugListeners
<1> QED
  BY <1>5, <1>6

LEMMA WaitersRenumbered ==
  ASSUME Room, NEW n \in Nets, NEW c, Numbered(n), Kinds(n), Waiters(n, c), NEW m, NEW L, NEW left, NEW number,
         Renumbered(n, m, L, left, number)
  PROVE  Waiters(m, c)
<1> DEFINE q == n.gSLPTimeouts
           p == m.gSLPTimeouts
<1>1. /\ \A x \in Sockets : Live(n.sock[x]) =>
              number[x] \in 1 .. L /\ left[number[x]] = x /\ m.sock[number[x]] = n.sock[x]
      /\ \A r \in Sockets : r <= L =>
              left[r] \in Sockets /\ m.sock[r] = n.sock[left[r]] /\ number[left[r]] = r
      /\ \A r \in Sockets : ~ (r <= L) => m.sock[r] = Free
      /\ 1 .. L \in SUBSET Sockets /\ L \in Nat /\ Sockets = 1 .. Cardinality(Sockets)
  BY RenumberedSockets, SocketNumbers
<1>2. Len(p) = Len(q) /\ \A i \in 1 .. Len(q) : p[i] = number[q[i]]
  BY DEF Renumbered
<1>3. q \in Seq(Sockets) /\ \A i \in 1 .. Len(q) : q[i] \in Sockets
  BY NetFields, ElementOfSeq
<1>4. /\ c <= Len(q) + 1
      /\ \A i, j \in 1 .. Len(q) : q[i] = q[j] => i = j
      /\ \A i \in 1 .. Len(q) : n.sock[q[i]].state = "connected" /\ n.sock[q[i]].port = "rpc"
      /\ \A s \in Sockets : n.sock[s].owed = 1 <=> \E i \in 1 .. Len(q) : i >= c /\ q[i] = s
  BY DEF Waiters
<1> HIDE DEF p, q
<1>5. \A i \in 1 .. Len(q) : Live(n.sock[q[i]])
  BY <1>4 DEF Live
<1>6. \A i \in 1 .. Len(q) : p[i] \in 1 .. L /\ left[p[i]] = q[i] /\ m.sock[p[i]] = n.sock[q[i]]
  BY <1>1, <1>2, <1>3, <1>5
<1>7. \A i, j \in 1 .. Len(q) : p[i] = p[j] => i = j
  BY <1>4, <1>6
<1>8. ASSUME NEW r \in Sockets
      PROVE  m.sock[r].owed = 1 <=> \E i \in 1 .. Len(q) : i >= c /\ p[i] = r
  <2>1. CASE r <= L
    <3>1. left[r] \in Sockets /\ m.sock[r] = n.sock[left[r]] /\ number[left[r]] = r
      BY <1>1, <2>1
    <3>2. \A i \in 1 .. Len(q) : p[i] = r <=> q[i] = left[r]
      BY <1>2, <1>6, <3>1
    <3> QED
      BY <1>4, <3>1, <3>2
  <2>2. CASE ~ (r <= L)
    <3>1. m.sock[r] = Free
      BY <1>1, <2>2
    <3>2. m.sock[r].owed # 1
      BY <3>1 DEF Free
    <3>3. \A i \in 1 .. Len(q) : p[i] <= L
      BY <1>1, <1>6
    <3> QED
      BY <2>2, <3>2, <3>3
  <2> QED
    BY <2>1, <2>2
<1> QED
  <2>1. c <= Len(p) + 1 /\ \A i, j \in 1 .. Len(p) : p[i] = p[j] => i = j
    BY <1>2, <1>4, <1>7
  <2>2. \A i \in 1 .. Len(p) : m.sock[p[i]].state = "connected" /\ m.sock[p[i]].port = "rpc"
    BY <1>2, <1>4, <1>6
  <2>3. \A r \in Sockets : m.sock[r].owed = 1 <=> \E i \in 1 .. Len(p) : i >= c /\ p[i] = r
    BY <1>2, <1>8
  <2> QED
    BY <2>1, <2>2, <2>3, Zenon DEF Waiters, p

LEMMA BoundedRenumbered ==
  ASSUME Room, NEW n, NEW c, Good(n, c), NEW m, NEW L, NEW left, NEW number,
         Renumbered(n, m, L, left, number)
  PROVE  Bounded(m)
<1> DEFINE T == Taken(n)
           U == Taken(m)
           f == [r \in U |-> left[r]]
<1>1. n \in Nets /\ Numbered(n) /\ Kinds(n) /\ Bounded(n)
  BY DEF Good
<1>2. /\ \A r \in Sockets : r <= L =>
              left[r] \in Sockets /\ m.sock[r] = n.sock[left[r]] /\ number[left[r]] = r
      /\ \A r \in Sockets : ~ (r <= L) => m.sock[r] = Free
      /\ L \in Nat /\ Made(m) = L /\ Old(m) = L
  BY <1>1, RenumberedSockets
<1>3. /\ MaxScripts \in Nat /\ Cardinality(T) <= MaxScripts /\ Sockets = 1 .. Cardinality(Sockets)
      /\ Cardinality(Sockets) \in Nat
  BY <1>1, SocketNumbers DEF Bounded
<1>4. \A r \in U : r \in Sockets /\ left[r] \in T /\ number[left[r]] = r
  <2> SUFFICES ASSUME NEW r \in U PROVE r \in Sockets /\ left[r] \in T /\ number[left[r]] = r
    OBVIOUS
  <2>1. r \in Sockets /\ m.sock[r].port = "rpc" /\ (m.sock[r].state = "connected" \/ m.sock[r].pending)
    BY DEF Taken
  <2>2. m.sock[r] # Free
    BY <2>1 DEF Free
  <2>3. r <= L
    BY <1>2, <2>1, <2>2
  <2>4. left[r] \in Sockets /\ m.sock[r] = n.sock[left[r]] /\ number[left[r]] = r
    BY <1>2, <2>1, <2>3
  <2> QED
    BY <2>1, <2>4 DEF Taken
<1>5. IsFiniteSet(T) /\ Cardinality(T) \in Nat
  <2>1. IsFiniteSet(Sockets)
    BY <1>3, FS_Interval
  <2>2. T \in SUBSET Sockets
    BY DEF Taken
  <2>3. IsFiniteSet(T)
    BY <2>1, <2>2, FS_Subset
  <2> QED
    BY <2>3, FS_CardinalityType
<1> HIDE DEF T, U
<1>6. f \in Injection(U, T)
  BY <1>4 DEF Injection, IsInjective
<1> HIDE DEF f
<1>7. IsFiniteSet(U) /\ Cardinality(U) <= Cardinality(T)
  BY <1>5, <1>6, FS_Injection
<1>8. Cardinality(U) \in Nat
  BY <1>7, FS_CardinalityType
<1>9. Cardinality(U) <= MaxScripts
  BY <1>3, <1>5, <1>7, <1>8
<1>10. L <= MaxScripts + 3
  <2>1. L = Cardinality({i \in 1 .. Made(n) : ~ n.sock[i].fDeleted})
    BY DEF Renumbered
  <2> QED
    BY <2>1, FewLeft
<1>11. NewScripts(m) \in {0, 1} /\ NewDebug(m) \in {0, 2}
  BY DEF NewScripts, NewDebug
<1>12. Made(m) <= MaxScripts + 3 + NewScripts(m) + NewDebug(m)
  BY <1>2, <1>3, <1>10, <1>11
<1> QED
  BY <1>9, <1>12 DEF Bounded, U

\* CSocket::IdleAll begins and ends with AddPending and DeletePending.
LEMMA RearrangedGood ==
  ASSUME Room, NEW n, NEW c, Good(n, c)
  PROVE  LET m == DeletePending(AddPending(n)) IN
         Good(m, c) /\ (m.gConnectedDebugSocket = NULL <=> n.gConnectedDebugSocket = NULL)
<1> DEFINE m == DeletePending(AddPending(n))
<1>1. /\ n \in Nets /\ Numbered(n) /\ Kinds(n) /\ ScriptsListener(n) /\ DebugListeners(n) /\ Waiters(n, c)
  BY DEF Good
<1>2. ASSUME NEW i \in 1 .. Len(n.gSLPTimeouts)
      PROVE  n.gSLPTimeouts[i] <= Made(n) /\ ~ n.sock[n.gSLPTimeouts[i]].fDeleted
  <2> DEFINE s == n.gSLPTimeouts[i]
  <2>1. s \in Sockets /\ n.sock[s].state = "connected"
    BY <1>1, NetFields, ElementOfSeq DEF Waiters
  <2> HIDE DEF s
  <2>2. Plausible(n.sock[s]) /\ n.sock[s] \in CTCPSocket /\ (n.sock[s] = Free <=> s > Made(n))
    BY <1>1, <2>1, NetFields DEF Kinds, Numbered
  <2>3. n.sock[s] # Free /\ ~ n.sock[s].fDeleted
    BY <2>1, <2>2 DEF Free, Plausible, CTCPSocket
  <2>4. s \in Nat /\ Made(n) \in Nat
    BY <1>1, <2>1, NetFields, SocketNumbers
  <2>5. s <= Made(n) /\ ~ n.sock[s].fDeleted
    BY <2>2, <2>3, <2>4
  <2> QED
    BY <2>5 DEF s
<1>3. PICK L, left, number : Renumbered(n, m, L, left, number)
  BY <1>1, <1>2, Deleting
<1> HIDE DEF m
<1>4. m \in Nets
  BY <1>3 DEF Renumbered
<1>5. Numbered(m) /\ Kinds(m)
  BY <1>1, <1>3, RenumberedSockets
<1>6. ScriptsListener(m)
  <2>1. PICK s \in Sockets : OnlyListener(n, s, "rpc")
    BY <1>1 DEF ScriptsListener
  <2>2. OnlyListener(m, number[s], "rpc")
    BY <1>1, <1>3, <2>1, ListenerRenumbered DEF Ports
  <2> QED
    BY <2>2 DEF ScriptsListener, OnlyListener
<1>7. DebugListeners(m) /\ (m.gConnectedDebugSocket = NULL <=> n.gConnectedDebugSocket = NULL)
  BY <1>1, <1>3, DebuggerRenumbered
<1>8. Waiters(m, c)
  BY <1>1, <1>3, WaitersRenumbered
<1>9. Bounded(m)
  BY <1>3, BoundedRenumbered
<1> QED
  BY <1>4, <1>5, <1>6, <1>7, <1>8, <1>9 DEF Good, m

(***************************************************************************)
(* What clients and packets change: one socket, and the list of waiters.   *)
(***************************************************************************)
WithSocket(n, s, new) == [n EXCEPT !.sock[s] = new]

LEMMA WithSocketFields ==
  ASSUME NEW n \in Nets, NEW s \in Sockets, NEW new \in CTCPSocket
  PROVE  LET m == WithSocket(n, s, new) IN
         /\ m \in Nets /\ SameLists(m, n) /\ m.gSLPTimeouts = n.gSLPTimeouts
         /\ m.sock[s] = new /\ \A r \in Sockets : r # s => m.sock[r] = n.sock[r]
<1> DEFINE sock == [n.sock EXCEPT ![s] = new]
           m == WithSocket(n, s, new)
<1>1. m = [n EXCEPT !.sock = sock]
  BY DEF WithSocket
<1>2. sock \in [Sockets -> CTCPSocket] /\ sock[s] = new /\ \A r \in Sockets : r # s => sock[r] = n.sock[r]
  BY NetFields
<1> HIDE DEF sock, m
<1>3. m \in Nets
  BY <1>1, <1>2 DEF Nets
<1>4. /\ m.sock = sock /\ m.gSLPTimeouts = n.gSLPTimeouts
      /\ m.gSockets = n.gSockets /\ m.gSocketsToBeAdded = n.gSocketsToBeAdded
      /\ m.gDebuggerSocket = n.gDebuggerSocket /\ m.gConnectedDebugSocket = n.gConnectedDebugSocket
  BY <1>1 DEF Nets
<1> QED
  BY <1>2, <1>3, <1>4 DEF SameLists, m

\* A socket that stays what it is: what changes is only what its client did.
LEMMA ClientGood ==
  ASSUME Room, NEW n, NEW c, Good(n, c), NEW s \in Sockets, NEW new \in CTCPSocket,
         n.sock[s] # Free, new # Free, Plausible(new),
         new.state = n.sock[s].state, new.port = n.sock[s].port, new.owed = n.sock[s].owed,
         new.pending => n.sock[s].pending \/ Cardinality(Taken(n)) < MaxScripts \/ new.port # "rpc"
  PROVE  LET m == WithSocket(n, s, new) IN
         Good(m, c) /\ m.gConnectedDebugSocket = n.gConnectedDebugSocket
<1> DEFINE m == WithSocket(n, s, new)
<1>1. /\ n \in Nets /\ Numbered(n) /\ Kinds(n) /\ ScriptsListener(n) /\ DebugListeners(n)
      /\ Waiters(n, c) /\ Bounded(n)
  BY DEF Good
<1>2. /\ m \in Nets /\ SameLists(m, n) /\ m.gSLPTimeouts = n.gSLPTimeouts
      /\ m.sock[s] = new /\ \A r \in Sockets : r # s => m.sock[r] = n.sock[r]
  BY <1>1, WithSocketFields
<1> HIDE DEF m
<1>3. Kinds(m)
  BY <1>1, <1>2 DEF Kinds
<1>4. \A r \in Sockets : /\ m.sock[r].state = n.sock[r].state /\ m.sock[r].port = n.sock[r].port
                         /\ m.sock[r].owed = n.sock[r].owed /\ (m.sock[r] = Free <=> n.sock[r] = Free)
  BY <1>2
<1>5. Cardinality(Taken(m)) <= MaxScripts
  <2>1. IsFiniteSet(Taken(n)) /\ Cardinality(Taken(n)) \in Nat /\ MaxScripts \in Nat /\ Cardinality(Taken(n)) <= MaxScripts
    <3>1. Sockets = 1 .. Cardinality(Sockets) /\ Cardinality(Sockets) \in Nat /\ MaxScripts \in Nat
      BY SocketNumbers
    <3>2. IsFiniteSet(Sockets)
      BY <3>1, FS_Interval
    <3>3. Taken(n) \in SUBSET Sockets
      BY DEF Taken
    <3>4. IsFiniteSet(Taken(n))
      BY <3>2, <3>3, FS_Subset
    <3> QED
      BY <1>1, <3>1, <3>4, FS_CardinalityType DEF Bounded
  <2>2. CASE n.sock[s].pending \/ ~ new.pending \/ new.port # "rpc"
    <3>1. Taken(m) \subseteq Taken(n)
      BY <1>2, <2>2 DEF Taken
    <3> QED
      BY <2>1, <3>1, TakenFinite
  <2>3. CASE Cardinality(Taken(n)) < MaxScripts
    <3>1. Taken(m) \in SUBSET (Taken(n) \union {s})
      BY <1>2 DEF Taken
    <3>2. MaxScripts - 1 \in Nat /\ Cardinality(Taken(n)) <= MaxScripts - 1 /\ (MaxScripts - 1) + 1 = MaxScripts
      BY <2>1, <2>3
    <3>3. IsFiniteSet(Taken(n) \union {s}) /\ Cardinality(Taken(n) \union {s}) <= MaxScripts
      BY <2>1, <3>2, OneMore
    <3>4. IsFiniteSet(Taken(m)) /\ Cardinality(Taken(m)) <= Cardinality(Taken(n) \union {s})
      BY <3>1, <3>3, FS_Subset
    <3>5. Cardinality(Taken(m)) \in Nat /\ Cardinality(Taken(n) \union {s}) \in Nat
      BY <3>3, <3>4, FS_CardinalityType
    <3> QED
      BY <2>1, <3>3, <3>4, <3>5
  <2>4. new.pending \in BOOLEAN
    BY DEF CTCPSocket
  <2> QED
    BY <2>2, <2>3, <2>4
<1>6. \A r \in Sockets : /\ m.sock[r] = Free <=> n.sock[r] = Free
                         /\ \A port \in Ports : Listens(m.sock[r], port) <=> Listens(n.sock[r], port)
                         /\ Debugs(m.sock[r]) <=> Debugs(n.sock[r])
  BY <1>4 DEF Listens, Debugs
<1>7. Numbered(m) /\ ScriptsListener(m) /\ DebugListeners(m) /\ Bounded(m)
  BY <1>1, <1>2, <1>5, <1>6, Undisturbed
<1>8. Waiters(m, c)
  <2>1. n.gSLPTimeouts \in Seq(Sockets)
    BY <1>1, NetFields
  <2> QED
    BY <1>1, <1>2, <1>4, <2>1, WaitersStill
<1> QED
  BY <1>2, <1>3, <1>7, <1>8 DEF Good, SameLists, m

\* The list of waiters and what they are owed change, nothing else.
LEMMA OwedGood ==
  ASSUME Room, NEW n, NEW c, NEW d, Good(n, c), NEW m \in Nets, SameLists(m, n), Waiters(m, d),
         \A r \in Sockets :
           /\ m.sock[r].state = n.sock[r].state /\ m.sock[r].port = n.sock[r].port
           /\ m.sock[r].pending = n.sock[r].pending /\ (m.sock[r] = Free <=> n.sock[r] = Free)
           /\ Plausible(m.sock[r])
  PROVE  Good(m, d) /\ m.gConnectedDebugSocket = n.gConnectedDebugSocket
<1>1. /\ n \in Nets /\ Numbered(n) /\ Kinds(n) /\ ScriptsListener(n) /\ DebugListeners(n)
      /\ Waiters(n, c) /\ Bounded(n)
  BY DEF Good
<1>2. Kinds(m)
  BY DEF Kinds
<1>3. \A r \in Sockets : /\ m.sock[r] = Free <=> n.sock[r] = Free
                         /\ \A port \in Ports : Listens(m.sock[r], port) <=> Listens(n.sock[r], port)
                         /\ Debugs(m.sock[r]) <=> Debugs(n.sock[r])
  BY DEF Listens, Debugs
<1>4. Taken(m) \subseteq Taken(n)
  BY DEF Taken
<1>5. Cardinality(Taken(m)) <= MaxScripts
  BY <1>1, <1>4, TakenFinite DEF Bounded
<1>6. Numbered(m) /\ ScriptsListener(m) /\ DebugListeners(m) /\ Bounded(m)
  BY <1>1, <1>3, <1>5, Undisturbed
<1> QED
  BY <1>2, <1>6 DEF Good, SameLists

LEMMA Removing ==
  ASSUME NEW S, NEW q \in Seq(S), NEW i \in 1 .. Len(q)
  PROVE  LET r == RemoveAt(q, i) IN
         /\ r \in Seq(S) /\ Len(r) = Len(q) - 1 /\ Len(q) \in Nat
         /\ \A k \in 1 .. Len(q) - 1 : r[k] = IF k < i THEN q[k] ELSE q[k + 1]
<1> DEFINE a == SubSeq(q, 1, i - 1)
           b == SubSeq(q, i + 1, Len(q))
           r == RemoveAt(q, i)
<1>1. Len(q) \in Nat /\ i \in Nat /\ i >= 1 /\ i <= Len(q)
  BY LenProperties
<1>2. r = a \o b
  BY DEF RemoveAt
<1>3. /\ a \in Seq(S) /\ Len(a) = i - 1
      /\ \A k \in 1 .. i - 1 : a[k] = q[k]
  <2>1. 1 \in Int /\ i - 1 \in Int /\ \A k \in 1 .. i - 1 : k \in 1 .. Len(q)
    BY <1>1
  <2>2. \A k \in 1 .. i - 1 : q[k] \in S
    BY <2>1, ElementOfSeq
  <2>3. /\ a \in Seq(S) /\ Len(a) = IF 1 <= i - 1 THEN (i - 1) - 1 + 1 ELSE 0
        /\ \A k \in 1 .. (i - 1) - 1 + 1 : a[k] = q[1 + k - 1]
    BY <2>1, <2>2, SubSeqProperties
  <2>4. (i - 1) - 1 + 1 = i - 1 /\ \A k \in 1 .. i - 1 : 1 + k - 1 = k
    BY <1>1
  <2>5. Len(a) = i - 1
    BY <1>1, <2>3
  <2> QED
    BY <2>3, <2>4, <2>5
<1>4. /\ b \in Seq(S) /\ Len(b) = Len(q) - i
      /\ \A k \in 1 .. Len(q) - i : b[k] = q[i + k]
  <2>1. i + 1 \in Int /\ Len(q) \in Int /\ \A k \in i + 1 .. Len(q) : k \in 1 .. Len(q)
    BY <1>1
  <2>2. \A k \in i + 1 .. Len(q) : q[k] \in S
    BY <2>1, ElementOfSeq
  <2>3. /\ b \in Seq(S) /\ Len(b) = IF i + 1 <= Len(q) THEN Len(q) - (i + 1) + 1 ELSE 0
        /\ \A k \in 1 .. Len(q) - (i + 1) + 1 : b[k] = q[(i + 1) + k - 1]
    BY <2>1, <2>2, SubSeqProperties
  <2>4. Len(q) - (i + 1) + 1 = Len(q) - i /\ \A k \in 1 .. Len(q) - i : (i + 1) + k - 1 = i + k
    BY <1>1
  <2>5. Len(b) = Len(q) - i
    BY <1>1, <2>3
  <2> QED
    BY <2>3, <2>4, <2>5
<1> HIDE DEF a, b, r
<1>5. /\ r \in Seq(S) /\ Len(r) = Len(a) + Len(b)
      /\ \A k \in 1 .. Len(a) + Len(b) : r[k] = IF k <= Len(a) THEN a[k] ELSE b[k - Len(a)]
  BY <1>2, <1>3, <1>4, ConcatProperties
<1>6. Len(a) + Len(b) = Len(q) - 1
  BY <1>1, <1>3, <1>4
<1>7. ASSUME NEW k \in 1 .. Len(q) - 1 PROVE r[k] = IF k < i THEN q[k] ELSE q[k + 1]
  <2>1. r[k] = IF k <= Len(a) THEN a[k] ELSE b[k - Len(a)]
    BY <1>5, <1>6
  <2>2. CASE k < i
    <3>1. k \in 1 .. i - 1 /\ k <= Len(a)
      BY <1>1, <1>3, <2>2
    <3> QED
      BY <1>3, <2>1, <2>2, <3>1
  <2>3. CASE ~ (k < i)
    <3>1. k - Len(a) \in 1 .. Len(q) - i /\ ~ (k <= Len(a)) /\ i + (k - Len(a)) = k + 1
      BY <1>1, <1>3, <2>3
    <3>2. b[k - Len(a)] = q[i + (k - Len(a))]
      BY <1>4, <3>1
    <3> QED
      BY <2>1, <2>3, <3>1, <3>2
  <2> QED
    BY <2>2, <2>3
<1> QED
  BY <1>1, <1>5, <1>6, <1>7 DEF r

\* SLP::SendPacket of an answer, when it can be sent.
LEMMA AnsweredFields ==
  ASSUME NEW n \in Nets, NEW s \in Sockets
  PROVE  LET m == Answered(n, s) IN
         /\ m \in Nets /\ SameLists(m, n) /\ m.gSLPTimeouts = n.gSLPTimeouts
         /\ \A r \in Sockets : r # s => m.sock[r] = n.sock[r]
         /\ m.sock[s].owed = 0
         /\ m.sock[s].state = n.sock[s].state /\ m.sock[s].port = n.sock[s].port
         /\ m.sock[s].pending = n.sock[s].pending /\ m.sock[s].inbox = n.sock[s].inbox
         /\ m.sock[s].fDeleted = n.sock[s].fDeleted
<1> DEFINE old == n.sock[s]
           owed == IF old.owed > 0 THEN old.owed - 1 ELSE old.owed
           new == [old EXCEPT !.owed = owed]
<1>1. old \in CTCPSocket /\ old.owed \in 0 .. 1
  <2>1. old \in CTCPSocket
    BY NetFields
  <2> QED
    BY <2>1 DEF CTCPSocket
<1>2. owed = 0
  BY <1>1
<1> HIDE DEF old, owed
<1>3. /\ new \in CTCPSocket /\ new.owed = 0 /\ new.state = old.state /\ new.port = old.port
      /\ new.pending = old.pending /\ new.inbox = old.inbox /\ new.fDeleted = old.fDeleted
  BY <1>1, <1>2 DEF CTCPSocket
<1>4. Answered(n, s) = WithSocket(n, s, new)
  BY DEF Answered, WithSocket, old, owed
<1> HIDE DEF new
<1>5. LET m == WithSocket(n, s, new) IN
      /\ m \in Nets /\ SameLists(m, n) /\ m.gSLPTimeouts = n.gSLPTimeouts
      /\ m.sock[s] = new /\ \A r \in Sockets : r # s => m.sock[r] = n.sock[r]
  BY <1>3, WithSocketFields
<1> QED
  BY <1>3, <1>4, <1>5 DEF old

\* The list of waiters alone is another one.
LEMMA WithTimeouts ==
  ASSUME NEW n \in Nets, NEW q \in Seq(Sockets)
  PROVE  LET m == [n EXCEPT !.gSLPTimeouts = q] IN
         m \in Nets /\ SameLists(m, n) /\ m.gSLPTimeouts = q /\ m.sock = n.sock
<1> DEFINE m == [n EXCEPT !.gSLPTimeouts = q]
<1>1. m \in Nets
  BY DEF Nets
<1>2. /\ m.sock = n.sock /\ m.gSLPTimeouts = q
      /\ m.gSockets = n.gSockets /\ m.gSocketsToBeAdded = n.gSocketsToBeAdded
      /\ m.gDebuggerSocket = n.gDebuggerSocket /\ m.gConnectedDebugSocket = n.gConnectedDebugSocket
  BY DEF Nets
<1> QED
  BY <1>1, <1>2 DEF SameLists

\* A socket that is answered is as plausible as before.
LEMMA PaidPlausible ==
  ASSUME NEW r \in CTCPSocket, NEW q \in CTCPSocket, Plausible(q), q.state = "connected",
         r.state = q.state, r.port = q.port, r.pending = q.pending, r.inbox = q.inbox, r.fDeleted = q.fDeleted,
         r.owed = 0
  PROVE  Plausible(r)
<1>1. r.state # "free"
  OBVIOUS
<1> QED
  BY <1>1 DEF Plausible, CTCPSocket

\* The waiter at the place i is answered: he was owed an answer, and is owed none.
LEMMA AnsweredKinds ==
  ASSUME Room, NEW n, NEW c, Good(n, c), NEW i \in 1 .. Len(n.gSLPTimeouts)
  PROVE  LET s == n.gSLPTimeouts[i]
             m == Answered(n, s) IN
         /\ s \in Sockets /\ m \in Nets /\ SameLists(m, n) /\ m.gSLPTimeouts = n.gSLPTimeouts
         /\ \A r \in Sockets : m.sock[r].owed = IF r = s THEN 0 ELSE n.sock[r].owed
         /\ \A r \in Sockets :
              /\ m.sock[r].state = n.sock[r].state /\ m.sock[r].port = n.sock[r].port
              /\ m.sock[r].pending = n.sock[r].pending /\ (m.sock[r] = Free <=> n.sock[r] = Free)
              /\ Plausible(m.sock[r])
<1> DEFINE s == n.gSLPTimeouts[i]
           m == Answered(n, s)
<1>1. n \in Nets /\ Kinds(n) /\ Waiters(n, c)
  BY DEF Good
<1>2. s \in Sockets /\ n.sock[s].state = "connected" /\ n.sock[s].port = "rpc"
  BY <1>1, NetFields, ElementOfSeq DEF Waiters
<1> HIDE DEF s
<1>3. /\ m \in Nets /\ SameLists(m, n) /\ m.gSLPTimeouts = n.gSLPTimeouts
      /\ \A r \in Sockets : r # s => m.sock[r] = n.sock[r]
      /\ m.sock[s].owed = 0
      /\ m.sock[s].state = n.sock[s].state /\ m.sock[s].port = n.sock[s].port
      /\ m.sock[s].pending = n.sock[s].pending /\ m.sock[s].inbox = n.sock[s].inbox
      /\ m.sock[s].fDeleted = n.sock[s].fDeleted
  BY <1>1, <1>2, AnsweredFields
<1> HIDE DEF m
<1>4. m.sock[s] # Free /\ n.sock[s] # Free
  BY <1>2, <1>3 DEF Free
<1>5. Plausible(m.sock[s])
  <2>1. m.sock[s] \in CTCPSocket /\ n.sock[s] \in CTCPSocket /\ Plausible(n.sock[s])
    BY <1>1, <1>2, <1>3, NetFields DEF Kinds
  <2> QED
    BY <1>2, <1>3, <2>1, PaidPlausible
<1>6. \A r \in Sockets : r # s => Plausible(m.sock[r])
  BY <1>1, <1>3 DEF Kinds
<1>7. \A r \in Sockets : m.sock[r].owed = IF r = s THEN 0 ELSE n.sock[r].owed
  BY <1>3
<1>8. \A r \in Sockets :
        /\ m.sock[r].state = n.sock[r].state /\ m.sock[r].port = n.sock[r].port
        /\ m.sock[r].pending = n.sock[r].pending /\ (m.sock[r] = Free <=> n.sock[r] = Free)
        /\ Plausible(m.sock[r])
  BY <1>3, <1>4, <1>5, <1>6
<1> QED
  BY <1>2, <1>3, <1>7, <1>8 DEF m, s

\* RPC::SignalWaiters answers the next one.
LEMMA SignalGood ==
  ASSUME Room, NEW n, NEW c \in 1 .. Len(n.gSLPTimeouts), Good(n, c)
  PROVE  LET m == Answered(n, n.gSLPTimeouts[c]) IN
         Good(m, c + 1) /\ m.gConnectedDebugSocket = n.gConnectedDebugSocket
<1> DEFINE s == n.gSLPTimeouts[c]
           q == n.gSLPTimeouts
           m == Answered(n, s)
<1>1. /\ s \in Sockets /\ m \in Nets /\ SameLists(m, n) /\ m.gSLPTimeouts = q
      /\ \A r \in Sockets : m.sock[r].owed = IF r = s THEN 0 ELSE n.sock[r].owed
      /\ \A r \in Sockets :
           /\ m.sock[r].state = n.sock[r].state /\ m.sock[r].port = n.sock[r].port
           /\ m.sock[r].pending = n.sock[r].pending /\ (m.sock[r] = Free <=> n.sock[r] = Free)
           /\ Plausible(m.sock[r])
  BY AnsweredKinds
<1>2. /\ \A i, j \in 1 .. Len(q) : q[i] = q[j] => i = j
      /\ \A i \in 1 .. Len(q) : n.sock[q[i]].state = "connected" /\ n.sock[q[i]].port = "rpc"
      /\ \A r \in Sockets : n.sock[r].owed = 1 <=> \E i \in 1 .. Len(q) : i >= c /\ q[i] = r
  BY DEF Good, Waiters
<1>3. Len(q) \in Nat /\ \A i \in 1 .. Len(q) : q[i] \in Sockets
  BY NetFields, ElementOfSeq DEF Good
<1> HIDE DEF m
<1>4. Waiters(m, c + 1)
  <2>1. c + 1 <= Len(q) + 1
    BY <1>3
  <2>2. \A i \in 1 .. Len(q) : m.sock[q[i]].state = "connected" /\ m.sock[q[i]].port = "rpc"
    BY <1>1, <1>2, <1>3
  <2>3. ASSUME NEW r \in Sockets
        PROVE  m.sock[r].owed = 1 <=> \E i \in 1 .. Len(q) : i >= c + 1 /\ q[i] = r
    <3>1. \A i \in 1 .. Len(q) : i >= c /\ i # c <=> i >= c + 1
      BY <1>3
    <3>2. \A i \in 1 .. Len(q) : q[i] = s => i = c
      BY <1>2
    <3>3. q[c] = s
      OBVIOUS
    <3> HIDE DEF s
    <3>4. CASE r = s
      BY <1>1, <3>1, <3>2, <3>4
    <3>5. CASE r # s
      BY <1>1, <1>2, <3>1, <3>3, <3>5
    <3> QED
      BY <3>4, <3>5
  <2> QED
    BY <1>1, <1>2, <2>1, <2>2, <2>3 DEF Waiters
<1>5. Good(m, c + 1) /\ m.gConnectedDebugSocket = n.gConnectedDebugSocket
  BY <1>1, <1>4, OwedGood
<1> QED
  BY <1>5 DEF m

\* RPC::Idle answers a waiter whose time is over, and erases his entry.
LEMMA TimeoutGood ==
  ASSUME Room, NEW n, Good(n, 0), NEW i \in 1 .. Len(n.gSLPTimeouts)
  PROVE  LET a == Answered(n, n.gSLPTimeouts[i])
             m == [a EXCEPT !.gSLPTimeouts = RemoveAt(n.gSLPTimeouts, i)] IN
         Good(m, 0) /\ m.gConnectedDebugSocket = n.gConnectedDebugSocket
<1> DEFINE s == n.gSLPTimeouts[i]
           q == n.gSLPTimeouts
           p == RemoveAt(q, i)
           a == Answered(n, s)
           m == [a EXCEPT !.gSLPTimeouts = p]
<1>1. /\ s \in Sockets /\ a \in Nets /\ SameLists(a, n) /\ a.gSLPTimeouts = q
      /\ \A r \in Sockets : a.sock[r].owed = IF r = s THEN 0 ELSE n.sock[r].owed
      /\ \A r \in Sockets :
           /\ a.sock[r].state = n.sock[r].state /\ a.sock[r].port = n.sock[r].port
           /\ a.sock[r].pending = n.sock[r].pending /\ (a.sock[r] = Free <=> n.sock[r] = Free)
           /\ Plausible(a.sock[r])
  BY AnsweredKinds
<1>2. /\ \A j, k \in 1 .. Len(q) : q[j] = q[k] => j = k
      /\ \A j \in 1 .. Len(q) : n.sock[q[j]].state = "connected" /\ n.sock[q[j]].port = "rpc"
      /\ \A r \in Sockets : n.sock[r].owed = 1 <=> \E j \in 1 .. Len(q) : j >= 0 /\ q[j] = r
  BY DEF Good, Waiters
<1>3. Len(q) \in Nat /\ q \in Seq(Sockets) /\ \A j \in 1 .. Len(q) : q[j] \in Sockets
  BY NetFields, ElementOfSeq DEF Good
<1>4. /\ p \in Seq(Sockets) /\ Len(p) = Len(q) - 1
      /\ \A k \in 1 .. Len(q) - 1 : p[k] = IF k < i THEN q[k] ELSE q[k + 1]
  BY <1>3, Removing
<1> HIDE DEF a, p
<1>5. m \in Nets /\ SameLists(m, a) /\ m.gSLPTimeouts = p /\ m.sock = a.sock
  BY <1>1, <1>4, WithTimeouts
<1>6. SameLists(m, n)
  BY <1>1, <1>5 DEF SameLists
<1> HIDE DEF m
<1>7. \A k \in 1 .. Len(p) : /\ k \in 1 .. Len(q) /\ k + 1 \in 1 .. Len(q)
                             /\ (k < i /\ p[k] = q[k]) \/ (k + 1 > i /\ p[k] = q[k + 1])
  BY <1>3, <1>4
<1>8. \A k \in 1 .. Len(p) : p[k] \in Sockets /\ p[k] # s /\ n.sock[p[k]].state = "connected" /\ n.sock[p[k]].port = "rpc"
  <2> SUFFICES ASSUME NEW k \in 1 .. Len(p)
               PROVE  p[k] \in Sockets /\ p[k] # s /\ n.sock[p[k]].state = "connected" /\ n.sock[p[k]].port = "rpc"
    OBVIOUS
  <2>1. k \in 1 .. Len(q) /\ k + 1 \in 1 .. Len(q) /\ ((k < i /\ p[k] = q[k]) \/ (k + 1 > i /\ p[k] = q[k + 1]))
    BY <1>7
  <2>2. PICK j \in 1 .. Len(q) : j # i /\ p[k] = q[j]
    BY <2>1
  <2>3. q[j] # s
    BY <1>2, <2>2
  <2> QED
    BY <1>2, <1>3, <2>2, <2>3
<1>9. \A k, l \in 1 .. Len(p) : p[k] = p[l] => k = l
  <2> SUFFICES ASSUME NEW k \in 1 .. Len(p), NEW l \in 1 .. Len(p), p[k] = p[l] PROVE k = l
    OBVIOUS
  <2>1. /\ k \in 1 .. Len(q) /\ k + 1 \in 1 .. Len(q) /\ ((k < i /\ p[k] = q[k]) \/ (k + 1 > i /\ p[k] = q[k + 1]))
        /\ l \in 1 .. Len(q) /\ l + 1 \in 1 .. Len(q) /\ ((l < i /\ p[l] = q[l]) \/ (l + 1 > i /\ p[l] = q[l + 1]))
    BY <1>7
  <2>2. CASE k < i /\ p[k] = q[k] /\ l < i /\ p[l] = q[l]
    BY <1>2, <2>1, <2>2
  <2>3. CASE k < i /\ p[k] = q[k] /\ l + 1 > i /\ p[l] = q[l + 1]
    <3>1. k = l + 1
      BY <1>2, <2>1, <2>3
    <3> QED
      BY <2>1, <2>3, <3>1
  <2>4. CASE k + 1 > i /\ p[k] = q[k + 1] /\ l < i /\ p[l] = q[l]
    <3>1. k + 1 = l
      BY <1>2, <2>1, <2>4
    <3> QED
      BY <2>1, <2>4, <3>1
  <2>5. CASE k + 1 > i /\ p[k] = q[k + 1] /\ l + 1 > i /\ p[l] = q[l + 1]
    <3>1. k + 1 = l + 1
      BY <1>2, <2>1, <2>5
    <3> QED
      BY <2>1, <3>1
  <2> QED
    BY <2>1, <2>2, <2>3, <2>4, <2>5
<1>10. \A j \in 1 .. Len(q) : j # i => \E k \in 1 .. Len(p) : p[k] = q[j]
  <2> SUFFICES ASSUME NEW j \in 1 .. Len(q), j # i PROVE \E k \in 1 .. Len(p) : p[k] = q[j]
    OBVIOUS
  <2>1. CASE j < i
    <3>1. j \in 1 .. Len(p) /\ p[j] = q[j]
      BY <1>3, <1>4, <2>1
    <3> QED
      BY <3>1
  <2>2. CASE j > i
    <3>1. j - 1 \in 1 .. Len(p) /\ ~ (j - 1 < i) /\ (j - 1) + 1 = j
      BY <1>3, <1>4, <2>2
    <3>2. p[j - 1] = q[(j - 1) + 1]
      BY <1>4, <3>1
    <3> QED
      BY <3>1, <3>2
  <2> QED
    BY <2>1, <2>2
<1>11. Waiters(m, 0)
  <2>1. 0 <= Len(p) + 1
    BY <1>3, <1>4
  <2>2. \A k \in 1 .. Len(p) : m.sock[p[k]].state = "connected" /\ m.sock[p[k]].port = "rpc"
    BY <1>1, <1>5, <1>8
  <2>3. ASSUME NEW r \in Sockets
        PROVE  m.sock[r].owed = 1 <=> \E k \in 1 .. Len(p) : k >= 0 /\ p[k] = r
    <3>1. (\A j \in 1 .. Len(q) : j >= 0) /\ (\A k \in 1 .. Len(p) : k >= 0)
      OBVIOUS
    <3>2. CASE r = s
      BY <1>1, <1>5, <1>8, <3>2
    <3>3. CASE r # s
      <4>1. m.sock[r].owed = n.sock[r].owed
        BY <1>1, <1>5, <3>3
      <4>2. ASSUME NEW j \in 1 .. Len(q), q[j] = r PROVE \E k \in 1 .. Len(p) : p[k] = r
        <5>1. j # i
          BY <3>3, <4>2
        <5> QED
          BY <1>10, <4>2, <5>1
      <4>3. ASSUME NEW k \in 1 .. Len(p), p[k] = r PROVE \E j \in 1 .. Len(q) : q[j] = r
        BY <1>7, <4>3
      <4>4. (\E j \in 1 .. Len(q) : q[j] = r) <=> \E k \in 1 .. Len(p) : p[k] = r
        BY <4>2, <4>3
      <4> QED
        BY <1>2, <3>1, <4>1, <4>4
    <3> QED
      BY <3>2, <3>3
  <2> QED
    BY <1>5, <1>9, <2>1, <2>2, <2>3 DEF Waiters
<1>12. Good(m, 0) /\ m.gConnectedDebugSocket = n.gConnectedDebugSocket
  BY <1>1, <1>5, <1>6, <1>11, OwedGood
<1> QED
  BY <1>12 DEF m, a, p

\* A script that waits for a signal gets an entry of his own.
LEMMA DeferGood ==
  ASSUME Room, NEW n, Good(n, 0), NEW s \in Sockets,
         n.sock[s].state = "connected", n.sock[s].port = "rpc", n.sock[s].owed = 0, n.sock[s].inbox = << >>
  PROVE  LET m == DeferCurrentPacket(n, s) IN
         Good(m, 0) /\ m.gConnectedDebugSocket = n.gConnectedDebugSocket
<1> DEFINE old == n.sock[s]
           new == [old EXCEPT !.owed = old.owed + 1]
           q == n.gSLPTimeouts
           p == Append(q, s)
           a == WithSocket(n, s, new)
           m == DeferCurrentPacket(n, s)
<1>1. n \in Nets /\ Kinds(n) /\ Waiters(n, 0)
  BY DEF Good
<1>2. old \in CTCPSocket /\ Plausible(old)
  BY <1>1, NetFields DEF Kinds
<1>3. old.state = "connected" /\ old.port = "rpc" /\ old.owed = 0 /\ old.inbox = << >>
  OBVIOUS
<1> HIDE DEF old
<1>4. /\ new \in CTCPSocket /\ new.owed = 1 /\ new.state = old.state /\ new.port = old.port
      /\ new.pending = old.pending /\ new.inbox = old.inbox /\ new.fDeleted = old.fDeleted
  BY <1>2, <1>3 DEF CTCPSocket
<1>5. Plausible(new)
  BY <1>2, <1>3, <1>4 DEF Plausible
<1> HIDE DEF new
<1>6. /\ a \in Nets /\ SameLists(a, n) /\ a.gSLPTimeouts = q
      /\ a.sock[s] = new /\ \A r \in Sockets : r # s => a.sock[r] = n.sock[r]
  BY <1>1, <1>4, WithSocketFields
<1>7. q \in Seq(Sockets) /\ Len(q) \in Nat /\ \A i \in 1 .. Len(q) : q[i] \in Sockets
  BY <1>1, NetFields, ElementOfSeq
<1>8. /\ p \in Seq(Sockets) /\ Len(p) = Len(q) + 1 /\ p[Len(q) + 1] = s
      /\ \A i \in 1 .. Len(q) : p[i] = q[i]
  BY <1>7, AppendProperties
<1>9. m = [a EXCEPT !.gSLPTimeouts = p]
  BY DEF DeferCurrentPacket, WithSocket, new, old
<1> HIDE DEF a, p, m
<1>10. m \in Nets /\ SameLists(m, a) /\ m.gSLPTimeouts = p /\ m.sock = a.sock
  BY <1>6, <1>8, <1>9, WithTimeouts
<1>11. SameLists(m, n)
  BY <1>6, <1>10 DEF SameLists
<1>12. /\ \A i, j \in 1 .. Len(q) : q[i] = q[j] => i = j
       /\ \A i \in 1 .. Len(q) : n.sock[q[i]].state = "connected" /\ n.sock[q[i]].port = "rpc"
       /\ \A r \in Sockets : n.sock[r].owed = 1 <=> \E i \in 1 .. Len(q) : i >= 0 /\ q[i] = r
  BY <1>1 DEF Waiters
<1>13. \A i \in 1 .. Len(q) : i >= 0 /\ q[i] # s
  <2>1. n.sock[s].owed # 1
    BY <1>3 DEF old
  <2>2. \A i \in 1 .. Len(q) : i >= 0
    BY <1>7
  <2> QED
    BY <1>12, <2>1, <2>2
<1>14. \A i \in 1 .. Len(p) : (i \in 1 .. Len(q) /\ p[i] = q[i]) \/ (i = Len(q) + 1 /\ p[i] = s)
  BY <1>7, <1>8
<1>15. \A i \in 1 .. Len(q) : i \in 1 .. Len(p) /\ i # Len(q) + 1
  BY <1>7, <1>8
<1>16. Waiters(m, 0)
  <2>1. 0 <= Len(p) + 1
    BY <1>7, <1>8
  <2>2. \A i, j \in 1 .. Len(p) : p[i] = p[j] => i = j
    BY <1>12, <1>13, <1>14
  <2>3. \A i \in 1 .. Len(p) : m.sock[p[i]].state = "connected" /\ m.sock[p[i]].port = "rpc"
    <3> SUFFICES ASSUME NEW i \in 1 .. Len(p)
                 PROVE  m.sock[p[i]].state = "connected" /\ m.sock[p[i]].port = "rpc"
      OBVIOUS
    <3>1. CASE i \in 1 .. Len(q) /\ p[i] = q[i]
      BY <1>6, <1>7, <1>10, <1>12, <1>13, <3>1
    <3>2. CASE p[i] = s
      BY <1>3, <1>4, <1>6, <1>10, <3>2
    <3> QED
      BY <1>14, <3>1, <3>2
  <2>4. ASSUME NEW r \in Sockets
        PROVE  m.sock[r].owed = 1 <=> \E i \in 1 .. Len(p) : i >= 0 /\ p[i] = r
    <3>1. \A i \in 1 .. Len(p) : i >= 0
      OBVIOUS
    <3>2. CASE r = s
      <4>1. Len(q) + 1 \in 1 .. Len(p)
        BY <1>7, <1>8
      <4> QED
        BY <1>4, <1>6, <1>8, <1>10, <3>1, <3>2, <4>1
    <3>3. CASE r # s
      <4>1. m.sock[r].owed = n.sock[r].owed
        BY <1>6, <1>10, <3>3
      <4>2. (\E i \in 1 .. Len(p) : p[i] = r) <=> \E i \in 1 .. Len(q) : q[i] = r
        BY <1>8, <1>14, <1>15, <3>3
      <4> QED
        BY <1>12, <1>13, <3>1, <4>1, <4>2
    <3> QED
      BY <3>2, <3>3
  <2> QED
    BY <1>10, <2>1, <2>2, <2>3, <2>4 DEF Waiters
<1>17. \A r \in Sockets :
         /\ m.sock[r].state = n.sock[r].state /\ m.sock[r].port = n.sock[r].port
         /\ m.sock[r].pending = n.sock[r].pending /\ (m.sock[r] = Free <=> n.sock[r] = Free)
         /\ Plausible(m.sock[r])
  <2>1. new # Free /\ old # Free
    BY <1>3, <1>4 DEF Free
  <2>2. n.sock[s] = old
    BY DEF old
  <2>3. \A r \in Sockets : Plausible(n.sock[r])
    BY <1>1 DEF Kinds
  <2> QED
    BY <1>4, <1>5, <1>6, <1>10, <2>1, <2>2, <2>3
<1> QED
  BY <1>10, <1>11, <1>16, <1>17, OwedGood DEF m

\* All have been answered: nobody is owed an answer, and the list is cleared.
LEMMA ClearedGood ==
  ASSUME Room, NEW n, NEW c, c > Len(n.gSLPTimeouts), c \in Nat, Good(n, c)
  PROVE  LET m == Cleared(n) IN
         Good(m, 0) /\ m.gConnectedDebugSocket = n.gConnectedDebugSocket
<1> DEFINE m == Cleared(n)
           q == n.gSLPTimeouts
<1>1. n \in Nets /\ Kinds(n) /\ Waiters(n, c) /\ Len(q) \in Nat
  BY NetFields DEF Good
<1>2. << >> \in Seq(Sockets) /\ Len(<< >>) = 0
  BY EmptySeq
<1>3. m \in Nets /\ SameLists(m, n) /\ m.gSLPTimeouts = << >> /\ m.sock = n.sock
  BY <1>1, <1>2, WithTimeouts DEF Cleared
<1> HIDE DEF m
<1>4. \A r \in Sockets : n.sock[r].owed # 1
  <2>1. \A i \in 1 .. Len(q) : ~ (i >= c)
    BY <1>1
  <2> QED
    BY <1>1, <2>1 DEF Waiters
<1>5. Waiters(m, 0)
  <2>1. Len(m.gSLPTimeouts) = 0
    BY <1>2, <1>3
  <2>2. 0 <= 0 + 1 /\ \A i \in 1 .. 0 : FALSE
    OBVIOUS
  <2> QED
    BY <1>3, <1>4, <2>1, <2>2 DEF Waiters
<1>6. Good(m, 0) /\ m.gConnectedDebugSocket = n.gConnectedDebugSocket
  <2>1. \A r \in Sockets : Plausible(n.sock[r])
    BY <1>1 DEF Kinds
  <2> QED
    BY <1>3, <1>5, <2>1, OwedGood
<1> QED
  BY <1>6 DEF m

\* RPC::SignalWaiters begins with the first.
LEMMA BeginGood ==
  ASSUME NEW n, Good(n, 0)
  PROVE  Good(n, 1)
<1>1. n \in Nets /\ Waiters(n, 0) /\ Len(n.gSLPTimeouts) \in Nat
  BY NetFields DEF Good
<1>2. 1 <= Len(n.gSLPTimeouts) + 1 /\ \A i \in 1 .. Len(n.gSLPTimeouts) : i >= 0 /\ i >= 1
  BY <1>1
<1>3. Waiters(n, 1)
  BY <1>1, <1>2 DEF Waiters
<1> QED
  BY <1>3 DEF Good

(***************************************************************************)
(* Shutdown and the beginning.                                             *)
(***************************************************************************)
\* CSocket::Shutdown closes whatever is there, and nothing is left.
LEMMA Emptied ==
  ASSUME Room, NEW x \in Nets, Numbered(x), x.gSLPTimeouts = << >>
  PROVE  Gone(DeletePending(Closed(AddPending(x))))
<1> DEFINE a == AddPending(x)
           S == {s \in Sockets : Contains(a.gSockets, s) /\ ~ a.sock[s].fDeleted}
           k == ShutAll(a, S)
           M == Made(x)
<1>1. /\ a \in Nets /\ a.sock = x.sock /\ Len(a.gSockets) = M /\ a.gSocketsToBeAdded = << >>
      /\ \A i \in 1 .. M : a.gSockets[i] = i
      /\ a.gSLPTimeouts = << >>
  BY Adding
<1>2. M \in Nat /\ M <= Cardinality(Sockets) /\ Sockets = 1 .. Cardinality(Sockets) /\ Cardinality(Sockets) \in Nat
      /\ \A s \in Sockets : x.sock[s] = Free <=> s > M
  BY NetFields, SocketNumbers DEF Numbered
<1>3. Closed(a) = k
  BY DEF Closed
<1> HIDE DEF a, M
<1>4. /\ k \in Nets /\ SameLists(k, a) /\ k.gSLPTimeouts = << >>
      /\ \A s \in Sockets : k.sock[s] = IF s \in S THEN Dead(a.sock[s].port) ELSE a.sock[s]
  BY <1>1, Shutting
<1>5. \A s \in Sockets : s \in 1 .. M => Contains(a.gSockets, s)
  BY <1>1 DEF Contains
<1>6. \A s \in Sockets : Contains(a.gSockets, s) => s \in 1 .. M
  BY <1>1 DEF Contains
<1>7. \A s \in Sockets : s \in S <=> s \in 1 .. M /\ ~ x.sock[s].fDeleted
  BY <1>1, <1>5, <1>6
<1> HIDE DEF S, k
<1>8. \A s \in Sockets : x.sock[s].port \in Ports
  BY NetFields DEF CTCPSocket, Ports
<1>9. ASSUME NEW s \in Sockets
      PROVE  (k.sock[s] = Free <=> s > M) /\ (s \in 1 .. M => k.sock[s].fDeleted)
  <2>1. s \in 1 .. M <=> ~ (s > M)
    BY <1>2
  <2>2. CASE s \in S
    <3>1. k.sock[s] = Dead(x.sock[s].port)
      BY <1>1, <1>4, <2>2
    <3>2. k.sock[s] # Free
      BY <1>8, <3>1, Records
    <3>3. k.sock[s].fDeleted
      BY <3>1 DEF Dead, Fresh
    <3> QED
      BY <1>7, <2>1, <2>2, <3>2, <3>3
  <2>3. CASE s \notin S
    <3>1. k.sock[s] = x.sock[s]
      BY <1>1, <1>4, <2>3
    <3> QED
      BY <1>2, <1>7, <2>1, <2>3, <3>1
  <2> QED
    BY <2>2, <2>3
<1>10. k.gSockets = a.gSockets /\ k.gSocketsToBeAdded = << >>
  BY <1>1, <1>4 DEF SameLists
<1>11. Old(k) = M /\ Made(k) = M
  <2>1. Old(k) = M /\ Len(k.gSocketsToBeAdded) = 0
    BY <1>1, <1>10 DEF Old
  <2>2. M + 0 = M
    BY <1>2
  <2> QED
    BY <2>1, <2>2 DEF Made
<1>12. Numbered(k)
  <2>1. \A i \in 1 .. Len(k.gSocketsToBeAdded) : FALSE
    BY <1>10
  <2> QED
    BY <1>1, <1>2, <1>9, <1>10, <1>11, <2>1 DEF Numbered
<1>13. AddPending(k) = k
  <2>1. k.gSockets \in Seq(Sockets)
    BY <1>4, NetFields
  <2>2. k.gSockets \o << >> = k.gSockets
    BY <2>1
  <2>3. AddPending(k) = [k EXCEPT !.gSockets = k.gSockets, !.gSocketsToBeAdded = k.gSocketsToBeAdded]
    BY <1>10, <2>2 DEF AddPending
  <2> QED
    BY <1>4, <2>3 DEF Nets
<1> DEFINE m == DeletePending(k)
<1>14. PICK L, left, number : Renumbered(k, m, L, left, number)
  <2>1. \A i \in 1 .. Len(k.gSLPTimeouts) :
           k.gSLPTimeouts[i] <= Made(k) /\ ~ k.sock[k.gSLPTimeouts[i]].fDeleted
    BY <1>4
  <2>2. \E L, left, number : Renumbered(k, DeletePending(AddPending(k)), L, left, number)
    BY <1>4, <1>12, <2>1, Deleting
  <2> QED
    BY <1>13, <2>2
<1> HIDE DEF m
<1>15. L = 0
  <2>1. L = Cardinality({i \in 1 .. M : ~ k.sock[i].fDeleted})
    BY <1>11, <1>14 DEF Renumbered
  <2>2. \A i \in 1 .. M : i \in Sockets
    BY <1>2
  <2>3. {i \in 1 .. M : ~ k.sock[i].fDeleted} = {}
    BY <1>9, <2>2
  <2> QED
    BY <2>1, <2>3, FS_EmptySet
<1>16. m \in Nets /\ m.gSocketsToBeAdded = << >> /\ Len(m.gSockets) = 0 /\ Len(m.gSLPTimeouts) = 0
  <2>1. m \in Nets /\ m.gSocketsToBeAdded = << >> /\ Len(m.gSockets) = 0
    BY <1>14, <1>15 DEF Renumbered, Old
  <2>2. Len(m.gSLPTimeouts) = Len(k.gSLPTimeouts)
    BY <1>14 DEF Renumbered
  <2>3. Len(k.gSLPTimeouts) = 0
    BY <1>4
  <2> QED
    BY <2>1, <2>2, <2>3
<1>17. m.gSockets = << >> /\ m.gSLPTimeouts = << >>
  <2>1. m.gSockets \in Seq(Sockets) /\ m.gSLPTimeouts \in Seq(Sockets)
    BY <1>16, NetFields
  <2> QED
    BY <1>16, <2>1, EmptySeq
<1>18. \A s \in Sockets : m.sock[s] = Free
  <2>1. \A s \in Sockets : m.sock[s] = IF s <= L THEN k.sock[left[s]] ELSE Free
    BY <1>14 DEF Renumbered
  <2>2. \A s \in Sockets : ~ (s <= L)
    BY <1>2, <1>15
  <2> QED
    BY <2>1, <2>2
<1>19. m.gConnectedDebugSocket = NULL /\ \A p \in DebugPorts : m.gDebuggerSocket[p] = NULL
  <2>1. /\ number \in [Sockets \union {NULL} -> (1 .. 0) \union {NULL}]
        /\ m.gConnectedDebugSocket = number[k.gConnectedDebugSocket]
        /\ \A p \in DebugPorts : m.gDebuggerSocket[p] = number[k.gDebuggerSocket[p]]
    BY <1>14, <1>15 DEF Renumbered
  <2>2. \A s \in Sockets \union {NULL} : number[s] = NULL
    BY <2>1
  <2>3. k.gConnectedDebugSocket \in Sockets \union {NULL} /\ \A p \in DebugPorts : k.gDebuggerSocket[p] \in Sockets \union {NULL}
    BY <1>4, NetFields
  <2> QED
    BY <2>1, <2>2, <2>3
<1> QED
  BY <1>3, <1>16, <1>17, <1>18, <1>19 DEF Gone, m, a

\* RPC::SignalWaiters of hostSignalQuit.
LEMMA SignallingAll ==
  ASSUME NEW n \in Nets
  PROVE  LET m == SignalAll(n) IN
         /\ m \in Nets /\ SameLists(m, n) /\ m.gSLPTimeouts = << >>
         /\ \A s \in Sockets : \/ m.sock[s] = n.sock[s]
                               \/ Contains(n.gSLPTimeouts, s) /\ m.sock[s] = Answered(n, s).sock[s]
<1> DEFINE sock == [s \in Sockets |-> IF Contains(n.gSLPTimeouts, s) THEN Answered(n, s).sock[s] ELSE n.sock[s]]
           a == [n EXCEPT !.sock = sock]
           m == SignalAll(n)
<1>1. \A s \in Sockets :
        /\ sock[s] \in CTCPSocket
        /\ sock[s] = n.sock[s] \/ (Contains(n.gSLPTimeouts, s) /\ sock[s] = Answered(n, s).sock[s])
  <2> SUFFICES ASSUME NEW s \in Sockets
               PROVE  /\ sock[s] \in CTCPSocket
                      /\ sock[s] = n.sock[s] \/ (Contains(n.gSLPTimeouts, s) /\ sock[s] = Answered(n, s).sock[s])
    OBVIOUS
  <2>1. Answered(n, s) \in Nets
    BY AnsweredFields
  <2>2. Answered(n, s).sock[s] \in CTCPSocket /\ n.sock[s] \in CTCPSocket
    BY <2>1, NetFields
  <2> QED
    BY <2>2
<1>2. m = Cleared(a)
  BY DEF SignalAll
<1>3. sock \in [Sockets -> CTCPSocket]
  BY <1>1
<1> HIDE DEF sock
<1>4. a \in Nets
  BY <1>3 DEF Nets
<1>5. a.sock = sock /\ SameLists(a, n)
  BY DEF Nets, SameLists
<1>6. << >> \in Seq(Sockets)
  BY EmptySeq
<1> HIDE DEF a
<1>7. m \in Nets /\ SameLists(m, a) /\ m.gSLPTimeouts = << >> /\ m.sock = a.sock
  <2>1. m = [a EXCEPT !.gSLPTimeouts = << >>]
    BY <1>2 DEF Cleared
  <2>2. LET b == [a EXCEPT !.gSLPTimeouts = << >>] IN
        b \in Nets /\ SameLists(b, a) /\ b.gSLPTimeouts = << >> /\ b.sock = a.sock
    BY <1>4, <1>6, WithTimeouts
  <2> QED
    BY <2>1, <2>2
<1> HIDE DEF m
<1>8. SameLists(m, n)
  BY <1>5, <1>7 DEF SameLists
<1> QED
  BY <1>1, <1>5, <1>7, <1>8 DEF m

\* EmApplication::Shutdown leaves no socket.
LEMMA ShutdownGone ==
  ASSUME Room, NEW n, NEW c, Good(n, c)
  PROVE  LET debug == DeleteListeningSockets(SignalAll(n))
             alone == IF debug.gConnectedDebugSocket = NULL THEN debug
                      ELSE CloseSocket(debug, debug.gConnectedDebugSocket) IN
         Gone(DeletePending(Closed(AddPending(alone))))
<1> DEFINE a == SignalAll(n)
           d == DeleteListeningSockets(a)
           x == d.gConnectedDebugSocket
           alone == IF x = NULL THEN d ELSE CloseSocket(d, x)
           S == {a.gDebuggerSocket[p] : p \in DebugPorts} \ {NULL}
<1>1. n \in Nets /\ Numbered(n) /\ DebugListeners(n) /\ Bounded(n) /\ Waiters(n, c)
  BY DEF Good
<1>2. /\ a \in Nets /\ SameLists(a, n) /\ a.gSLPTimeouts = << >>
      /\ \A s \in Sockets : \/ a.sock[s] = n.sock[s]
                            \/ Contains(n.gSLPTimeouts, s) /\ a.sock[s] = Answered(n, s).sock[s]
  BY <1>1, SignallingAll
<1> HIDE DEF a
<1>3. \A s \in Sockets : /\ a.sock[s].state = n.sock[s].state /\ a.sock[s].port = n.sock[s].port
                         /\ a.sock[s] = Free <=> n.sock[s] = Free
  <2> SUFFICES ASSUME NEW s \in Sockets, Contains(n.gSLPTimeouts, s), a.sock[s] = Answered(n, s).sock[s]
               PROVE  /\ a.sock[s].state = n.sock[s].state /\ a.sock[s].port = n.sock[s].port
                      /\ a.sock[s] = Free <=> n.sock[s] = Free
    BY <1>2
  <2>1. a.sock[s].state = n.sock[s].state /\ a.sock[s].port = n.sock[s].port
    BY <1>1, AnsweredFields
  <2>2. n.sock[s].state = "connected"
    BY <1>1 DEF Contains, Waiters
  <2> QED
    BY <2>1, <2>2 DEF Free
<1>4. Numbered(a) /\ Made(a) = Made(n)
  BY <1>1, <1>2, <1>3, NumberedStill DEF SameLists
<1>5. /\ d \in Nets /\ d.gSockets = a.gSockets /\ d.gSocketsToBeAdded = a.gSocketsToBeAdded
      /\ x = a.gConnectedDebugSocket /\ d.gSLPTimeouts = << >>
      /\ \A s \in Sockets : d.sock[s] = IF s \in S THEN Dead(a.sock[s].port) ELSE a.sock[s]
  BY <1>2, DeletingListeners
<1>6. x = n.gConnectedDebugSocket /\ x \in Sockets \union {NULL}
      /\ \A p \in DebugPorts : a.gDebuggerSocket[p] = n.gDebuggerSocket[p]
  BY <1>1, <1>2, <1>5, NetFields DEF SameLists
<1> HIDE DEF d, x
<1>7. \A s \in S : s \in Sockets /\ a.sock[s] # Free
  <2> SUFFICES ASSUME NEW p \in DebugPorts, n.gDebuggerSocket[p] # NULL
               PROVE  n.gDebuggerSocket[p] \in Sockets /\ a.sock[n.gDebuggerSocket[p]] # Free
    BY <1>6
  <2>1. OnlyListener(n, n.gDebuggerSocket[p], p)
    BY <1>1 DEF DebugListeners
  <2>2. n.gDebuggerSocket[p] \in Sockets /\ n.sock[n.gDebuggerSocket[p]].state = "listening"
    BY <2>1 DEF OnlyListener, Listens
  <2> QED
    BY <1>3, <2>2 DEF Free
<1> HIDE DEF S
<1>8. \A s \in Sockets : d.sock[s] = Free <=> a.sock[s] = Free
  <2>1. \A s \in Sockets : a.sock[s].port \in Ports
    BY <1>2, NetFields DEF CTCPSocket, Ports
  <2>2. \A s \in Sockets : Dead(a.sock[s].port) # Free
    BY <2>1, Records
  <2> QED
    BY <1>5, <1>7, <2>2
<1>9. Numbered(d) /\ Made(d) = Made(a)
  BY <1>4, <1>5, <1>8, NumberedStill
<1>10. alone \in Nets /\ Numbered(alone) /\ alone.gSLPTimeouts = << >>
  <2>1. CASE x = NULL
    BY <1>5, <1>9, <2>1
  <2>2. CASE x # NULL
    <3>1. x \in Sockets
      BY <1>6, <2>2
    <3>2. /\ \A p \in DebugPorts : n.gDebuggerSocket[p] = NULL
          /\ \A s \in Sockets, p \in DebugPorts : ~ Listens(n.sock[s], p)
          /\ Debugs(n.sock[x])
      BY <1>1, <1>6, <2>2, <3>1 DEF DebugListeners
    <3>3. S = {}
      BY <1>6, <3>2 DEF S
    <3>4. d.sock[x].state = "connected" /\ d.sock[x].port # "rpc"
      BY <1>3, <1>5, <3>1, <3>2, <3>3 DEF Debugs
    <3>5. NewDebug(n) = 0
      BY <3>2 DEF NewDebug, DebugPorts
    <3>6. Made(d) + 2 <= Cardinality(Sockets)
      <4>1. /\ Made(n) <= MaxScripts + 3 + NewScripts(n) + NewDebug(n)
            /\ MaxScripts \in Nat /\ Cardinality(Sockets) \in Nat /\ Cardinality(Sockets) >= MaxScripts + 6
            /\ NewScripts(n) \in 0 .. 1 /\ Made(n) \in Nat
        BY <1>1, RoomLeft
      <4>2. Made(d) = Made(n)
        BY <1>4, <1>9
      <4> QED
        BY <3>5, <4>1, <4>2
    <3>7. CloseSocket(d, x) \in Nets /\ Numbered(CloseSocket(d, x)) /\ CloseSocket(d, x).gSLPTimeouts = d.gSLPTimeouts
      BY <1>5, <1>9, <3>1, <3>4, <3>6, CloseDebug
    <3> QED
      BY <1>5, <2>2, <3>7
  <2> QED
    BY <2>1, <2>2
<1> HIDE DEF alone
<1>11. Gone(DeletePending(Closed(AddPending(alone))))
  BY <1>10, Emptied
<1> QED
  BY <1>11 DEF alone, x, d, a

\* At the start two listeners wait for a debugger and one for a script.
LEMMA AtTheStart ==
  ASSUME Room
  PROVE  Good(RPCConnected(CreateListeningSockets(
           [sock |-> [s \in Sockets |-> Free], gSockets |-> << >>, gSocketsToBeAdded |-> << >>,
            gDebuggerSocket |-> [p \in DebugPorts |-> NULL], gConnectedDebugSocket |-> NULL,
            gSLPTimeouts |-> << >>])), 0)
<1> DEFINE n == [sock |-> [s \in Sockets |-> Free], gSockets |-> << >>, gSocketsToBeAdded |-> << >>,
                 gDebuggerSocket |-> [p \in DebugPorts |-> NULL], gConnectedDebugSocket |-> NULL,
                 gSLPTimeouts |-> << >>]
           k == CreateListeningSockets(n)
           m == RPCConnected(k)
<1>1. /\ Cardinality(Sockets) \in Nat /\ Sockets = 1 .. Cardinality(Sockets) /\ NULL \notin Sockets
      /\ Cardinality(Sockets) >= MaxScripts + 6 /\ MaxScripts \in Nat
  BY SocketNumbers
<1>2. n \in Nets
  <2>1. << >> \in Seq(Sockets)
    BY EmptySeq
  <2>2. Free \in CTCPSocket
    BY Records
  <2> QED
    BY <2>1, <2>2 DEF Nets
<1>3. /\ \A s \in Sockets : n.sock[s] = Free
      /\ n.gSockets = << >> /\ n.gSocketsToBeAdded = << >> /\ n.gSLPTimeouts = << >> /\ n.gConnectedDebugSocket = NULL
  OBVIOUS
<1> HIDE DEF n
<1>4. Old(n) = 0 /\ Made(n) = 0
  <2>1. Len(n.gSockets) = 0 /\ Len(n.gSocketsToBeAdded) = 0 /\ 0 + 0 = 0
    BY <1>3
  <2> QED
    BY <2>1 DEF Old, Made
<1>5. Numbered(n)
  <2>1. (\A i \in 1 .. Len(n.gSockets) : FALSE) /\ \A i \in 1 .. Len(n.gSocketsToBeAdded) : FALSE
    BY <1>3
  <2>2. 0 <= Cardinality(Sockets) /\ \A s \in Sockets : s > 0
    BY <1>1
  <2> QED
    BY <1>3, <1>4, <2>1, <2>2 DEF Numbered, Old
<1>6. 0 + 1 = 1 /\ 0 + 2 = 2 /\ 2 + 1 = 3 /\ 0 + 2 <= Cardinality(Sockets) /\ 2 < Cardinality(Sockets)
  BY <1>1
<1>7. /\ k \in Nets /\ Numbered(k) /\ Made(k) = 2 /\ Old(k) = 0
      /\ 1 \in Sockets /\ 2 \in Sockets
      /\ \A s \in Sockets : k.sock[s] = IF s = 1 THEN Listener("debug1")
                                        ELSE IF s = 2 THEN Listener("debug2") ELSE n.sock[s]
      /\ k.gDebuggerSocket["debug1"] = 1 /\ k.gDebuggerSocket["debug2"] = 2
      /\ k.gConnectedDebugSocket = NULL /\ k.gSLPTimeouts = << >>
  <2>1. Made(n) + 2 <= Cardinality(Sockets)
    BY <1>4, <1>6
  <2>2. LET q == CreateListeningSockets(n) IN
         /\ q \in Nets /\ Numbered(q) /\ Made(q) = Made(n) + 2 /\ Old(q) = Old(n)
         /\ Made(n) + 1 \in Sockets /\ Made(n) + 2 \in Sockets
         /\ \A s \in Sockets : q.sock[s] = IF s = Made(n) + 1 THEN Listener("debug1")
                                           ELSE IF s = Made(n) + 2 THEN Listener("debug2") ELSE n.sock[s]
         /\ q.gDebuggerSocket["debug1"] = Made(n) + 1 /\ q.gDebuggerSocket["debug2"] = Made(n) + 2
         /\ q.gConnectedDebugSocket = n.gConnectedDebugSocket
         /\ q.gSLPTimeouts = n.gSLPTimeouts
    BY <1>2, <1>5, <2>1, Creating
  <2>3. Made(n) + 1 = 1 /\ Made(n) + 2 = 2
    BY <1>4
  <2> QED
    BY <1>3, <1>4, <2>2, <2>3
<1> HIDE DEF k
<1>8. /\ m \in Nets /\ Numbered(m) /\ Made(m) = 3 /\ Old(m) = 0 /\ 3 \in Sockets
      /\ \A s \in Sockets : m.sock[s] = IF s = 3 THEN Listener("rpc") ELSE k.sock[s]
      /\ m.gDebuggerSocket = k.gDebuggerSocket /\ m.gConnectedDebugSocket = NULL /\ m.gSLPTimeouts = << >>
  <2>1. Made(k) < Cardinality(Sockets) /\ "rpc" \in Ports
    BY <1>6, <1>7 DEF Ports
  <2>2. LET q == Listen(k, "rpc") IN
         /\ q \in Nets /\ Numbered(q) /\ Made(q) = Made(k) + 1 /\ Old(q) = Old(k)
         /\ Made(k) + 1 \in Sockets
         /\ \A s \in Sockets : q.sock[s] = IF s = Made(k) + 1 THEN Listener("rpc") ELSE k.sock[s]
         /\ q.gDebuggerSocket = k.gDebuggerSocket /\ q.gConnectedDebugSocket = k.gConnectedDebugSocket
         /\ q.gSLPTimeouts = k.gSLPTimeouts
    BY <1>7, <2>1, Listening
  <2>3. Made(k) + 1 = 3
    BY <1>7
  <2> QED
    BY <1>7, <2>2, <2>3 DEF RPCConnected
<1> HIDE DEF m
<1>9. /\ m.sock[1] = Listener("debug1") /\ m.sock[2] = Listener("debug2") /\ m.sock[3] = Listener("rpc")
      /\ \A s \in Sockets : s # 1 /\ s # 2 /\ s # 3 => m.sock[s] = Free
  BY <1>3, <1>7, <1>8
<1>10. Kinds(m)
  BY <1>9, Records DEF Kinds, Ports, DebugPorts
<1>11. \A s \in Sockets : /\ ~ Debugs(m.sock[s]) /\ m.sock[s].owed = 0 /\ ~ m.sock[s].pending
                          /\ m.sock[s].state # "connected"
                          /\ (Listens(m.sock[s], "debug1") <=> s = 1) /\ (Listens(m.sock[s], "debug2") <=> s = 2)
                          /\ (Listens(m.sock[s], "rpc") <=> s = 3)
  BY <1>9 DEF Debugs, Listens, Listener, Fresh, Free
<1>12. ScriptsListener(m)
  BY <1>8, <1>11 DEF ScriptsListener, OnlyListener
<1>13. DebugListeners(m)
  <2>1. OnlyListener(m, 1, "debug1") /\ OnlyListener(m, 2, "debug2")
    BY <1>7, <1>11 DEF OnlyListener
  <2>2. \A p \in DebugPorts : OnlyListener(m, m.gDebuggerSocket[p], p)
    BY <1>7, <1>8, <2>1 DEF DebugPorts
  <2>3. m.gDebuggerSocket["debug1"] > 0 /\ m.gDebuggerSocket["debug2"] > 0
    BY <1>7, <1>8
  <2> QED
    BY <1>8, <1>11, <2>2, <2>3 DEF DebugListeners
<1>14. Waiters(m, 0)
  <2>1. Len(m.gSLPTimeouts) = 0
    BY <1>8
  <2>2. 0 <= 0 + 1 /\ \A i \in 1 .. 0 : FALSE
    OBVIOUS
  <2>3. \A s \in Sockets : m.sock[s].owed # 1
    BY <1>11
  <2> QED
    BY <2>1, <2>2, <2>3 DEF Waiters
<1>15. Bounded(m)
  <2>1. Taken(m) = {}
    BY <1>11 DEF Taken
  <2>2. Cardinality(Taken(m)) = 0
    BY <2>1, FS_EmptySet
  <2>3. NewScripts(m) \in {0, 1} /\ NewDebug(m) \in {0, 2}
    BY DEF NewScripts, NewDebug
  <2> QED
    BY <1>1, <1>8, <2>2, <2>3 DEF Bounded
<1>16. Good(m, 0)
  BY <1>8, <1>10, <1>12, <1>13, <1>14, <1>15 DEF Good
<1> QED
  BY <1>16 DEF m, k, n

-----------------------------------------------------------------------------
(***************************************************************************)
(* Every step keeps the invariant.                                         *)
(***************************************************************************)
LEMMA Beginning ==
  ASSUME Room, SocketsInit
  PROVE  SocketsInv
<1>1. Cardinality(Sockets) \in Nat
  BY SocketNumbers
<1>2. Good(net, 0)
  BY AtTheStart DEF SocketsInit
<1>3. ui = [at |-> "out", iter |-> 0] /\ cpu = [at |-> "running", iter |-> 0]
  BY DEF SocketsInit
<1>4. 0 \in 0 .. Cardinality(Sockets) + 1
  BY <1>1
<1>5. Threads
  BY <1>3, <1>4 DEF Threads
<1> QED
  BY <1>2, <1>3, <1>5 DEF SocketsInv

\* Unless everything is shut down the sockets are as they should be, and who waits has one entry.
LEMMA Standing ==
  ASSUME Room, SocketsInv, ui.at # "down"
  PROVE  /\ Good(net, cpu.iter) /\ net \in Nets /\ Kinds(net) /\ Numbered(net)
         /\ Cardinality(Sockets) \in Nat /\ Sockets = 1 .. Cardinality(Sockets)
         /\ Old(net) \in Nat /\ Old(net) <= Cardinality(Sockets)
         /\ Len(net.gSLPTimeouts) \in Nat /\ Len(net.gSLPTimeouts) <= Cardinality(Sockets)
<1>1. Good(net, cpu.iter)
  BY DEF SocketsInv
<1>2. net \in Nets /\ Kinds(net) /\ Numbered(net) /\ Waiters(net, cpu.iter)
  BY <1>1 DEF Good
<1>3. Cardinality(Sockets) \in Nat /\ Sockets = 1 .. Cardinality(Sockets)
  BY SocketNumbers
<1>4. Old(net) \in Nat /\ Old(net) <= Cardinality(Sockets)
  <2>1. Old(net) \in Nat /\ Len(net.gSocketsToBeAdded) \in Nat /\ Made(net) <= Cardinality(Sockets)
    BY <1>2, NetFields DEF Numbered
  <2>2. Made(net) = Old(net) + Len(net.gSocketsToBeAdded)
    BY DEF Made
  <2> QED
    BY <1>3, <2>1, <2>2
<1>5. Len(net.gSLPTimeouts) \in Nat /\ Len(net.gSLPTimeouts) <= Cardinality(Sockets)
  <2> DEFINE q == net.gSLPTimeouts
  <2>1. q \in Seq(Sockets) /\ Len(q) \in Nat /\ DOMAIN q = 1 .. Len(q) /\ q \in [1 .. Len(q) -> Sockets]
    BY <1>2, NetFields, LenProperties
  <2>2. \A i, j \in 1 .. Len(q) : q[i] = q[j] => i = j
    BY <1>2 DEF Waiters
  <2> HIDE DEF q
  <2>3. q \in Injection(1 .. Len(q), Sockets)
    BY <2>1, <2>2 DEF Injection, IsInjective
  <2>4. IsFiniteSet(Sockets)
    BY <1>3, FS_Interval
  <2>5. Cardinality(1 .. Len(q)) <= Cardinality(Sockets)
    BY <2>3, <2>4, FS_Injection
  <2>6. Cardinality(1 .. Len(q)) = Len(q)
    BY <2>1, FS_Interval
  <2> QED
    BY <2>1, <2>5, <2>6 DEF q
<1> QED
  BY <1>1, <1>2, <1>3, <1>4, <1>5

\* An action of the net alone.
LEMMA NetStep ==
  ASSUME Room, SocketsInv, ui.at # "down", UNCHANGED <<ui, cpu>>, Good(net', cpu.iter),
         cpu.at = "entering" => net'.gConnectedDebugSocket # NULL \/ ui.at = "stopping"
  PROVE  SocketsInv'
<1>1. Threads'
  BY DEF SocketsInv, Threads
<1> QED
  BY <1>1 DEF SocketsInv

\* After Shutdown there is no socket for a client.
LEMMA NobodyThere ==
  ASSUME Room, SocketsInv, NEW s \in Sockets, net.sock[s] # Free
  PROVE  ui.at # "down"
BY DEF SocketsInv, Gone

LEMMA ClientsStep ==
  ASSUME Room, SocketsInv, NEW s \in Sockets, ClientConnects(s) \/ ClientAsks(s) \/ ClientCloses(s)
  PROVE  SocketsInv'
<1> DEFINE old == net.sock[s]
<1>1. UNCHANGED <<ui, cpu>>
  BY DEF ClientConnects, ClientAsks, ClientCloses
<1>2. old.state \in {"listening", "connected"}
  BY DEF ClientConnects, ClientAsks, ClientCloses
<1>3. old # Free
  BY <1>2 DEF Free
<1>4. ui.at # "down"
  BY <1>3, NobodyThere
<1>5. Good(net, cpu.iter) /\ net \in Nets /\ Kinds(net)
  BY <1>4, Standing
<1>6. old \in CTCPSocket /\ Plausible(old)
  BY <1>5, NetFields DEF Kinds
<1>7. cpu.at = "entering" => net.gConnectedDebugSocket # NULL \/ ui.at = "stopping"
  BY DEF SocketsInv, Threads
<1>8. ASSUME NEW new \in CTCPSocket, Plausible(new), net' = WithSocket(net, s, new),
             new.state = old.state, new.port = old.port, new.owed = old.owed,
             new.pending => old.pending \/ Cardinality(Taken(net)) < MaxScripts \/ new.port # "rpc"
      PROVE  SocketsInv'
  <2>1. new # Free
    BY <1>2, <1>8 DEF Free
  <2>2. Good(net', cpu.iter) /\ net'.gConnectedDebugSocket = net.gConnectedDebugSocket
    BY <1>3, <1>5, <1>8, <2>1, ClientGood
  <2> QED
    BY <1>1, <1>4, <1>7, <2>2, NetStep
<1>9. CASE ClientConnects(s)
  <2> DEFINE new == [old EXCEPT !.pending = TRUE]
  <2>1. old.state = "listening" /\ (old.port = "rpc" => Cardinality(Taken(net)) < MaxScripts)
    BY <1>9 DEF ClientConnects, Scripts, Taken
  <2>2. net' = WithSocket(net, s, new)
    BY <1>9 DEF ClientConnects, WithSocket
  <2> HIDE DEF old
  <2>3. /\ new \in CTCPSocket /\ new.state = old.state /\ new.port = old.port /\ new.owed = old.owed
        /\ new.pending = TRUE /\ new.inbox = old.inbox /\ new.fDeleted = old.fDeleted
    BY <1>6 DEF CTCPSocket
  <2>4. Plausible(new)
    BY <1>6, <2>1, <2>3 DEF Plausible
  <2> HIDE DEF new
  <2> QED
    BY <1>8, <2>1, <2>2, <2>3, <2>4
<1>10. CASE ClientAsks(s)
  <2>1. "crossed" \notin SocketFaults
    BY DEF Room
  <2>2. PICK k \in {"ask", "wait"} :
          /\ k = "wait" => old.port \notin DebugPorts
          /\ net' = [net EXCEPT !.sock[s].inbox = <<k>>]
    BY <1>10, <2>1 DEF ClientAsks
  <2> DEFINE new == [old EXCEPT !.inbox = <<k>>]
  <2>3. net' = WithSocket(net, s, new)
    BY <2>2 DEF WithSocket
  <2>4. old.state = "connected" /\ old.owed = 0
    BY <1>10 DEF ClientAsks
  <2> HIDE DEF old
  <2>5. /\ new \in CTCPSocket /\ new.state = old.state /\ new.port = old.port /\ new.owed = old.owed
        /\ new.pending = old.pending /\ new.inbox = <<k>> /\ new.fDeleted = old.fDeleted
    BY <1>6 DEF CTCPSocket
  <2>6. k # "wait" => <<k>> # <<"wait">>
    OBVIOUS
  <2>7. old.port # "rpc" => old.port \in DebugPorts
    BY <1>6 DEF CTCPSocket
  <2>8. old.port # "rpc" => <<k>> # <<"wait">>
    BY <2>2, <2>6, <2>7
  <2>9. Plausible(new)
    BY <1>6, <2>4, <2>5, <2>8 DEF Plausible
  <2> HIDE DEF new
  <2> QED
    BY <1>8, <2>3, <2>5, <2>9
<1>11. CASE ClientCloses(s)
  <2> DEFINE new == [old EXCEPT !.closed = TRUE]
  <2>1. old.state = "connected"
    BY <1>11 DEF ClientCloses
  <2>2. net' = WithSocket(net, s, new)
    BY <1>11 DEF ClientCloses, WithSocket
  <2> HIDE DEF old
  <2>3. /\ new \in CTCPSocket /\ new.state = old.state /\ new.port = old.port /\ new.owed = old.owed
        /\ new.pending = old.pending /\ new.inbox = old.inbox /\ new.fDeleted = old.fDeleted
    BY <1>6 DEF CTCPSocket
  <2>4. Plausible(new)
    BY <1>6, <2>1, <2>3 DEF Plausible
  <2> HIDE DEF new
  <2> QED
    BY <1>8, <2>2, <2>3, <2>4
<1> QED
  BY <1>9, <1>10, <1>11

\* The socket at which the UI thread is.
LEMMA AtASocket ==
  ASSUME Room, SocketsInv, NEW s \in Sockets, At(s)
  PROVE  /\ ui.at = "idling" /\ ui.at # "down" /\ s <= Old(net)
         /\ Good(net, cpu.iter) /\ net \in Nets /\ Kinds(net)
         /\ net.sock[s] \in CTCPSocket /\ Plausible(net.sock[s])
         /\ cpu.at # "signalling" => cpu.iter = 0
         /\ cpu.at = "entering" => net.gConnectedDebugSocket # NULL
<1>1. ui.at = "idling" /\ ui.iter <= Len(net.gSockets) /\ net.gSockets[ui.iter] = s
  BY DEF At
<1>2. /\ Good(net, cpu.iter) /\ net \in Nets /\ Kinds(net) /\ Numbered(net)
      /\ Cardinality(Sockets) \in Nat /\ Old(net) \in Nat
  BY <1>1, Standing
<1>3. /\ ui.iter \in 0 .. Cardinality(Sockets) + 1 /\ ui.iter >= 1
      /\ cpu.at # "signalling" => cpu.iter = 0
      /\ cpu.at = "entering" => net.gConnectedDebugSocket # NULL
  BY <1>1 DEF SocketsInv, Threads
<1>4. ui.iter \in 1 .. Old(net)
  BY <1>1, <1>2, <1>3 DEF Old
<1>5. s = ui.iter
  BY <1>1, <1>2, <1>4 DEF Numbered
<1>6. s <= Old(net)
  BY <1>2, <1>4, <1>5
<1> QED
  BY <1>1, <1>2, <1>3, <1>6, NetFields DEF Kinds

\* What listens anew does listen.
LEMMA OpenedAlways ==
  ASSUME Room, NEW n
  PROVE  Opened(n) = {n}
BY DEF Room, Opened

\* A callback for a debugger leaves the UI thread waiting for the CPU thread to stop.
LEMMA StoppingStep ==
  ASSUME Room, SocketsInv, NEW s \in Sockets, At(s), net.sock[s].port \in DebugPorts,
         Stopping(s), UNCHANGED cpu, Good(net', cpu.iter)
  PROVE  SocketsInv'
<1>1. ui.at = "idling" /\ ui' = [ui EXCEPT !.at = "stopping"]
  BY DEF At, Stopping
<1>2. Threads
  BY DEF SocketsInv
<1>3. ui' = [at |-> "stopping", iter |-> ui.iter]
  BY <1>1, <1>2 DEF Threads
<1>4. Threads'
  BY <1>1, <1>2, <1>3 DEF Threads
<1> QED
  BY <1>3, <1>4 DEF SocketsInv

LEMMA StopGainedStep ==
  ASSUME Room, SocketsInv, StopGained
  PROVE  SocketsInv'
<1>1. ui.at = "stopping" /\ cpu.at = "running" /\ ui' = [ui EXCEPT !.at = "idling"] /\ UNCHANGED <<net, cpu>>
  BY DEF StopGained, Stopped
<1>2. Threads /\ Good(net, cpu.iter)
  BY <1>1 DEF SocketsInv
<1>3. ui' = [at |-> "idling", iter |-> ui.iter]
  BY <1>1, <1>2 DEF Threads
<1>4. Threads'
  BY <1>1, <1>2, <1>3 DEF Threads
<1> QED
  BY <1>1, <1>2, <1>3, <1>4 DEF SocketsInv

LEMMA AcceptStep ==
  ASSUME Room, SocketsInv, NEW s \in Sockets, AcceptConnection(s)
  PROVE  SocketsInv'
<1> DEFINE k == Connecting(net, s)
<1>1. /\ At(s) /\ UNCHANGED cpu /\ net.sock[s].state = "listening" /\ net.sock[s].pending
      /\ net' \in Accepted(s) /\ Stopping(s)
  BY DEF AcceptConnection, Room
<1>2. /\ ui.at = "idling" /\ ui.at # "down" /\ s <= Old(net)
      /\ Good(net, cpu.iter) /\ net.sock[s] \in CTCPSocket
      /\ cpu.at = "entering" => net.gConnectedDebugSocket # NULL
  BY <1>1, AtASocket
<1>3. net' = IF net.sock[s].port = "rpc" THEN RPCConnected(k) ELSE DebugConnected(k, s)
  BY <1>1, OpenedAlways DEF Accepted, Connecting
<1> HIDE DEF k
<1>4. CASE net.sock[s].port = "rpc"
  <2>1. Listens(net.sock[s], "rpc")
    BY <1>1, <1>4 DEF Listens
  <2>2. Good(net', cpu.iter) /\ net'.gConnectedDebugSocket = net.gConnectedDebugSocket
    BY <1>1, <1>2, <1>3, <1>4, <2>1, AcceptScriptGood DEF k
  <2>3. UNCHANGED ui
    BY <1>1, <1>4 DEF Stopping, DebugPorts
  <2> QED
    BY <1>1, <1>2, <2>2, <2>3, NetStep
<1>5. CASE net.sock[s].port # "rpc"
  <2>1. net.sock[s].port \in DebugPorts
    BY <1>2, <1>5 DEF CTCPSocket
  <2>2. Listens(net.sock[s], net.sock[s].port)
    BY <1>1 DEF Listens
  <2>3. Good(net', cpu.iter)
    BY <1>2, <1>3, <1>5, <2>1, <2>2, AcceptDebugGood DEF k
  <2> QED
    BY <1>1, <2>1, <2>3, StoppingStep
<1> QED
  BY <1>4, <1>5

LEMMA ThreadsFields ==
  ASSUME Threads, Cardinality(Sockets) \in Nat
  PROVE  /\ ui = [at |-> ui.at, iter |-> ui.iter] /\ cpu = [at |-> cpu.at, iter |-> cpu.iter]
         /\ ui.at \in {"out", "idling", "stopping", "rpc", "down"} /\ ui.iter \in 0 .. Cardinality(Sockets) + 1
         /\ cpu.at \in {"running", "entering", "signalling", "waiting for itself"}
         /\ cpu.iter \in 0 .. Cardinality(Sockets) + 1
BY DEF Threads

LEMMA ThreadsNext ==
  ASSUME NEW A \in {"out", "idling", "stopping", "rpc", "down"}, NEW I \in 0 .. Cardinality(Sockets) + 1,
         NEW B \in {"running", "entering", "signalling", "waiting for itself"},
         NEW J \in 0 .. Cardinality(Sockets) + 1,
         ui' = [at |-> A, iter |-> I], cpu' = [at |-> B, iter |-> J],
         A \in {"idling", "stopping"} => I >= 1,
         B = "signalling" => A \in {"out", "idling", "stopping"} /\ J >= 1, B # "signalling" => J = 0,
         B = "entering" => net'.gConnectedDebugSocket # NULL \/ A = "stopping",
         A = "down" => B = "running"
  PROVE  Threads'
BY DEF Threads

LEMMA FoundClosedStep ==
  ASSUME Room, SocketsInv, NEW s \in Sockets, FoundClosed(s)
  PROVE  SocketsInv'
<1>1. /\ At(s) /\ UNCHANGED cpu /\ net.sock[s].state = "connected" /\ Stopping(s)
      /\ net.sock[s].port = "rpc" /\ cpu.at = "signalling" => "race" \in SocketFaults
      /\ net' = CloseSocket(net, s)
  BY OpenedAlways DEF FoundClosed
<1>2. /\ ui.at # "down" /\ Good(net, cpu.iter) /\ net.sock[s] \in CTCPSocket
      /\ cpu.at # "signalling" => cpu.iter = 0
      /\ cpu.at = "entering" => net.gConnectedDebugSocket # NULL
  BY <1>1, AtASocket
<1>3. "race" \notin SocketFaults
  BY DEF Room
<1>4. CASE net.sock[s].port = "rpc"
  <2>1. cpu.at # "signalling" /\ UNCHANGED ui
    BY <1>1, <1>3, <1>4 DEF DebugPorts, Stopping
  <2>2. Good(net, 0) /\ cpu.iter = 0
    BY <1>2, <2>1
  <2>3. Good(net', 0) /\ net'.gConnectedDebugSocket = net.gConnectedDebugSocket
    BY <1>1, <1>4, <2>2, CloseScriptGood
  <2> QED
    BY <1>1, <1>2, <2>1, <2>2, <2>3, NetStep
<1>5. CASE net.sock[s].port # "rpc"
  <2>1. net.sock[s].port \in DebugPorts
    BY <1>2, <1>5 DEF CTCPSocket
  <2>2. Good(net', cpu.iter)
    BY <1>1, <1>2, <1>5, CloseDebugGood
  <2> QED
    BY <1>1, <2>1, <2>2, StoppingStep
<1> QED
  BY <1>4, <1>5

LEMMA HandleNewPacketStep ==
  ASSUME Room, SocketsInv, NEW s \in Sockets, HandleNewPacket(s)
  PROVE  SocketsInv'
<1> DEFINE old == net.sock[s]
           new == [old EXCEPT !.inbox = << >>]
           n == [net EXCEPT !.sock[s].inbox = << >>]
<1>1. At(s) /\ UNCHANGED <<ui, cpu>> /\ old.inbox # << >> /\ cpu.at = "running"
  BY DEF HandleNewPacket, Stopped
<1>2. \/ old.inbox = <<"wait">> /\ net' = DeferCurrentPacket(n, s)
      \/ \E failed \in Fails(n, s, "reply") : net' = Write(n, s, failed)
      \/ net' = n
  BY OpenedAlways DEF HandleNewPacket
<1>3. /\ ui.at # "down" /\ Good(net, cpu.iter) /\ net \in Nets /\ old \in CTCPSocket /\ Plausible(old)
      /\ cpu.at # "signalling" => cpu.iter = 0
  BY <1>1, AtASocket
<1>4. cpu.iter = 0 /\ Good(net, 0) /\ cpu.at # "entering"
  BY <1>1, <1>3
<1>5. n = WithSocket(net, s, new)
  BY DEF WithSocket
<1> HIDE DEF old, n
<1>6. old.state = "connected" /\ old.owed = 0 /\ (old.inbox = <<"wait">> => old.port = "rpc")
  BY <1>1, <1>3 DEF Plausible
<1>7. /\ new \in CTCPSocket /\ new.state = old.state /\ new.port = old.port /\ new.owed = old.owed
      /\ new.pending = old.pending /\ new.inbox = << >> /\ new.fDeleted = old.fDeleted
  BY <1>3 DEF CTCPSocket
<1>8. << >> # <<"wait">>
  OBVIOUS
<1>9. Plausible(new)
  BY <1>3, <1>6, <1>7, <1>8 DEF Plausible
<1> HIDE DEF new
<1>10. net.sock[s] # Free /\ new # Free /\ net.sock[s] = old
  BY <1>6, <1>7 DEF Free, old
<1>11. Good(n, 0) /\ n.gConnectedDebugSocket = net.gConnectedDebugSocket
  BY <1>4, <1>5, <1>7, <1>9, <1>10, ClientGood
<1>12. n.sock[s] = new
  BY <1>3, <1>5, <1>7, WithSocketFields
<1>13. Good(net', 0)
  <2>1. CASE old.inbox = <<"wait">> /\ net' = DeferCurrentPacket(n, s)
    BY <1>6, <1>7, <1>11, <1>12, <2>1, DeferGood
  <2>2. CASE net' = n
    BY <1>11, <2>2
  <2>3. CASE net' = CloseSocket(n, s)
    <3>1. CASE new.port = "rpc"
      BY <1>6, <1>7, <1>11, <1>12, <2>3, <3>1, CloseScriptGood
    <3>2. CASE new.port # "rpc"
      BY <1>6, <1>7, <1>11, <1>12, <2>3, <3>2, CloseDebugGood
    <3> QED
      BY <3>1, <3>2
  <2>4. CASE \E failed \in Fails(n, s, "reply") : net' = Write(n, s, failed)
    BY <2>2, <2>3, <2>4 DEF Write, Fails
  <2> QED
    BY <1>2, <2>1, <2>2, <2>4
<1> QED
  BY <1>1, <1>3, <1>4, <1>13, NetStep

LEMMA IdleStep ==
  ASSUME Room, SocketsInv, IdleAll \/ IdleAllEnds
  PROVE  SocketsInv'
<1>1. /\ net' = DeletePending(AddPending(net)) /\ UNCHANGED cpu /\ ui.at # "down"
      /\ ui.at # "stopping"
      /\ ui' = [at |-> "idling", iter |-> 1] \/ (ui' = [at |-> "rpc", iter |-> 0] /\ cpu.at # "signalling")
  BY DEF IdleAll, IdleAllEnds
<1>2. Good(net, cpu.iter) /\ Cardinality(Sockets) \in Nat
  BY <1>1, Standing
<1>3. Good(net', cpu.iter) /\ (net'.gConnectedDebugSocket = NULL <=> net.gConnectedDebugSocket = NULL)
  BY <1>1, <1>2, RearrangedGood
<1>4. /\ 0 \in 0 .. Cardinality(Sockets) + 1 /\ 1 \in 0 .. Cardinality(Sockets) + 1 /\ 1 >= 1
  BY <1>2
<1>5. Threads
  BY DEF SocketsInv
<1>6. /\ cpu' = [at |-> cpu.at, iter |-> cpu.iter]
      /\ cpu.at \in {"running", "entering", "signalling", "waiting for itself"}
      /\ cpu.iter \in 0 .. Cardinality(Sockets) + 1
  BY <1>1, <1>2, <1>5, ThreadsFields
<1>7. /\ cpu.at = "signalling" => cpu.iter >= 1
      /\ cpu.at # "signalling" => cpu.iter = 0
      /\ cpu.at = "entering" => net'.gConnectedDebugSocket # NULL
  BY <1>1, <1>3, <1>5 DEF Threads
<1>8. CASE ui' = [at |-> "idling", iter |-> 1]
  <2>1. Threads'
    BY <1>4, <1>6, <1>7, <1>8, ThreadsNext, ZenonT(60)
  <2> QED
    BY <1>1, <1>3, <1>8, <2>1 DEF SocketsInv
<1>9. CASE ui' = [at |-> "rpc", iter |-> 0] /\ cpu.at # "signalling"
  <2>1. Threads'
    BY <1>4, <1>6, <1>7, <1>9, ThreadsNext, ZenonT(60)
  <2> QED
    BY <1>1, <1>3, <1>9, <2>1 DEF SocketsInv
<1> QED
  BY <1>1, <1>8, <1>9

LEMMA NextSocketStep ==
  ASSUME Room, SocketsInv, NextSocket
  PROVE  SocketsInv'
<1>1. /\ ui.at = "idling" /\ ui.iter <= Len(net.gSockets) /\ ui' = [ui EXCEPT !.iter = @ + 1]
      /\ UNCHANGED <<net, cpu>>
  BY DEF NextSocket
<1>2. /\ Good(net, cpu.iter) /\ Cardinality(Sockets) \in Nat /\ Old(net) \in Nat /\ Old(net) <= Cardinality(Sockets)
  BY <1>1, Standing
<1>3. Threads
  BY DEF SocketsInv
<1>4. /\ ui = [at |-> "idling", iter |-> ui.iter] /\ cpu = [at |-> cpu.at, iter |-> cpu.iter]
      /\ ui.iter \in 0 .. Cardinality(Sockets) + 1
      /\ cpu.at \in {"running", "entering", "signalling", "waiting for itself"}
      /\ cpu.iter \in 0 .. Cardinality(Sockets) + 1
  BY <1>1, <1>2, <1>3, ThreadsFields
<1>5. ui.iter + 1 \in 0 .. Cardinality(Sockets) + 1 /\ ui.iter + 1 >= 1
  <2>1. ui.iter \in 0 .. Cardinality(Sockets) + 1 /\ ui.iter >= 1
    BY <1>1, <1>2, <1>3, <1>4 DEF Threads
  <2>2. ui.iter <= Old(net)
    BY <1>1 DEF Old
  <2>3. Cardinality(Sockets) \in Nat /\ Old(net) \in Nat /\ Old(net) <= Cardinality(Sockets)
    BY <1>2
  <2> QED
    BY <2>1, <2>2, <2>3
<1>6. ui' = [at |-> "idling", iter |-> ui.iter + 1] /\ cpu' = [at |-> cpu.at, iter |-> cpu.iter]
  BY <1>1, <1>4
<1>7. /\ cpu.at = "signalling" => cpu.iter >= 1
      /\ cpu.at # "signalling" => cpu.iter = 0
      /\ cpu.at = "entering" => net'.gConnectedDebugSocket # NULL
  BY <1>1, <1>3 DEF Threads
<1>8. Threads'
  BY <1>4, <1>5, <1>6, <1>7, ThreadsNext, ZenonT(60)
<1>9. Good(net', cpu'.iter) /\ ui'.at # "down"
  BY <1>1, <1>2, <1>6
<1> QED
  BY <1>8, <1>9 DEF SocketsInv

LEMMA RPCTimeoutStep ==
  ASSUME Room, SocketsInv, RPCTimeout
  PROVE  SocketsInv'
<1>1. ui.at = "rpc" /\ UNCHANGED <<ui, cpu>>
  BY DEF RPCTimeout
<1>2. Good(net, cpu.iter)
  BY <1>1, Standing
<1>3. cpu.at # "signalling" /\ cpu.iter = 0 /\ (cpu.at = "entering" => net.gConnectedDebugSocket # NULL)
  BY <1>1 DEF SocketsInv, Threads
<1>4. PICK i \in 1 .. Len(net.gSLPTimeouts) : \E failed \in Fails(net, net.gSLPTimeouts[i], "deferred") :
        net' = [Write(Answered(net, net.gSLPTimeouts[i]), net.gSLPTimeouts[i], failed)
                  EXCEPT !.gSLPTimeouts = IF i <= Len(@) THEN RemoveAt(@, i) ELSE @]
  BY DEF RPCTimeout
<1> DEFINE a == Answered(net, net.gSLPTimeouts[i])
<1>5. Fails(net, net.gSLPTimeouts[i], "deferred") = {FALSE}
  BY DEF Fails, Room
<1>6. a.gSLPTimeouts = net.gSLPTimeouts
  BY <1>2, AnsweredKinds
<1>7. i <= Len(net.gSLPTimeouts)
  OBVIOUS
<1>8. net' = [a EXCEPT !.gSLPTimeouts = RemoveAt(net.gSLPTimeouts, i)]
  BY <1>4, <1>5, <1>6, <1>7 DEF Write
<1>9. Good(net, 0)
  BY <1>2, <1>3
<1>10. Good(net', 0) /\ net'.gConnectedDebugSocket = net.gConnectedDebugSocket
  BY <1>8, <1>9, TimeoutGood
<1> QED
  BY <1>1, <1>3, <1>10, NetStep

LEMMA RPCIdleEndsStep ==
  ASSUME Room, SocketsInv, RPCIdleEnds
  PROVE  SocketsInv'
<1>1. ui.at = "rpc" /\ ui' = [at |-> "out", iter |-> 0] /\ UNCHANGED <<net, cpu>>
  BY DEF RPCIdleEnds
<1>2. Good(net, cpu.iter) /\ Cardinality(Sockets) \in Nat
  BY <1>1, Standing
<1>3. 0 \in 0 .. Cardinality(Sockets) + 1
  BY <1>2
<1>4. Threads'
  BY <1>1, <1>3 DEF SocketsInv, Threads
<1> QED
  BY <1>1, <1>2, <1>4 DEF SocketsInv

LEMMA EnterDebuggerStep ==
  ASSUME Room, SocketsInv, EnterDebugger
  PROVE  SocketsInv'
<1>1. /\ cpu.at = "running" /\ ui.at # "down" /\ net.gConnectedDebugSocket # NULL
      /\ cpu' = [cpu EXCEPT !.at = "entering"] /\ UNCHANGED <<net, ui>>
  BY DEF EnterDebugger
<1>2. Threads /\ Good(net, cpu.iter)
  BY <1>1 DEF SocketsInv
<1>3. cpu' = [at |-> "entering", iter |-> cpu.iter]
  BY <1>1, <1>2 DEF Threads
<1>4. Threads'
  BY <1>1, <1>2, <1>3 DEF Threads
<1> QED
  BY <1>1, <1>2, <1>3, <1>4 DEF SocketsInv

LEMMA SendStateStep ==
  ASSUME Room, SocketsInv, SendState
  PROVE  SocketsInv'
<1> DEFINE s == net.gConnectedDebugSocket
<1>1. cpu.at = "entering" /\ UNCHANGED ui
  BY DEF SendState
<1>2. Threads
  BY DEF SocketsInv
<1>3. ui.at # "down" /\ cpu.iter = 0
  BY <1>1, <1>2 DEF Threads
<1>4. Good(net, cpu.iter) /\ net \in Nets
  BY <1>3, Standing
<1>5. PICK B \in {"waiting for itself", "running"} : Good(net', cpu.iter) /\ cpu' = [cpu EXCEPT !.at = B]
  <2>1. CASE s = NULL
    BY <1>4, <2>1 DEF SendState
  <2>2. CASE s # NULL
    <3>1. s \in Sockets
      BY <1>4, <2>2, NetFields
    <3>2. PICK failed \in Fails(net, s, "entry") :
            /\ net' \in Opened(Write(net, s, failed))
            /\ cpu' = [cpu EXCEPT !.at = IF failed THEN "waiting for itself" ELSE "running"]
      BY <2>2 DEF SendState
    <3>3. Debugs(net.sock[s])
      BY <1>4, <2>2, <3>1 DEF Good, DebugListeners
    <3>4. Good(CloseSocket(net, s), cpu.iter)
      BY <1>4, <3>1, <3>3, CloseDebugGood DEF Debugs
    <3>5. net' = Write(net, s, failed)
      <4>1. Opened(Write(net, s, failed)) = {Write(net, s, failed)}
        BY OpenedAlways
      <4> QED
        BY <3>2, <4>1
    <3>6. Good(net', cpu.iter)
      BY <1>4, <3>4, <3>5 DEF Write
    <3> QED
      BY <3>2, <3>6
  <2> QED
    BY <2>1, <2>2
<1>6. Cardinality(Sockets) \in Nat
  BY SocketNumbers
<1>7. /\ ui' = [at |-> ui.at, iter |-> ui.iter] /\ cpu' = [at |-> B, iter |-> 0]
      /\ ui.at \in {"out", "idling", "stopping", "rpc", "down"} /\ ui.iter \in 0 .. Cardinality(Sockets) + 1
      /\ 0 \in 0 .. Cardinality(Sockets) + 1
  BY <1>1, <1>2, <1>3, <1>5, <1>6, ThreadsFields
<1>8. ui.at \in {"idling", "stopping"} => ui.iter >= 1
  BY <1>2 DEF Threads
<1>9. B # "signalling" /\ B # "entering"
  OBVIOUS
<1>10. Threads'
  BY <1>3, <1>7, <1>8, <1>9, ThreadsNext, ZenonT(60)
<1>11. Good(net', cpu'.iter) /\ ui'.at # "down"
  BY <1>1, <1>3, <1>5, <1>7
<1> QED
  BY <1>10, <1>11 DEF SocketsInv

LEMMA SignalStep ==
  ASSUME Room, SocketsInv, SignalWaiters \/ Signal \/ Signalled
  PROVE  SocketsInv'
<1>1. Threads /\ UNCHANGED ui
  BY DEF SocketsInv, SignalWaiters, Signal, Signalled
<1>2. ui.at # "down"
  BY <1>1 DEF SignalWaiters, Signal, Signalled, Threads
<1>3. /\ Good(net, cpu.iter) /\ Cardinality(Sockets) \in Nat
      /\ Len(net.gSLPTimeouts) \in Nat /\ Len(net.gSLPTimeouts) <= Cardinality(Sockets)
  BY <1>2, Standing
<1>4. cpu = [at |-> cpu.at, iter |-> cpu.iter] /\ cpu.iter \in 0 .. Cardinality(Sockets) + 1
  BY <1>1, <1>3, ThreadsFields
<1>5. cpu.iter \in Nat /\ (cpu.at = "signalling" => cpu.iter >= 1) /\ (cpu.at # "signalling" => cpu.iter = 0)
  <2>1. (cpu.at = "signalling" => cpu.iter >= 1) /\ (cpu.at # "signalling" => cpu.iter = 0)
    BY <1>1 DEF Threads
  <2> QED
    BY <1>3, <1>4, <2>1
<1>6. /\ ui' = [at |-> ui.at, iter |-> ui.iter] /\ ui.at # "down"
      /\ ui.at \in {"out", "idling", "stopping", "rpc", "down"} /\ ui.iter \in 0 .. Cardinality(Sockets) + 1
      /\ ui.at \in {"idling", "stopping"} => ui.iter >= 1
      /\ cpu.at = "signalling" => ui.at \in {"out", "idling", "stopping"}
  <2>1. ui.at \in {"idling", "stopping"} => ui.iter >= 1
    BY <1>1 DEF Threads
  <2>2. cpu.at = "signalling" => ui.at \in {"out", "idling", "stopping"}
    BY <1>1 DEF Threads
  <2> QED
    BY <1>1, <1>2, <1>3, <2>1, <2>2, ThreadsFields
<1>7. CASE SignalWaiters
  <2>1. /\ cpu.at = "running" /\ ui.at \notin {"rpc", "down"} /\ UNCHANGED net
        /\ cpu' = [cpu EXCEPT !.at = "signalling", !.iter = 1]
    BY <1>7 DEF SignalWaiters
  <2>2. cpu.iter = 0 /\ cpu' = [at |-> "signalling", iter |-> 1]
    BY <1>4, <1>5, <2>1
  <2>3. Good(net, 1)
    BY <1>3, <2>2, BeginGood
  <2>4. 1 \in 0 .. Cardinality(Sockets) + 1 /\ 1 >= 1
    BY <1>3
  <2>5. Threads'
    BY <1>6, <2>1, <2>2, <2>4, ThreadsNext, ZenonT(60)
  <2>6. Good(net', cpu'.iter) /\ ui'.at # "down"
    BY <1>1, <1>2, <2>1, <2>2, <2>3
  <2> QED
    BY <2>5, <2>6 DEF SocketsInv
<1>8. CASE Signal
  <2> DEFINE s == net.gSLPTimeouts[cpu.iter]
  <2>1. /\ cpu.at = "signalling" /\ cpu.iter <= Len(net.gSLPTimeouts)
        /\ cpu' = [cpu EXCEPT !.iter = @ + 1]
        /\ \E failed \in Fails(net, s, "deferred") : net' = Write(Answered(net, s), s, failed)
    BY <1>8 DEF Signal
  <2>2. net' = Answered(net, s)
    BY <2>1 DEF Fails, Room, Write
  <2>3. cpu.iter >= 1 /\ cpu.iter \in 1 .. Len(net.gSLPTimeouts)
    BY <1>3, <1>5, <2>1
  <2>4. Good(net', cpu.iter + 1)
    BY <1>3, <2>2, <2>3, SignalGood
  <2>5. cpu' = [at |-> "signalling", iter |-> cpu.iter + 1]
    BY <1>4, <2>1
  <2>6. cpu.iter + 1 \in 0 .. Cardinality(Sockets) + 1 /\ cpu.iter + 1 >= 1
    BY <1>3, <1>5, <2>1
  <2>7. Threads'
    BY <1>6, <2>1, <2>5, <2>6, ThreadsNext, ZenonT(60)
  <2>8. Good(net', cpu'.iter) /\ ui'.at # "down"
    BY <1>1, <1>2, <2>4, <2>5
  <2> QED
    BY <2>7, <2>8 DEF SocketsInv
<1>9. CASE Signalled
  <2>1. /\ cpu.at = "signalling" /\ cpu.iter > Len(net.gSLPTimeouts) /\ net' = Cleared(net)
        /\ cpu' = [cpu EXCEPT !.at = "running", !.iter = 0]
    BY <1>9 DEF Signalled
  <2>2. cpu.iter \in Nat /\ cpu' = [at |-> "running", iter |-> 0]
    BY <1>4, <1>5, <2>1
  <2>3. Good(net', 0)
    BY <1>3, <2>1, <2>2, ClearedGood
  <2>4. 0 \in 0 .. Cardinality(Sockets) + 1
    BY <1>3
  <2>5. Threads'
    BY <1>6, <2>1, <2>2, <2>4, ThreadsNext, ZenonT(60)
  <2>6. Good(net', cpu'.iter) /\ ui'.at # "down"
    BY <1>1, <1>2, <2>2, <2>3
  <2> QED
    BY <2>5, <2>6 DEF SocketsInv
<1> QED
  BY <1>7, <1>8, <1>9

LEMMA ShutdownStep ==
  ASSUME Room, SocketsInv, Shutdown
  PROVE  SocketsInv'
<1>1. ui.at = "out" /\ cpu.at = "running" /\ ui' = [at |-> "down", iter |-> 0] /\ UNCHANGED cpu
  BY DEF Shutdown
<1>2. Good(net, cpu.iter) /\ Cardinality(Sockets) \in Nat
  BY <1>1, Standing
<1>3. Gone(net')
  BY <1>2, ShutdownGone DEF Shutdown
<1>4. 0 \in 0 .. Cardinality(Sockets) + 1
  BY <1>2
<1>5. Threads'
  BY <1>1, <1>4 DEF SocketsInv, Threads
<1> QED
  BY <1>1, <1>3, <1>5 DEF SocketsInv

LEMMA SocketsStep ==
  ASSUME Room, SocketsInv, [SocketsNext]_socketVars
  PROVE  SocketsInv'
<1>1. CASE UNCHANGED socketVars
  <2>1. UNCHANGED <<net, ui, cpu>>
    BY <1>1 DEF socketVars
  <2>2. Threads'
    BY <2>1 DEF SocketsInv, Threads
  <2> QED
    BY <2>1, <2>2 DEF SocketsInv
<1>2. CASE \E s \in Sockets : ClientConnects(s) \/ ClientAsks(s) \/ ClientCloses(s)
  BY <1>2, ClientsStep
<1>3. CASE \E s \in Sockets : AcceptConnection(s) \/ FoundClosed(s) \/ HandleNewPacket(s)
  BY <1>3, AcceptStep, FoundClosedStep, HandleNewPacketStep
<1>4. CASE StopGained \/ IdleAll \/ NextSocket \/ IdleAllEnds \/ RPCTimeout \/ RPCIdleEnds
  BY <1>4, StopGainedStep, IdleStep, NextSocketStep, RPCTimeoutStep, RPCIdleEndsStep
<1>5. CASE EnterDebugger \/ SendState \/ SignalWaiters \/ Signal \/ Signalled \/ Shutdown
  BY <1>5, EnterDebuggerStep, SendStateStep, SignalStep, ShutdownStep
<1> QED
  BY <1>1, <1>2, <1>3, <1>4, <1>5 DEF SocketsNext

-----------------------------------------------------------------------------
(***************************************************************************)
(* What the invariant gives.                                               *)
(***************************************************************************)
LEMMA SocketsTyped ==
  ASSUME Room, SocketsInv
  PROVE  SocketsTypeOK
<1>1. Cardinality(Sockets) \in Nat
  BY SocketNumbers
<1>2. Threads
  BY DEF SocketsInv
<1>3. net \in Nets
  BY DEF SocketsInv, Good, Gone
<1> QED
  BY <1>1, <1>2, <1>3, ThreadsFields DEF SocketsTypeOK

LEMMA SocketsListened ==
  ASSUME Room, SocketsInv
  PROVE  SomebodyListens
<1>1. CASE ui.at = "down"
  BY <1>1 DEF SocketsInv, Gone, SomebodyListens
<1>2. CASE ui.at # "down"
  <2>1. Good(net, cpu.iter) /\ net \in Nets
    BY <1>2, Standing
  <2>2. ScriptsListener(net) /\ DebugListeners(net)
    BY <2>1 DEF Good
  <2>3. Cardinality({s \in Sockets : net.sock[s].state = "listening" /\ net.sock[s].port = "rpc"}) = 1
    <3>1. PICK l \in Sockets : OnlyListener(net, l, "rpc")
      BY <2>2 DEF ScriptsListener
    <3>2. {s \in Sockets : net.sock[s].state = "listening" /\ net.sock[s].port = "rpc"} = {l}
      BY <3>1 DEF OnlyListener, Listens
    <3> QED
      BY <3>2, FS_Singleton
  <2>4. CASE net.gConnectedDebugSocket = NULL
    <3>1. \A p \in DebugPorts : OnlyListener(net, net.gDebuggerSocket[p], p)
      BY <2>2, <2>4 DEF DebugListeners
    <3>2. \A p \in DebugPorts :
            \E s \in Sockets : /\ net.gDebuggerSocket[p] = s /\ net.sock[s].port = p
                               /\ net.sock[s].state = "listening"
      BY <3>1 DEF OnlyListener, Listens
    <3> QED
      BY <1>2, <2>3, <2>4, <3>2 DEF SomebodyListens
  <2>5. CASE net.gConnectedDebugSocket # NULL
    <3>1. /\ \A s \in Sockets, p \in DebugPorts : ~ Listens(net.sock[s], p)
          /\ \A s \in Sockets : Debugs(net.sock[s]) <=> s = net.gConnectedDebugSocket
      BY <2>2, <2>5 DEF DebugListeners
    <3>2. \A s \in Sockets : net.sock[s].port \in DebugPorts \union {"rpc"}
      BY <2>1, NetFields DEF CTCPSocket
    <3>3. \A s \in Sockets : net.sock[s].state = "listening" => net.sock[s].port = "rpc"
      BY <3>1, <3>2 DEF Listens
    <3>4. net.gConnectedDebugSocket \in Sockets
      BY <2>1, <2>5, NetFields
    <3>5. net.sock[net.gConnectedDebugSocket].state = "connected"
      BY <3>1, <3>4 DEF Debugs
    <3> QED
      BY <1>2, <2>3, <2>5, <3>3, <3>5 DEF SomebodyListens
  <2> QED
    BY <2>4, <2>5
<1> QED
  BY <1>1, <1>2

LEMMA SocketsTracked ==
  ASSUME Room, SocketsInv
  PROVE  WaitersTracked
<1> DEFINE q == net.gSLPTimeouts
           c == cpu.iter
           Mine(s) == {i \in c .. Len(q) : i > 0 /\ q[i] = s}
<1>1. Cardinality(Sockets) \in Nat
  BY SocketNumbers
<1>2. Threads
  BY DEF SocketsInv
<1>3. c \in Nat
  <2>1. c \in 0 .. Cardinality(Sockets) + 1
    BY <1>1, <1>2, ThreadsFields
  <2> QED
    BY <1>1, <2>1
<1>4. CASE ui.at = "down"
  <2>1. Len(q) = 0 /\ \A s \in Sockets : net.sock[s] = Free
    BY <1>4 DEF SocketsInv, Gone
  <2>2. c = 0
    BY <1>2, <1>4 DEF Threads
  <2>3. \A s \in Sockets : net.sock[s].owed = 0
    BY <2>1 DEF Free
  <2>4. \A s \in Sockets : Mine(s) = {}
    BY <2>1, <2>2
  <2>5. \A s \in Sockets : Waiting(s) = 0
    BY <2>4, FS_EmptySet DEF Waiting
  <2>6. (\A i \in 1 .. Len(q) : FALSE) /\ c <= Len(q) + 1
    BY <2>1, <2>2
  <2> QED
    BY <2>3, <2>5, <2>6 DEF WaitersTracked
<1>5. CASE ui.at # "down"
  <2>1. Good(net, c) /\ net \in Nets /\ Len(q) \in Nat
    BY <1>5, Standing
  <2>2. /\ c <= Len(q) + 1
        /\ \A i, j \in 1 .. Len(q) : q[i] = q[j] => i = j
        /\ \A i \in 1 .. Len(q) : net.sock[q[i]].state = "connected" /\ net.sock[q[i]].port = "rpc"
        /\ \A s \in Sockets : net.sock[s].owed = 1 <=> \E i \in 1 .. Len(q) : i >= c /\ q[i] = s
    BY <2>1 DEF Good, Waiters
  <2>3. ASSUME NEW s \in Sockets PROVE net.sock[s].owed = Waiting(s)
    <3>1. net.sock[s].owed \in 0 .. 1
      <4>1. net.sock[s] \in CTCPSocket
        BY <2>1, NetFields
      <4> QED
        BY <4>1 DEF CTCPSocket
    <3>2. \A i : i \in Mine(s) <=> i \in 1 .. Len(q) /\ i >= c /\ q[i] = s
      BY <1>3, <2>1
    <3>3. Waiting(s) = Cardinality(Mine(s))
      BY DEF Waiting
    <3> HIDE DEF Mine, q, c
    <3>4. CASE net.sock[s].owed = 1
      <4>1. PICK i \in 1 .. Len(q) : i >= c /\ q[i] = s
        BY <2>2, <3>4
      <4>2. \A j : j \in Mine(s) <=> j = i
        BY <2>2, <3>2, <4>1
      <4>3. Mine(s) = {i}
        BY <4>2
      <4> QED
        BY <3>3, <3>4, <4>3, FS_Singleton
    <3>5. CASE net.sock[s].owed = 0
      <4>1. Mine(s) = {}
        BY <2>2, <3>2, <3>5
      <4> QED
        BY <3>3, <3>5, <4>1, FS_EmptySet
    <3> QED
      BY <3>1, <3>4, <3>5
  <2> QED
    BY <2>2, <2>3 DEF WaitersTracked
<1> QED
  BY <1>4, <1>5

LEMMA SocketsInvariant ==
  ASSUME Room
  PROVE  SocketsSpec => []SocketsInv
<1>1. SocketsInit => SocketsInv
  BY Beginning
<1>2. SocketsInv /\ [SocketsNext]_socketVars => SocketsInv'
  BY SocketsStep
<1> QED
  BY <1>1, <1>2, PTL DEF SocketsSpec

\* The sockets, the lists and the globals that refer to sockets always have their types: no global
\* and no list refers to anything but a socket, a socket for the next listener is always found, and
\* at most one packet and one answer are outstanding on a socket.
THEOREM SocketsTypes ==
  ASSUME Room
  PROVE  SocketsSpec => []SocketsTypeOK
<1>1. SocketsInv => SocketsTypeOK
  BY SocketsTyped
<1> QED
  BY <1>1, SocketsInvariant, PTL

\* Debug::EventCallback and RPC::EventCallback: one listener for scripts is always there, two for a
\* debugger unless one is connected, and the globals refer to them; after Shutdown no socket is left.
THEOREM ListenersThere ==
  ASSUME Room
  PROVE  SocketsSpec => []SomebodyListens
<1>1. SocketsInv => SomebodyListens
  BY SocketsListened
<1> QED
  BY <1>1, SocketsInvariant, PTL

\* RPC::gSLPTimeouts: every script that waits for a signal, and nobody else, has one entry that is
\* not answered yet, on a connected socket, wherever SignalWaiters is in the list.  Any client may
\* send any other packet through any port, but nobody waits for a signal through a debugger's port:
\* Debug::EventCallback does not forget him.
THEOREM WaitersRight ==
  ASSUME Room
  PROVE  SocketsSpec => []WaitersTracked
<1>1. SocketsInv => WaitersTracked
  BY SocketsTracked
<1> QED
  BY <1>1, SocketsInvariant, PTL

=============================================================================

------------------------- MODULE InstructionBreaks -------------------------
(***************************************************************************)
(* Stopping the processor at an address: for the tail patch of a system    *)
(* call that returns there (Patches/EmPatchMgr.cpp), and for a breakpoint  *)
(* of an external debugger (DebugMgr.cpp).  Both mark addresses in the     *)
(* same bits of meta-memory and are called, in turn, at every marked       *)
(* address the processor reaches.                                          *)
(*                                                                         *)
(* The program is its stack of system calls and where it is.  A call that  *)
(* the head patch does not handle runs in the ROM and returns to fNextPC,  *)
(* the instruction after it, which stands for the call here.  One that it  *)
(* handles goes on there at once.  No other way leads to it.               *)
(***************************************************************************)
EXTENDS Naturals, Sequences, FiniteSets, SequencesExt

CONSTANTS
  Sites,      \* the instructions after tail-patched system calls
  Elsewhere,  \* any other instruction
  TempBP,     \* dbgTempBPIndex
  UserBPs,    \* the other breakpoint indices
  Recursing,  \* may a patched call recurse: when a debugger is connected ("stop"), when the head
              \* patch handles the inner call ("skip")?
  MaxDepth,   \* bound on the calls that are pending
  MaxCount    \* bound on the calls that never return and leave their entry behind

ASSUME BreakAssumption ==
  Elsewhere \notin Sites /\ TempBP \notin UserBPs /\ Recursing \subseteq {"stop", "skip"}

Addresses == Sites \union {Elsewhere}
Indices == UserBPs \union {TempBP}
NoBreakpoint == [enabled |-> FALSE, addr |-> Elsewhere]

VARIABLES
  debugged,   \* a debugger is connected
  pc,
  pending,    \* the system calls under way, innermost first
  fCount,     \* gInstalledTailpatches: the use count of each entry, 0 where there is none
  marked,     \* addresses with MetaMemory's instruction break bit
  bp,         \* gDebuggerGlobals.bp
  continueOverBP,
  stopped     \* suspended by the debugger: the state it was sent, or NotStopped

breakVars == <<debugged, pc, pending, fCount, marked, bp, continueOverBP, stopped>>

NotStopped == [pc |-> Elsewhere, pending |-> << >>, stopped |-> FALSE]
Installed(c) == {s \in Sites : c[s] > 0}
Enabled(b) == {b[i].addr : i \in {j \in Indices : b[j].enabled}}
Pending(p, s) == Cardinality({i \in 1..Len(p) : p[i] = s})
Outstanding(s) == Pending(pending, s)

BreakTypeOK ==
  /\ pc \in Addresses /\ pending \in BoundedSeq(Sites, MaxDepth)
  /\ fCount \in [Sites -> 0 .. MaxCount + 2 * MaxDepth]
  /\ marked \subseteq Addresses
  /\ bp \in [Indices -> [enabled : BOOLEAN, addr : Addresses]]
  /\ continueOverBP \in BOOLEAN
  /\ stopped.stopped => debugged

BreakInit ==
  /\ debugged \in BOOLEAN
  /\ pc = Elsewhere /\ pending = << >>
  /\ fCount = [s \in Sites |-> 0] /\ marked = {}
  /\ bp = [i \in Indices |-> NoBreakpoint]
  /\ continueOverBP = FALSE /\ stopped = NotStopped

-----------------------------------------------------------------------------
RemarkedOwn(c, b, newC, newB) ==      \* mutant: the owner of the entry handles its own mark only
  IF b = newB THEN (marked \ Installed(c)) \union Installed(newC)
              ELSE (marked \ Enabled(b)) \union Enabled(newB)

\* EmSession::RemoveInstructionBreaks, a change of the lists, EmSession::InstallInstructionBreaks.
Remarked(c, b, newC, newB) ==
  (marked \ (Installed(c) \union Enabled(b))) \union Installed(newC) \union Enabled(newB)

SetupForTailpatchOnce(c, s) == [c EXCEPT ![s] = 1]      \* mutant: the use count is not kept
SetupForTailpatch(c, s) == [c EXCEPT ![s] = @ + 1]

\* RecoverFromTailpatch (and the call of the tail patch).
RecoverFromTailpatch(c, a) == IF a \in Installed(c) THEN [c EXCEPT ![a] = @ - 1] ELSE c

\* Debug::HandleInstructionBreak: continueOverBP is used up at any marked address.
EntersDebugger(b, a) == ~continueOverBP /\ a \in Enabled(b)
ConditionalBreak(b, a) ==
  IF b[TempBP].addr = a THEN [b EXCEPT ![TempBP].enabled = FALSE] ELSE b

(***************************************************************************)
(* One turn of EmCPU68K::Execute: the break test, then the opcode, which   *)
(* may be a system call (next).  When the debugger was entered the turn    *)
(* ends in CheckForBreak, after the opcode.                                *)
(***************************************************************************)
Turn(nextPC, next, called) ==
  /\ ~stopped.stopped
  /\ pc' = nextPC /\ pending' = next
  /\ LET hit == pc \in marked
         c1  == IF hit THEN RecoverFromTailpatch(fCount, pc) ELSE fCount
         in1 == hit /\ EntersDebugger(bp, pc)
         b1  == IF in1 THEN ConditionalBreak(bp, pc) ELSE bp
         c2  == IF called = Elsewhere THEN c1 ELSE SetupForTailpatch(c1, called)
     IN /\ fCount' = c2 /\ bp' = b1
        \* every change of the list re-marks; a new count does not
        /\ marked' = IF Installed(c2) = Installed(fCount) THEN marked
                     ELSE Remarked(fCount, bp, c2, bp)
        /\ continueOverBP' = (continueOverBP /\ ~hit)
        /\ stopped' = IF in1 THEN [pc |-> pc, pending |-> pending, stopped |-> TRUE] ELSE NotStopped
  /\ UNCHANGED debugged

\* Any opcode that is no system call and no return of one.
Opcode == Turn(Elsewhere, pending, Elsewhere)

\* HandleSystemCall: the ROM function runs and its tail patch waits for it at s.
SystemCall(s) ==
  /\ Len(pending) < MaxDepth /\ fCount[s] < MaxCount + MaxDepth
  /\ debugged /\ "stop" \notin Recursing => Outstanding(s) = 0
  /\ Turn(Elsewhere, <<s>> \o pending, s)

\* HandleSystemCall: the head patch returns kSkipROM, and the tail patch is called at once.
SkippedCall(s) ==
  /\ "skip" \notin Recursing => Outstanding(s) = 0
  /\ Turn(s, pending, Elsewhere)

\* The ROM function returns.
SystemReturn == pending # << >> /\ Turn(Head(pending), Tail(pending), Elsewhere)

\* ErrThrow and SysReset-like jumps: the innermost calls never return.
Abandon ==
  /\ pending # << >> /\ fCount[Head(pending)] <= MaxCount
  /\ Turn(Elsewhere, Tail(pending), Elsewhere)

-----------------------------------------------------------------------------
\* Packets of the debugger, handled while the CPU thread is held between two opcodes.
\* SetBreakpoint clears the old breakpoint first and re-marks twice.
ChangeBreakpoint(i, new) ==
  /\ debugged /\ bp[i] # new
  /\ bp' = [bp EXCEPT ![i] = new]
  /\ marked' = Remarked(fCount, bp, fCount, bp')
  /\ UNCHANGED <<debugged, pc, pending, fCount, continueOverBP, stopped>>

SetBreakpoint(i, a) == ChangeBreakpoint(i, [enabled |-> TRUE, addr |-> a])
ClearBreakpoint(i) == ChangeBreakpoint(i, NoBreakpoint)

\* SystemPacket::Continue sets the registers to those the debugger was sent, then ExitDebugger.
Continue ==
  /\ stopped.stopped
  /\ pc' = stopped.pc /\ pending' = stopped.pending
  /\ continueOverBP' = (continueOverBP \/ stopped.pc \in Enabled(bp))
  /\ stopped' = NotStopped
  /\ UNCHANGED <<debugged, fCount, marked, bp>>

\* EmSession::Reset: EmPatchMgr::Reset empties its list, meta-memory is wiped and marked again.
\* Debug::Reset keeps the breakpoints.
ResetBreaks ==
  /\ pc' = Elsewhere /\ pending' = << >> /\ stopped' = NotStopped
  /\ fCount' = [s \in Sites |-> 0]
  /\ marked' = Enabled(bp)
  /\ UNCHANGED <<debugged, bp, continueOverBP>>

BreakNext ==
  \/ Opcode \/ SystemReturn \/ Abandon \/ Continue \/ ResetBreaks
  \/ \E s \in Sites : SystemCall(s) \/ SkippedCall(s)
  \/ \E i \in Indices, a \in Addresses : SetBreakpoint(i, a)
  \/ \E i \in Indices : ClearBreakpoint(i)

BreakSpec == BreakInit /\ [][BreakNext]_breakVars

-----------------------------------------------------------------------------
\* The processor stops wherever somebody waits for it: changing a breakpoint never hides the
\* return of a patched call, and a returning call never hides a breakpoint at the same address.
EveryWaiterMarked == Installed(fCount) \union Enabled(bp) \subseteq marked

\* "Regain control after the trap function has executed": every patched call under way will be met
\* by a tail patch of its own when it returns, however calls nest, recurse as far as Recursing lets
\* them, never return, and the debugger stops and resumes the program.
NoTailpatchLost == \A s \in Sites : fCount[s] >= Outstanding(s)
=============================================================================

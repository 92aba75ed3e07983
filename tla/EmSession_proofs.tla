-------------------------- MODULE EmSession_proofs --------------------------
(***************************************************************************)
(* Proofs about EmSession for every set of clients and every bound.        *)
(***************************************************************************)
EXTENDS EmSession, TLAPS, SequenceTheorems, FiniteSetTheorems

-----------------------------------------------------------------------------
(* The counters                                                            *)

\* Every operation on the suspend counters keeps them within their bits.
LEMMA Wrap4Type == \A n \in Int : Wrap4(n) \in Int4
  BY DEF Wrap4, Int4

LEMMA ZeroType == Zero \in Counters
<1>1. 0 \in Int4
  BY DEF Int4
<1> QED
  BY <1>1 DEF Zero, Counters

LEMMA BumpType ==
  ASSUME NEW s \in Counters, NEW f \in {"ui", "dbg", "ext"}, NEW n \in Int
  PROVE  Bump(s, f, n) \in Counters
<1>1. s.ui \in Int /\ s.dbg \in Int /\ s.ext \in Int
  BY DEF Counters, Int4
<1>2. /\ Wrap4(s.ui + n) \in Int4
      /\ Wrap4(s.dbg + n) \in Int4
      /\ Wrap4(s.ext + n) \in Int4
  BY <1>1, Wrap4Type
<1> QED
  BY <1>2 DEF Bump, Counters

LEMMA RequestType ==
  ASSUME NEW s \in Counters, NEW h PROVE Request(s, h) \in Counters
<1>1. CASE h = kStopNow
  BY <1>1, BumpType DEF Request
<1>2. CASE h # kStopNow
  BY <1>2 DEF Request, Counters
<1> QED
  BY <1>1, <1>2

LEMMA ReleaseType ==
  ASSUME NEW s \in Counters PROVE Release(s) \in Counters
<1>1. Bump(s, "ui", -1) \in Counters
  BY BumpType
<1>2. \A t \in Counters : [t EXCEPT !.sys = 0] \in Counters
  BY DEF Counters
<1> QED
  BY <1>1, <1>2 DEF Release

LEMMA ClearType ==
  ASSUME NEW s \in Counters PROVE ClearForReset(s) \in Counters
<1>1. 0 \in Int4
  BY DEF Int4
<1> QED
  BY <1>1 DEF ClearForReset, Counters

LEMMA AbsorbType ==
  ASSUME NEW old \in Counters, NEW s \in Counters
  PROVE  /\ Absorb(old, s) \in Counters
         /\ ClipExternal(Absorb(old, s)) \in Counters
<1>1. /\ old.ui + s.ui \in Int
      /\ old.dbg + s.dbg \in Int
      /\ old.ext + s.ext \in Int
  BY DEF Counters, Int4
<1>2. /\ Wrap4(old.ui + s.ui) \in Int4
      /\ Wrap4(old.dbg + s.dbg) \in Int4
      /\ Wrap4(old.ext + s.ext) \in Int4
  BY <1>1, Wrap4Type
<1>3. Absorb(old, s) \in Counters
  BY <1>2 DEF Absorb, Counters
<1>4. \A t \in Counters : ClipExternal(t) \in Counters
  <2>1. 0 \in Int4
    BY DEF Int4
  <2> QED
    BY <2>1 DEF ClipExternal, Counters
<1> QED
  BY <1>3, <1>4

-----------------------------------------------------------------------------
(* The frames                                                              *)

\* What making, leaving and changing a frame of t does to all the frames.
FramesPushed(t, f) ==
  /\ frames' \in [Threads -> Seq(Frame)]
  /\ \A u \in Threads : u # t => frames'[u] = frames[u]
  /\ frames'[t] # << >>
  /\ Len(frames[t]) \in Nat
  /\ Len(frames'[t]) = Len(frames[t]) + 1
  /\ \A i \in 1..Len(frames[t]) : frames'[t][i] = frames[t][i]
  /\ frames'[t][Len(frames[t]) + 1] = f

FramesPopped(t) ==
  /\ frames' \in [Threads -> Seq(Frame)]
  /\ \A u \in Threads : u # t => frames'[u] = frames[u]
  /\ Len(frames[t]) \in Nat \ {0}
  /\ Len(frames'[t]) = Len(frames[t]) - 1
  /\ frames'[t] = << >> <=> Len(frames[t]) = 1
  /\ \A i \in 1..Len(frames'[t]) : frames'[t][i] = frames[t][i]

FramesSet(t, f) ==
  /\ frames' \in [Threads -> Seq(Frame)]
  /\ \A u \in Threads : u # t => frames'[u] = frames[u]
  /\ frames'[t] # << >>
  /\ Len(frames[t]) \in Nat \ {0}
  /\ Len(frames'[t]) = Len(frames[t])
  /\ \A i \in 1..Len(frames[t]) :
       frames'[t][i] = IF i = Len(frames[t]) THEN f ELSE frames[t][i]

LEMMA PushFrame ==
  ASSUME NEW t \in Threads, NEW f \in Frame,
         frames \in [Threads -> Seq(Frame)], Push(t, f)
  PROVE  FramesPushed(t, f)
<1>1. frames' = [frames EXCEPT ![t] = Append(frames[t], f)]
  BY DEF Push
<1>2. frames[t] \in Seq(Frame) /\ Len(frames[t]) \in Nat
  BY LenProperties
<1>3. /\ Append(frames[t], f) \in Seq(Frame)
      /\ Append(frames[t], f) # << >>
      /\ Len(Append(frames[t], f)) = Len(frames[t]) + 1
      /\ \A i \in 1..Len(frames[t]) : Append(frames[t], f)[i] = frames[t][i]
      /\ Append(frames[t], f)[Len(frames[t]) + 1] = f
  BY <1>2, AppendProperties, ZenonT(60)
<1>4. /\ frames'[t] = Append(frames[t], f)
      /\ \A u \in Threads : u # t => frames'[u] = frames[u]
      /\ frames' \in [Threads -> Seq(Frame)]
  BY <1>1, <1>3, Zenon
<1> QED
  BY <1>2, <1>3, <1>4, Zenon DEF FramesPushed

LEMMA PopFrame ==
  ASSUME NEW t \in Threads, frames[t] # << >>,
         frames \in [Threads -> Seq(Frame)], Pop(t)
  PROVE  FramesPopped(t)
<1> DEFINE s == frames[t]
<1> DEFINE r == SubSeq(s, 1, Len(s) - 1)
<1>1. s \in Seq(Frame) /\ Len(s) \in Nat \ {0}
  BY EmptySeq
<1>2. \A i \in 1..(Len(s) - 1) : s[i] \in Frame
  BY <1>1, ElementOfSeq
<1>3. /\ r \in Seq(Frame)
      /\ Len(r) = Len(s) - 1
      /\ \A i \in 1..(Len(s) - 1) : r[i] = s[i]
  <2> DEFINE n == Len(s) - 1
  <2> DEFINE q == SubSeq(s, 1, n)
  <2>1. n \in Nat /\ \A i \in 1..n : s[i] \in Frame
    BY <1>1, <1>2
  <2> HIDE DEF s, n
  <2>2. /\ q \in Seq(Frame)
        /\ Len(q) = IF 1 <= n THEN n - 1 + 1 ELSE 0
        /\ \A i \in 1..(n - 1 + 1) : q[i] = s[1 + i - 1]
    BY <2>1, SubSeqProperties, SMT
  <2> HIDE DEF q
  <2>3. Len(q) = n
    BY <2>1, <2>2
  <2>4. \A i \in 1..n : q[i] = s[i]
    BY <2>1, <2>2
  <2> QED
    BY <2>2, <2>3, <2>4, Zenon DEF n, q
<1>4. frames' = [frames EXCEPT ![t] = r]
  BY DEF Pop
<1> HIDE DEF s, r
<1>6. \A i \in 1..Len(r) : r[i] = s[i]
  BY <1>3, Zenon
<1>7. r = << >> <=> Len(s) = 1
  BY <1>1, <1>3, EmptySeq
<1>8. /\ frames'[t] = r
      /\ \A u \in Threads : u # t => frames'[u] = frames[u]
      /\ frames' \in [Threads -> Seq(Frame)]
  BY <1>3, <1>4, Zenon DEF s
<1> QED
  BY <1>1, <1>3, <1>6, <1>7, <1>8, Zenon DEF s, FramesPopped

LEMMA SetTopFrame ==
  ASSUME NEW t \in Threads, NEW f \in Frame, frames[t] # << >>,
         frames \in [Threads -> Seq(Frame)], SetTop(t, f)
  PROVE  FramesSet(t, f)
<1> DEFINE s == frames[t]
<1> DEFINE r == [s EXCEPT ![Len(s)] = f]
<1>1. s \in Seq(Frame) /\ Len(s) \in Nat \ {0}
  BY EmptySeq
<1>2. /\ r \in Seq(Frame)
      /\ Len(r) = Len(s)
      /\ \A i \in 1..Len(s) : r[i] = IF i = Len(s) THEN f ELSE s[i]
  <2>1. Len(s) \in 1..Len(s)
    BY <1>1
  <2> DEFINE n == Len(s)
  <2> HIDE DEF s, n
  <2>2. /\ [s EXCEPT ![n] = f] \in Seq(Frame)
        /\ Len([s EXCEPT ![n] = f]) = Len(s)
        /\ \A j \in 1..Len(s) : [s EXCEPT ![n] = f][j] = IF j = n THEN f ELSE s[j]
    BY <1>1, <2>1, ExceptSeq, SMT DEF n
  <2> QED
    BY <2>2, Zenon DEF n
<1>3. frames' = [frames EXCEPT ![t] = r]
  BY DEF SetTop
<1>4. /\ frames'[t] = r
      /\ \A u \in Threads : u # t => frames'[u] = frames[u]
      /\ frames' \in [Threads -> Seq(Frame)]
  BY <1>2, <1>3, Zenon
<1>5. r # << >>
  BY <1>1, <1>2, EmptySeq
<1> QED
  BY <1>1, <1>2, <1>4, <1>5, Zenon DEF FramesSet

LEMMA TopType ==
  ASSUME NEW t \in Threads, frames \in [Threads -> Seq(Frame)],
         frames[t] # << >>
  PROVE  /\ Top(t) \in Frame
         /\ Top(t).old \in Counters
         /\ Top(t).nest \in Nat
         /\ Top(t).state \in SessionState
         /\ Top(t).back \in {"run", "exec", "sysCall", "stopped", "failed"}
         /\ Len(frames[t]) \in Nat \ {0}
<1>1. frames[t] \in Seq(Frame) /\ Len(frames[t]) \in Nat \ {0}
  BY EmptySeq
<1>2. Len(frames[t]) \in 1..Len(frames[t])
  BY <1>1
<1>3. Top(t) \in Frame
  BY <1>1, <1>2, ElementOfSeq DEF Top
<1> QED
  BY <1>1, <1>3 DEF Frame

-----------------------------------------------------------------------------
(* The inductive invariant                                                 *)

InCall(t) ==
  pc[t] \in {"callCPU", "exec", "sysCall", "cycle", "uncall", "subLoop",
             "throw", "unwind"}

\* A thread that is in a call has a frame for it, and only the first frame of
\* a thread was made outside a call.
FramesOK ==
  /\ \A t \in Threads : InCall(t) => frames[t] # << >>
  /\ \A t \in Threads : \A i \in 1..Len(frames[t]) :
       frames[t][i].back \in {"exec", "sysCall"} => i > 1
  /\ pc[Cpu] = "dialog" /\ dlgReturn.back # "resetting" => frames[Cpu] # << >>

TypeInv == TypeOK /\ FramesOK

-----------------------------------------------------------------------------
(* Type correctness                                                        *)

USE DEF Threads, Goto, Wait, Broadcast, IsNested, session, dialogs

LEMMA TypeInit == Init => TypeInv
<1> SUFFICES ASSUME Init PROVE TypeInv
  OBVIOUS
<1>1. << >> \in Seq(Frame) /\ Len(<< >>) = 0
  BY EmptySeq
<1>2. TypeOK
  BY <1>1, ZeroType, SessionAssumption
  DEF Init, TypeOK, SessionState, StopMethod, Locations, kRunning, kStopNow
<1>3. FramesOK
  BY <1>1, SessionAssumption DEF Init, FramesOK, InCall
<1> QED
  BY <1>2, <1>3 DEF TypeInv

\* A thread that leaves its last frame leaves the calls.
LEMMA FramesPoppedOK ==
  ASSUME TypeOK, FramesOK, NEW t \in Threads, FramesPopped(t),
         UNCHANGED dlgReturn,
         \A u \in Threads : u # t => pc'[u] = pc[u],
         pc'[t] # "dialog",
         InCall(t)' => Len(frames[t]) > 1
  PROVE  FramesOK'
<1>1. \A u \in Threads : InCall(u)' => frames'[u] # << >>
  BY DEF TypeOK, FramesOK, InCall, FramesPopped
<1>2. \A u \in Threads : \A i \in 1..Len(frames'[u]) :
        frames'[u][i].back \in {"exec", "sysCall"} => i > 1
  <2>1. ASSUME NEW i \in 1..Len(frames'[t]),
               frames'[t][i].back \in {"exec", "sysCall"}
        PROVE  i > 1
    <3>1. i \in 1..Len(frames[t]) /\ frames'[t][i] = frames[t][i]
      BY DEF FramesPopped
    <3> QED
      BY <2>1, <3>1 DEF FramesOK
  <2> QED
    BY <2>1 DEF FramesOK, FramesPopped
<1>3. (pc[Cpu] = "dialog" /\ dlgReturn.back # "resetting" => frames[Cpu] # << >>)'
  BY DEF FramesOK, FramesPopped
<1> QED
  BY <1>1, <1>2, <1>3 DEF FramesOK

\* The steps of SuspendThread, ResumeThread and DestroyThread.
LEMMA TypeClient ==
  ASSUME TypeInv, NEW c \in Clients, ClientStep(c) PROVE TypeInv'
<1>0. /\ TypeOK /\ FramesOK
      /\ c \in Threads /\ c # Cpu
  BY SessionAssumption DEF TypeInv
<1>1. ASSUME NEW h \in StopMethod, NEW s \in Counters,
             AwaitStop(c, h, s) \/ Settle(c, h, s),
             pc[c] \in {"idle", "suspending"},
             how' \in [Clients -> StopMethod],
             UNCHANGED <<fState, fNestLevel, fStop, dialogs, snapshot,
                         atSysCall, frames>>
      PROVE  TypeInv'
  <2>1. sus' \in Counters
    BY <1>1, BumpType DEF AwaitStop, Settle
  <2>2. /\ fBreakOnSysCall' \in BOOLEAN
        /\ waiting' \subseteq Threads
        /\ idleSync' \in Clients \cup {NoOne}
        /\ \E l \in {"suspending", "stopped", "failed", "idle"} : Goto(c, l)
    BY <1>0, <1>1 DEF AwaitStop, Settle, TypeOK, Enter, Leave
  <2>3. TypeOK'
    BY <1>0, <1>1, <2>1, <2>2 DEF TypeOK, Locations
  <2>4. FramesOK'
    BY <1>0, <1>1, <2>2 DEF TypeOK, FramesOK, InCall
  <2> QED
    BY <2>3, <2>4 DEF TypeInv
<1>2. ASSUME NEW h \in StopMethod, SuspendThread(c, h) PROVE TypeInv'
  <2>1. Request(sus, h) \in Counters
    BY <1>0, RequestType DEF TypeOK
  <2>2. how' \in [Clients -> StopMethod]
    BY <1>0, <1>2 DEF TypeOK, SuspendThread
  <2> QED
    BY <1>1, <1>2, <2>1, <2>2 DEF SuspendThread
<1>3. CASE WakeInSuspend(c)
  BY <1>0, <1>1, <1>3 DEF WakeInSuspend, TypeOK
<1>4. CASE ResumeThread(c)
  <2>1. TypeOK'
    BY <1>0, <1>4, ReleaseType
    DEF ResumeThread, TypeOK, Leave, Locations, SessionState
  <2>2. FramesOK'
    BY <1>0, <1>4 DEF ResumeThread, TypeOK, FramesOK, InCall
  <2> QED
    BY <2>1, <2>2 DEF TypeInv
<1>5. CASE GiveUp(c)
  BY <1>0, <1>5 DEF GiveUp, TypeInv, TypeOK, Leave, Locations, FramesOK, InCall
<1>6. CASE ResetEmulator(c)
  BY <1>0, <1>6, ClearType
  DEF ResetEmulator, Reset, TypeInv, TypeOK, FramesOK, InCall
<1>7. CASE DestroyThread(c)
  <2>1. sus' \in Counters
    BY <1>0, <1>7, BumpType DEF DestroyThread, TypeOK
  <2> QED
    BY <1>0, <1>7, <2>1
    DEF DestroyThread, TypeInv, TypeOK, Locations, FramesOK, InCall
<1>8. CASE WakeInDestroy(c)
  BY <1>0, <1>8, ZenonT(60) DEF WakeInDestroy, TypeInv, TypeOK, Locations, FramesOK, InCall
<1> QED
  BY <1>2, <1>3, <1>4, <1>5, <1>6, <1>7, <1>8 DEF ClientStep

\* The steps of CallCPU, ExecuteSubroutine and the exceptions out of them.
LEMMA TypeExec ==
  ASSUME TypeInv, NEW t \in Threads, ExecStep(t) PROVE TypeInv'
<1>0. TypeOK /\ FramesOK /\ frames \in [Threads -> Seq(Frame)]
  BY DEF TypeInv, TypeOK
<1>1. CASE ExecuteSubroutine(t)
  <2> DEFINE f == [old |-> sus, nest |-> fNestLevel, state |-> fState,
                   back |-> pc[t]]
  <2>1. f \in Frame
    BY <1>0, <1>1 DEF Frame, TypeOK, ExecuteSubroutine
  <2>2. Push(t, f)
    BY <1>1 DEF ExecuteSubroutine
  <2> HIDE DEF f
  <2>3. FramesPushed(t, f)
    BY <1>0, <2>1, <2>2, PushFrame
  <2>4. Len(frames[t]) \in Nat /\ (frames[t] # << >> => Len(frames[t]) > 0)
    BY <1>0, EmptySeq
  <2>5. TypeOK'
    BY <1>0, <1>1, <2>3, ZeroType DEF ExecuteSubroutine, TypeOK, Locations, FramesPushed
  <2>6. f.back \in {"exec", "sysCall"} => Len(frames[t]) > 0
    BY <1>0, <1>1, <2>4 DEF FramesOK, InCall, f
  <2>7. FramesOK'
    <3>1. pc' = [pc EXCEPT ![t] = "callCPU"] /\ UNCHANGED dlgReturn
      BY <1>1 DEF ExecuteSubroutine
    <3>2. \A u \in Threads : InCall(u)' => frames'[u] # << >>
      BY <1>0, <2>3, <3>1 DEF TypeOK, FramesOK, InCall, FramesPushed
    <3>3. \A i \in 1..Len(frames'[t]) :
            frames'[t][i].back \in {"exec", "sysCall"} => i > 1
      BY <1>0, <2>3, <2>4, <2>6 DEF FramesOK, FramesPushed
    <3>4. \A u \in Threads : \A i \in 1..Len(frames'[u]) :
            frames'[u][i].back \in {"exec", "sysCall"} => i > 1
      BY <1>0, <2>3, <3>3 DEF FramesOK, FramesPushed
    <3>5. (pc[Cpu] = "dialog" /\ dlgReturn.back # "resetting" => frames[Cpu] # << >>)'
      BY <1>0, <2>3, <3>1 DEF TypeOK, FramesOK, FramesPushed
    <3> QED
      BY <3>2, <3>4, <3>5 DEF FramesOK
  <2> QED
    BY <2>5, <2>7 DEF TypeInv
<1>2. CASE CallCPU(t)
  <2> DEFINE f == [Top(t) EXCEPT !.state = fState]
  <2>1. frames[t] # << >>
    BY <1>0, <1>2 DEF CallCPU, FramesOK, InCall
  <2>2. /\ Top(t) \in Frame
        /\ f \in Frame /\ f.back = Top(t).back
    BY <1>0, <2>1, TopType DEF Frame, TypeOK
  <2>3. SetTop(t, f)
    BY <1>2 DEF CallCPU
  <2> HIDE DEF f
  <2>4. FramesSet(t, f)
    BY <1>0, <2>1, <2>2, <2>3, SetTopFrame 
  <2>5. TypeOK'
    BY <1>0, <1>2, <2>4
    DEF CallCPU, TypeOK, Locations, FramesSet, SessionState
  <2>6. FramesOK'
    BY <1>0, <1>2, <2>2, <2>4, ZenonT(60)
    DEF CallCPU, TypeOK, FramesOK, InCall, FramesSet, Top
  <2> QED
    BY <2>5, <2>6 DEF TypeInv
<1>3. CASE CheckForBreak(t)
  BY <1>0, <1>3
  DEF CheckForBreak, TypeInv, TypeOK, Locations, FramesOK, InCall
<1>4. CASE CallCPUReturn(t)
  <2>1. frames[t] # << >>
    BY <1>0, <1>4 DEF CallCPUReturn, FramesOK, InCall
  <2>2. Top(t).state \in SessionState
    BY <1>0, <2>1, TopType
  <2>3. CASE Top(t).back = "run"
    <3>1. FramesPopped(t)
      BY <1>0, <1>4, <2>1, <2>3, PopFrame DEF CallCPUReturn
    <3>2. TypeOK'
      BY <1>0, <1>4, <2>2, <2>3, <3>1
      DEF CallCPUReturn, TypeOK, Locations, FramesPopped
    <3>3. FramesOK'
      <4>1. pc' = [pc EXCEPT ![t] = "run"] /\ UNCHANGED dlgReturn
        BY <1>4, <2>3 DEF CallCPUReturn
      <4>2. ~InCall(t)' /\ pc'[t] # "dialog"
        BY <1>0, <4>1 DEF TypeOK, InCall
      <4> QED
        BY <1>0, <4>1, <4>2, <3>1, FramesPoppedOK
    <3> QED
      BY <3>2, <3>3 DEF TypeInv
  <2>4. CASE Top(t).back # "run"
    <3>1. TypeOK'
      BY <1>0, <1>4, <2>2, <2>4
      DEF CallCPUReturn, TypeOK, Locations
    <3>2. FramesOK'
      BY <1>0, <1>4, <2>4 DEF CallCPUReturn, TypeOK, FramesOK, InCall
    <3> QED
      BY <3>1, <3>2 DEF TypeInv
  <2> QED
    BY <2>3, <2>4
<1>5. CASE SubroutineAgain(t)
  <2> DEFINE f == [Top(t) EXCEPT !.old = Absorb(@, sus)]
  <2>1. frames[t] # << >>
    BY <1>0, <1>5 DEF SubroutineAgain, FramesOK, InCall
  <2>2. /\ Top(t) \in Frame
        /\ Absorb(Top(t).old, sus) \in Counters
    BY <1>0, <2>1, TopType, AbsorbType DEF TypeOK
  <2>3. f \in Frame /\ f.back = Top(t).back
    BY <2>2 DEF Frame
  <2>4. SetTop(t, f)
    BY <1>5 DEF SubroutineAgain
  <2> HIDE DEF f
  <2>5. FramesSet(t, f)
    BY <1>0, <2>1, <2>3, <2>4, SetTopFrame
  <2>6. Top(t).nest + 1 \in Nat
    BY <1>0, <2>1, TopType
  <2>7. TypeOK'
    BY <1>0, <1>5, <2>5, <2>6, ZeroType
    DEF SubroutineAgain, TypeOK, Locations, FramesSet
  <2>8. FramesOK'
    BY <1>0, <1>5, <2>3, <2>5, ZenonT(60)
    DEF SubroutineAgain, TypeOK, FramesOK, InCall, FramesSet, Top
  <2> QED
    BY <2>7, <2>8 DEF TypeInv
<1>6. CASE SubroutineDone(t)
  <2>1. frames[t] # << >>
    BY <1>0, <1>6 DEF SubroutineDone, FramesOK, InCall
  <2>2. /\ Top(t).nest \in Nat
        /\ Top(t).back \in {"run", "exec", "sysCall", "stopped", "failed"}
        /\ ClipExternal(Absorb(Top(t).old, sus)) \in Counters
        /\ Len(frames[t]) \in 1..Len(frames[t])
    BY <1>0, <2>1, TopType, AbsorbType DEF TypeOK
  <2>3. FramesPopped(t)
    BY <1>0, <1>6, <2>1, PopFrame DEF SubroutineDone
  <2>4. pc' = [pc EXCEPT ![t] = Top(t).back] /\ UNCHANGED dlgReturn
    BY <1>6 DEF SubroutineDone
  <2>5. TypeOK'
    BY <1>0, <1>6, <2>2, <2>3
    DEF SubroutineDone, TypeOK, Locations, FramesPopped
  <2>6. InCall(t)' => Len(frames[t]) > 1
    BY <1>0, <2>2, <2>4 DEF TypeOK, FramesOK, InCall, Top
  <2>7. pc'[t] # "dialog" /\ \A u \in Threads : u # t => pc'[u] = pc[u]
    BY <1>0, <2>2, <2>4 DEF TypeOK
  <2>8. FramesOK'
    BY <1>0, <2>3, <2>4, <2>6, <2>7, FramesPoppedOK
  <2> QED
    BY <2>5, <2>8 DEF TypeInv
<1>7. CASE SubroutineReturn(t)
  BY <1>0, <1>7, SMTT(40)
  DEF SubroutineReturn, OpcodeAsks, TypeInv, TypeOK, Counters, Locations,
      FramesOK, InCall
<1>8. CASE HostSignalSend(t)
  <2>1. Bump(sus, "ext", 1) \in Counters
    BY <1>0, BumpType DEF TypeOK
  <2>2. sus' \in Counters
    BY <1>8, <2>1 DEF HostSignalSend, Counters
  <2> QED
    BY <1>0, <1>8, <2>2
    DEF HostSignalSend, OpcodeAsks, TypeInv, TypeOK, Locations, FramesOK,
        InCall
<1>9. CASE HostSignalResume(t)
  <2>1. Bump(sus, "ext", -1) \in Counters
    BY <1>0, BumpType DEF TypeOK
  <2> QED
    BY <1>0, <1>9, <2>1
    DEF HostSignalResume, TypeInv, TypeOK, FramesOK, InCall
<1>10. CASE Throw(t)
  <2>1. frames[t] # << >>
    BY <1>0, <1>10 DEF Throw, FramesOK, InCall
  <2>2. Top(t).state \in SessionState
    BY <1>0, <2>1, TopType
  <2>3. CASE Top(t).back = "run"
    <3>1. FramesPopped(t)
      BY <1>0, <1>10, <2>1, <2>3, PopFrame DEF Throw
    <3>2. TypeOK'
      <4>1. /\ fState' \in SessionState
            /\ pc' = [pc EXCEPT ![t] = "resetting"]
            /\ frames' \in [Threads -> Seq(Frame)]
        BY <1>10, <2>2, <2>3, <3>1 DEF Throw, FramesPopped
      <4> QED
        BY <1>0, <1>10, <4>1 DEF Throw, TypeOK, Locations
    <3>3. pc' = [pc EXCEPT ![t] = "resetting"] /\ UNCHANGED dlgReturn
      BY <1>10, <2>3 DEF Throw
    <3>4. ~InCall(t)' /\ pc'[t] # "dialog"
      BY <1>0, <3>3 DEF TypeOK, InCall
    <3>5. FramesOK'
      BY <1>0, <3>1, <3>3, <3>4, FramesPoppedOK
    <3> QED
      BY <3>2, <3>5 DEF TypeInv
  <2>4. CASE Top(t).back # "run"
    <3>1. TypeOK'
      BY <1>0, <1>10, <2>2, <2>4 DEF Throw, TypeOK, Locations
    <3>2. FramesOK'
      BY <1>0, <1>10, <2>4 DEF Throw, TypeOK, FramesOK, InCall
    <3> QED
      BY <3>1, <3>2 DEF TypeInv
  <2> QED
    BY <2>3, <2>4
<1>11. CASE Unwind(t)
  <2>1. frames[t] # << >>
    BY <1>0, <1>11 DEF Unwind, FramesOK, InCall
  <2>2. Top(t).nest \in Nat /\ Len(frames[t]) \in Nat \ {0}
    BY <1>0, <2>1, TopType
  <2>3. FramesPopped(t)
    BY <1>0, <1>11, <2>1, PopFrame DEF Unwind
  <2>4. /\ pc' = [pc EXCEPT ![t] = IF Len(frames[t]) = 1
                                   THEN "resetting" ELSE "throw"]
        /\ UNCHANGED dlgReturn
    BY <1>11 DEF Unwind
  <2>5. TypeOK'
    BY <1>0, <1>11, <2>2, <2>3 DEF Unwind, TypeOK, Locations, FramesPopped
  <2>6. /\ InCall(t)' => Len(frames[t]) > 1
        /\ pc'[t] # "dialog"
    <3>1. pc'[t] = IF Len(frames[t]) = 1 THEN "resetting" ELSE "throw"
      BY <1>0, <2>4 DEF TypeOK
    <3>2. \A n \in Nat \ {0} : n # 1 => n > 1
      OBVIOUS
    <3>3. Len(frames[t]) # 1 => Len(frames[t]) > 1
      BY <2>2, <3>2, Zenon
    <3> QED
      BY <3>1, <3>3, Zenon DEF InCall
  <2>7. FramesOK'
    BY <1>0, <2>3, <2>4, <2>6, FramesPoppedOK DEF TypeOK
  <2> QED
    BY <2>5, <2>7 DEF TypeInv
<1>12. CASE ResetAfterThrow(t)
  BY <1>0, <1>12, ClearType
  DEF ResetAfterThrow, Reset, TypeInv, TypeOK, Locations, FramesOK, InCall
<1> QED
  BY <1>1, <1>2, <1>3, <1>4, <1>5, <1>6, <1>7, <1>8, <1>9, <1>10, <1>11, <1>12
  DEF ExecStep

\* The other steps of the CPU thread: Run, dialogs, and what it executes.
LEMMA TypeCpu ==
  ASSUME TypeInv, CpuStep PROVE TypeInv'
<1>0. TypeOK /\ FramesOK /\ Cpu \in Threads
  BY DEF TypeInv
<1>1. ASSUME Start PROVE FramesOK' /\ frames' \in [Threads -> Seq(Frame)]
  <2> DEFINE f == [old |-> Zero, nest |-> fNestLevel, state |-> fState,
                   back |-> "run"]
  <2>1. f \in Frame
    BY <1>0, ZeroType DEF Frame, TypeOK
  <2>2. Push(Cpu, f) /\ pc' = [pc EXCEPT ![Cpu] = "callCPU"]
    BY <1>1 DEF Start
  <2>3. FramesPushed(Cpu, f)
    BY <1>0, <2>1, <2>2, PushFrame DEF TypeOK
  <2>4. \A u \in Threads : InCall(u)' => frames'[u] # << >>
    BY <1>0, <2>2, <2>3 DEF TypeOK, FramesOK, InCall, FramesPushed
  <2>5. \A i \in 1..Len(frames'[Cpu]) :
          frames'[Cpu][i].back \in {"exec", "sysCall"} => i > 1
    BY <1>0, <2>3 DEF FramesOK, FramesPushed
  <2>6. \A u \in Threads : \A i \in 1..Len(frames'[u]) :
          frames'[u][i].back \in {"exec", "sysCall"} => i > 1
    BY <1>0, <2>3, <2>5 DEF FramesOK, FramesPushed
  <2>7. pc'[Cpu] # "dialog"
    BY <1>0, <2>2 DEF TypeOK
  <2> QED
    BY <2>3, <2>4, <2>6, <2>7 DEF FramesOK, FramesPushed
<1>2. ASSUME Park \/ Finish, pc[Cpu] \in {"run", "parked"}
      PROVE  FramesOK'
  BY <1>0, <1>2 DEF Park, Finish, TypeOK, FramesOK, InCall
<1>3. ASSUME Park \/ Start \/ Finish, pc[Cpu] \in {"run", "parked"},
             UNCHANGED <<sus, fBreakOnSysCall, fNestLevel, fStop, dialogs,
                         snapshot, atSysCall, how, idleSync>>
      PROVE  TypeInv'
  <2>1. FramesOK' /\ frames' \in [Threads -> Seq(Frame)]
    BY <1>0, <1>1, <1>2, <1>3 DEF Park, Finish, TypeOK
  <2>2. fState' \in SessionState /\ waiting' \subseteq Threads
    BY <1>0, <1>3 DEF Park, Start, Finish, TypeOK, SessionState
  <2>3. \E l \in {"parked", "callCPU", "done"} : pc' = [pc EXCEPT ![Cpu] = l]
    BY <1>3 DEF Park, Start, Finish
  <2>4. TypeOK'
    BY <1>0, <1>3, <2>1, <2>2, <2>3 DEF TypeOK, Locations
  <2> QED
    BY <2>1, <2>4 DEF TypeInv
<1>4. CASE RunLoop
  BY <1>3, <1>4 DEF RunLoop
<1>5. CASE WakeInRun
  BY <1>3, <1>5 DEF WakeInRun
<1>6. CASE BlockOnDialog
  <2>1. TypeOK'
    BY <1>0, <1>6 DEF BlockOnDialog, TypeOK, SessionState, Locations
  <2>2. FramesOK'
    BY <1>0, <1>6 DEF BlockOnDialog, TypeOK, FramesOK, InCall
  <2> QED
    BY <2>1, <2>2 DEF TypeInv
<1>7. CASE WakeInDialog
  <2>1. /\ dlgReturn.state \in SessionState
        /\ dlgReturn.back \in {"exec", "cycle", "resetting"}
    BY <1>0 DEF TypeOK
  <2>2. TypeOK'
    BY <1>0, <1>7, <2>1 DEF WakeInDialog, TypeOK, Locations
  <2>3. FramesOK'
    BY <1>0, <1>7, <2>1 DEF WakeInDialog, TypeOK, FramesOK, InCall
  <2> QED
    BY <2>2, <2>3 DEF TypeInv
<1>8. CASE SystemCall
  BY <1>0, <1>8 DEF SystemCall, TypeInv, TypeOK, Locations, FramesOK, InCall
<1>9. CASE StopAtSysCall
  BY <1>0, <1>9, ZenonT(60)
  DEF StopAtSysCall, TypeInv, TypeOK, Counters, Locations, FramesOK, InCall
<1>10. CASE PassSysCall
  BY <1>0, <1>10 DEF PassSysCall, TypeInv, TypeOK, Locations, FramesOK, InCall
<1>11. CASE EnterDebugger
  <2>1. Bump(sus, "dbg", 1) \in Counters
    BY <1>0, BumpType DEF TypeOK
  <2> QED
    BY <1>0, <1>11, <2>1
    DEF EnterDebugger, OpcodeAsks, TypeInv, TypeOK, Locations, FramesOK, InCall
<1>12. CASE ScheduledReset
  BY <1>0, <1>12, ClearType
  DEF ScheduledReset, Reset, OpcodeAsks, TypeInv, TypeOK, Locations, FramesOK,
      InCall
<1> QED
  BY <1>4, <1>5, <1>6, <1>7, <1>8, <1>9, <1>10, <1>11, <1>12 DEF CpuStep

\* The steps of the idle handler.
LEMMA TypeUi ==
  ASSUME TypeInv, UiStep PROVE TypeInv'
<1>0. TypeOK /\ FramesOK /\ UiThread \in Clients /\ UiThread # Cpu
  BY SessionAssumption DEF TypeInv
<1>1. CASE ShowDialog
  BY <1>0, <1>1
  DEF ShowDialog, Enter, TypeInv, TypeOK, Locations, FramesOK, InCall
<1>2. CASE AnswerDialog
  BY <1>0, <1>2 DEF AnswerDialog, TypeInv, TypeOK, Locations, FramesOK, InCall
<1>3. CASE UnblockDialog
  BY <1>0, <1>3
  DEF UnblockDialog, Leave, TypeInv, TypeOK, Locations, FramesOK, InCall
<1>4. CASE GetSuspendState
  <2>1. [sus EXCEPT !.dbg = 0] \in Counters
    <3>1. 0 \in Int4
      BY DEF Int4
    <3> QED
      BY <1>0, <3>1 DEF TypeOK, Counters
  <2> QED
    BY <1>0, <1>4, <2>1
    DEF GetSuspendState, TypeInv, TypeOK, Locations, FramesOK, InCall
<1>5. CASE SetSuspendState
  BY <1>0, <1>5, ZeroType
  DEF SetSuspendState, TypeInv, TypeOK, Locations, FramesOK, InCall
<1> QED
  BY <1>1, <1>2, <1>3, <1>4, <1>5 DEF UiStep

\* The variables of the session keep their types, the 4-bit counters their
\* width, and no thread returns from a call it has not made.
THEOREM TypeCorrect == Spec => []TypeOK
<1>1. TypeInv /\ [Next]_vars => TypeInv'
  <2> SUFFICES ASSUME TypeInv, [Next]_vars PROVE TypeInv'
    OBVIOUS
  <2>1. CASE UNCHANGED vars
    BY <2>1 DEF vars, TypeInv, TypeOK, FramesOK, InCall
  <2>2. CASE Terminated
    BY <2>2 DEF Terminated, vars, TypeInv, TypeOK, FramesOK, InCall
  <2> QED
    BY <2>1, <2>2, TypeClient, TypeExec, TypeCpu, TypeUi DEF Next
<1>2. TypeInv => TypeOK
  BY DEF TypeInv
<1> QED
  BY <1>1, <1>2, TypeInit, PTL DEF Spec

-----------------------------------------------------------------------------
(* Stops exclude the CPU thread                                            *)

(* The clients keep to the rules: all work under idle_sync, none calls the *)
(* ROM after a stop that failed, none destroys the session; there are no   *)
(* dialogs, and only the CPU thread throws exceptions.                     *)
Orderly ==
  /\ Synced = Clients
  /\ Destroyer = NoOne
  /\ Heedless = {}
  /\ Features \subseteq {"reset", "throw", "debugger", "signal", "syscall", "sub"}

\* As far as the features go.
Undisrupted == "dialog" \notin Features /\ "rpcThrow" \notin Features

\* And if the CPU thread throws none either.
Unthrown == "throw" \notin Features

ClientPlaces ==
  {"idle", "suspending", "stopped", "dbgset", "callCPU", "exec", "cycle",
   "uncall", "subLoop"}
CpuPlaces ==
  {"run", "parked", "callCPU", "exec", "sysCall", "cycle", "uncall",
   "subLoop"}
  \cup (IF "throw" \in Features THEN {"throw", "unwind", "resetting"} ELSE {})

Places ==
  /\ pc[Cpu] \in CpuPlaces
  /\ \A c \in Clients : pc[c] \in ClientPlaces
  /\ \A t \in Threads : InCall(t) <=> frames[t] # << >>
  /\ ~fStop /\ dialog = "none"

\* idle_sync lets one client work at a time.
OneClient == \A c \in Clients : pc[c] # "idle" => idleSync = c

\* Where the calls of a thread were made from.
Backs ==
  /\ \A t \in Threads : \A i \in 1..Len(frames[t]) :
       (i = 1) <=> (frames[t][i].back \notin {"exec", "sysCall"})
  /\ frames[Cpu] # << >> => frames[Cpu][1].back = "run"
  /\ \A c \in Clients : frames[c] # << >> => frames[c][1].back = "stopped"
  /\ \A c \in Clients : \A i \in 1..Len(frames[c]) :
       frames[c][i].back # "sysCall"
  /\ pc[Cpu] \in {"subLoop", "unwind"} => Len(frames[Cpu]) > 1

Held == \A c \in Clients : Holding(c) => pc[Cpu] = "parked"

\* The CPU thread waits, perhaps for a stop that is not counted any more.
Awaited == "throw" \in Features /\ Cpu \in waiting

\* fState, and what CallCPU will make of it.
States ==
  /\ fState \in {kRunning, kSuspended}
  /\ fState = kSuspended => pc[Cpu] = "parked"
  /\ \A i \in 1..Len(frames[Cpu]) : frames[Cpu][i].state = kRunning
  /\ \A c \in Clients :
       /\ \A i \in 1..Len(frames[c]) :
            frames[c][i].state = IF i = 1 THEN kSuspended ELSE kRunning
       /\ pc[c] \in {"exec", "cycle", "uncall"} => fState = kRunning
       /\ pc[c] \in {"callCPU", "subLoop"} => fState = Top(c).state
       /\ pc[c] \in {"stopped", "dbgset"} => fState = kSuspended
  /\ fState = kSuspended /\ fNestLevel = 0 => sus # Zero \/ Awaited

\* A client's ROM calls keep the session nested; it has stopped the thread
\* at a system call for them.
Nested ==
  \A c \in Clients :
    /\ frames[c] # << >> => fNestLevel > 0 /\ how[c] = kStopOnSysCall
    /\ \A i \in 1..Len(frames[c]) : i > 1 => frames[c][i].nest > 0

\* n UI suspensions are counted, all in one place: in fSuspendState, or in
\* the counters that one of t's ROM calls has put aside.
Counted(t, n) ==
  \E k \in 0..Len(frames[t]) :
    /\ sus.ui = IF k = 0 THEN n ELSE 0
    /\ \A i \in 1..Len(frames[t]) :
         frames[t][i].old.ui = IF i = k THEN n ELSE 0

(* How many of one stop are counted.  An exception of the CPU thread drops *)
(* the counters that its ROM calls have put aside, with a stop in them     *)
(* that is already asked for: it is granted all the same, later and for    *)
(* another reason.                                                         *)
Perhaps(h) == IF "throw" \in Features /\ h = kStopNow THEN {0, 1} ELSE {1}
Asked(h) == IF h = kStopNow THEN Perhaps(h) ELSE {0}

Counts ==
  /\ frames[Cpu] # << >> => frames[Cpu][1].old.ui = 0
  /\ (\A c \in Clients : pc[c] = "idle") => Counted(Cpu, 0)
  /\ \A c \in Clients :
       /\ pc[c] = "suspending" => \E n \in Asked(how[c]) : Counted(Cpu, n)
       /\ Holding(c) => \E n \in Perhaps(how[c]) : Counted(c, n)
       /\ pc[c] = "dbgset" => how[c] = kStopNow /\ snapshot.ui = sus.ui

\* A stop that is not counted any more lasts because nobody wakes the CPU
\* thread until it is resumed, or because the thread parks again.
Lasts ==
  \A c \in Clients :
    pc[c] # "idle" /\ how[c] = kStopNow /\ pc[Cpu] = "parked" /\ sus.ui = 0
      => IF fState = kRunning THEN fNestLevel > 0 ELSE Cpu \in waiting

IInv ==
  /\ TypeOK
  /\ Places
  /\ OneClient
  /\ Backs
  /\ Held
  /\ States
  /\ Nested
  /\ Counts
  /\ Lasts

LEMMA OrderlyInit == ASSUME Orderly PROVE Init => IInv
<1> SUFFICES ASSUME Init PROVE IInv
  OBVIOUS
<1>1. TypeOK
  BY TypeInit DEF TypeInv
<1>2. /\ \A t \in Threads : frames[t] = << >> /\ Len(frames[t]) = 0
      /\ pc[Cpu] = "run"
      /\ \A c \in Clients : pc[c] = "idle"
      /\ sus.ui = 0
  BY SessionAssumption, EmptySeq DEF Init, Zero
<1>3. Places /\ OneClient /\ Held
  BY <1>2 DEF Init, Places, OneClient, Held, Holding, InCall, ClientPlaces,
              CpuPlaces
<1>4. Backs /\ States /\ Nested
  BY <1>2 DEF Init, Backs, States, Nested, kRunning, kSuspended
<1>5. Counted(Cpu, 0)
  BY <1>2 DEF Counted
<1>6. Counts
  BY <1>2, <1>5 DEF Counts, Holding
<1>7. Lasts
  BY <1>2 DEF Lasts
<1> QED
  BY <1>1, <1>3, <1>4, <1>6, <1>7 DEF IInv

\* While the CPU thread is not parked, no client is in a call or has a frame.
LEMMA CpuAlone ==
  ASSUME IInv, pc[Cpu] # "parked", NEW c \in Clients
  PROVE  /\ ~Holding(c) /\ ~InCall(c) /\ frames[c] = << >>
         /\ pc[c] \in {"idle", "suspending"}
<1>1. ~Holding(c)
  BY DEF IInv, Held
<1> QED
  BY <1>1, SessionAssumption DEF IInv, Places, Holding, InCall, ClientPlaces

\* A client in a call holds the stop, alone.
LEMMA ClientAlone ==
  ASSUME IInv, NEW c \in Clients, Holding(c)
  PROVE  /\ pc[Cpu] = "parked" /\ frames[Cpu] = << >>
         /\ idleSync = c
         /\ \A d \in Clients : d # c => pc[d] = "idle" /\ frames[d] = << >>
<1>1. pc[Cpu] = "parked" /\ frames[Cpu] = << >>
  BY DEF IInv, Held, Places, InCall
<1>2. pc[c] # "idle"
  BY SessionAssumption DEF IInv, Places, Holding, InCall
<1>3. idleSync = c
  BY <1>2 DEF IInv, OneClient
<1>4. \A d \in Clients : d # c => pc[d] = "idle"
  BY <1>3 DEF IInv, OneClient
<1> QED
  BY <1>1, <1>3, <1>4 DEF IInv, Places, InCall

\* The steps of a thread that executes, without a call or a return.
LEMMA QuietStep ==
  ASSUME IInv, TypeOK', NEW t \in Threads,
         NEW l \in {"exec", "sysCall", "cycle", "uncall"},
         pc[t] \in {"exec", "sysCall", "cycle"},
         l = "sysCall" => t = Cpu,
         pc' = [pc EXCEPT ![t] = l],
         sus'.ui = sus.ui,
         fNestLevel' = fNestLevel \/ t = Cpu,
         UNCHANGED <<fState, fStop, dialog, snapshot, how, frames, idleSync>>
  PROVE  IInv'
<1>0. pc' \in [Threads -> Locations] /\ pc \in [Threads -> Locations]
  BY DEF IInv, TypeOK
<1>1. Places'
  BY <1>0, SessionAssumption
  DEF IInv, Places, InCall, ClientPlaces, CpuPlaces
<1>2. \A c \in Clients : Holding(c)' <=> Holding(c)
  BY <1>0, SessionAssumption DEF Holding, IInv, Places, InCall
<1>3. OneClient' /\ Backs' /\ Held'
  BY <1>0, <1>2, SessionAssumption DEF IInv, OneClient, Backs, Held
<1>4. fState = kRunning
  BY SessionAssumption DEF IInv, Places, States, ClientPlaces
<1>5. States'
  BY <1>0, <1>4, SessionAssumption DEF IInv, States, kRunning, kSuspended, Top
<1>6. Nested'
  <2>1. CASE fNestLevel' = fNestLevel
    BY <2>1 DEF IInv, Nested
  <2>2. CASE t = Cpu
    <3>1. \A c \in Clients : frames[c] = << >>
      BY <2>2, CpuAlone
    <3> QED
      BY <3>1, EmptySeq DEF Nested
  <2> QED
    BY <2>1, <2>2
<1>7. \A u, n : Counted(u, n)' <=> Counted(u, n)
  BY DEF Counted
<1>8. Counts'
  BY <1>0, <1>2, <1>7, SessionAssumption DEF IInv, Counts
<1>9. Lasts'
  <2>1. CASE t = Cpu
    BY <1>0, <2>1 DEF Lasts
  <2>2. CASE t \in Clients
    <3>1. frames[t] # << >> /\ Holding(t)
      BY SessionAssumption DEF IInv, Places, InCall, Holding
    <3>2. how[t] = kStopOnSysCall
      BY <2>2, <3>1 DEF IInv, Nested
    <3>3. \A d \in Clients : d # t => pc'[d] = "idle"
      BY <1>0, <2>2, <3>1, ClientAlone
    <3> QED
      BY <3>2, <3>3 DEF Lasts, kStopNow, kStopOnSysCall
  <2> QED
    BY <2>1, <2>2
<1> QED
  BY <1>1, <1>3, <1>5, <1>6, <1>8, <1>9 DEF IInv

\* The part that SuspendThread and its wake-up have in common.
Asks(c, h, s) ==
  /\ h \in StopMethod
  /\ s \in Counters
  /\ \/ pc[c] = "idle" /\ idleSync = NoOne /\ s = Request(sus, h)
     \/ pc[c] = "suspending" /\ h = how[c] /\ s = sus
  /\ how' = [how EXCEPT ![c] = h]
  /\ UNCHANGED <<fState, fNestLevel, fStop, dialogs, snapshot, atSysCall,
                 frames>>

LEMMA AskedCount ==
  ASSUME IInv, NEW c \in Clients, NEW h, NEW s, Asks(c, h, s)
  PROVE  /\ \A d \in Clients : d # c => pc[d] = "idle"
         /\ \A d \in Clients : ~Holding(d) /\ frames[d] = << >>
         /\ \E n \in Asked(h), k \in 0..Len(frames[Cpu]) :
              /\ s.ui = IF k = 0 THEN n ELSE 0
              /\ \A i \in 1..Len(frames[Cpu]) :
                   frames[Cpu][i].old.ui = IF i = k THEN n ELSE 0
<1>0. /\ Places /\ OneClient /\ Counts /\ TypeOK
      /\ Len(frames[Cpu]) \in Nat
  <2>1. Cpu \in Threads
    OBVIOUS
  <2> QED
    BY <2>1, LenProperties DEF IInv, TypeOK
<1>1. \A d \in Clients : d # c => pc[d] = "idle"
  BY <1>0, SessionAssumption DEF Asks, OneClient
<1>2. \A d \in Clients : ~Holding(d) /\ frames[d] = << >>
  BY <1>0, <1>1 DEF Asks, Places, Holding, InCall
<1>3. CASE pc[c] = "idle" /\ s = Request(sus, h)
  <2>1. Counted(Cpu, 0)
    BY <1>0, <1>1, <1>3 DEF Counts
  <2>2. sus.ui = 0 /\ \A i \in 1..Len(frames[Cpu]) : frames[Cpu][i].old.ui = 0
    BY <2>1 DEF Counted
  <2>3. s.ui = IF h = kStopNow THEN 1 ELSE 0
    <3>1. Wrap4(1) = 1
      BY DEF Wrap4
    <3> QED
      BY <1>0, <1>3, <2>2, <3>1
      DEF Request, Bump, TypeOK, Counters
  <2>4. 0 \in 0..Len(frames[Cpu])
    BY <1>0
  <2> DEFINE n == IF h = kStopNow THEN 1 ELSE 0
  <2>5. n \in Asked(h)
    BY DEF Asked, Perhaps
  <2>6. \A i \in 1..Len(frames[Cpu]) : i # 0
    BY <1>0
  <2>7. s.ui = n
    BY <2>3
  <2> HIDE DEF n
  <2> QED
    BY <1>0, <1>1, <1>2, <2>2, <2>4, <2>5, <2>6, <2>7
<1>4. CASE pc[c] = "suspending" /\ h = how[c] /\ s = sus
  BY <1>0, <1>1, <1>2, <1>4 DEF Counts, Counted
<1> QED
  BY <1>3, <1>4 DEF Asks

LEMMA AwaitStep ==
  ASSUME IInv, TypeOK', Orderly, NEW c \in Clients, NEW h, NEW s,
         Asks(c, h, s), AwaitStop(c, h, s)
  PROVE  IInv'
<1>0. /\ pc \in [Threads -> Locations] /\ how \in [Clients -> StopMethod]
      /\ c \in Threads /\ c # Cpu
      /\ pc' = [pc EXCEPT ![c] = "suspending"]
      /\ how' = [how EXCEPT ![c] = h]
      /\ idleSync' = c
      /\ sus' = s
      /\ UNCHANGED <<fState, fNestLevel, fStop, dialog, snapshot, frames>>
  BY SessionAssumption DEF IInv, TypeOK, Asks, AwaitStop, Enter, Orderly
<1>1. /\ \A d \in Clients : d # c => pc[d] = "idle"
      /\ \A d \in Clients : ~Holding(d) /\ frames[d] = << >>
  BY AskedCount
<1>2. Places' /\ OneClient' /\ Backs'
  BY <1>0, <1>1 DEF IInv, Places, OneClient, Backs, InCall, ClientPlaces
<1>3. \A d \in Clients : ~Holding(d)'
  BY <1>0, <1>1 DEF Holding
<1>4. fState = kRunning
  BY DEF AwaitStop
<1>5. Held' /\ States' /\ Nested'
  BY <1>0, <1>1, <1>3, <1>4, EmptySeq
  DEF IInv, Held, States, Nested, kRunning, kSuspended
<1>6. \E n \in Asked(h) : Counted(Cpu, n)'
  <2>1. PICK n \in Asked(h), k \in 0..Len(frames[Cpu]) :
          /\ s.ui = IF k = 0 THEN n ELSE 0
          /\ \A i \in 1..Len(frames[Cpu]) :
               frames[Cpu][i].old.ui = IF i = k THEN n ELSE 0
    BY AskedCount
  <2>2. Counted(Cpu, n)'
    BY <1>0, <2>1 DEF Counted
  <2> QED
    BY <2>2
<1>7. Counts'
  BY <1>0, <1>1, <1>3, <1>6 DEF IInv, Counts, Asked, Perhaps
<1>8. Lasts'
  <2>1. \A d \in Clients : d # c => pc'[d] = "idle"
    BY <1>0, <1>1
  <2>2. ASSUME h = kStopNow, pc[Cpu] = "parked", s.ui = 0 PROVE fNestLevel > 0
    <3>2. CASE pc[c] = "suspending" /\ how[c] = kStopNow /\ s = sus
      BY <1>4, <2>2, <3>2 DEF IInv, Lasts
    <3>3. CASE pc[c] = "idle" /\ s = Request(sus, h)
      <4>1. Counted(Cpu, 0) /\ sus \in Counters
        BY <1>1, <3>3 DEF IInv, Counts, TypeOK
      <4>2. sus.ui = 0 /\ Wrap4(0 + 1) = 1
        BY <4>1 DEF Counted, Wrap4
      <4>3. s.ui = 1
        BY <2>2, <3>3, <4>1, <4>2 DEF Request, Bump, Counters
      <4> QED
        BY <2>2, <4>3
    <3> QED
      BY <2>2, <3>2, <3>3 DEF Asks
  <2> QED
    BY <1>0, <1>4, <2>1, <2>2 DEF Lasts
<1> QED
  BY <1>2, <1>5, <1>7, <1>8 DEF IInv

LEMMA SettleStep ==
  ASSUME IInv, TypeOK', Orderly, NEW c \in Clients, NEW h, NEW s,
         Asks(c, h, s), Settle(c, h, s)
  PROVE  IInv'
<1> DEFINE granted == h = kStopNow \/ (fState = kSuspended /\ s.sys # 0)
<1>0. /\ pc \in [Threads -> Locations] /\ how \in [Clients -> StopMethod]
      /\ c \in Threads /\ c # Cpu
      /\ pc' = [pc EXCEPT ![c] = IF granted THEN "stopped" ELSE "idle"]
      /\ how' = [how EXCEPT ![c] = h]
      /\ granted => idleSync' = c
      /\ sus' = IF granted /\ h = kStopOnSysCall THEN Bump(s, "ui", 1) ELSE s
      /\ UNCHANGED <<fState, fNestLevel, fStop, dialog, snapshot, frames>>
  BY SessionAssumption DEF IInv, TypeOK, Asks, Settle, Enter, Orderly
<1>1. /\ \A d \in Clients : d # c => pc[d] = "idle"
      /\ \A d \in Clients : ~Holding(d) /\ frames[d] = << >>
  BY AskedCount
<1>2. fState = kSuspended /\ pc[Cpu] = "parked" /\ frames[Cpu] = << >>
  BY DEF Settle, IInv, States, Places, InCall
<1>3. s.ui \in Asked(h)
  <2>1. 0..Len(frames[Cpu]) = {0}
    BY <1>2, EmptySeq
  <2> QED
    BY <2>1, AskedCount
<1>4. h \in {kStopNow, kStopOnSysCall} /\ kStopNow # kStopOnSysCall
  BY DEF Asks, StopMethod, kStopNow, kStopOnSysCall
<1>5. IF granted THEN sus'.ui \in Perhaps(h) ELSE sus'.ui = 0
  <2>1. Wrap4(0 + 1) = 1
    BY DEF Wrap4
  <2>2. CASE h = kStopNow
    BY <1>0, <1>3, <2>2, <1>4 DEF Asked
  <2>3. CASE h # kStopNow
    BY <1>0, <1>3, <1>4, <2>1, <2>3 DEF Bump, Asks, Counters, Asked, Perhaps
  <2> QED
    BY <2>2, <2>3
<1>13. ASSUME granted, sus'.ui = 0
       PROVE  /\ Awaited'
              /\ h = kStopNow => Cpu \in waiting'
  <2>1. h = kStopNow /\ "throw" \in Features
    BY <1>5, <1>13 DEF Perhaps
  <2>2. s = sus /\ pc[c] = "suspending" /\ how[c] = h
    <3>1. ASSUME pc[c] = "idle", s = Request(sus, h) PROVE FALSE
      <4>1. Counted(Cpu, 0) /\ sus \in Counters
        BY <1>1, <3>1 DEF IInv, Counts, TypeOK
      <4>2. sus.ui = 0 /\ Wrap4(0 + 1) = 1
        BY <4>1 DEF Counted, Wrap4
      <4>3. s.ui = 1
        BY <2>1, <3>1, <4>1, <4>2 DEF Request, Bump, Counters
      <4> QED
        BY <1>0, <1>4, <1>13, <2>1, <4>3
    <3> QED
      BY <3>1 DEF Asks
  <2>3. sus.ui = 0
    BY <1>0, <1>4, <1>13, <2>1, <2>2
  <2>4. Cpu \in waiting
    BY <1>2, <2>1, <2>2, <2>3 DEF IInv, Lasts, kRunning, kSuspended
  <2> QED
    BY <2>1, <2>4 DEF Settle, Awaited
<1>6. fNestLevel = 0 => sus' # Zero \/ Awaited'
  <2>1. CASE granted
    BY <1>13, <2>1 DEF Zero
  <2>2. CASE ~granted
    <3>1. s = sus
      <4>1. (Request(sus, kStopOnSysCall)).sys # 0
        BY <1>4 DEF Request, IInv, TypeOK, Counters
      <4> QED
        BY <1>2, <1>4, <2>2, <4>1 DEF Asks
    <3> QED
      BY <1>0, <1>2, <2>2, <3>1 DEF IInv, States, Awaited, Settle
  <2> QED
    BY <2>1, <2>2
<1>7. Places' /\ Backs' /\ Nested'
  BY <1>0, <1>1, EmptySeq
  DEF IInv, Places, Backs, Nested, InCall, ClientPlaces
<1>8. \A d \in Clients : Holding(d)' <=> d = c /\ granted
  BY <1>0, <1>1 DEF Holding
<1>9. OneClient' /\ Held'
  BY <1>0, <1>1, <1>2, <1>8 DEF OneClient, Held
<1>10. States'
  BY <1>0, <1>1, <1>2, <1>6, EmptySeq DEF IInv, States
<1>11. /\ Counted(Cpu, sus.ui)'
       /\ Counted(c, sus.ui)'
  <2>1. frames'[Cpu] = << >> /\ frames'[c] = << >>
    BY <1>0, <1>1, <1>2
  <2>2. Len(<< >>) = 0 /\ 0 \in 0..0 /\ 1..0 = {}
    BY EmptySeq
  <2> QED
    BY <2>1, <2>2 DEF Counted
<1>12. Counts'
  <2>1. CASE granted
    BY <1>0, <1>1, <1>2, <1>5, <1>8, <1>11, <2>1 DEF Counts
  <2>2. CASE ~granted
    BY <1>0, <1>1, <1>2, <1>5, <1>8, <1>11, <2>2 DEF Counts
  <2> QED
    BY <2>1, <2>2
<1>14. Lasts'
  <2>1. \A d \in Clients : pc'[d] # "idle" => d = c /\ granted
    BY <1>0, <1>1
  <2> QED
    BY <1>0, <1>2, <1>13, <2>1 DEF Lasts, kRunning, kSuspended
<1> QED
  BY <1>7, <1>9, <1>10, <1>12, <1>14 DEF IInv

\* The steps of a client that is stopped, without a ROM call.
LEMMA HolderStep ==
  ASSUME IInv, TypeOK', Orderly, NEW c \in Clients,
         ResumeThread(c) \/ ResetEmulator(c)
           \/ (c = UiThread /\ (GetSuspendState \/ SetSuspendState))
  PROVE  IInv'
<1>0. /\ pc \in [Threads -> Locations] /\ how \in [Clients -> StopMethod]
      /\ c \in Threads /\ c # Cpu /\ Cpu \in Threads
      /\ sus \in Counters
      /\ UNCHANGED <<fStop, dialog, how, frames>>
  BY SessionAssumption
  DEF IInv, TypeOK, ResumeThread, ResetEmulator, GetSuspendState,
      SetSuspendState
<1>1. /\ pc[c] \in {"stopped", "dbgset"}
      /\ pc[c] = "dbgset" => SetSuspendState
  BY <1>0 DEF ResumeThread, ResetEmulator, GetSuspendState, SetSuspendState,
              IInv, Places, ClientPlaces
<1>2. /\ Holding(c)
      /\ frames[c] = << >>
  BY <1>0, <1>1 DEF Holding, IInv, Places, InCall
<1>3. /\ pc[Cpu] = "parked" /\ frames[Cpu] = << >>
      /\ idleSync = c
      /\ \A d \in Clients : d # c => pc[d] = "idle" /\ frames[d] = << >>
  BY <1>2, ClientAlone
<1>4. Len(<< >>) = 0 /\ 0..0 = {0} /\ 1..0 = {}
  BY EmptySeq
<1>5. /\ sus.ui \in Perhaps(how[c]) /\ sus.ui \in {0, 1}
      /\ fState = kSuspended
  <2>1. sus.ui \in Perhaps(how[c])
    BY <1>1, <1>2, <1>4 DEF IInv, Counts, Counted
  <2> QED
    BY <1>1, <2>1 DEF IInv, States, Perhaps
<1>6. \A d \in Clients : frames[d] = << >>
  BY <1>2, <1>3
<1>12. sus.ui = 0 => "throw" \in Features /\ Cpu \in waiting
  <2>1. sus.ui = 0 => "throw" \in Features /\ how[c] = kStopNow
    BY <1>5 DEF Perhaps
  <2>2. pc[c] # "idle" /\ kRunning # kSuspended
    BY <1>1 DEF kRunning, kSuspended
  <2> QED
    BY <1>3, <1>5, <2>1, <2>2 DEF IInv, Lasts
<1> DEFINE To(l) ==
      /\ pc' = [pc EXCEPT ![c] = l]
      /\ idleSync' = IF l = "idle" THEN NoOne ELSE c
      /\ fState' = kSuspended \/ (l = "idle" /\ fState' = kRunning)
      /\ sus'.ui = IF l = "idle" THEN 0 ELSE sus.ui
      /\ fState' = kSuspended => sus' # Zero \/ Awaited'
      /\ l = "dbgset" => snapshot'.ui = sus.ui /\ how[c] = kStopNow
      /\ l # "idle" => waiting' = waiting
<1>7. ASSUME NEW l \in {"idle", "stopped", "dbgset"}, To(l) PROVE IInv'
  <2>1. Places' /\ Backs' /\ Nested'
    BY <1>0, <1>6, <1>4, <1>7
    DEF IInv, Places, Backs, Nested, InCall, ClientPlaces
  <2>2. \A d \in Clients : Holding(d)' <=> d = c /\ l # "idle"
    BY <1>0, <1>2, <1>3, <1>7 DEF Holding
  <2>3. OneClient' /\ Held'
    BY <1>0, <1>3, <1>7, <2>2 DEF OneClient, Held
  <2>4. States'
    BY <1>0, <1>3, <1>4, <1>6, <1>7 DEF IInv, States
  <2>5. Counted(Cpu, sus.ui)' /\ Counted(c, sus.ui)'
    BY <1>0, <1>2, <1>3, <1>4 DEF Counted
  <2>6. Counts'
    <3>1. CASE l = "idle"
      BY <1>0, <1>3, <1>7, <2>2, <2>5, <3>1 DEF Counts
    <3>2. CASE l # "idle"
      <4>1. sus'.ui = sus.ui /\ how' = how /\ frames'[Cpu] = << >>
        BY <1>0, <1>3, <1>7, <3>2
      <4>2. \A d \in Clients : pc'[d] = IF d = c THEN l ELSE "idle"
        BY <1>0, <1>3, <1>7
      <4>3. \E n \in Perhaps(how'[c]) : Counted(c, n)'
        BY <1>5, <2>5, <4>1
      <4> QED
        BY <1>7, <2>2, <3>2, <4>1, <4>2, <4>3 DEF Counts
    <3> QED
      BY <3>1, <3>2
  <2>7. Lasts'
    <3>1. \A d \in Clients : pc'[d] # "idle" => d = c /\ l # "idle"
      BY <1>0, <1>3, <1>7
    <3>2. l # "idle" => sus'.ui = sus.ui /\ fState' = kSuspended /\ waiting' = waiting
      BY <1>7
    <3> QED
      BY <1>12, <3>1, <3>2 DEF Lasts, kRunning, kSuspended
  <2> QED
    BY <2>1, <2>3, <2>4, <2>6, <2>7 DEF IInv
<1>8. CASE ResumeThread(c)
  <2>1. sus'.ui = 0
    <3>1. Wrap4(1 + -1) = 0
      BY DEF Wrap4
    <3>2. Bump(sus, "ui", -1) \in Counters
      BY <1>0, BumpType
    <3>3. CASE sus.ui = 1
      <4>1. (Bump(sus, "ui", -1)).ui = 0
        BY <1>0, <3>3, <3>1 DEF Bump, Counters
      <4>2. (Release(sus)).ui = 0
        BY <3>2, <3>3, <4>1 DEF Release, Counters
      <4> QED
        BY <1>8, <4>2 DEF ResumeThread
    <3>4. CASE sus.ui = 0
      BY <1>8, <3>4 DEF ResumeThread, Release
    <3> QED
      BY <1>5, <3>3, <3>4
  <2>2. /\ pc' = [pc EXCEPT ![c] = "idle"]
        /\ idleSync' = NoOne
    BY <1>3, <1>8 DEF ResumeThread, Leave
  <2>3. /\ fState' = kSuspended \/ fState' = kRunning
        /\ fState' = kSuspended => sus' # Zero \/ Awaited'
    <3>1. CASE sus.ui = 1
      <4>1. fState' = IF sus' = Zero THEN kRunning ELSE kSuspended
        BY <1>5, <1>8, <3>1 DEF ResumeThread
      <4> QED
        BY <4>1 DEF kRunning, kSuspended
    <3>2. CASE sus.ui = 0
      BY <1>5, <1>8, <1>12, <3>2 DEF ResumeThread, Awaited
    <3> QED
      BY <1>5, <3>1, <3>2
  <2>4. To("idle")
    BY <2>1, <2>2, <2>3
  <2> QED
    BY <1>7, <2>4, Zenon
<1>9. CASE ResetEmulator(c)
  <2>1. sus'.ui = sus.ui /\ waiting' = waiting
    BY <1>0, <1>9 DEF ResetEmulator, Reset, ClearForReset, Counters
  <2>2. /\ pc' = [pc EXCEPT ![c] = "stopped"]
        /\ idleSync' = c
        /\ fState' = kSuspended
    BY <1>0, <1>3, <1>5, <1>9 DEF ResetEmulator
  <2>3. sus' # Zero \/ Awaited'
    BY <1>12, <2>1 DEF Zero, Awaited
  <2>4. To("stopped")
    BY <2>1, <2>2, <2>3
  <2> QED
    BY <1>7, <2>4, Zenon
<1>10. CASE c = UiThread /\ GetSuspendState
  <2>1. /\ sus' = sus /\ snapshot'.ui = sus.ui /\ waiting' = waiting
        /\ how[c] = kStopNow
    BY <1>0, <1>10 DEF GetSuspendState, Counters, session
  <2>2. /\ pc' = [pc EXCEPT ![c] = "dbgset"]
        /\ idleSync' = c
        /\ fState' = kSuspended
    BY <1>3, <1>5, <1>10 DEF GetSuspendState, session
  <2>3. sus' # Zero \/ Awaited'
    BY <1>12, <2>1 DEF Zero, Awaited
  <2>4. To("dbgset")
    BY <2>1, <2>2, <2>3
  <2> QED
    BY <1>7, <2>4, Zenon
<1>11. CASE c = UiThread /\ SetSuspendState
  <2>1. sus'.ui = sus.ui /\ waiting' = waiting
    <3>1. snapshot.ui = sus.ui
      BY <1>11 DEF SetSuspendState, IInv, Counts
    <3> QED
      BY <1>11, <3>1 DEF SetSuspendState
  <2>2. /\ pc' = [pc EXCEPT ![c] = "stopped"]
        /\ idleSync' = c
        /\ fState' = kSuspended
    BY <1>3, <1>5, <1>11 DEF SetSuspendState
  <2>3. sus' # Zero \/ Awaited'
    BY <1>12, <2>1 DEF Zero, Awaited
  <2>4. To("stopped")
    BY <2>1, <2>2, <2>3
  <2> QED
    BY <1>7, <2>4, Zenon
<1> QED
  BY <1>8, <1>9, <1>10, <1>11

\* What the invariant says of the i-th frame of t.
Fits(t, i, f) ==
  /\ (i = 1) <=> (f.back \notin {"exec", "sysCall"})
  /\ i = 1 => f.back = IF t = Cpu THEN "run" ELSE "stopped"
  /\ t # Cpu => f.back # "sysCall"
  /\ i = 1 /\ t = Cpu => f.old.ui = 0
  /\ i > 1 /\ t # Cpu => f.nest > 0
  /\ f.state = IF i = 1 /\ t # Cpu THEN kSuspended ELSE kRunning

Fitted(t) == \A i \in 1..Len(frames[t]) : Fits(t, i, frames[t][i])

LEMMA AllFitted == ASSUME IInv, NEW t \in Threads PROVE Fitted(t)
<1>1. CASE t = Cpu
  <2>1. frames[Cpu] # << >> <=> Len(frames[Cpu]) # 0
    BY EmptySeq DEF IInv, TypeOK
  <2> QED
    BY <1>1, <2>1, SessionAssumption
    DEF IInv, Backs, States, Counts, Fitted, Fits
<1>2. CASE t \in Clients
  <2>1. frames[t] # << >> <=> Len(frames[t]) # 0
    BY EmptySeq DEF IInv, TypeOK
  <2>2. t # Cpu
    BY <1>2, SessionAssumption
  <2> QED
    BY <1>2, <2>1, <2>2 DEF IInv, Backs, States, Nested, Fitted, Fits
<1> QED
  BY <1>1, <1>2

\* The UI suspension stays counted when frames come and go.
LEMMA CountPush ==
  ASSUME NEW t, NEW f, NEW n, Counted(t, n), FramesPushed(t, f),
         \/ f.old.ui = sus.ui /\ sus'.ui = 0
         \/ f.old.ui = 0 /\ sus'.ui = sus.ui
  PROVE  Counted(t, n)'
<1>1. PICK k \in 0..Len(frames[t]) :
        /\ sus.ui = IF k = 0 THEN n ELSE 0
        /\ \A i \in 1..Len(frames[t]) :
             frames[t][i].old.ui = IF i = k THEN n ELSE 0
  BY DEF Counted
<1> DEFINE m == Len(frames[t])
<1>2. /\ m \in Nat /\ Len(frames'[t]) = m + 1
      /\ \A i \in 1..m : frames'[t][i] = frames[t][i]
      /\ frames'[t][m + 1] = f
  BY DEF FramesPushed
<1> HIDE DEF m
<1>3. CASE f.old.ui = sus.ui /\ sus'.ui = 0
  <2> DEFINE j == IF k = 0 THEN m + 1 ELSE k
  <2>1. /\ j \in 0..Len(frames'[t])
        /\ sus'.ui = IF j = 0 THEN n ELSE 0
        /\ \A i \in 1..Len(frames'[t]) :
             frames'[t][i].old.ui = IF i = j THEN n ELSE 0
    <3>1. CASE k = 0
      BY <1>1, <1>2, <1>3, <3>1 DEF m
    <3>2. CASE k # 0
      <4>1. j = k /\ j # m + 1
        BY <1>2, <3>2 DEF m
      <4> QED
        BY <1>1, <1>2, <1>3, <3>2, <4>1, SMTT(40) DEF m
    <3> QED
      BY <3>1, <3>2
  <2> QED
    BY <2>1 DEF Counted
<1>4. CASE f.old.ui = 0 /\ sus'.ui = sus.ui
  <2>1. /\ k \in 0..Len(frames'[t])
        /\ sus'.ui = IF k = 0 THEN n ELSE 0
        /\ \A i \in 1..Len(frames'[t]) :
             frames'[t][i].old.ui = IF i = k THEN n ELSE 0
    <3>1. k \in Nat /\ k <= m /\ k \in 0..Len(frames'[t])
      BY <1>1, <1>2 DEF m
    <3>2. ASSUME NEW i \in 1..Len(frames'[t])
          PROVE  frames'[t][i].old.ui = IF i = k THEN n ELSE 0
      <4>1. CASE i = m + 1
        <5>1. i # k
          BY <1>2, <3>1, <4>1
        <5> QED
          BY <1>2, <1>4, <4>1, <5>1
      <4>2. CASE i # m + 1
        <5>1. i \in 1..m
          BY <1>2, <3>2, <4>2
        <5>2. i \in 1..Len(frames[t])
          BY <5>1 DEF m
        <5> QED
          BY <1>1, <1>2, <5>1, <5>2
      <4> QED
        BY <4>1, <4>2
    <3> QED
      BY <1>1, <1>4, <3>1, <3>2
  <2> QED
    BY <2>1 DEF Counted
<1> QED
  BY <1>3, <1>4

LEMMA WrapSmall ==
  ASSUME NEW n \in {0, 1}
  PROVE  Wrap4(n) = n /\ Wrap4(n + 0) = n /\ Wrap4(0 + n) = n
  BY DEF Wrap4

LEMMA CountSet ==
  ASSUME NEW t, NEW f, NEW n \in {0, 1}, Counted(t, n), FramesSet(t, f),
         \/ f.old.ui = Top(t).old.ui /\ sus'.ui = sus.ui
         \/ f.old.ui = Wrap4(Top(t).old.ui + sus.ui) /\ sus'.ui = 0
  PROVE  Counted(t, n)'
<1>1. PICK k \in 0..Len(frames[t]) :
        /\ sus.ui = IF k = 0 THEN n ELSE 0
        /\ \A i \in 1..Len(frames[t]) :
             frames[t][i].old.ui = IF i = k THEN n ELSE 0
  BY DEF Counted
<1> DEFINE m == Len(frames[t])
<1>2. /\ m \in Nat \ {0} /\ Len(frames'[t]) = m
      /\ \A i \in 1..m :
           frames'[t][i] = IF i = m THEN f ELSE frames[t][i]
      /\ Top(t) = frames[t][m]
  BY DEF FramesSet, Top
<1> HIDE DEF m
<1>3. CASE f.old.ui = Top(t).old.ui /\ sus'.ui = sus.ui
  <2>1. /\ k \in 0..Len(frames'[t])
        /\ sus'.ui = IF k = 0 THEN n ELSE 0
        /\ \A i \in 1..Len(frames'[t]) :
             frames'[t][i].old.ui = IF i = k THEN n ELSE 0
    BY <1>1, <1>2, <1>3 DEF m
  <2> QED
    BY <2>1 DEF Counted
<1>4. CASE f.old.ui = Wrap4(Top(t).old.ui + sus.ui) /\ sus'.ui = 0
  <2> DEFINE j == IF k = 0 THEN m ELSE k
  <2>1. f.old.ui = IF j = m THEN n ELSE 0
    BY <1>1, <1>2, <1>4, WrapSmall DEF m
  <2>2. /\ j \in 0..Len(frames'[t])
        /\ sus'.ui = IF j = 0 THEN n ELSE 0
        /\ \A i \in 1..Len(frames'[t]) :
             frames'[t][i].old.ui = IF i = j THEN n ELSE 0
    BY <1>1, <1>2, <1>4, <2>1 DEF m
  <2> QED
    BY <2>2 DEF Counted
<1> QED
  BY <1>3, <1>4

LEMMA CountPop ==
  ASSUME NEW t, NEW n \in {0, 1}, Counted(t, n), FramesPopped(t),
         sus'.ui = Wrap4(Top(t).old.ui + sus.ui)
  PROVE  Counted(t, n)'
<1>1. PICK k \in 0..Len(frames[t]) :
        /\ sus.ui = IF k = 0 THEN n ELSE 0
        /\ \A i \in 1..Len(frames[t]) :
             frames[t][i].old.ui = IF i = k THEN n ELSE 0
  BY DEF Counted
<1> DEFINE m == Len(frames[t])
<1>2. /\ m \in Nat \ {0} /\ Len(frames'[t]) = m - 1
      /\ \A i \in 1..(m - 1) : frames'[t][i] = frames[t][i]
      /\ Top(t) = frames[t][m]
  BY DEF FramesPopped, Top
<1> HIDE DEF m
<1> DEFINE j == IF k = m THEN 0 ELSE k
<1>3. sus'.ui = IF j = 0 THEN n ELSE 0
  BY <1>1, <1>2, WrapSmall DEF m
<1>4. /\ j \in 0..Len(frames'[t])
      /\ \A i \in 1..Len(frames'[t]) :
           frames'[t][i].old.ui = IF i = j THEN n ELSE 0
  BY <1>1, <1>2, SMTT(40) DEF m
<1> QED
  BY <1>3, <1>4 DEF Counted

\* A step of a client's ROM call keeps the invariant if it keeps the frames
\* fitting, fState what the frames say it is, and the session nested.
LEMMA ClientCallStep ==
  ASSUME IInv, TypeOK', NEW c \in Clients, Holding(c), NEW l,
         how[c] = kStopOnSysCall,
         l \in {"stopped", "callCPU", "exec", "uncall", "subLoop"},
         pc' = [pc EXCEPT ![c] = l],
         UNCHANGED <<fStop, dialog, snapshot, how, idleSync>>,
         \A u \in Threads : u # c => frames'[u] = frames[u],
         l = "stopped" <=> frames'[c] = << >>,
         Fitted(c)', Counted(c, 1)',
         fState' = IF l \in {"exec", "uncall"} THEN kRunning
                   ELSE IF l = "stopped" THEN kSuspended ELSE Top(c)'.state,
         frames'[c] # << >> => fNestLevel' > 0
  PROVE  IInv'
<1>0. /\ pc \in [Threads -> Locations]
      /\ frames' \in [Threads -> Seq(Frame)]
      /\ c \in Threads /\ c # Cpu /\ Cpu \in Threads
  BY SessionAssumption DEF IInv, TypeOK
<1>1. /\ pc[Cpu] = "parked" /\ frames[Cpu] = << >>
      /\ idleSync = c
      /\ \A d \in Clients : d # c => pc[d] = "idle" /\ frames[d] = << >>
  BY ClientAlone
<1>2. Len(<< >>) = 0 /\ 1..0 = {}
  BY EmptySeq
<1>3. Places'
  BY <1>0, <1>1 DEF IInv, Places, InCall, ClientPlaces, CpuPlaces
<1>4. \A d \in Clients : Holding(d)' <=> d = c
  BY <1>0, <1>1 DEF Holding
<1>5. OneClient' /\ Held'
  BY <1>0, <1>1, <1>4 DEF OneClient, Held
<1>6. frames'[Cpu] = << >> /\ \A d \in Clients : d # c => frames'[d] = << >>
  BY <1>0, <1>1
<1>7. frames'[c] # << >> => 1 \in 1..Len(frames'[c])
  BY <1>0, EmptySeq
<1>8. Backs'
  <2>1. \A t \in Threads : \A i \in 1..Len(frames'[t]) :
          (i = 1) <=> (frames'[t][i].back \notin {"exec", "sysCall"})
    BY <1>0, <1>2, <1>6 DEF Fitted, Fits
  <2>2. \A i \in 1..Len(frames'[c]) :
          /\ i = 1 => frames'[c][i].back = "stopped"
          /\ frames'[c][i].back # "sysCall"
    BY <1>0 DEF Fitted, Fits
  <2>3. \A d \in Clients : d # c => 1..Len(frames'[d]) = {}
    BY <1>2, <1>6
  <2>4. /\ \A d \in Clients : frames'[d] # << >> => frames'[d][1].back = "stopped"
        /\ \A d \in Clients : \A i \in 1..Len(frames'[d]) :
             frames'[d][i].back # "sysCall"
    BY <1>6, <1>7, <2>2, <2>3
  <2>5. pc'[Cpu] = "parked"
    BY <1>0, <1>1
  <2> QED
    BY <1>6, <2>1, <2>4, <2>5 DEF Backs
<1>9. fState' \in {kRunning, kSuspended}
  <2>1. frames'[c] # << >> => Top(c)'.state \in {kRunning, kSuspended}
    <3>1. frames'[c] # << >> => Len(frames'[c]) \in 1..Len(frames'[c])
      BY <1>0, EmptySeq
    <3> QED
      BY <3>1 DEF Fitted, Fits, Top
  <2> QED
    BY <2>1
<1>10. frames'[c] = << >> => sus'.ui = 1
  BY <1>2 DEF Counted
<1>11. States'
  <2>1. fState' = kSuspended /\ fNestLevel' = 0 => sus' # Zero \/ Awaited'
    <3>1. fNestLevel' = 0 => ~(fNestLevel' > 0)
      OBVIOUS
    <3> QED
      BY <1>10, <3>1 DEF Zero
  <2>2. \A d \in Clients : \A i \in 1..Len(frames'[d]) :
          frames'[d][i].state = IF i = 1 THEN kSuspended ELSE kRunning
    BY <1>0, <1>2, <1>6 DEF Fitted, Fits
  <2>3. \A d \in Clients : pc'[d] = IF d = c THEN l ELSE "idle"
    BY <1>0, <1>1
  <2> QED
    BY <1>0, <1>1, <1>2, <1>6, <1>9, <2>1, <2>2, <2>3 DEF States
<1>12. Nested'
  BY <1>0, <1>2, <1>6 DEF Nested, Fitted, Fits
<1>13. Counts'
  BY <1>0, <1>1, <1>4, <1>6 DEF Counts, Perhaps, kStopNow, kStopOnSysCall
<1>14. Lasts'
  BY <1>0, <1>1 DEF Lasts, kStopNow, kStopOnSysCall
<1> QED
  BY <1>3, <1>5, <1>8, <1>11, <1>12, <1>13, <1>14 DEF IInv

\* The same for a step of the CPU thread in Run or in the head patch of a
\* system call.
LEMMA CpuCallStep ==
  ASSUME IInv, TypeOK', \A c \in Clients : ~Holding(c), NEW l,
         l \in {"run", "callCPU", "exec", "sysCall", "uncall", "subLoop", "throw",
                "unwind", "resetting"},
         l \in CpuPlaces,
         pc' = [pc EXCEPT ![Cpu] = l],
         UNCHANGED <<fStop, dialog, snapshot, how, idleSync>>,
         \A c \in Clients : frames'[c] = frames[c],
         l \in {"run", "resetting"} <=> frames'[Cpu] = << >>,
         l \in {"subLoop", "unwind"} => Len(frames'[Cpu]) > 1,
         Fitted(Cpu)',
         \A n \in {0, 1} :
           Counted(Cpu, n) => Counted(Cpu, n)' \/ ("throw" \in Features /\ Counted(Cpu, 0)'),
         fState' = kRunning
  PROVE  IInv'
<1>0. /\ pc \in [Threads -> Locations]
      /\ frames' \in [Threads -> Seq(Frame)]
      /\ Cpu \in Threads /\ Cpu \notin Clients
  BY SessionAssumption DEF IInv, TypeOK
<1>1. \A c \in Clients : frames'[c] = << >> /\ pc'[c] = pc[c]
  BY <1>0, SessionAssumption DEF Holding, IInv, Places
<1>2. Len(<< >>) = 0 /\ 1..0 = {}
  BY EmptySeq
<1>3. Places'
  BY <1>0, <1>1 DEF IInv, Places, InCall, ClientPlaces, CpuPlaces
<1>4. \A d \in Clients : ~Holding(d)'
  BY <1>0, <1>1 DEF Holding
<1>5. OneClient' /\ Held'
  BY <1>0, <1>1, <1>4 DEF IInv, OneClient, Held
<1>6. frames'[Cpu] # << >> => 1 \in 1..Len(frames'[Cpu])
  BY <1>0, EmptySeq
<1>7. Backs'
  <2>1. \A t \in Threads : \A i \in 1..Len(frames'[t]) :
          (i = 1) <=> (frames'[t][i].back \notin {"exec", "sysCall"})
    BY <1>0, <1>1, <1>2 DEF Fitted, Fits
  <2> QED
    BY <1>0, <1>1, <1>2, <1>6, <2>1 DEF Backs, Fitted, Fits
<1>8. States'
  <2>1. \A i \in 1..Len(frames'[Cpu]) : frames'[Cpu][i].state = kRunning
    BY DEF Fitted, Fits
  <2>2. \A d \in Clients : pc'[d] \notin {"exec", "cycle", "uncall", "callCPU",
                                         "subLoop", "stopped", "dbgset"}
    BY <1>0, <1>1, <1>4 DEF Holding, Places, InCall, IInv
  <2> QED
    BY <1>0, <1>1, <1>2, <2>1, <2>2 DEF States, kRunning, kSuspended
<1>9. Nested'
  BY <1>1, <1>2 DEF Nested
<1>10. Counts'
  <2>1. frames'[Cpu] # << >> => frames'[Cpu][1].old.ui = 0
    BY <1>6 DEF Fitted, Fits
  <2>2. Counted(Cpu, 0) => Counted(Cpu, 0)'
    OBVIOUS
  <2>3. ASSUME NEW c \in Clients, pc[c] = "suspending"
        PROVE  \E n \in Asked(how[c]) : Counted(Cpu, n)'
    <3>1. PICK n \in Asked(how[c]) : Counted(Cpu, n)
      BY <2>3 DEF IInv, Counts
    <3>2. CASE n = 0
      BY <2>2, <3>1, <3>2
    <3>3. CASE n # 0
      <4>1. n = 1 /\ how[c] = kStopNow /\ Asked(how[c]) = Perhaps(kStopNow)
        BY <3>1, <3>3 DEF Asked, Perhaps
      <4>2. Counted(Cpu, 1)' \/ ("throw" \in Features /\ Counted(Cpu, 0)')
        BY <3>1, <4>1
      <4>3. 1 \in Asked(how[c]) /\ ("throw" \in Features => 0 \in Asked(how[c]))
        BY <4>1 DEF Perhaps
      <4> QED
        BY <4>2, <4>3
    <3> QED
      BY <3>2, <3>3
  <2>4. /\ \A c \in Clients : pc'[c] = pc[c] /\ how'[c] = how[c]
        /\ \A c \in Clients : pc'[c] # "dbgset"
    BY <1>0, <1>1, <1>4 DEF Holding
  <2> QED
    BY <1>4, <2>1, <2>2, <2>3, <2>4 DEF IInv, Counts
<1>11. Lasts'
  BY <1>0 DEF Lasts
<1> QED
  BY <1>3, <1>5, <1>7, <1>8, <1>9, <1>10, <1>11 DEF IInv

LEMMA FittedPush ==
  ASSUME NEW t, NEW f, Fitted(t), FramesPushed(t, f),
         Fits(t, Len(frames[t]) + 1, f)
  PROVE  Fitted(t)'
<1> DEFINE P(i) == Fits(t, i, frames'[t][i])
<1>1. \A i \in 1..Len(frames'[t]) : P(i)
  <2> DEFINE Q(i, g) == Fits(t, i, g)
  <2>1. \A i \in 1..Len(frames[t]) : Q(i, frames[t][i])
    BY Zenon DEF Fitted
  <2>2. Q(Len(frames[t]) + 1, f)
    BY Zenon
  <2> HIDE DEF Q
  <2>3. \A i \in 1..Len(frames'[t]) : Q(i, frames'[t][i])
    BY <2>1, <2>2 DEF FramesPushed
  <2> QED
    BY <2>3, Zenon DEF Q
<1> QED
  BY <1>1 DEF Fitted, Fits

LEMMA FittedSet ==
  ASSUME NEW t, NEW f, Fitted(t), FramesSet(t, f),
         Fits(t, Len(frames[t]), f)
  PROVE  Fitted(t)'
<1> DEFINE Q(i, g) == Fits(t, i, g)
<1>1. \A i \in 1..Len(frames[t]) : Q(i, frames[t][i])
  BY Zenon DEF Fitted
<1>2. Q(Len(frames[t]), f)
  BY Zenon
<1> HIDE DEF Q
<1>3. \A i \in 1..Len(frames'[t]) : Q(i, frames'[t][i])
  BY <1>1, <1>2 DEF FramesSet
<1> QED
  BY <1>3 DEF Fitted, Fits, Q

LEMMA FittedPop ==
  ASSUME NEW t, Fitted(t), FramesPopped(t)
  PROVE  Fitted(t)'
<1> DEFINE Q(i, g) == Fits(t, i, g)
<1>1. \A i \in 1..Len(frames[t]) : Q(i, frames[t][i])
  BY Zenon DEF Fitted
<1> HIDE DEF Q
<1>3. \A i \in 1..Len(frames'[t]) : Q(i, frames'[t][i])
  BY <1>1 DEF FramesPopped
<1> QED
  BY <1>3 DEF Fitted, Fits, Q

\* What the invariant says of the innermost frame.
LEMMA FitsTop ==
  ASSUME IInv, NEW t \in Threads, frames[t] # << >>
  PROVE  /\ Fitted(t) /\ Fits(t, Len(frames[t]), Top(t))
         /\ Top(t) \in Frame /\ Top(t).old \in Counters /\ Top(t).nest \in Nat
         /\ Len(frames[t]) \in Nat \ {0}
         /\ frames \in [Threads -> Seq(Frame)]
<1>1. frames \in [Threads -> Seq(Frame)]
  BY DEF IInv, TypeOK
<1>2. /\ Top(t) \in Frame /\ Top(t).old \in Counters /\ Top(t).nest \in Nat
      /\ Len(frames[t]) \in Nat \ {0}
  BY <1>1, TopType
<1>3. Fitted(t)
  BY AllFitted
<1>4. Len(frames[t]) \in 1..Len(frames[t])
  BY <1>2
<1>5. Fits(t, Len(frames[t]), Top(t))
  BY <1>3, <1>4, Zenon DEF Fitted, Top
<1> QED
  BY <1>1, <1>2, <1>3, <1>5

\* A ROM call puts the counters aside in a new frame.
LEMMA CallStep ==
  ASSUME IInv, TypeOK', NEW t \in Threads, ExecuteSubroutine(t)
  PROVE  IInv'
<1> DEFINE f == [old |-> sus, nest |-> fNestLevel, state |-> fState,
                 back |-> pc[t]]
<1>0. /\ pc' = [pc EXCEPT ![t] = "callCPU"]
      /\ fNestLevel \in Nat /\ fNestLevel' = fNestLevel + 1
      /\ sus' = Zero /\ sus'.ui = 0
      /\ UNCHANGED <<fState, fStop, dialog, snapshot, how, idleSync>>
      /\ frames \in [Threads -> Seq(Frame)]
      /\ Cpu \notin Clients
  BY SessionAssumption DEF ExecuteSubroutine, IInv, TypeOK, Zero
<1>1. FramesPushed(t, f)
  <2>1. f \in Frame
    BY DEF Frame, TypeOK, IInv, ExecuteSubroutine
  <2>2. Push(t, f)
    BY DEF ExecuteSubroutine
  <2> HIDE DEF f
  <2> QED
    BY <1>0, <2>1, <2>2, PushFrame
<1>2. f.old = sus /\ f.nest = fNestLevel /\ f.state = fState /\ f.back = pc[t]
  OBVIOUS
<1> HIDE DEF f
<1>3. Fitted(t)
  BY AllFitted
<1>4. Top(t)' = f
  BY <1>1, Zenon DEF Top, FramesPushed
<1>5. Len(frames[t]) \in Nat /\ (frames[t] # << >> <=> Len(frames[t]) > 0)
  BY <1>0, EmptySeq
<1>6. CASE t = Cpu
  <2>1. pc[Cpu] \in {"exec", "sysCall"} /\ frames[Cpu] # << >>
    BY <1>6 DEF ExecuteSubroutine, IInv, Places, CpuPlaces, InCall
  <2>2. \A c \in Clients : ~Holding(c)
    BY <2>1, CpuAlone
  <2>3. fState = kRunning
    BY <2>1 DEF IInv, States
  <2>4. Fitted(Cpu)'
    BY <1>1, <1>2, <1>3, <1>5, <1>6, <2>1, <2>3, FittedPush DEF Fits
  <2>5. \A n \in {0, 1} : Counted(Cpu, n) => Counted(Cpu, n)'
    BY <1>0, <1>1, <1>2, <1>6, CountPush
  <2> QED
    BY <1>0, <1>1, <1>5, <1>6, <2>1, <2>2, <2>3, <2>4, <2>5, CpuCallStep
    DEF FramesPushed, CpuPlaces
<1>7. CASE t \in Clients
  <2>1. pc[t] \in {"stopped", "exec"} /\ Holding(t)
    BY <1>7 DEF ExecuteSubroutine, IInv, Places, ClientPlaces, InCall, Holding
  <2>3. Fits(t, Len(frames[t]) + 1, f)
    <3>1. CASE pc[t] = "stopped"
      BY <3>1, <1>0, <1>2, <1>5, <1>7 DEF Fits, IInv, Places, InCall, States
    <3>2. CASE pc[t] = "exec"
      <4>1. frames[t] # << >> /\ fState = kRunning /\ fNestLevel > 0
        BY <1>7, <3>2 DEF IInv, Places, InCall, States, Nested
      <4> QED
        BY <1>0, <1>2, <1>5, <1>7, <3>2, <4>1 DEF Fits
    <3> QED
      BY <2>1, <3>1, <3>2
  <2>9. pc[t] = "exec" => frames[t] # << >>
    BY <1>7 DEF IInv, Places, InCall
  <2>4. Fitted(t)'
    BY <1>1, <1>3, <2>3, FittedPush
  <2>8. how[t] = kStopOnSysCall
    BY <1>5, <1>7, <2>1, <2>9 DEF ExecuteSubroutine, IInv, Nested
  <2>5. Counted(t, 1)'
    <3>1. Counted(t, 1)
      BY <1>7, <2>1, <2>8 DEF IInv, Counts, Perhaps, kStopNow, kStopOnSysCall
    <3> QED
      BY <1>0, <1>1, <1>2, <3>1, CountPush
  <2>6. fState' = Top(t)'.state /\ fNestLevel' > 0
    BY <1>0, <1>2, <1>4
  <2>7. /\ \A u \in Threads : u # t => frames'[u] = frames[u]
        /\ frames'[t] # << >>
    BY <1>1 DEF FramesPushed
  <2> QED
    BY <1>0, <1>7, <2>1, <2>4, <2>5, <2>6, <2>7, <2>8, ClientCallStep, ZenonT(60)
<1> QED
  BY <1>6, <1>7

\* A ROM call of a client keeps its stop counted.
LEMMA HolderCounted ==
  ASSUME IInv, NEW c \in Clients, frames[c] # << >> PROVE Counted(c, 1)
<1>1. how[c] = kStopOnSysCall /\ Holding(c)
  BY DEF IInv, Nested, Holding
<1> QED
  BY <1>1 DEF IInv, Counts, Perhaps, kStopNow, kStopOnSysCall

LEMMA OverOne == \A n \in Nat \ {0} : n # 1 <=> n > 1
  OBVIOUS

\* CallCPU starts the processor, ...
LEMMA EnterStep ==
  ASSUME IInv, TypeOK', NEW t \in Threads, CallCPU(t)
  PROVE  IInv'
<1> DEFINE f == [Top(t) EXCEPT !.state = fState]
<1>0. /\ pc' = [pc EXCEPT ![t] = "exec"] /\ pc[t] = "callCPU"
      /\ UNCHANGED <<sus, fNestLevel, fStop, dialog, snapshot, how, idleSync>>
      /\ fState' = kRunning
      /\ Cpu \notin Clients
      /\ fState \in SessionState
  BY SessionAssumption DEF CallCPU, IInv, TypeOK
<1>1. frames[t] # << >>
  BY <1>0 DEF IInv, Places, InCall
<1>2. /\ Fitted(t) /\ Fits(t, Len(frames[t]), Top(t))
      /\ Top(t) \in Frame
      /\ Len(frames[t]) \in Nat \ {0}
      /\ frames \in [Threads -> Seq(Frame)]
  BY <1>1, FitsTop
<1>3. /\ f \in Frame /\ f.old = Top(t).old /\ f.nest = Top(t).nest
      /\ f.state = fState /\ f.back = Top(t).back
  BY <1>0, <1>2 DEF Frame
<1>4. FramesSet(t, f)
  <2>1. SetTop(t, f)
    BY DEF CallCPU
  <2> HIDE DEF f
  <2> QED
    BY <1>1, <1>2, <1>3, <2>1, SetTopFrame
<1> HIDE DEF f
<1>5. fState = Top(t).state
  <2>1. CASE t = Cpu
    <3>1. fState = kRunning
      BY <1>0, <2>1 DEF IInv, States
    <3> QED
      BY <1>2, <2>1, <3>1 DEF Fits
  <2>2. CASE t \in Clients
    BY <1>0, <2>2 DEF IInv, States
  <2> QED
    BY <2>1, <2>2
<1>6. Fitted(t)'
  <2>1. Fits(t, Len(frames[t]), f)
    BY <1>2, <1>3, <1>5 DEF Fits
  <2> QED
    BY <1>2, <1>4, <2>1, FittedSet
<1>7. \A n \in {0, 1} : Counted(t, n) => Counted(t, n)'
  BY <1>0, <1>3, <1>4, CountSet
<1>8. /\ \A u \in Threads : u # t => frames'[u] = frames[u]
      /\ frames'[t] # << >>
  BY <1>4 DEF FramesSet
<1>9. CASE t = Cpu
  <2>1. \A c \in Clients : ~Holding(c)
    BY <1>0, <1>9, CpuAlone
  <2> QED
    BY <1>0, <1>6, <1>7, <1>8, <1>9, <2>1, CpuCallStep DEF CpuPlaces
<1>10. CASE t \in Clients
  <2>1. Holding(t)
    BY <1>1 DEF Holding
  <2>2. Counted(t, 1)'
    BY <1>1, <1>7, <1>10, HolderCounted
  <2>3. fNestLevel' > 0 /\ how[t] = kStopOnSysCall
    BY <1>0, <1>1, <1>10 DEF IInv, Nested
  <2> QED
    BY <1>0, <1>6, <1>8, <1>10, <2>1, <2>2, <2>3, ClientCallStep, ZenonT(60)
<1> QED
  BY <1>9, <1>10

\* ... and leaves it.
LEMMA ReturnStep ==
  ASSUME IInv, TypeOK', NEW t \in Threads, CallCPUReturn(t)
  PROVE  IInv'
<1>0. /\ pc[t] = "uncall"
      /\ UNCHANGED <<sus, fNestLevel, fStop, dialog, snapshot, how, idleSync>>
      /\ fState' = Top(t).state
      /\ Cpu \notin Clients
      /\ sus \in Counters
  BY SessionAssumption DEF CallCPUReturn, IInv, TypeOK
<1>1. frames[t] # << >>
  BY <1>0 DEF IInv, Places, InCall
<1>2. /\ Fitted(t) /\ Fits(t, Len(frames[t]), Top(t))
      /\ Len(frames[t]) \in Nat \ {0}
      /\ frames \in [Threads -> Seq(Frame)]
  BY <1>1, FitsTop
<1>3. CASE t = Cpu
  <2>1. \A c \in Clients : ~Holding(c)
    BY <1>0, <1>3, CpuAlone
  <2>2. fState' = kRunning
    BY <1>0, <1>2, <1>3 DEF Fits
  <2>3. CASE Top(t).back = "run"
    <3>1. Len(frames[t]) = 1 /\ Top(t).old.ui = 0
      BY <1>2, <1>3, <2>3 DEF Fits
    <3>2. FramesPopped(t) /\ pc' = [pc EXCEPT ![t] = "run"]
      BY <1>1, <1>2, <2>3, PopFrame DEF CallCPUReturn
    <3>3. Fitted(t)'
      BY <1>2, <3>2, FittedPop
    <3>4. \A n \in {0, 1} : Counted(t, n) => Counted(t, n)'
      <4>1. ASSUME NEW n \in {0, 1}, Counted(t, n) PROVE Counted(t, n)'
        <5>1. sus.ui \in {0, 1}
          BY <4>1 DEF Counted
        <5>2. sus'.ui = Wrap4(Top(t).old.ui + sus.ui)
          BY <1>0, <3>1, <5>1, WrapSmall
        <5> QED
          BY <3>2, <4>1, <5>2, CountPop
      <4> QED
        BY <4>1
    <3>5. /\ \A u \in Threads : u # t => frames'[u] = frames[u]
          /\ frames'[t] = << >>
      BY <3>1, <3>2 DEF FramesPopped
    <3> QED
      BY <1>0, <1>3, <2>1, <2>2, <3>2, <3>3, <3>4, <3>5, CpuCallStep DEF CpuPlaces
  <2>4. CASE Top(t).back # "run"
    <3>1. Len(frames[t]) > 1
      <4>1. Len(frames[t]) # 1
        BY <1>2, <1>3, <2>4 DEF Fits
      <4> QED
        BY <1>2, <4>1, OverOne, Zenon
    <3>2. frames' = frames /\ pc' = [pc EXCEPT ![t] = "subLoop"]
      BY <2>4 DEF CallCPUReturn
    <3>3. Fitted(Cpu)'
      BY <1>2, <1>3, <3>2 DEF Fitted, Fits
    <3>4. \A n \in {0, 1} : Counted(Cpu, n) => Counted(Cpu, n)'
      BY <1>0, <3>2 DEF Counted
    <3> QED
      BY <1>0, <1>1, <1>3, <2>1, <2>2, <3>1, <3>2, <3>3, <3>4, CpuCallStep DEF CpuPlaces
  <2> QED
    BY <2>3, <2>4
<1>4. CASE t \in Clients
  <2>1. Holding(t)
    BY <1>1 DEF Holding
  <2>2. Top(t).back # "run"
    BY <1>0, <1>2, <1>4 DEF Fits
  <2>3. frames' = frames /\ pc' = [pc EXCEPT ![t] = "subLoop"]
    BY <2>2 DEF CallCPUReturn
  <2>4. Fitted(t)' /\ Top(t)' = Top(t)
    BY <1>2, <2>3 DEF Fitted, Fits, Top
  <2>5. Counted(t, 1)'
    <3>1. Counted(t, 1)
      BY <1>1, <1>4, HolderCounted
    <3> QED
      BY <1>0, <2>3, <3>1 DEF Counted
  <2>6. fNestLevel' > 0 /\ how[t] = kStopOnSysCall
    BY <1>0, <1>1, <1>4 DEF IInv, Nested
  <2>7. fState' = Top(t)'.state /\ frames'[t] # << >>
    BY <1>0, <1>1, <2>3, <2>4
  <2> QED
    BY <1>0, <1>4, <2>1, <2>3, <2>4, <2>5, <2>6, <2>7, ClientCallStep, ZenonT(60)
<1> QED
  BY <1>3, <1>4

\* What the counters of a ROM call add to those that had been put aside.
LEMMA AbsorbCount ==
  ASSUME NEW old \in Counters, NEW s
  PROVE  /\ Absorb(old, s).ui = Wrap4(old.ui + s.ui)
         /\ ClipExternal(Absorb(old, s)).ui = Wrap4(old.ui + s.ui)
  BY DEF Absorb, ClipExternal, Counters

\* ExecuteSubroutine goes round again: its frame takes the counters.
LEMMA AgainStep ==
  ASSUME IInv, TypeOK', NEW t \in Threads, SubroutineAgain(t)
  PROVE  IInv'
<1> DEFINE f == [Top(t) EXCEPT !.old = Absorb(Top(t).old, sus)]
<1>0. /\ pc' = [pc EXCEPT ![t] = "callCPU"] /\ pc[t] = "subLoop"
      /\ UNCHANGED <<fState, fStop, dialog, snapshot, how, idleSync>>
      /\ fNestLevel' = Top(t).nest + 1
      /\ sus' = Zero /\ sus'.ui = 0
      /\ Cpu \notin Clients
      /\ sus \in Counters
  BY SessionAssumption DEF SubroutineAgain, IInv, TypeOK, Zero
<1>1. frames[t] # << >>
  BY <1>0 DEF IInv, Places, InCall
<1>2. /\ Fitted(t) /\ Fits(t, Len(frames[t]), Top(t))
      /\ Top(t) \in Frame /\ Top(t).old \in Counters /\ Top(t).nest \in Nat
      /\ Len(frames[t]) \in Nat \ {0}
      /\ frames \in [Threads -> Seq(Frame)]
  BY <1>1, FitsTop
<1>3. /\ f \in Frame /\ f.old = Absorb(Top(t).old, sus) /\ f.nest = Top(t).nest
      /\ f.state = Top(t).state /\ f.back = Top(t).back
      /\ f.old.ui = Wrap4(Top(t).old.ui + sus.ui)
  <2>1. Absorb(Top(t).old, sus) \in Counters
    BY <1>0, <1>2, AbsorbType
  <2> QED
    BY <1>2, <2>1, AbsorbCount DEF Frame
<1>4. FramesSet(t, f)
  <2>1. SetTop(t, f)
    BY DEF SubroutineAgain
  <2> HIDE DEF f
  <2> QED
    BY <1>1, <1>2, <1>3, <2>1, SetTopFrame
<1> HIDE DEF f
<1>5. Fitted(t)'
  <2>1. Fits(t, Len(frames[t]), f)
    <3>1. t = Cpu => Len(frames[t]) # 1
      BY <1>0, <1>2 DEF IInv, Backs
    <3> QED
      BY <1>2, <1>3, <3>1, Zenon DEF Fits
  <2> QED
    BY <1>2, <1>4, <2>1, FittedSet
<1>6. \A n \in {0, 1} : Counted(t, n) => Counted(t, n)'
  BY <1>0, <1>3, <1>4, CountSet
<1>7. /\ \A u \in Threads : u # t => frames'[u] = frames[u]
      /\ frames'[t] # << >>
  BY <1>4 DEF FramesSet
<1>8. CASE t = Cpu
  <2>1. \A c \in Clients : ~Holding(c)
    BY <1>0, <1>8, CpuAlone
  <2>2. fState' = kRunning
    BY <1>0, <1>8 DEF IInv, States
  <2> QED
    BY <1>0, <1>5, <1>6, <1>7, <1>8, <2>1, <2>2, CpuCallStep DEF CpuPlaces
<1>9. CASE t \in Clients
  <2>1. Holding(t)
    BY <1>1 DEF Holding
  <2>2. Counted(t, 1)'
    BY <1>1, <1>6, <1>9, HolderCounted
  <2>3. fNestLevel' > 0 /\ how[t] = kStopOnSysCall
    BY <1>0, <1>1, <1>2, <1>9 DEF IInv, Nested
  <2>4. fState' = Top(t)'.state
    <3>1. Top(t)' = f
      BY <1>2, <1>4 DEF Top, FramesSet
    <3>2. fState = Top(t).state
      BY <1>0, <1>9 DEF IInv, States
    <3> QED
      BY <1>0, <1>3, <3>1, <3>2
  <2> QED
    BY <1>0, <1>5, <1>7, <1>9, <2>1, <2>2, <2>3, <2>4, ClientCallStep, ZenonT(60)
<1> QED
  BY <1>8, <1>9

\* ExecuteSubroutine ends: the counters go back to fSuspendState.
LEMMA DoneStep ==
  ASSUME IInv, TypeOK', NEW t \in Threads, SubroutineDone(t)
  PROVE  IInv'
<1>0. /\ pc' = [pc EXCEPT ![t] = Top(t).back] /\ pc[t] = "subLoop"
      /\ UNCHANGED <<fState, fStop, dialog, snapshot, how, idleSync>>
      /\ fNestLevel' = Top(t).nest
      /\ sus' = ClipExternal(Absorb(Top(t).old, sus))
      /\ Cpu \notin Clients
      /\ sus \in Counters
  BY SessionAssumption DEF SubroutineDone, IInv, TypeOK
<1>1. frames[t] # << >>
  BY <1>0 DEF IInv, Places, InCall
<1>2. /\ Fitted(t) /\ Fits(t, Len(frames[t]), Top(t))
      /\ Top(t).old \in Counters /\ Top(t) \in Frame
      /\ Len(frames[t]) \in Nat \ {0}
      /\ frames \in [Threads -> Seq(Frame)]
  BY <1>1, FitsTop
<1>3. FramesPopped(t)
  BY <1>1, <1>2, PopFrame DEF SubroutineDone
<1>4. Fitted(t)'
  BY <1>2, <1>3, FittedPop
<1>5. \A n \in {0, 1} : Counted(t, n) => Counted(t, n)'
  BY <1>0, <1>2, <1>3, AbsorbCount, CountPop
<1>6. /\ \A u \in Threads : u # t => frames'[u] = frames[u]
      /\ frames'[t] = << >> <=> Len(frames[t]) = 1
  BY <1>3 DEF FramesPopped
<1>7. CASE t = Cpu
  <2>1. \A c \in Clients : ~Holding(c)
    BY <1>0, <1>7, CpuAlone
  <2>2. fState' = kRunning
    BY <1>0, <1>7 DEF IInv, States
  <2>3. Len(frames[t]) > 1
    BY <1>0, <1>7 DEF IInv, Backs
  <2>4. Len(frames[t]) # 1 /\ Top(t).back \in {"exec", "sysCall"}
    <3>1. Len(frames[t]) # 1
      BY <1>2, <2>3, OverOne, Zenon
    <3> QED
      BY <1>2, <3>1, Zenon DEF Fits
  <2> QED
    BY <1>0, <1>4, <1>5, <1>6, <1>7, <2>1, <2>2, <2>3, <2>4, CpuCallStep DEF CpuPlaces
<1>8. CASE t \in Clients
  <2>1. Holding(t)
    BY <1>1 DEF Holding
  <2>2. Counted(t, 1)'
    BY <1>1, <1>5, <1>8, HolderCounted
  <2>3. fState' = Top(t).state
    BY <1>0, <1>8 DEF IInv, States
  <2>6. how[t] = kStopOnSysCall
    BY <1>1, <1>8 DEF IInv, Nested
  <2>4. CASE Len(frames[t]) = 1
    <3>1. Top(t).back = "stopped" /\ Top(t).state = kSuspended
      BY <1>0, <1>2, <1>8, <2>4 DEF Fits
    <3>2. frames'[t] = << >> /\ fState' = kSuspended
      BY <1>6, <2>3, <2>4, <3>1
    <3> QED
      BY <1>0, <1>4, <1>6, <1>8, <2>1, <2>2, <2>6, <3>1, <3>2, ClientCallStep, ZenonT(60)
  <2>5. CASE Len(frames[t]) # 1
    <3>1. /\ Top(t).back = "exec" /\ Top(t).state = kRunning
          /\ Top(t).nest > 0
      <4>1. Len(frames[t]) > 1 /\ t # Cpu
        BY <1>0, <1>2, <1>8, <2>5, OverOne, Zenon
      <4>2. Top(t).back \in {"exec", "sysCall"} /\ Top(t).back # "sysCall"
        BY <1>2, <2>5, <4>1, Zenon DEF Fits
      <4>3. Top(t).state = kRunning /\ Top(t).nest > 0
        BY <1>2, <2>5, <4>1, Zenon DEF Fits
      <4> QED
        BY <4>2, <4>3
    <3>2. frames'[t] # << >> /\ fState' = kRunning /\ fNestLevel' > 0
      BY <1>0, <1>6, <2>3, <2>5, <3>1
    <3> QED
      BY <1>0, <1>4, <1>6, <1>8, <2>1, <2>2, <2>6, <3>1, <3>2, ClientCallStep, ZenonT(60)
  <2> QED
    BY <2>4, <2>5
<1> QED
  BY <1>7, <1>8

\* Run calls CallCPU.
LEMMA StartStep ==
  ASSUME IInv, TypeOK', pc[Cpu] \in {"run", "parked"}, Start,
         sus = Zero, pc[Cpu] = "run" \/ (fNestLevel = 0 /\ Cpu \notin waiting),
         UNCHANGED <<sus, fNestLevel, fStop, dialogs, snapshot, how, idleSync>>
  PROVE  IInv'
<1> DEFINE f == [old |-> Zero, nest |-> fNestLevel, state |-> fState,
                 back |-> "run"]
<1>0. /\ pc' = [pc EXCEPT ![Cpu] = "callCPU"]
      /\ UNCHANGED <<fState, dialog>>
      /\ frames \in [Threads -> Seq(Frame)]
      /\ Cpu \in Threads
  BY DEF Start, IInv, TypeOK
<1>1. /\ f \in Frame /\ f.old.ui = 0 /\ f.state = fState /\ f.back = "run"
  BY ZeroType DEF Frame, Zero, IInv, TypeOK
<1>2. Push(Cpu, f)
  BY DEF Start
<1> HIDE DEF f
<1>3. FramesPushed(Cpu, f)
  BY <1>0, <1>1, <1>2, PushFrame
<1>4. frames[Cpu] = << >> /\ Len(frames[Cpu]) = 0
  BY EmptySeq DEF IInv, Places, InCall
<1>5. sus.ui = 0
  BY DEF Zero
<1>6. \A c \in Clients : ~Holding(c)
  <2>1. ASSUME NEW c \in Clients, Holding(c) PROVE FALSE
    <3>1. pc[Cpu] = "parked" /\ fNestLevel = 0 /\ Cpu \notin waiting
      BY <2>1, ClientAlone
    <3>2. frames[c] = << >>
      BY <3>1 DEF IInv, Nested
    <3>3. sus.ui \in Perhaps(how[c])
      BY <2>1, <3>2, EmptySeq DEF IInv, Counts, Counted
    <3>4. how[c] = kStopNow
      BY <1>5, <3>3 DEF Perhaps
    <3>5. pc[c] # "idle"
      BY <2>1, <3>2, SessionAssumption DEF Holding
    <3> QED
      BY <1>5, <3>1, <3>4, <3>5 DEF IInv, Lasts
  <2> QED
    BY <2>1
<1>7. fState = kRunning
  BY DEF IInv, States, Awaited
<1>8. Fitted(Cpu)'
  <2>1. Fits(Cpu, Len(frames[Cpu]) + 1, f)
    BY <1>1, <1>4, <1>7 DEF Fits
  <2> QED
    BY <1>0, <1>3, <2>1, AllFitted, FittedPush
<1>9. \A n \in {0, 1} : Counted(Cpu, n) => Counted(Cpu, n)'
  BY <1>1, <1>3, CountPush
<1>10. /\ frames'[Cpu] # << >>
       /\ \A c \in Clients : frames'[c] = frames[c]
  BY <1>3, SessionAssumption DEF FramesPushed
<1>11. /\ UNCHANGED <<fStop, dialog, snapshot, how, idleSync>>
       /\ fState' = kRunning
  BY <1>0, <1>7
<1>12. "callCPU" \in CpuPlaces
  BY DEF CpuPlaces
<1> QED
  BY <1>0, <1>6, <1>8, <1>9, <1>10, <1>11, <1>12, CpuCallStep, Zenon

\* Run finds a reason to wait.
LEMMA ParkStep ==
  ASSUME IInv, TypeOK', pc[Cpu] \in {"run", "parked"}, Park,
         fNestLevel > 0 \/ sus # Zero,
         UNCHANGED <<sus, fNestLevel, fStop, dialogs, snapshot, how, idleSync>>
  PROVE  IInv'
<1>0. /\ pc' = [pc EXCEPT ![Cpu] = "parked"]
      /\ pc \in [Threads -> Locations]
      /\ UNCHANGED <<frames, dialog>>
      /\ fState' = IF fNestLevel > 0 THEN fState ELSE kSuspended
      /\ fNestLevel \in Nat
      /\ Cpu \in Threads /\ Cpu \notin Clients
  BY SessionAssumption DEF Park, IInv, TypeOK
<1>1. frames[Cpu] = << >>
  BY DEF IInv, Places, InCall
<1>2. \A c \in Clients : pc'[c] = pc[c]
  BY <1>0
<1>3. \A c \in Clients : Holding(c)' <=> Holding(c)
  BY <1>0, <1>2 DEF Holding
<1>4. Places'
  BY <1>0, <1>1 DEF IInv, Places, InCall, CpuPlaces
<1>5. OneClient' /\ Backs' /\ Held' /\ Nested'
  BY <1>0, <1>2, <1>3 DEF IInv, OneClient, Backs, Held, Nested
<1>6. States'
  <2>1. CASE fNestLevel > 0
    <3>1. fState' = fState /\ pc'[Cpu] = "parked"
      BY <1>0, <2>1
    <3>2. \A c \in Clients : Top(c)' = Top(c)
      BY <1>0 DEF Top
    <3> QED
      BY <1>0, <1>2, <2>1, <3>1, <3>2 DEF IInv, States, Awaited
  <2>2. CASE ~(fNestLevel > 0)
    <3>1. \A c \in Clients : frames[c] = << >>
      BY <2>2 DEF IInv, Nested
    <3>2. \A c \in Clients : ~InCall(c)
      BY <3>1 DEF IInv, Places
    <3>3. fState' = kSuspended /\ sus' # Zero
      BY <1>0, <2>2
    <3> QED
      BY <1>0, <1>1, <1>2, <3>1, <3>2, <3>3, EmptySeq DEF States, InCall
  <2> QED
    BY <2>1, <2>2
<1>7. \A u, n : Counted(u, n)' <=> Counted(u, n)
  BY <1>0 DEF Counted
<1>8. Counts'
  BY <1>0, <1>1, <1>2, <1>3, <1>7 DEF IInv, Counts
<1>9. Lasts'
  BY <1>0 DEF Lasts, Park, Wait, kRunning, kSuspended
<1> QED
  BY <1>4, <1>5, <1>6, <1>8, <1>9 DEF IInv

LEMMA RunStep ==
  ASSUME IInv, TypeOK', RunLoop \/ WakeInRun
  PROVE  IInv'
<1>0. ~fStop /\ fNestLevel \in Nat
  BY DEF IInv, Places, TypeOK
<1>1. CASE RunLoop
  BY <1>0, <1>1, StartStep, ParkStep DEF RunLoop
<1>2. CASE WakeInRun
  <2>1. CASE fNestLevel > 0 \/ sus # Zero
    BY <1>0, <1>2, <2>1, ParkStep DEF WakeInRun
  <2>2. CASE ~(fNestLevel > 0 \/ sus # Zero)
    BY <1>0, <1>2, <2>2, StartStep DEF WakeInRun
  <2> QED
    BY <2>1, <2>2
<1> QED
  BY <1>1, <1>2

\* What the emulated program does while it is executed.
LEMMA ProgramStep ==
  ASSUME IInv, TypeOK', NEW t \in Threads,
         \/ SubroutineReturn(t) \/ HostSignalSend(t) \/ HostSignalResume(t)
         \/ CheckForBreak(t)
  PROVE  IInv'
<1>0. pc \in [Threads -> Locations] /\ sus \in Counters
  BY DEF IInv, TypeOK
<1>1. CASE SubroutineReturn(t)
  <2>1. sus'.ui = sus.ui
    BY <1>0, <1>1 DEF SubroutineReturn, Counters
  <2> QED
    BY <1>1, <2>1, QuietStep DEF SubroutineReturn, OpcodeAsks
<1>2. CASE HostSignalSend(t)
  <2>1. sus'.ui = sus.ui
    BY <1>0, <1>2 DEF HostSignalSend, Bump, Counters
  <2> QED
    BY <1>2, <2>1, QuietStep DEF HostSignalSend, OpcodeAsks
<1>3. CASE HostSignalResume(t)
  <2>1. sus'.ui = sus.ui
    BY <1>0, <1>3 DEF HostSignalResume, Bump, Counters
  <2>2. pc' = [pc EXCEPT ![t] = "exec"]
    BY <1>0, <1>3 DEF HostSignalResume
  <2> QED
    BY <1>3, <2>1, <2>2, QuietStep DEF HostSignalResume
<1>4. CASE CheckForBreak(t)
  <2>1. PICK l \in {"exec", "uncall"} : pc' = [pc EXCEPT ![t] = l]
    BY <1>4 DEF CheckForBreak
  <2>2. /\ pc[t] \in {"exec", "sysCall", "cycle"}
        /\ sus'.ui = sus.ui
        /\ fNestLevel' = fNestLevel \/ t = Cpu
        /\ UNCHANGED <<fState, fStop, dialog, snapshot, how, frames, idleSync>>
    BY <1>4 DEF CheckForBreak
  <2>3. l \in {"exec", "sysCall", "cycle", "uncall"} /\ l # "sysCall"
    BY <2>1
  <2> QED
    BY <2>1, <2>2, <2>3, QuietStep
<1> QED
  BY <1>1, <1>2, <1>3, <1>4

LEMMA SystemStep ==
  ASSUME IInv, TypeOK',
         \/ SystemCall \/ StopAtSysCall \/ PassSysCall
         \/ EnterDebugger \/ ScheduledReset
  PROVE  IInv'
<1>0. sus \in Counters /\ Cpu \in Threads
  BY DEF IInv, TypeOK
<1>1. CASE SystemCall
  BY <1>0, <1>1, QuietStep DEF SystemCall
<1>2. CASE StopAtSysCall
  <2>1. sus'.ui = sus.ui
    BY <1>0, <1>2 DEF StopAtSysCall, Counters
  <2> QED
    BY <1>0, <1>2, <2>1, QuietStep DEF StopAtSysCall
<1>3. CASE PassSysCall
  BY <1>0, <1>3, QuietStep DEF PassSysCall
<1>4. CASE EnterDebugger
  <2>1. sus'.ui = sus.ui
    BY <1>0, <1>4 DEF EnterDebugger, Bump, Counters
  <2> QED
    BY <1>0, <1>4, <2>1, QuietStep DEF EnterDebugger, OpcodeAsks
<1>5. CASE ScheduledReset
  <2>1. sus'.ui = sus.ui
    BY <1>0, <1>5 DEF ScheduledReset, Reset, ClearForReset, Counters
  <2> QED
    BY <1>0, <1>5, <2>1, QuietStep DEF ScheduledReset, OpcodeAsks
<1> QED
  BY <1>1, <1>2, <1>3, <1>4, <1>5

\* EmExceptionReset passes CallCPU, ...
LEMMA ThrowStep ==
  ASSUME IInv, TypeOK', Throw(Cpu), "throw" \in Features
  PROVE  IInv'
<1>0. /\ pc[Cpu] \in {"exec", "throw"}
      /\ UNCHANGED <<sus, fNestLevel, fStop, dialog, snapshot, how, idleSync>>
      /\ fState' = Top(Cpu).state
      /\ Cpu \in Threads /\ Cpu \notin Clients
      /\ sus \in Counters
  BY SessionAssumption DEF Throw, IInv, TypeOK
<1>1. frames[Cpu] # << >>
  BY <1>0 DEF IInv, Places, InCall
<1>2. /\ Fitted(Cpu) /\ Fits(Cpu, Len(frames[Cpu]), Top(Cpu))
      /\ Len(frames[Cpu]) \in Nat \ {0}
      /\ frames \in [Threads -> Seq(Frame)]
  BY <1>0, <1>1, FitsTop
<1>3. \A c \in Clients : ~Holding(c)
  BY <1>0, CpuAlone
<1>4. fState' = kRunning
  BY <1>0, <1>2 DEF Fits
<1>5. {"unwind", "resetting"} \subseteq CpuPlaces
  BY DEF CpuPlaces
<1>6. CASE Top(Cpu).back = "run"
  <2>1. Len(frames[Cpu]) = 1 /\ Top(Cpu).old.ui = 0
    BY <1>2, <1>6 DEF Fits
  <2>2. FramesPopped(Cpu) /\ pc' = [pc EXCEPT ![Cpu] = "resetting"]
    BY <1>0, <1>1, <1>2, <1>6, PopFrame DEF Throw
  <2>3. Fitted(Cpu)'
    BY <1>2, <2>2, FittedPop
  <2>4. ASSUME NEW n \in {0, 1}, Counted(Cpu, n) PROVE Counted(Cpu, n)'
    <3>1. sus.ui \in {0, 1}
      BY <2>4 DEF Counted
    <3>2. sus'.ui = Wrap4(Top(Cpu).old.ui + sus.ui)
      BY <1>0, <2>1, <3>1, WrapSmall
    <3> QED
      BY <2>2, <2>4, <3>2, CountPop
  <2>5. /\ \A u \in Threads : u # Cpu => frames'[u] = frames[u]
        /\ frames'[Cpu] = << >>
    BY <2>1, <2>2 DEF FramesPopped
  <2> QED
    BY <1>0, <1>3, <1>4, <1>5, <2>2, <2>3, <2>4, <2>5, CpuCallStep
<1>7. CASE Top(Cpu).back # "run"
  <2>1. Len(frames[Cpu]) > 1
    <3>1. Len(frames[Cpu]) # 1
      BY <1>2, <1>7 DEF Fits
    <3> QED
      BY <1>2, <3>1, OverOne, Zenon
  <2>2. frames' = frames /\ pc' = [pc EXCEPT ![Cpu] = "unwind"]
    BY <1>7 DEF Throw
  <2>3. Fitted(Cpu)'
    BY <1>2, <2>2 DEF Fitted, Fits
  <2>4. \A n \in {0, 1} : Counted(Cpu, n) => Counted(Cpu, n)'
    BY <1>0, <2>2 DEF Counted
  <2> QED
    BY <1>0, <1>1, <1>3, <1>4, <1>5, <2>1, <2>2, <2>3, <2>4, CpuCallStep
<1> QED
  BY <1>6, <1>7

\* Counters that go with their frame were those of a stop, or of none.
LEMMA CountDrop ==
  ASSUME NEW t, NEW n \in {0, 1}, Counted(t, n), FramesPopped(t), sus' = sus
  PROVE  Counted(t, n)' \/ Counted(t, 0)'
<1>1. PICK k \in 0..Len(frames[t]) :
        /\ sus.ui = IF k = 0 THEN n ELSE 0
        /\ \A i \in 1..Len(frames[t]) :
             frames[t][i].old.ui = IF i = k THEN n ELSE 0
  BY DEF Counted
<1> DEFINE m == Len(frames[t])
<1>2. /\ m \in Nat \ {0} /\ Len(frames'[t]) = m - 1
      /\ \A i \in 1..(m - 1) : frames'[t][i] = frames[t][i]
  BY DEF FramesPopped
<1> HIDE DEF m
<1>3. CASE k # m
  <2>2. /\ k \in 0..Len(frames'[t]) /\ 1..Len(frames'[t]) = 1..(m - 1)
        /\ \A i \in 1..(m - 1) : i \in 1..Len(frames[t])
    BY <1>1, <1>2, <1>3 DEF m
  <2>1. /\ k \in 0..Len(frames'[t])
        /\ sus'.ui = IF k = 0 THEN n ELSE 0
        /\ \A i \in 1..Len(frames'[t]) :
             frames'[t][i].old.ui = IF i = k THEN n ELSE 0
    BY <1>1, <1>2, <2>2
  <2> QED
    BY <2>1 DEF Counted
<1>4. CASE k = m
  <2>1. /\ 0 \in 0..Len(frames'[t]) /\ 1..Len(frames'[t]) = 1..(m - 1)
        /\ \A i \in 1..(m - 1) : i \in 1..Len(frames[t]) /\ i # m
    BY <1>2 DEF m
  <2>2. sus'.ui = 0 /\ \A i \in 1..Len(frames'[t]) : frames'[t][i].old.ui = 0
    BY <1>1, <1>2, <1>4, <2>1
  <2> QED
    BY <2>1, <2>2 DEF Counted
<1> QED
  BY <1>3, <1>4

\* ... ExecuteSubroutine, which does not put the counters back, ...
LEMMA UnwindStep ==
  ASSUME IInv, TypeOK', Unwind(Cpu), "throw" \in Features
  PROVE  IInv'
<1>0. /\ pc[Cpu] = "unwind"
      /\ UNCHANGED <<fState, sus, fStop, dialog, snapshot, how, idleSync>>
      /\ Cpu \in Threads /\ Cpu \notin Clients
  BY SessionAssumption DEF Unwind
<1>1. frames[Cpu] # << >> /\ Len(frames[Cpu]) > 1 /\ fState = kRunning
  BY <1>0 DEF IInv, Places, InCall, Backs, States
<1>2. /\ Fitted(Cpu) /\ Len(frames[Cpu]) \in Nat \ {0}
      /\ frames \in [Threads -> Seq(Frame)]
  BY <1>0, <1>1, FitsTop
<1>3. \A c \in Clients : ~Holding(c)
  BY <1>0, CpuAlone
<1>4. Len(frames[Cpu]) # 1
  BY <1>1, <1>2, OverOne, Zenon
<1>5. FramesPopped(Cpu) /\ pc' = [pc EXCEPT ![Cpu] = "throw"]
  BY <1>0, <1>1, <1>2, <1>4, PopFrame DEF Unwind
<1>6. Fitted(Cpu)'
  BY <1>2, <1>5, FittedPop
<1>7. \A n \in {0, 1} : Counted(Cpu, n) => Counted(Cpu, n)' \/ Counted(Cpu, 0)'
  BY <1>0, <1>5, CountDrop
<1>8. /\ \A u \in Threads : u # Cpu => frames'[u] = frames[u]
      /\ frames'[Cpu] # << >>
  BY <1>4, <1>5 DEF FramesPopped
<1>9. "throw" \in CpuPlaces
  BY DEF CpuPlaces
<1> QED
  BY <1>0, <1>1, <1>3, <1>5, <1>6, <1>7, <1>8, <1>9, CpuCallStep

\* ... and is caught by Run, which resets the session.
LEMMA CaughtStep ==
  ASSUME IInv, TypeOK', ResetAfterThrow(Cpu)
  PROVE  IInv'
<1>0. /\ pc[Cpu] = "resetting" /\ pc' = [pc EXCEPT ![Cpu] = "run"]
      /\ UNCHANGED <<fState, fStop, dialog, snapshot, how, frames, idleSync>>
      /\ Cpu \in Threads /\ Cpu \notin Clients
      /\ sus'.ui = sus.ui
  BY SessionAssumption
  DEF ResetAfterThrow, Reset, ClearForReset, IInv, TypeOK, Counters
<1>1. frames[Cpu] = << >> /\ fState = kRunning
  BY <1>0 DEF IInv, Places, InCall, States
<1>2. \A c \in Clients : ~Holding(c)
  BY <1>0, CpuAlone
<1>3. Fitted(Cpu)'
  BY <1>0, AllFitted DEF Fitted, Fits
<1>4. \A n \in {0, 1} : Counted(Cpu, n) => Counted(Cpu, n)'
  BY <1>0 DEF Counted
<1>5. "run" \in CpuPlaces
  BY DEF CpuPlaces
<1> QED
  BY <1>0, <1>1, <1>2, <1>3, <1>4, <1>5, CpuCallStep

\* The steps of a client outside its ROM calls.
LEMMA StopperStep ==
  ASSUME IInv, TypeOK', Orderly, NEW c \in Clients, ClientStep(c)
  PROVE  IInv'
<1>0. /\ sus \in Counters /\ how \in [Clients -> StopMethod]
      /\ pc[c] \in ClientPlaces
  BY DEF IInv, TypeOK, Places
<1>1. ASSUME NEW h \in StopMethod, SuspendThread(c, h) PROVE IInv'
  <2>1. idleSync = NoOne
    BY <1>1 DEF SuspendThread, CanEnter, Orderly
  <2>2. Request(sus, h) \in Counters
    BY <1>0, RequestType
  <2>3. Asks(c, h, Request(sus, h))
    BY <1>1, <2>1, <2>2 DEF SuspendThread, Asks
  <2> QED
    BY <1>1, <2>3, AwaitStep, SettleStep DEF SuspendThread
<1>2. CASE WakeInSuspend(c)
  <2>1. Asks(c, how[c], sus)
    BY <1>0, <1>2 DEF WakeInSuspend, Asks
  <2> QED
    BY <1>2, <2>1, AwaitStep, SettleStep DEF WakeInSuspend
<1>3. CASE ResumeThread(c) \/ ResetEmulator(c)
  BY <1>3, HolderStep
<1>4. CASE GiveUp(c) \/ WakeInDestroy(c)
  BY <1>0, <1>4 DEF GiveUp, WakeInDestroy, ClientPlaces
<1>5. CASE DestroyThread(c)
  BY <1>5, SessionAssumption DEF DestroyThread, Orderly
<1> QED
  BY <1>1, <1>2, <1>3, <1>4, <1>5 DEF ClientStep

LEMMA OnlyCpuThrows ==
  ASSUME Undisrupted, Places, NEW t \in Threads,
         Throw(t) \/ Unwind(t) \/ ResetAfterThrow(t)
  PROVE  t = Cpu /\ "throw" \in Features
<1>1. /\ t \in Clients => pc[t] \in ClientPlaces
      /\ t = Cpu => pc[t] \in CpuPlaces
  BY DEF Places
<1>2. "rpcThrow" \notin Features
  BY DEF Undisrupted
<1> QED
  BY <1>1, <1>2, SessionAssumption
  DEF Throw, Unwind, ResetAfterThrow, ClientPlaces, CpuPlaces

LEMMA OrderlyStep ==
  ASSUME Orderly, IInv, TypeOK', [Next]_vars
  PROVE  IInv'
<1>0. /\ \A t \in Threads : pc[t] \in ClientPlaces \cup CpuPlaces
      /\ pc[Cpu] \in CpuPlaces /\ pc[UiThread] \in ClientPlaces
      /\ dialog = "none"
  BY SessionAssumption DEF IInv, Places
<1>1. ASSUME NEW t \in Threads, ExecStep(t) PROVE IInv'
  <2>1. Throw(t) \/ Unwind(t) \/ ResetAfterThrow(t) => t = Cpu /\ "throw" \in Features
    BY OnlyCpuThrows DEF IInv, Orderly, Undisrupted
  <2> QED
    BY <1>1, <2>1, CallStep, EnterStep, ReturnStep, AgainStep, DoneStep,
       ProgramStep, ThrowStep, UnwindStep, CaughtStep DEF ExecStep
<1>2. CASE CpuStep
  <2>1. ~BlockOnDialog /\ ~WakeInDialog
    BY <1>0 DEF BlockOnDialog, WakeInDialog, CpuPlaces, Orderly
  <2> QED
    BY <1>2, <2>1, RunStep, SystemStep DEF CpuStep
<1>3. CASE UiStep
  <2>1. ~ShowDialog /\ ~AnswerDialog /\ ~UnblockDialog
    BY <1>0 DEF ShowDialog, AnswerDialog, UnblockDialog, ClientPlaces
  <2> QED
    BY <1>3, <2>1, HolderStep, SessionAssumption DEF UiStep
<1>4. CASE UNCHANGED vars
  <2>1. \A t \in Threads : Top(t)' = Top(t) /\ (InCall(t)' <=> InCall(t))
    BY <1>4 DEF vars, Top, InCall
  <2>2. \A c \in Clients : Holding(c)' <=> Holding(c)
    BY <1>4 DEF vars, Holding
  <2>3. \A u, n : Counted(u, n)' <=> Counted(u, n)
    BY <1>4 DEF vars, Counted
  <2>4. Places' /\ OneClient' /\ Backs' /\ Held' /\ Nested'
    BY <1>4, <2>1, <2>2
    DEF vars, IInv, Places, OneClient, Backs, Held, Nested
  <2>5. States' /\ Counts' /\ Lasts'
    BY <1>4, <2>1, <2>2, <2>3 DEF vars, IInv, States, Counts, Lasts, Awaited
  <2> QED
    BY <2>4, <2>5 DEF IInv
<1> QED
  BY <1>1, <1>2, <1>3, <1>4, StopperStep DEF Next, Terminated

LEMMA OrderlyInvariant == ASSUME Orderly PROVE Spec => []IInv
<1>1. IInv /\ TypeOK' /\ [Next]_vars => IInv'
  BY OrderlyStep
<1>2. Init => IInv
  BY OrderlyInit
<1> QED
  BY <1>1, <1>2, TypeCorrect, PTL DEF Spec

\* Among clients that keep to the rules, a stop lasts as long as its stopper:
\* the CPU thread stays parked in Run through all the ROM calls and resets of
\* the client, whatever the emulated program does with signals, the debugger,
\* resets and head patches, for any number of clients and any depth of calls,
\* and although an exception may forget that the stop was asked for.
THEOREM StopsHold == ASSUME Orderly PROVE Spec => []StopMeansStopped
<1>1. IInv => StopMeansStopped
  BY DEF IInv, Held, StopMeansStopped
<1> QED
  BY <1>1, OrderlyInvariant, PTL

-----------------------------------------------------------------------------
(* One thread at a time                                                    *)

\* While a thread is in a call, or may be back in one, no other is.
Callers ==
  \A t \in Threads :
    /\ pc[t] \notin {"idle", "suspending"}
    /\ t # Cpu \/ pc[t] # "parked" \/ fNestLevel = 0
    => \A u \in Threads : u # t => frames[u] = << >>

\* What is the same for clients with and without idle_sync.
Regular ==
  /\ TypeOK /\ Places /\ Held /\ Callers
  /\ \A t \in Threads : Fitted(t)
  /\ pc[Cpu] \in {"subLoop", "unwind"} => Len(frames[Cpu]) > 1

LEMMA OrderlyRegular == IInv => Regular
<1> SUFFICES ASSUME IInv PROVE Regular
  OBVIOUS
<1>1. ASSUME NEW t \in Threads, pc[t] # "idle", pc[t] # "suspending",
             t # Cpu \/ pc[t] # "parked" \/ fNestLevel = 0
      PROVE  \A u \in Threads : u # t => frames[u] = << >>
  <2>1. CASE t = Cpu /\ pc[t] # "parked"
    BY <2>1, CpuAlone
  <2>2. CASE t = Cpu /\ fNestLevel = 0
    BY <2>2, SessionAssumption DEF IInv, Nested
  <2>3. CASE t \in Clients
    <3>1. Holding(t)
      BY <1>1, <2>3 DEF IInv, Places, ClientPlaces, InCall, Holding
    <3> QED
      BY <2>3, <3>1, ClientAlone
  <2> QED
    BY <1>1, <2>1, <2>2, <2>3
<1>2. Callers
  BY <1>1 DEF Callers
<1> QED
  BY <1>2, AllFitted DEF IInv, Backs, Regular

LEMMA RegularTop ==
  ASSUME Regular, NEW t \in Threads, frames[t] # << >>
  PROVE  Fits(t, Len(frames[t]), Top(t)) /\ Top(t) \in Frame
<1>1. Fitted(t) /\ frames \in [Threads -> Seq(Frame)]
  BY DEF Regular, TypeOK
<1>2. Top(t) \in Frame /\ Len(frames[t]) \in 1..Len(frames[t])
  BY <1>1, TopType
<1> QED
  BY <1>1, <1>2, Zenon DEF Fitted, Top

\* Whoever holds a stop, or executes, is the only one with ROM calls.
LEMMA OneInCalls ==
  ASSUME Regular, NEW t \in Threads, pc[t] # "idle", pc[t] # "suspending",
         t # Cpu \/ pc[t] # "parked" \/ fNestLevel = 0
  PROVE  \A u \in Threads : u # t => frames[u] = << >> /\ ~InCall(u)
BY DEF Regular, Callers, Places

LEMMA AloneInCalls ==
  ASSUME Regular, NEW c \in Clients, Holding(c)
  PROVE  /\ pc[Cpu] = "parked"
         /\ \A u \in Threads : u # c => frames[u] = << >> /\ ~InCall(u)
<1>1. c \in Threads /\ c # Cpu
  BY SessionAssumption
<1>2. pc[c] # "idle" /\ pc[c] # "suspending"
  BY <1>1 DEF Regular, Places, InCall, Holding
<1> QED
  BY <1>1, <1>2, OneInCalls DEF Regular, Held

LEMMA OneExecutes == Regular => OneExecutor
<1> SUFFICES ASSUME Regular, NEW t \in Threads, NEW u \in Threads,
                    Executing(t), Executing(u)
             PROVE  t = u
  BY DEF OneExecutor
<1>1. pc[t] # "idle" /\ pc[t] # "suspending" /\ pc[t] # "parked" /\ InCall(u)
  BY DEF Executing, InCall
<1> QED
  BY <1>1, OneInCalls

\* Then at most one thread executes the emulated processor, too.
THEOREM OneAtATime == ASSUME Orderly PROVE Spec => []OneExecutor
<1>1. IInv => OneExecutor
  BY OrderlyRegular, OneExecutes
<1> QED
  BY <1>1, OrderlyInvariant, PTL

-----------------------------------------------------------------------------
(* EmSession implements SessionGate                                        *)

\* What the refinement mapping of Gate makes of a state.
GateHolders == {c \in Clients : Holding(c)}
GateUser ==
  IF \E t \in Threads : Executing(t)
  THEN CHOOSE t \in Threads : Executing(t) ELSE NoOne

GateSays ==
  /\ \A t \in Threads : Executing(t) => GateUser = t
  /\ (\A t \in Threads : ~Executing(t)) => GateUser = NoOne
  /\ Executing(Cpu) => \A c \in Clients : ~Holding(c)
  /\ \A c \in Clients : InCall(c) => Holding(c)
  /\ \A c \in Clients : Holding(c) =>
       \A t \in Threads : t # c => ~Executing(t)

\* The executor is the only one the CHOOSE can find.
LEMMA UserIs == Regular => GateSays
<1> SUFFICES ASSUME Regular PROVE GateSays
  OBVIOUS
<1>1. Executing(Cpu) => \A c \in Clients : ~Holding(c)
  BY DEF Executing, Regular, Held
<1>2. \A c \in Clients : InCall(c) => Holding(c)
  BY DEF Regular, Places, Holding
<1>3. \A c \in Clients : Holding(c) => \A t \in Threads : t # c => ~Executing(t)
  BY AloneInCalls DEF Executing, InCall
<1>4. \A t, u \in Threads : Executing(t) /\ Executing(u) => t = u
  BY OneExecutes DEF OneExecutor
<1>5. ASSUME NEW t \in Threads, Executing(t) PROVE GateUser = t
  <2> DEFINE v == CHOOSE u \in Threads : Executing(u)
  <2>1. v \in Threads /\ Executing(v)
    BY <1>5
  <2>2. GateUser = v
    BY <1>5 DEF GateUser
  <2> QED
    BY <1>4, <1>5, <2>1, <2>2
<1>6. (\A t \in Threads : ~Executing(t)) => GateUser = NoOne
  BY DEF GateUser
<1> QED
  BY <1>1, <1>2, <1>3, <1>5, <1>6 DEF GateSays

\* A step moves one thread, which enters and leaves the processor in a call.
Moves(t) ==
  /\ \A u \in Threads : u # t => pc'[u] = pc[u] /\ frames'[u] = frames[u]
  /\ Executing(t)' => InCall(t)
  /\ Executing(t) /\ t # Cpu => InCall(t)'

LEMMA ClientMoves ==
  ASSUME Regular, NEW c \in Clients, ClientStep(c)
  PROVE  Moves(c)
<1>0. /\ pc \in [Threads -> Locations] /\ c \in Threads
      /\ pc[c] \in ClientPlaces
  BY DEF Regular, TypeOK, Places
<1>1. /\ frames' = frames
      /\ \E l \in {"idle", "suspending", "stopped", "failed", "destroying",
                   "destroyed"} : pc' = [pc EXCEPT ![c] = l]
      /\ pc[c] \in {"idle", "suspending", "stopped", "caught", "failed",
                    "destroying"}
  <2>1. CASE \E h \in StopMethod : SuspendThread(c, h)
    BY <2>1, ZenonT(60) DEF SuspendThread, AwaitStop, Settle
  <2>2. CASE WakeInSuspend(c)
    BY <2>2, ZenonT(60) DEF WakeInSuspend, AwaitStop, Settle
  <2>3. CASE ResumeThread(c) \/ GiveUp(c) \/ DestroyThread(c)
    BY <2>3 DEF ResumeThread, GiveUp, DestroyThread
  <2>4. CASE ResetEmulator(c)
    <3>1. pc' = [pc EXCEPT ![c] = "stopped"]
      BY <1>0, <2>4 DEF ResetEmulator
    <3> QED
      BY <2>4, <3>1 DEF ResetEmulator
  <2>5. CASE WakeInDestroy(c)
    BY <1>0, <2>5 DEF WakeInDestroy, ClientPlaces
  <2> QED
    BY <2>1, <2>2, <2>3, <2>4, <2>5 DEF ClientStep
<1> QED
  BY <1>0, <1>1 DEF Moves, Executing, InCall

LEMMA ExecMoves ==
  ASSUME Regular, Undisrupted, NEW t \in Threads, ExecStep(t)
  PROVE  Moves(t)
<1>0. /\ pc \in [Threads -> Locations]
      /\ frames \in [Threads -> Seq(Frame)]
      /\ pc[t] \in ClientPlaces \cup CpuPlaces
  BY DEF Regular, TypeOK, Places
<1>1. Throw(t) \/ Unwind(t) \/ ResetAfterThrow(t) => t = Cpu
  BY OnlyCpuThrows DEF Regular
<1>2. \A u \in Threads : u # t => frames'[u] = frames[u]
  BY <1>0
  DEF ExecStep, ExecuteSubroutine, CallCPU, CheckForBreak, CallCPUReturn,
      SubroutineAgain, SubroutineDone, SubroutineReturn, HostSignalSend,
      HostSignalResume, Throw, Unwind, ResetAfterThrow, OpcodeAsks, Push, Pop,
      SetTop
<1>3. CASE ExecuteSubroutine(t)
  BY <1>0, <1>2, <1>3 DEF ExecuteSubroutine, Moves, Executing, InCall
<1>4. CASE CallCPU(t) \/ CheckForBreak(t) \/ SubroutineAgain(t)
  BY <1>0, <1>2, <1>4
  DEF CallCPU, CheckForBreak, SubroutineAgain, Moves, Executing, InCall
<1>5. CASE CallCPUReturn(t) \/ SubroutineDone(t)
  <2>1. /\ pc[t] \in {"uncall", "subLoop"}
        /\ \E l : pc' = [pc EXCEPT ![t] = l]
    BY <1>5 DEF CallCPUReturn, SubroutineDone
  <2> QED
    BY <1>0, <1>2, <2>1 DEF Moves, Executing, InCall
<1>6. CASE SubroutineReturn(t) \/ HostSignalSend(t) \/ HostSignalResume(t)
  BY <1>0, <1>2, <1>6
  DEF SubroutineReturn, HostSignalSend, HostSignalResume, OpcodeAsks, Moves,
      Executing, InCall
<1>7. CASE Throw(t) \/ Unwind(t) \/ ResetAfterThrow(t)
  <2>1. \E l \in {"resetting", "unwind", "throw", "run"} : pc' = [pc EXCEPT ![t] = l]
    BY <1>1, <1>7 DEF Throw, Unwind, ResetAfterThrow
  <2>2. ~Executing(t)'
    BY <1>0, <2>1 DEF Executing
  <2> QED
    BY <1>0, <1>1, <1>2, <1>7, <2>1, <2>2 DEF Moves
<1> QED
  BY <1>3, <1>4, <1>5, <1>6, <1>7 DEF ExecStep

LEMMA CpuMoves ==
  ASSUME Regular, Undisrupted, CpuStep
  PROVE  Moves(Cpu)
<1>0. /\ pc \in [Threads -> Locations]
      /\ frames \in [Threads -> Seq(Frame)]
      /\ pc[Cpu] \in CpuPlaces /\ Cpu \in Threads
  BY DEF Regular, TypeOK, Places
<1>1. ~BlockOnDialog /\ ~WakeInDialog
  BY <1>0 DEF BlockOnDialog, WakeInDialog, CpuPlaces, Undisrupted
<1>2. CASE RunLoop \/ WakeInRun
  <2>1. /\ pc[Cpu] \in {"run", "parked"}
        /\ Park \/ Start \/ Finish
    BY <1>2 DEF RunLoop, WakeInRun
  <2>2. /\ \E l \in {"parked", "callCPU", "done"} : pc' = [pc EXCEPT ![Cpu] = l]
        /\ \A u \in Threads : u # Cpu => frames'[u] = frames[u]
    BY <1>0, <2>1 DEF Park, Start, Finish, Push
  <2> QED
    BY <1>0, <2>1, <2>2 DEF Moves, Executing, InCall
<1>3. CASE SystemCall \/ StopAtSysCall \/ PassSysCall
  BY <1>0, <1>3
  DEF SystemCall, StopAtSysCall, PassSysCall, Moves, Executing, InCall
<1>4. CASE EnterDebugger \/ ScheduledReset
  BY <1>0, <1>4
  DEF EnterDebugger, ScheduledReset, OpcodeAsks, Moves, Executing, InCall
<1> QED
  BY <1>1, <1>2, <1>3, <1>4 DEF CpuStep

LEMMA UiMoves ==
  ASSUME Regular, UiStep
  PROVE  Moves(UiThread)
<1>0. /\ pc \in [Threads -> Locations] /\ UiThread \in Threads
      /\ pc[UiThread] \in ClientPlaces
      /\ dialog = "none"
  BY SessionAssumption DEF Regular, TypeOK, Places
<1>1. ~ShowDialog /\ ~AnswerDialog /\ ~UnblockDialog
  BY <1>0 DEF ShowDialog, AnswerDialog, UnblockDialog, ClientPlaces
<1> QED
  BY <1>0, <1>1
  DEF UiStep, GetSuspendState, SetSuspendState, Moves, Executing, InCall

\* A thread that moves takes a step of the gate, or none.
LEMMA MovesGate ==
  ASSUME GateSays, GateSays', NEW t \in Threads, Moves(t)
  PROVE  [Gate!Next]_<<GateHolders, GateUser>>
<1>1. GateSays /\ GateSays'
  OBVIOUS
<1>2. /\ \A u \in Threads : u # t => (Executing(u)' <=> Executing(u))
      /\ \A c \in Clients : c # t => (Holding(c)' <=> Holding(c))
      /\ \A c \in Clients : c \in Threads /\ c # Cpu /\ c # NoOne
      /\ Cpu \in Threads /\ NoOne # Cpu
  BY SessionAssumption DEF Moves, Executing, Holding
<1>3. Executing(t) => InCall(t) /\ (t # Cpu => InCall(t)')
  BY DEF Moves, Executing, InCall
<1>4. Executing(t)' => InCall(t) /\ InCall(t)'
  BY DEF Moves, Executing, InCall
<1>5. CASE t = Cpu
  <2>1. GateHolders' = GateHolders
    BY <1>2, <1>5 DEF GateHolders
  <2>2. CASE Executing(t) /\ Executing(t)'
    <3>1. GateUser' = GateUser
      BY <1>1, <2>2, Zenon DEF GateSays
    <3> QED
      BY <2>1, <3>1
  <2>3. CASE Executing(t) /\ ~Executing(t)'
    <3>1. GateUser = Cpu /\ GateUser' = NoOne
      BY <1>1, <1>2, <1>5, <2>3 DEF GateSays, Executing, InCall
    <3>2. Gate!Pause
      BY <2>1, <3>1 DEF Gate!Pause, GateHolders, GateUser
    <3> QED
      BY <3>2 DEF Gate!Next
  <2>4. CASE ~Executing(t) /\ Executing(t)'
    <3>1. \A c \in Clients : ~Holding(c)' /\ ~Holding(c)
      BY <1>1, <1>2, <1>5, <2>4 DEF GateSays
    <3>2. \A u \in Threads : ~Executing(u)
      BY <1>1, <1>5, <2>4, <3>1 DEF GateSays, Executing, InCall
    <3>3. GateUser = NoOne /\ GateUser' = Cpu /\ GateHolders = {}
      BY <1>1, <1>5, <2>4, <3>1, <3>2 DEF GateSays, GateHolders
    <3>4. Gate!Run
      BY <2>1, <3>3 DEF Gate!Run, GateHolders, GateUser
    <3> QED
      BY <3>4 DEF Gate!Next
  <2>5. CASE ~Executing(t) /\ ~Executing(t)'
    <3>1. GateUser' = GateUser
      BY <1>1, <1>2, <2>5, Zenon DEF GateSays
    <3> QED
      BY <2>1, <3>1
  <2> QED
    BY <2>2, <2>3, <2>4, <2>5
<1>6. CASE t \in Clients
  <2>1. CASE Holding(t) /\ Holding(t)'
    <3>1. GateHolders' = GateHolders /\ t \in GateHolders
      BY <1>2, <2>1, <1>6 DEF GateHolders
    <3>2. \A u \in Threads : u # t => ~Executing(u) /\ ~Executing(u)'
      BY <1>1, <1>6, <2>1 DEF GateSays
    <3>3. /\ GateUser = IF Executing(t) THEN t ELSE NoOne
          /\ GateUser' = IF Executing(t)' THEN t ELSE NoOne
      BY <1>1, <3>2, Zenon DEF GateSays
    <3>4. CASE Executing(t) <=> Executing(t)'
      BY <3>1, <3>3, <3>4
    <3>5. CASE Executing(t) /\ ~Executing(t)'
      <4>1. Gate!Return(t)
        BY <3>1, <3>3, <3>5 DEF Gate!Return, GateHolders, GateUser
      <4> QED
        BY <1>6, <4>1 DEF Gate!Next
    <3>6. CASE ~Executing(t) /\ Executing(t)'
      <4>1. Gate!Borrow(t)
        BY <3>1, <3>3, <3>6 DEF Gate!Borrow, GateHolders, GateUser
      <4> QED
        BY <1>6, <4>1 DEF Gate!Next
    <3> QED
      BY <3>4, <3>5, <3>6
  <2>2. CASE ~(Holding(t) /\ Holding(t)')
    <3>1. ~Executing(t) /\ ~Executing(t)'
      BY <1>1, <1>2, <1>3, <1>4, <1>6, <2>2 DEF GateSays
    <3>2. GateUser' = GateUser
      BY <1>1, <1>2, <3>1, Zenon DEF GateSays
    <3>3. CASE ~Holding(t) /\ ~Holding(t)'
      <4>1. GateHolders' = GateHolders
        BY <1>2, <1>6, <3>3 DEF GateHolders
      <4> QED
        BY <3>2, <4>1
    <3>4. CASE ~Holding(t) /\ Holding(t)'
      <4>1. ~Executing(Cpu)'
        BY <1>1, <1>6, <3>4 DEF GateSays
      <4>2. GateUser' # Cpu
        BY <1>1, <1>2, <1>6, <3>1, <4>1 DEF GateSays
      <4>3. t \notin GateHolders /\ GateHolders' = GateHolders \cup {t}
        BY <1>2, <1>6, <3>4 DEF GateHolders
      <4>4. Gate!Grant(t)
        BY <3>2, <4>2, <4>3 DEF Gate!Grant, GateHolders, GateUser
      <4> QED
        BY <1>6, <4>4 DEF Gate!Next
    <3>5. CASE Holding(t) /\ ~Holding(t)'
      <4>1. GateUser # t
        BY <1>1, <1>2, <1>6, <3>1 DEF GateSays
      <4>2. t \in GateHolders /\ GateHolders' = GateHolders \ {t}
        BY <1>2, <1>6, <3>5 DEF GateHolders
      <4>3. Gate!Release(t)
        BY <3>2, <4>1, <4>2 DEF Gate!Release, GateHolders, GateUser
      <4> QED
        BY <1>6, <4>3 DEF Gate!Next
    <3> QED
      BY <2>2, <3>3, <3>4, <3>5
  <2> QED
    BY <2>1, <2>2
<1> QED
  BY <1>5, <1>6

LEMMA GateInit == Init => Gate!Init
<1> SUFFICES ASSUME Init PROVE Gate!Init
  OBVIOUS
<1>1. /\ \A t \in Threads : ~Executing(t)
      /\ \A c \in Clients : ~Holding(c)
  BY SessionAssumption DEF Init, Executing, Holding
<1> QED
  BY <1>1 DEF Gate!Init

LEMMA GateStep ==
  ASSUME Undisrupted, Regular, Regular', [Next]_vars
  PROVE  [Gate!Next]_Gate!gate
<1> SUFFICES [Gate!Next]_<<GateHolders, GateUser>>
  BY DEF Gate!gate, GateHolders, GateUser
<1>1. GateSays /\ GateSays'
  BY UserIs, PTL
<1>2. CASE \E t \in Threads : Moves(t)
  BY <1>1, <1>2, MovesGate
<1>3. CASE UNCHANGED vars
  BY <1>3 DEF vars, GateUser, GateHolders, Executing, Holding
<1>4. ASSUME NEW c \in Clients, ClientStep(c) PROVE Moves(c)
  BY <1>4, ClientMoves
<1>5. ASSUME NEW t \in Threads, ExecStep(t) PROVE Moves(t)
  BY <1>5, ExecMoves
<1>6. CpuStep => Moves(Cpu)
  BY CpuMoves
<1>7. UiStep => Moves(UiThread)
  BY UiMoves
<1> QED
  BY <1>2, <1>3, <1>4, <1>5, <1>6, <1>7, SessionAssumption DEF Next, Terminated

\* Among clients that keep to the rules, EmSession is a gate: every step of
\* the session, of any number of clients, is one that SessionGate allows.
\* The CPU thread starts only while nobody holds a stop, a stop is granted or
\* released only while the processor is not the CPU thread's or its holder's,
\* and only the holder of a stop borrows it.
THEOREM ImplementsGate == ASSUME Orderly PROVE Spec => GateSpec
<1>1. IInv /\ IInv' /\ [Next]_vars => [Gate!Next]_Gate!gate
  <2>1. Undisrupted
    BY DEF Orderly, Undisrupted
  <2>2. IInv => Regular
    BY OrderlyRegular
  <2>3. IInv' => Regular'
    BY <2>2, PTL
  <2> QED
    BY <2>1, <2>2, <2>3, GateStep
<1> QED
  BY <1>1, GateInit, OrderlyInvariant, PTL DEF Spec, GateSpec, Gate!Spec

-----------------------------------------------------------------------------
(* The nesting level                                                       *)

\* A frame restores the number of ROM calls below it, and fNestLevel is the
\* number of those of the one thread that has any.
NestOf(t, i) == IF i = 1 THEN 0 ELSE i - (IF t = Cpu THEN 2 ELSE 1)

Restores(t) == \A i \in 1..Len(frames[t]) : frames[t][i].nest = NestOf(t, i)

Nests ==
  /\ \A t \in Threads : Restores(t)
  /\ \A t \in Threads : frames[t] # << >> => fNestLevel = Depth(t)
  /\ (\A t \in Threads : frames[t] = << >>) => fNestLevel = 0

LEMMA NestsInit == Init => Nests
<1>1. Len(<< >>) = 0
  BY EmptySeq
<1> QED
  BY <1>1 DEF Init, Nests, Restores

\* The step of that thread.
LEMMA NestStep ==
  ASSUME Nests, NEW t \in Threads,
         \A u \in Threads : u # t => frames[u] = << >>,
         \A u \in Threads : u # t => frames'[u] = frames[u],
         Restores(t)',
         frames'[t] # << >> => fNestLevel' = Depth(t)',
         frames'[t] = << >> => fNestLevel' = 0
  PROVE  Nests'
<1>1. Len(<< >>) = 0 /\ 1..0 = {}
  BY EmptySeq
<1>2. \A u \in Threads : u # t => frames'[u] = << >>
  OBVIOUS
<1>3. \A u \in Threads : u # t => Restores(u)'
  BY <1>1, <1>2 DEF Restores
<1> QED
  BY <1>2, <1>3 DEF Nests

\* A step that leaves the frames and the level alone.
LEMMA SameNests ==
  ASSUME Nests, UNCHANGED <<frames, fNestLevel>> PROVE Nests'
BY DEF Nests, Restores, Depth

LEMMA NestExec ==
  ASSUME Regular, Nests, Undisrupted, NEW t \in Threads, ExecStep(t)
  PROVE  Nests'
<1>0. /\ pc[t] \in ClientPlaces \cup CpuPlaces
      /\ frames \in [Threads -> Seq(Frame)]
      /\ fNestLevel \in Nat
      /\ Restores(t)
      /\ Len(<< >>) = 0
  BY EmptySeq DEF Regular, Places, TypeOK, Nests
<1>1. Throw(t) \/ Unwind(t) \/ ResetAfterThrow(t) => t = Cpu
  BY OnlyCpuThrows DEF Regular
<1>2. CASE \/ CheckForBreak(t) \/ SubroutineReturn(t)
           \/ HostSignalSend(t) \/ HostSignalResume(t)
  BY <1>2, SameNests
  DEF CheckForBreak, SubroutineReturn, HostSignalSend, HostSignalResume
<1>3. ASSUME \/ ExecuteSubroutine(t) \/ CallCPU(t) \/ CallCPUReturn(t)
             \/ SubroutineAgain(t) \/ SubroutineDone(t)
      PROVE  /\ \A u \in Threads : u # t => frames[u] = << >>
             /\ ~ExecuteSubroutine(t) => frames[t] # << >>
  <2>1. /\ pc[t] \in {"stopped", "exec", "sysCall", "callCPU", "uncall", "subLoop"}
        /\ ~ExecuteSubroutine(t) => pc[t] \in {"callCPU", "uncall", "subLoop"}
    BY <1>0, <1>3
    DEF ExecuteSubroutine, CallCPU, CallCPUReturn, SubroutineAgain,
        SubroutineDone, ClientPlaces, CpuPlaces
  <2>2. ~ExecuteSubroutine(t) => frames[t] # << >>
    BY <2>1 DEF Regular, Places, InCall
  <2>3. pc[t] # "parked" /\ pc[t] # "idle" /\ pc[t] # "suspending"
    BY <2>1
  <2> QED
    BY <2>2, <2>3, OneInCalls
<1> DEFINE n == Len(frames[t])
<1>4. n \in Nat /\ (frames[t] # << >> <=> n > 0)
  BY <1>0, EmptySeq
<1>5. frames[t] # << >> => fNestLevel = n - (IF t = Cpu THEN 1 ELSE 0)
  BY DEF Nests, Depth
<1>6. CASE ExecuteSubroutine(t)
  <2> DEFINE f == [old |-> sus, nest |-> fNestLevel, state |-> fState,
                   back |-> pc[t]]
  <2>1. f \in Frame /\ f.nest = fNestLevel
    BY <1>6 DEF Frame, TypeOK, Regular, ExecuteSubroutine
  <2>2. Push(t, f) /\ fNestLevel' = fNestLevel + 1
    BY <1>6 DEF ExecuteSubroutine
  <2> HIDE DEF f
  <2>3. FramesPushed(t, f)
    BY <1>0, <2>1, <2>2, PushFrame
  <2>4. t = Cpu => frames[t] # << >>
    BY <1>0, <1>6 DEF ExecuteSubroutine, Regular, Places, CpuPlaces, InCall
  <2>5. frames[t] = << >> => fNestLevel = 0
    BY <1>3, <1>6 DEF Nests
  <2>6. /\ fNestLevel = n - (IF t = Cpu THEN 1 ELSE 0)
        /\ fNestLevel = NestOf(t, n + 1)
    <3> HIDE DEF n
    <3>1. CASE n > 0
      BY <1>4, <1>5, <3>1 DEF NestOf
    <3>2. CASE n = 0
      BY <1>4, <2>4, <2>5, <3>2 DEF NestOf
    <3> QED
      BY <1>4, <3>1, <3>2
  <2>8. Restores(t)'
    <3>1. \A i \in 1..n : frames'[t][i].nest = NestOf(t, i)
      BY <1>0, <2>3 DEF Restores, FramesPushed
    <3>2. frames'[t][n + 1].nest = NestOf(t, n + 1)
      BY <2>1, <2>3, <2>6 DEF FramesPushed
    <3>3. Len(frames'[t]) = n + 1
      BY <2>3 DEF FramesPushed
    <3>4. \A i \in 1..(n + 1) : i \in 1..n \/ i = n + 1
      BY <1>4
    <3>5. \A i \in 1..Len(frames'[t]) : frames'[t][i].nest = NestOf(t, i)
      BY <3>1, <3>2, <3>3, <3>4, Zenon
    <3> QED
      BY <3>5 DEF Restores, NestOf
  <2>9. fNestLevel' = Depth(t)' /\ frames'[t] # << >>
    BY <1>4, <2>2, <2>3, <2>6 DEF Depth, FramesPushed
  <2> QED
    BY <1>3, <1>6, <2>3, <2>8, <2>9, NestStep DEF FramesPushed
<1>7. ASSUME NEW f \in Frame, f.nest = Top(t).nest, SetTop(t, f),
             frames[t] # << >>,
             \A u \in Threads : u # t => frames[u] = << >>,
             fNestLevel' = n - (IF t = Cpu THEN 1 ELSE 0)
      PROVE  Nests'
  <2>1. FramesSet(t, f)
    BY <1>0, <1>7, SetTopFrame
  <2>2. f.nest = NestOf(t, n)
    <3>1. n \in 1..n
      BY <1>4, <1>7
    <3> QED
      BY <1>0, <1>7, <3>1 DEF Restores, Top
  <2>3. Restores(t)'
    <3>1. Len(frames'[t]) = n /\ n \in Nat
      BY <2>1 DEF FramesSet, Depth
    <3>2. ASSUME NEW i \in 1..n PROVE frames'[t][i].nest = NestOf(t, i)
      <4>1. CASE i = n
        BY <2>1, <2>2, <4>1 DEF FramesSet, Depth
      <4>2. CASE i # n
        BY <1>0, <2>1, <4>2 DEF FramesSet, Depth, Restores
      <4> QED
        BY <4>1, <4>2
    <3> QED
      BY <3>1, <3>2 DEF Restores, NestOf
  <2>4. fNestLevel' = Depth(t)' /\ frames'[t] # << >>
    BY <1>7, <2>1 DEF Depth, FramesSet
  <2> QED
    BY <1>7, <2>1, <2>3, <2>4, NestStep DEF FramesSet
<1>8. ASSUME FramesPopped(t),
             \A u \in Threads : u # t => frames[u] = << >>,
             fNestLevel' = NestOf(t, n)
      PROVE  Nests'
  <2>1. Restores(t)'
    BY <1>0, <1>8 DEF Restores, FramesPopped, NestOf
  <2>2. /\ frames'[t] # << >> => fNestLevel' = Depth(t)'
        /\ frames'[t] = << >> => fNestLevel' = 0
    <3>1. n # 0 /\ Len(frames'[t]) = n - 1 /\ (frames'[t] = << >> <=> n = 1)
      BY <1>8 DEF FramesPopped
    <3>2. Depth(t)' = (n - 1) - (IF t = Cpu /\ n # 1 THEN 1 ELSE 0)
      BY <3>1 DEF Depth
    <3> HIDE DEF n
    <3>3. CASE n = 1
      BY <1>8, <3>1, <3>3 DEF NestOf
    <3>4. CASE n # 1
      BY <1>4, <1>8, <3>1, <3>2, <3>4 DEF NestOf
    <3> QED
      BY <3>3, <3>4
  <2> QED
    BY <1>8, <2>1, <2>2, NestStep DEF FramesPopped
<1>9. frames[t] # << >> => Top(t).nest = NestOf(t, n)
  BY <1>0, <1>4 DEF Restores, Top
<1>10. CASE CallCPU(t)
  <2>1. Top(t) \in Frame
    BY <1>0, <1>3, <1>10, TopType DEF CallCPU, ExecuteSubroutine
  <2>2. frames[t] # << >>
    BY <1>3, <1>10 DEF CallCPU, ExecuteSubroutine
  <2>3. SetTop(t, [Top(t) EXCEPT !.state = fState])
    BY <1>10 DEF CallCPU
  <2>4. /\ [Top(t) EXCEPT !.state = fState] \in Frame
        /\ [Top(t) EXCEPT !.state = fState].nest = Top(t).nest
    BY <2>1 DEF Frame, Regular, TypeOK
  <2> QED
    BY <1>3, <1>5, <1>7, <1>10, <2>2, <2>3, <2>4 DEF CallCPU
<1>11. CASE SubroutineAgain(t)
  <2>1. frames[t] # << >>
    BY <1>3, <1>11 DEF SubroutineAgain, ExecuteSubroutine
  <2>2. /\ Top(t) \in Frame
        /\ Absorb(Top(t).old, sus) \in Counters
    BY <1>0, <2>1, TopType, AbsorbType DEF Regular, TypeOK
  <2>3. /\ [Top(t) EXCEPT !.old = Absorb(@, sus)] \in Frame
        /\ [Top(t) EXCEPT !.old = Absorb(@, sus)].nest = Top(t).nest
    BY <2>2 DEF Frame
  <2>4. t = Cpu => n > 1
    BY <1>11 DEF SubroutineAgain, Regular
  <2>5. Top(t).nest + 1 = n - (IF t = Cpu THEN 1 ELSE 0)
    <3> HIDE DEF n
    <3>1. CASE t = Cpu
      BY <1>4, <1>9, <2>1, <2>4, <3>1 DEF NestOf
    <3>2. CASE t # Cpu
      BY <1>4, <1>9, <2>1, <3>2 DEF NestOf
    <3> QED
      BY <3>1, <3>2
  <2> QED
    BY <1>3, <1>7, <1>11, <2>1, <2>3, <2>5 DEF SubroutineAgain
<1>12. CASE SubroutineDone(t)
  <2>1. frames[t] # << >>
    BY <1>3, <1>12 DEF SubroutineDone, ExecuteSubroutine
  <2>2. FramesPopped(t)
    BY <1>0, <1>12, <2>1, PopFrame DEF SubroutineDone
  <2> QED
    BY <1>3, <1>8, <1>9, <1>12, <2>1, <2>2 DEF SubroutineDone
<1>13. CASE CallCPUReturn(t)
  <2>1. frames[t] # << >>
    BY <1>3, <1>13 DEF CallCPUReturn, ExecuteSubroutine
  <2>2. CASE Top(t).back # "run"
    BY <1>13, <2>2, SameNests DEF CallCPUReturn
  <2>3. CASE Top(t).back = "run"
    <3>1. FramesPopped(t)
      BY <1>0, <1>13, <2>1, <2>3, PopFrame DEF CallCPUReturn
    <3>2. t = Cpu /\ n = 1
      <4>1. Fits(t, n, Top(t))
        BY <2>1, RegularTop
      <4> QED
        BY <2>3, <4>1 DEF Fits
    <3>3. fNestLevel' = NestOf(t, n)
      BY <1>5, <1>13, <2>1, <3>2 DEF NestOf, CallCPUReturn
    <3> QED
      BY <1>3, <1>8, <1>13, <3>1, <3>3
  <2> QED
    BY <2>2, <2>3
<1>14. ASSUME Throw(t) \/ Unwind(t) \/ ResetAfterThrow(t)
       PROVE  /\ t = Cpu /\ \A u \in Threads : u # t => frames[u] = << >>
              /\ ~ResetAfterThrow(t) => frames[t] # << >>
              /\ ResetAfterThrow(t) => frames[t] = << >>
  <2>1. /\ pc[t] \in {"exec", "throw", "unwind", "resetting"}
        /\ pc[t] = "resetting" <=> ResetAfterThrow(t)
    BY <1>14 DEF Throw, Unwind, ResetAfterThrow
  <2>2. /\ pc[t] # "resetting" => frames[t] # << >>
        /\ pc[t] = "resetting" => frames[t] = << >>
    BY <2>1 DEF Regular, Places, InCall
  <2>3. pc[t] # "parked" /\ pc[t] # "idle" /\ pc[t] # "suspending"
    BY <2>1
  <2> QED
    BY <1>1, <1>14, <2>1, <2>2, <2>3, OneInCalls
<1>15. CASE Throw(t)
  <2>1. frames[t] # << >> /\ t = Cpu /\ ~ResetAfterThrow(t)
    BY <1>14, <1>15 DEF Throw, ResetAfterThrow
  <2>2. CASE Top(t).back # "run"
    BY <1>15, <2>2, SameNests DEF Throw
  <2>3. CASE Top(t).back = "run"
    <3>1. FramesPopped(t)
      BY <1>0, <1>15, <2>1, <2>3, PopFrame DEF Throw
    <3>2. n = 1
      <4>1. Fits(t, n, Top(t))
        BY <2>1, RegularTop
      <4> QED
        BY <2>3, <4>1 DEF Fits
    <3>3. fNestLevel' = NestOf(t, n)
      BY <1>5, <1>15, <2>1, <3>2 DEF NestOf, Throw
    <3> QED
      BY <1>8, <1>14, <1>15, <3>1, <3>3
  <2> QED
    BY <2>2, <2>3
<1>16. CASE Unwind(t)
  <2>1. frames[t] # << >>
    BY <1>14, <1>16 DEF Unwind, ResetAfterThrow
  <2>2. FramesPopped(t)
    BY <1>0, <1>16, <2>1, PopFrame DEF Unwind
  <2> QED
    BY <1>8, <1>9, <1>14, <1>16, <2>1, <2>2 DEF Unwind
<1>17. CASE ResetAfterThrow(t)
  <2>1. \A u \in Threads : frames[u] = << >>
    BY <1>14, <1>17
  <2>2. fNestLevel = 0 /\ fNestLevel' = 0 /\ frames' = frames
    BY <1>17, <2>1 DEF Nests, ResetAfterThrow, Reset
  <2> QED
    BY <2>2, SameNests
<1> QED
  BY <1>2, <1>6, <1>10, <1>11, <1>12, <1>13, <1>15, <1>16, <1>17 DEF ExecStep

LEMMA NestClient ==
  ASSUME Regular, Nests, Undisrupted, NEW c \in Clients, ClientStep(c)
  PROVE  Nests'
<1>1. CASE ResetEmulator(c)
  <2>1. frames[c] = << >> /\ Holding(c)
    BY <1>1 DEF ResetEmulator, Regular, Places, InCall, Holding
  <2>2. \A t \in Threads : frames[t] = << >>
    BY <2>1, AloneInCalls
  <2>3. fNestLevel = 0
    BY <2>2 DEF Nests
  <2> QED
    BY <1>1, <2>3, SameNests DEF ResetEmulator, Reset
<1>2. CASE ~ResetEmulator(c)
  BY <1>2, SameNests
  DEF ClientStep, SuspendThread, WakeInSuspend, ResumeThread, GiveUp,
      DestroyThread, WakeInDestroy
<1> QED
  BY <1>1, <1>2

LEMMA NestCpu ==
  ASSUME Regular, Nests, Undisrupted, CpuStep
  PROVE  Nests'
<1>0. /\ frames \in [Threads -> Seq(Frame)]
      /\ fNestLevel \in Nat /\ Cpu \in Threads
      /\ pc[Cpu] \in CpuPlaces /\ ~fStop
  BY DEF Regular, TypeOK, Places
<1>1. ~BlockOnDialog /\ ~WakeInDialog
  BY <1>0 DEF BlockOnDialog, WakeInDialog, CpuPlaces, Undisrupted
<1>2. ASSUME Start, pc[Cpu] \in {"run", "parked"},
             pc[Cpu] = "parked" => fNestLevel = 0,
             UNCHANGED fNestLevel
      PROVE  Nests'
  <2> DEFINE f == [old |-> Zero, nest |-> fNestLevel, state |-> fState,
                   back |-> "run"]
  <2>1. f \in Frame /\ f.nest = fNestLevel
    BY ZeroType DEF Frame, Regular, TypeOK
  <2>2. Push(Cpu, f)
    BY <1>2 DEF Start
  <2> HIDE DEF f
  <2>3. FramesPushed(Cpu, f)
    BY <1>0, <2>1, <2>2, PushFrame
  <2>4. \A u \in Threads : u # Cpu => frames[u] = << >>
    BY <1>2, OneInCalls
  <2>5. frames[Cpu] = << >> /\ Len(frames[Cpu]) = 0
    BY <1>2, EmptySeq DEF Regular, Places, InCall
  <2>6. fNestLevel = 0
    BY <2>4, <2>5 DEF Nests
  <2>7. Restores(Cpu)'
    BY <2>1, <2>3, <2>5, <2>6 DEF Restores, FramesPushed, NestOf
  <2>8. frames'[Cpu] # << >> /\ fNestLevel' = Depth(Cpu)'
    BY <1>2, <2>3, <2>5, <2>6 DEF Depth, FramesPushed
  <2> QED
    BY <2>3, <2>4, <2>7, <2>8, NestStep DEF FramesPushed
<1>3. CASE RunLoop \/ WakeInRun
  <2>1. CASE Park \/ Finish
    BY <1>3, <2>1, SameNests DEF RunLoop, WakeInRun, Park, Finish
  <2>2. CASE ~(Park \/ Finish)
    <3>1. /\ Start /\ pc[Cpu] \in {"run", "parked"} /\ UNCHANGED fNestLevel
          /\ pc[Cpu] = "parked" => ~(fNestLevel > 0)
      BY <1>3, <2>2 DEF RunLoop, WakeInRun
    <3>2. ~(fNestLevel > 0) => fNestLevel = 0
      BY <1>0
    <3> QED
      BY <1>2, <3>1, <3>2, Zenon
  <2> QED
    BY <2>1, <2>2
<1>4. CASE ScheduledReset
  BY <1>0, <1>4, SameNests DEF ScheduledReset, Reset
<1>5. CASE SystemCall \/ StopAtSysCall \/ PassSysCall \/ EnterDebugger
  BY <1>5, SameNests DEF SystemCall, StopAtSysCall, PassSysCall, EnterDebugger
<1> QED
  BY <1>1, <1>3, <1>4, <1>5 DEF CpuStep

LEMMA NestsStep ==
  ASSUME Undisrupted, Regular, Nests, [Next]_vars
  PROVE  Nests'
<1>1. CASE UNCHANGED vars
  BY <1>1, SameNests DEF vars
<1>2. CASE UiStep
  BY <1>2, SameNests
  DEF UiStep, ShowDialog, AnswerDialog, UnblockDialog, GetSuspendState,
      SetSuspendState
<1> QED
  BY <1>1, <1>2, NestClient, NestExec, NestCpu DEF Next, Terminated

LEMMA NestingInvariant == ASSUME Orderly PROVE Spec => [](IInv /\ Nests)
<1>1. Undisrupted
  BY DEF Orderly, Undisrupted
<1>2. IInv /\ Nests /\ [Next]_vars => Nests'
  BY <1>1, OrderlyRegular, NestsStep
<1> QED
  BY <1>2, NestsInit, OrderlyInvariant, PTL DEF Spec

\* Things numbered from 1 to n are n things.
LEMMA RowCount ==
  ASSUME NEW x, NEW n \in Nat
  PROVE  IsFiniteSet({x} \X (1..n)) /\ Cardinality({x} \X (1..n)) = n
<1>1. 1 > n => n = 0
  OBVIOUS
<1>2. IsFiniteSet(1..n) /\ Cardinality(1..n) = n
  BY <1>1, FS_Interval
<1>3. IsFiniteSet({x}) /\ Cardinality({x}) = 1
  BY FS_Singleton
<1>4. /\ IsFiniteSet({x} \X (1..n))
      /\ Cardinality({x} \X (1..n)) = Cardinality({x}) * Cardinality(1..n)
  BY <1>2, <1>3, FS_Product, ZenonT(60)
<1>5. Cardinality({x} \X (1..n)) = 1 * n
  BY <1>2, <1>3, <1>4, Zenon
<1>6. 1 * n = n
  OBVIOUS
<1> QED
  BY <1>4, <1>5, <1>6, Zenon

\* Only a thread with frames has ROM calls in progress.
LEMMA RomCallsOf ==
  ASSUME NEW t \in Threads, Depth(t) \in Nat,
         \A u \in Threads : u # t => frames[u] = << >>
  PROVE  Cardinality(RomCalls) = Depth(t)
<1>1. ASSUME NEW u \in Threads, u # t PROVE 1..Depth(u) = {}
  <2>1. Depth(u) = 0
    BY <1>1, EmptySeq DEF Depth
  <2> QED
    BY <2>1
<1>2. RomCalls = {t} \X (1..Depth(t))
  BY <1>1 DEF RomCalls
<1> DEFINE n == Depth(t)
<1>3. n \in Nat
  OBVIOUS
<1> HIDE DEF n
<1>4. Cardinality({t} \X (1..n)) = n
  BY <1>3, RowCount, Zenon
<1> QED
  BY <1>2, <1>4 DEF n

LEMMA NestsCount == Regular /\ Nests => NestAccounting
<1> SUFFICES ASSUME Regular, Nests PROVE fNestLevel = Cardinality(RomCalls)
  BY DEF NestAccounting
<1>1. fNestLevel \in Nat
  BY DEF Regular, TypeOK
<1>2. CASE \E t \in Threads : frames[t] # << >>
  <2>1. PICK t \in Threads : frames[t] # << >>
    BY <1>2
  <2>2. InCall(t)
    BY <2>1 DEF Regular, Places
  <2>3. \A u \in Threads : u # t => frames[u] = << >>
    BY <2>2, OneInCalls DEF InCall
  <2>4. fNestLevel = Depth(t)
    BY <2>1 DEF Nests
  <2> QED
    BY <1>1, <2>3, <2>4, RomCallsOf
<1>3. CASE \A t \in Threads : frames[t] = << >>
  <2>1. fNestLevel = 0 /\ Depth(Cpu) = 0 /\ Cpu \in Threads
    BY <1>3, EmptySeq DEF Nests, Depth
  <2> QED
    BY <1>3, <2>1, RomCallsOf
<1> QED
  BY <1>2, <1>3

\* Whatever calls, resets and interrupted stops there were, fNestLevel is the
\* number of ROM calls in progress: nothing leaves the session nested, where
\* the CPU thread would not wake up, or not nested, where it would wake.
THEOREM NestingCounted == ASSUME Orderly PROVE Spec => []NestAccounting
<1>1. IInv /\ Nests => NestAccounting
  BY OrderlyRegular, NestsCount
<1> QED
  BY <1>1, NestingInvariant, PTL

\* Nobody throws, and there are no dialogs.
Calm == Undisrupted /\ Unthrown

\* fSuspendBySubroutineReturn is set only on the way out of a ROM call, and
\* nothing is suspended from outside unless the program signals somebody.
Signals == "signal" \in Features

Plain(s) == s.sub = 0 /\ (Signals \/ s.ext = 0)

PlainFrames(t) == \A i \in 1..Len(frames[t]) : Plain(frames[t][i].old)

Leaving(t) == Depth(t) > 0 /\ pc[t] \in {"cycle", "uncall", "subLoop"}

PlainInv ==
  /\ Signals \/ sus.ext = 0
  /\ sus.sub # 0 => \E t \in Threads : Leaving(t)
  /\ Plain(snapshot)
  /\ \A t \in Threads : PlainFrames(t)

LEMMA PlainInit == Init => PlainInv
<1>1. Len(<< >>) = 0
  BY EmptySeq
<1> QED
  BY <1>1 DEF Init, PlainInv, PlainFrames, Plain, Zero

\* While a thread executes or holds a stop, none is on its way out.
LEMMA NobodyLeaves ==
  ASSUME Regular, PlainInv, NEW t \in Threads,
         pc[t] \in {"stopped", "dbgset", "callCPU", "exec", "sysCall"}
  PROVE  Plain(sus)
<1>1. ASSUME NEW u \in Threads, Leaving(u) PROVE FALSE
  <2>1. u # t
    BY <1>1 DEF Leaving
  <2>2. \A v \in Threads : v # t => frames[v] = << >>
    BY OneInCalls
  <2>3. Depth(u) = 0
    BY <2>1, <2>2, EmptySeq DEF Depth
  <2> QED
    BY <1>1, <2>3 DEF Leaving
<1> QED
  BY <1>1 DEF PlainInv, Plain

LEMMA WrapZero == Wrap4(0) = 0 /\ Wrap4(0 + 0) = 0
  BY DEF Wrap4

LEMMA AbsorbPlain ==
  ASSUME NEW old \in Counters, NEW s \in Counters, Plain(old),
         Signals \/ s.ext = 0
  PROVE  /\ Plain(Absorb(old, s)) /\ Plain(ClipExternal(Absorb(old, s)))
         /\ Absorb(old, s).sys = old.sys
         /\ ClipExternal(Absorb(old, s)).sys = old.sys
BY WrapZero DEF Plain, Absorb, ClipExternal, Counters

LEMMA PlainExec ==
  ASSUME Regular, PlainInv, Calm, NEW t \in Threads, ExecStep(t)
  PROVE  PlainInv'
<1>0. /\ pc[t] \in ClientPlaces \cup CpuPlaces
      /\ pc \in [Threads -> Locations]
      /\ frames \in [Threads -> Seq(Frame)]
      /\ sus \in Counters
      /\ PlainFrames(t)
      /\ Plain(Zero)
      /\ Zero \in Counters
  BY ZeroType DEF Regular, Places, TypeOK, PlainInv, Plain, Zero
<1>1. /\ ~Throw(t) /\ ~Unwind(t) /\ ~ResetAfterThrow(t)
  BY <1>0 DEF Throw, Unwind, ResetAfterThrow, ClientPlaces, CpuPlaces, Calm,
              Undisrupted, Unthrown
<1>2. /\ UNCHANGED snapshot
      /\ \A u \in Threads : u # t => pc'[u] = pc[u] /\ frames'[u] = frames[u]
      /\ \A u \in Threads : u # t => PlainFrames(u)'
  <2>1. /\ UNCHANGED snapshot
        /\ \A u \in Threads : u # t => pc'[u] = pc[u] /\ frames'[u] = frames[u]
    BY <1>0, <1>1
    DEF ExecStep, ExecuteSubroutine, CallCPU, CheckForBreak, CallCPUReturn,
        SubroutineAgain, SubroutineDone, SubroutineReturn, HostSignalSend,
        HostSignalResume, OpcodeAsks, Push, Pop, SetTop
  <2> QED
    BY <2>1 DEF PlainInv, PlainFrames, Plain
<1>3. \A u \in Threads : u # t => (Leaving(u)' <=> Leaving(u))
  BY <1>2 DEF Leaving, Depth
<1>4. pc[t] \in {"callCPU", "exec", "sysCall", "stopped"} => Plain(sus)
  BY NobodyLeaves
<1>5. pc[t] \in {"callCPU", "uncall", "subLoop"} =>
        /\ frames[t] # << >>
        /\ Top(t) \in Frame /\ Top(t).old \in Counters
        /\ Plain(Top(t).old)
  <2> SUFFICES ASSUME pc[t] \in {"callCPU", "uncall", "subLoop"}
               PROVE  /\ frames[t] # << >>
                      /\ Top(t) \in Frame /\ Top(t).old \in Counters
                      /\ Plain(Top(t).old)
    OBVIOUS
  <2>1. frames[t] # << >>
    BY DEF Regular, Places, InCall
  <2>2. /\ Top(t) \in Frame /\ Top(t).old \in Counters
        /\ Len(frames[t]) \in 1..Len(frames[t])
    BY <2>1, <1>0, TopType
  <2> QED
    BY <1>0, <2>1, <2>2, Zenon DEF PlainFrames, Top
<1>6. CASE ExecuteSubroutine(t)
  <2> DEFINE f == [old |-> sus, nest |-> fNestLevel, state |-> fState,
                   back |-> pc[t]]
  <2>1. f \in Frame /\ f.old = sus
    BY <1>6 DEF Frame, TypeOK, Regular, ExecuteSubroutine
  <2>2. Push(t, f) /\ sus' = Zero
    BY <1>6 DEF ExecuteSubroutine
  <2> HIDE DEF f
  <2>3. FramesPushed(t, f)
    BY <1>0, <2>1, <2>2, PushFrame
  <2>4. Plain(sus)
    BY <1>0, <1>4, <1>6 DEF ExecuteSubroutine, ClientPlaces, CpuPlaces
  <2>5. PlainFrames(t)'
    BY <1>0, <2>1, <2>3, <2>4 DEF PlainFrames, FramesPushed, Plain
  <2> QED
    BY <1>0, <1>2, <2>2, <2>5 DEF PlainInv, Plain
<1>7. ASSUME NEW f \in Frame, Plain(f.old), SetTop(t, f), frames[t] # << >>
      PROVE  PlainFrames(t)'
  <2>1. FramesSet(t, f)
    BY <1>0, <1>7, SetTopFrame
  <2> QED
    BY <1>0, <1>7, <2>1 DEF PlainFrames, FramesSet, Plain
<1>8. ASSUME FramesPopped(t) PROVE PlainFrames(t)'
  BY <1>0, <1>8 DEF PlainFrames, FramesPopped, Plain
<1>9. CASE CallCPU(t)
  <2>1. /\ frames[t] # << >> /\ Top(t) \in Frame /\ Plain(Top(t).old)
        /\ Plain(sus)
    BY <1>4, <1>5, <1>9 DEF CallCPU
  <2>2. /\ [Top(t) EXCEPT !.state = fState] \in Frame
        /\ [Top(t) EXCEPT !.state = fState].old = Top(t).old
    BY <2>1 DEF Frame, Regular, TypeOK
  <2>3. PlainFrames(t)'
    BY <1>7, <1>9, <2>1, <2>2 DEF CallCPU
  <2> QED
    BY <1>2, <1>9, <2>1, <2>3 DEF CallCPU, PlainInv, Plain
<1>10. CASE SubroutineAgain(t)
  <2>1. /\ frames[t] # << >> /\ Top(t) \in Frame /\ Top(t).old \in Counters
        /\ Plain(Top(t).old)
    BY <1>5, <1>10 DEF SubroutineAgain
  <2>2. /\ Absorb(Top(t).old, sus) \in Counters
        /\ Plain(Absorb(Top(t).old, sus))
    BY <1>0, <2>1, AbsorbType, AbsorbPlain DEF PlainInv
  <2>3. /\ [Top(t) EXCEPT !.old = Absorb(@, sus)] \in Frame
        /\ [Top(t) EXCEPT !.old = Absorb(@, sus)].old = Absorb(Top(t).old, sus)
    BY <2>1, <2>2 DEF Frame
  <2>4. PlainFrames(t)'
    BY <1>7, <1>10, <2>1, <2>2, <2>3 DEF SubroutineAgain
  <2> QED
    BY <1>0, <1>2, <1>10, <2>4 DEF SubroutineAgain, PlainInv, Plain
<1>11. CASE SubroutineDone(t)
  <2>1. /\ frames[t] # << >> /\ Top(t).old \in Counters /\ Plain(Top(t).old)
    BY <1>5, <1>11 DEF SubroutineDone
  <2>2. Plain(sus')
    BY <1>0, <1>11, <2>1, AbsorbPlain DEF PlainInv, SubroutineDone
  <2>3. PlainFrames(t)'
    BY <1>0, <1>8, <1>11, <2>1, PopFrame DEF SubroutineDone
  <2> QED
    BY <1>2, <2>2, <2>3 DEF PlainInv, Plain
<1>12. CASE CallCPUReturn(t)
  <2>1. frames[t] # << >> /\ UNCHANGED sus
    BY <1>5, <1>12 DEF CallCPUReturn
  <2>2. CASE Top(t).back = "run"
    <3>1. FramesPopped(t)
      BY <1>0, <1>12, <2>1, <2>2, PopFrame DEF CallCPUReturn
    <3>2. t = Cpu /\ Len(frames[t]) = 1
      <4>1. Fits(t, Len(frames[t]), Top(t))
        BY <2>1, RegularTop
      <4> QED
        BY <2>2, <4>1 DEF Fits
    <3>3. ~Leaving(t)
      BY <3>2 DEF Leaving, Depth
    <3> QED
      BY <1>2, <1>3, <1>8, <2>1, <3>1, <3>3 DEF PlainInv, Plain
  <2>3. CASE Top(t).back # "run"
    <3>1. frames' = frames /\ pc'[t] = "subLoop"
      BY <1>0, <1>12, <2>3 DEF CallCPUReturn
    <3>2. Leaving(t) => Leaving(t)'
      BY <3>1 DEF Leaving, Depth
    <3> QED
      BY <1>0, <1>2, <1>3, <2>1, <3>1, <3>2 DEF PlainInv, Plain, PlainFrames
  <2> QED
    BY <2>2, <2>3
<1>13. CASE CheckForBreak(t)
  <2>1. UNCHANGED <<sus, frames>>
    BY <1>13 DEF CheckForBreak
  <2>2. Leaving(t) => Leaving(t)' \/ sus.sub = 0
    <3>1. sus.sub # 0 => BreakWanted
      BY <1>0 DEF BreakWanted, Zero, Counters
    <3>2. BreakWanted => pc'[t] = "uncall"
      BY <1>0, <1>13 DEF CheckForBreak
    <3> QED
      BY <2>1, <3>1, <3>2 DEF Leaving, Depth
  <2> QED
    BY <1>0, <1>2, <1>3, <2>1, <2>2 DEF PlainInv, Plain, PlainFrames
<1>14. CASE SubroutineReturn(t)
  <2>1. /\ UNCHANGED frames /\ pc'[t] = "cycle" /\ Depth(t) > 0
        /\ sus'.ext = sus.ext
    BY <1>0, <1>14 DEF SubroutineReturn, OpcodeAsks, Counters
  <2>2. Leaving(t)'
    BY <2>1 DEF Leaving, Depth
  <2> QED
    BY <1>0, <1>2, <2>1, <2>2 DEF PlainInv, Plain, PlainFrames
<1>15. CASE HostSignalSend(t) \/ HostSignalResume(t)
  <2>1. pc[t] = "exec" /\ Signals /\ UNCHANGED frames
    BY <1>15 DEF HostSignalSend, HostSignalResume, OpcodeAsks, Signals
  <2>2. sus'.sub = sus.sub
    BY <1>0, <1>15 DEF HostSignalSend, HostSignalResume, Bump, Counters
  <2>3. Plain(sus) /\ Plain(sus')
    BY <1>4, <2>1, <2>2 DEF Plain
  <2> QED
    BY <1>0, <1>2, <2>1, <2>3 DEF PlainInv, Plain, PlainFrames
<1> QED
  BY <1>1, <1>6, <1>9, <1>10, <1>11, <1>12, <1>13, <1>14, <1>15 DEF ExecStep

LEMMA PlainClient ==
  ASSUME Regular, PlainInv, NEW c \in Clients,
         ClientStep(c) \/ (c = UiThread /\ UiStep)
  PROVE  PlainInv'
<1>0. /\ pc[c] \in ClientPlaces
      /\ pc \in [Threads -> Locations]
      /\ sus \in Counters
      /\ dialog = "none"
  BY DEF Regular, Places, TypeOK
<1>1. \A h : \A s \in Counters : /\ Request(s, h).ext = s.ext
                                  /\ Request(s, h).sub = s.sub
  BY DEF Request, Bump, Counters
<1>2. \A s \in Counters : /\ Bump(s, "ui", 1).ext = s.ext
                          /\ Bump(s, "ui", 1).sub = s.sub
                          /\ Release(s).ext = s.ext /\ Release(s).sub = s.sub
  BY DEF Release, Bump, Counters
<1>3. /\ pc[c] \in {"idle", "suspending", "stopped", "dbgset", "caught",
                    "failed", "destroying", "showing", "unblock"}
      /\ \A u \in Threads : u # c => pc'[u] = pc[u]
      /\ frames' = frames
  BY <1>0
  DEF ClientStep, UiStep, SuspendThread, WakeInSuspend, AwaitStop, Settle,
      ResumeThread, GiveUp, ResetEmulator, DestroyThread, WakeInDestroy,
      ShowDialog, AnswerDialog, UnblockDialog, GetSuspendState, SetSuspendState
<1>4. \A u \in Threads : Leaving(u) => Leaving(u)'
  BY <1>3 DEF Leaving, Depth
<1>5. \A u \in Threads : PlainFrames(u)'
  BY <1>3 DEF PlainInv, PlainFrames, Plain
<1>6. ASSUME UNCHANGED snapshot, sus'.ext = sus.ext, sus'.sub = sus.sub
      PROVE  PlainInv'
  BY <1>4, <1>5, <1>6 DEF PlainInv, Plain
<1>7. pc[c] \in {"stopped", "dbgset"} => Plain(sus)
  BY NobodyLeaves
<1>8. ASSUME NEW h, NEW s \in Counters, UNCHANGED snapshot,
             s.ext = sus.ext, s.sub = sus.sub,
             AwaitStop(c, h, s) \/ Settle(c, h, s)
      PROVE  PlainInv'
  <2>1. sus' = s \/ sus' = Bump(s, "ui", 1)
    BY <1>8 DEF AwaitStop, Settle
  <2> QED
    BY <1>2, <1>6, <1>8, <2>1
<1>9. ASSUME NEW h \in StopMethod, SuspendThread(c, h) PROVE PlainInv'
  <2>1. Request(sus, h) \in Counters
    BY <1>0, RequestType
  <2> QED
    BY <1>0, <1>1, <1>8, <1>9, <2>1 DEF SuspendThread
<1>10. CASE WakeInSuspend(c)
  BY <1>0, <1>8, <1>10 DEF WakeInSuspend
<1>11. CASE ResumeThread(c)
  BY <1>0, <1>2, <1>6, <1>11 DEF ResumeThread
<1>12. CASE GiveUp(c) \/ WakeInDestroy(c)
  BY <1>6, <1>12 DEF GiveUp, WakeInDestroy
<1>13. CASE DestroyThread(c)
  BY <1>0, <1>2, <1>6, <1>13 DEF DestroyThread
<1>14. CASE ResetEmulator(c)
  <2>1. Plain(sus') /\ UNCHANGED snapshot
    BY <1>0, <1>14 DEF ResetEmulator, Reset, ClearForReset, Plain, Counters
  <2> QED
    BY <1>5, <2>1 DEF PlainInv, Plain
<1>15. CASE c = UiThread /\ UiStep
  <2>1. CASE GetSuspendState
    BY <1>0, <1>3, <1>4, <1>5, <1>7, <1>15, <2>1
    DEF GetSuspendState, PlainInv, Plain, Counters
  <2>2. CASE SetSuspendState
    <3>1. Plain(sus') /\ Plain(snapshot')
      BY <2>2 DEF SetSuspendState, PlainInv, Plain, Zero
    <3> QED
      BY <1>5, <3>1 DEF PlainInv, Plain
  <2> QED
    BY <1>0, <1>15, <2>1, <2>2
    DEF UiStep, ShowDialog, AnswerDialog, UnblockDialog, ClientPlaces
<1> QED
  BY <1>9, <1>10, <1>11, <1>12, <1>13, <1>14, <1>15 DEF ClientStep

LEMMA PlainCpu ==
  ASSUME Regular, PlainInv, Calm, CpuStep
  PROVE  PlainInv'
<1>0. /\ pc[Cpu] \in CpuPlaces
      /\ pc \in [Threads -> Locations]
      /\ frames \in [Threads -> Seq(Frame)]
      /\ sus \in Counters /\ Cpu \in Threads
  BY DEF Regular, Places, TypeOK
<1>1. ~BlockOnDialog /\ ~WakeInDialog
  BY <1>0 DEF BlockOnDialog, WakeInDialog, CpuPlaces, Calm, Undisrupted
<1>2. /\ \A u \in Threads : u # Cpu => pc'[u] = pc[u] /\ frames'[u] = frames[u]
      /\ UNCHANGED snapshot
  BY <1>0, <1>1
  DEF CpuStep, RunLoop, WakeInRun, Park, Start, Finish, SystemCall,
      StopAtSysCall, PassSysCall, EnterDebugger, ScheduledReset, OpcodeAsks,
      Push
<1>3. \A u \in Threads : u # Cpu => (Leaving(u) => Leaving(u)')
  BY <1>2 DEF Leaving, Depth
<1>4. CASE RunLoop \/ WakeInRun
  <2>1. PlainFrames(Cpu)'
    <3>1. CASE Park \/ Finish
      BY <3>1 DEF Park, Finish, PlainInv, PlainFrames, Plain
    <3>2. CASE Start
      <4> DEFINE f == [old |-> Zero, nest |-> fNestLevel, state |-> fState,
                       back |-> "run"]
      <4>1. f \in Frame /\ Plain(f.old)
        BY ZeroType DEF Frame, Regular, TypeOK, Plain, Zero
      <4>2. Push(Cpu, f)
        BY <3>2 DEF Start
      <4> HIDE DEF f
      <4>3. FramesPushed(Cpu, f)
        BY <1>0, <4>1, <4>2, PushFrame
      <4> QED
        BY <1>0, <4>1, <4>3, SMTT(40) DEF PlainInv, PlainFrames, FramesPushed, Plain
    <3> QED
      BY <1>4, <3>1, <3>2 DEF RunLoop, WakeInRun
  <2>2. UNCHANGED sus /\ ~Leaving(Cpu)
    BY <1>4 DEF RunLoop, WakeInRun, Leaving
  <2>3. \A u \in Threads : PlainFrames(u)'
    BY <1>2, <2>1 DEF PlainInv, PlainFrames, Plain
  <2> QED
    BY <1>2, <1>3, <2>2, <2>3 DEF PlainInv, Plain
<1>5. CASE ~(RunLoop \/ WakeInRun)
  <2>1. pc[Cpu] \in {"exec", "sysCall"} /\ UNCHANGED frames
    BY <1>1, <1>5
    DEF CpuStep, SystemCall, StopAtSysCall, PassSysCall, EnterDebugger,
        ScheduledReset, OpcodeAsks
  <2>2. Plain(sus)
    BY <2>1, NobodyLeaves
  <2>3. Plain(sus')
    BY <1>0, <1>1, <1>5, <2>2
    DEF CpuStep, SystemCall, StopAtSysCall, PassSysCall, EnterDebugger,
        ScheduledReset, Reset, ClearForReset, Bump, Plain, Counters, session
  <2>4. \A u \in Threads : PlainFrames(u)'
    BY <2>1 DEF PlainInv, PlainFrames, Plain
  <2> QED
    BY <1>2, <2>3, <2>4 DEF PlainInv, Plain
<1> QED
  BY <1>4, <1>5

LEMMA PlainStep == Calm /\ Regular /\ PlainInv /\ [Next]_vars => PlainInv'
<1> SUFFICES ASSUME Calm, Regular, PlainInv, [Next]_vars PROVE PlainInv'
  OBVIOUS
<1>1. CASE UNCHANGED vars
  BY <1>1 DEF vars, PlainInv, Plain, PlainFrames, Leaving, Depth
<1> QED
  BY <1>1, PlainClient, PlainExec, PlainCpu, SessionAssumption
  DEF Next, Terminated

LEMMA PlainInvariant ==
  ASSUME Orderly, Unthrown PROVE Spec => [](IInv /\ Nests /\ PlainInv)
<1>1. Calm
  BY DEF Orderly, Undisrupted, Calm
<1>2. IInv /\ PlainInv /\ [Next]_vars => PlainInv'
  BY <1>1, OrderlyRegular, PlainStep
<1> QED
  BY <1>2, PlainInit, NestingInvariant, PTL DEF Spec

\* A stop in force is counted in fSuspendState, with no return of a subroutine
\* left in it and the session not nested.
Granted ==
  \A c \in Clients :
    pc[c] = "stopped" => sus.ui > 0 /\ sus.sub = 0 /\ fNestLevel = 0

LEMMA GrantedNow ==
  Granted' => [\A c \in Clients : JustGranted(c) =>
                 /\ sus'.ui > 0
                 /\ sus'.sub = 0
                 /\ fNestLevel' = 0 \/ fState' = kBlockedOnUI]_vars
BY DEF Granted, JustGranted

\* What SuspendThread would assert is so: a stop is granted with a suspension
\* counted in fSuspendState itself, with fSuspendBySubroutineReturn clear, and
\* with no ROM call in progress.
\* Not when an exception has forgotten the request: then it is granted
\* uncounted, as soon as something else suspends the thread.
THEOREM GrantsAsserted == ASSUME Orderly, Unthrown PROVE Spec => GrantAsserted
<1>1. IInv /\ Nests /\ PlainInv => Granted
  <2> SUFFICES ASSUME IInv, Nests, PlainInv, NEW c \in Clients, pc[c] = "stopped"
               PROVE  sus.ui > 0 /\ sus.sub = 0 /\ fNestLevel = 0
    BY DEF Granted
  <2>1. Holding(c) /\ frames[c] = << >>
    BY DEF Holding, IInv, Places, InCall
  <2>2. \A t \in Threads : frames[t] = << >>
    BY <2>1, ClientAlone
  <2>3. sus.ui = 1
    BY <2>1, EmptySeq DEF IInv, Counts, Counted, Perhaps, Unthrown
  <2>4. sus.sub = 0
    BY OrderlyRegular, NobodyLeaves DEF Plain
  <2> QED
    BY <2>2, <2>3, <2>4 DEF Nests
<1> QED
  BY <1>1, PlainInvariant, GrantedNow, PTL DEF GrantAsserted
-----------------------------------------------------------------------------
(* The balance of the suspensions                                          *)

\* A suspension that is counted once is in one place.
LEMMA SavedOf ==
  ASSUME NEW t \in Threads, NEW n \in {0, 1}, Counted(t, n),
         frames \in [Threads -> Seq(Frame)],
         \A u \in Threads : u # t => frames[u] = << >>
  PROVE  /\ sus.ui + Cardinality(SavedStops) = n
         /\ \A u \in Threads : \A i \in 1..Len(frames[u]) :
              frames[u][i].old.ui >= 0
<1>1. PICK k \in 0..Len(frames[t]) :
        /\ sus.ui = IF k = 0 THEN n ELSE 0
        /\ \A i \in 1..Len(frames[t]) :
             frames[t][i].old.ui = IF i = k THEN n ELSE 0
  BY DEF Counted
<1>2. Len(frames[t]) \in Nat /\ Len(<< >>) = 0
  BY EmptySeq
<1>3. \A u \in Threads : u # t => 1..Len(frames[u]) = {}
  BY <1>2
<1>4. \A u \in Threads : \A i \in 1..Len(frames[u]) : frames[u][i].old.ui >= 0
  BY <1>1, <1>3
<1>5. \A i \in 1..Len(frames[t]) :
        FrameStops(t, i) = IF i = k /\ n = 1 THEN {<<<<t, i>>, 1>>} ELSE {}
  <2>1. 1..0 = {} /\ 1..1 = {1}
    OBVIOUS
  <2> QED
    BY <1>1, <2>1 DEF FrameStops
<1>6. SavedStops =
        UNION {FrameStops(t, i) : i \in 1..Len(frames[t])}
  BY <1>3 DEF SavedStops
<1>7. CASE k # 0 /\ n = 1
  <2>1. k \in 1..Len(frames[t])
    BY <1>1, <1>2, <1>7
  <2>2. SavedStops = {<<<<t, k>>, 1>>}
    BY <1>5, <1>6, <1>7, <2>1
  <2>3. Cardinality(SavedStops) = 1
    BY <2>2, FS_Singleton, Zenon
  <2> QED
    BY <1>1, <1>4, <1>7, <2>3
<1>8. CASE ~(k # 0 /\ n = 1)
  <2>1. SavedStops = {}
    BY <1>2, <1>5, <1>6, <1>8
  <2> QED
    BY <1>1, <1>4, <1>8, <2>1, FS_EmptySet
<1> QED
  BY <1>7, <1>8

\* No suspension is lost and none is left over, however the requests, grants,
\* ROM calls, resets and the debugger's writes of the counters interleave.
\* An exception may lose one.
THEOREM SuspensionsBalance ==
  ASSUME Orderly, Unthrown PROVE Spec => []SuspendBalance
<1>1. IInv => SuspendBalance
  <2> SUFFICES ASSUME IInv PROVE SuspendBalance
    OBVIOUS
  <2> DEFINE H == {c \in Clients : Holding(c)}
  <2> DEFINE A == {c \in Clients : pc[c] = "suspending" /\ how[c] = kStopNow}
  <2>1. frames \in [Threads -> Seq(Frame)] /\ Cpu \in Threads
    BY DEF IInv, TypeOK
  <2>2. ASSUME NEW t \in Threads, NEW n \in {0, 1}, Counted(t, n),
               \A u \in Threads : u # t => frames[u] = << >>,
               Cardinality(H) + Cardinality(A) = n
        PROVE  SuspendBalance
    <3>1. Stops = n
      BY <2>2 DEF Stops, IInv, Places
    <3> QED
      BY <2>1, <2>2, <3>1, SavedOf DEF SuspendBalance
  <2>3. CASE \E c \in Clients : Holding(c)
    <3>1. PICK c \in Clients : Holding(c)
      BY <2>3
    <3>2. /\ frames[Cpu] = << >>
          /\ \A d \in Clients : d # c => pc[d] = "idle" /\ frames[d] = << >>
      BY <3>1, ClientAlone
    <3>3. pc[c] # "suspending"
      BY <3>1 DEF Holding, IInv, Places, InCall
    <3>4. H = {c} /\ A = {}
      BY <3>1, <3>2, <3>3 DEF Holding
    <3>5. Counted(c, 1)
      BY <3>1 DEF IInv, Counts, Perhaps, Unthrown
    <3>6. Cardinality(H) = 1 /\ Cardinality(A) = 0
      BY <3>4, FS_Singleton, FS_EmptySet
    <3> HIDE DEF H, A
    <3> QED
      BY <2>2, <3>2, <3>5, <3>6
  <2>4. CASE \A c \in Clients : ~Holding(c)
    <3>1. H = {} /\ \A c \in Clients : frames[c] = << >>
      BY <2>4 DEF Holding
    <3>2. \A u \in Threads : u # Cpu => frames[u] = << >>
      BY <3>1
    <3>3. CASE \E c \in Clients : pc[c] # "idle"
      <4>1. PICK c \in Clients : pc[c] # "idle"
        BY <3>3
      <4>2. \A d \in Clients : d # c => pc[d] = "idle"
        BY <4>1 DEF IInv, OneClient
      <4>3. pc[c] = "suspending"
        BY <2>4, <4>1 DEF IInv, Places, ClientPlaces, InCall, Holding
      <4>4. Counted(Cpu, IF how[c] = kStopNow THEN 1 ELSE 0)
        BY <4>3 DEF IInv, Counts, Asked, Perhaps, Unthrown
      <4>5. A = IF how[c] = kStopNow THEN {c} ELSE {}
        BY <4>2, <4>3
      <4>6. Cardinality(H) + Cardinality(A) = IF how[c] = kStopNow THEN 1 ELSE 0
        <5>1. Cardinality({}) = 0 /\ Cardinality({c}) = 1
          BY FS_Singleton, FS_EmptySet, Zenon
        <5>2. Cardinality(H) = 0
          BY <3>1, <5>1
        <5>3. Cardinality(A) = IF how[c] = kStopNow THEN 1 ELSE 0
          BY <4>5, <5>1
        <5> HIDE DEF H, A
        <5> QED
          BY <5>2, <5>3
      <4> DEFINE n == IF how[c] = kStopNow THEN 1 ELSE 0
      <4>7. n \in {0, 1} /\ Counted(Cpu, n) /\ Cardinality(H) + Cardinality(A) = n
        BY <4>4, <4>6
      <4> HIDE DEF H, A, n
      <4> QED
        BY <2>1, <2>2, <3>2, <4>7
    <3>4. CASE \A c \in Clients : pc[c] = "idle"
      <4>1. Counted(Cpu, 0)
        BY <3>4 DEF IInv, Counts
      <4>2. A = {}
        BY <3>4
      <4>3. Cardinality(H) = 0 /\ Cardinality(A) = 0
        BY <3>1, <4>2, FS_EmptySet
      <4> HIDE DEF H, A
      <4> QED
        BY <2>1, <2>2, <3>2, <4>1, <4>3
    <3> QED
      BY <3>3, <3>4
  <2> QED
    BY <2>3, <2>4
<1> QED
  BY <1>1, OrderlyInvariant, PTL

-----------------------------------------------------------------------------
(* What parks the CPU thread                                               *)

\* The program signals nobody, or nobody waits for its signals; and there
\* are no exceptions.
Undisturbed == "signal" \notin Features /\ Unthrown

\* fSuspendBySysCall and fBreakOnSysCall are set for a client that asks for a
\* system call, or holds a stop; and a CPU thread that waits in Run has been
\* suspended, or waits for a ROM call to end.
Asking(c) == pc[c] = "suspending" /\ how[c] = kStopOnSysCall

NoSys(t) == \A i \in 1..Len(frames[t]) : frames[t][i].old.sys = 0

AskedFor ==
  \/ \E c \in Clients : Asking(c) \/ Holding(c)
  \/ sus.sys = 0 /\ NoSys(Cpu)

\* The CPU thread looks at a system call, or has made a ROM call to do so.
AtCall ==
  \/ pc[Cpu] = "sysCall"
  \/ \E i \in 1..Len(frames[Cpu]) : frames[Cpu][i].back = "sysCall"

BreakFor == fBreakOnSysCall \/ AtCall => \E c \in Clients : Asking(c)

WaitsFor ==
  pc[Cpu] = "parked" /\ Cpu \in waiting /\ fState = kRunning => fNestLevel > 0

AskedInv == AskedFor /\ BreakFor /\ WaitsFor

LEMMA AskedInit == Init => AskedInv
<1>1. Len(<< >>) = 0
  BY EmptySeq
<1> QED
  BY <1>1 DEF Init, AskedInv, AskedFor, BreakFor, AtCall, WaitsFor, NoSys, Zero

\* SuspendThread and its wake-up.
LEMMA AskedSuspend ==
  ASSUME IInv, AskedInv, NEW c \in Clients, NEW h, NEW s, Asks(c, h, s),
         AwaitStop(c, h, s) \/ Settle(c, h, s), Heedless = {}
  PROVE  AskedInv'
<1>0. /\ pc \in [Threads -> Locations] /\ how \in [Clients -> StopMethod]
      /\ c \in Threads /\ c # Cpu /\ Cpu \in Threads
      /\ sus \in Counters /\ s \in Counters
      /\ how' = [how EXCEPT ![c] = h]
      /\ UNCHANGED <<fState, fNestLevel, frames>>
      /\ h \in {kStopNow, kStopOnSysCall} /\ kStopNow # kStopOnSysCall
  BY SessionAssumption
  DEF IInv, TypeOK, Asks, StopMethod, kStopNow, kStopOnSysCall
<1>1. /\ \A d \in Clients : d # c => pc[d] = "idle"
      /\ \A d \in Clients : ~Holding(d) /\ frames[d] = << >>
  BY AskedCount
<1>2. ASSUME h = kStopNow
      PROVE  /\ \A d \in Clients : ~Asking(d)
             /\ s.sys = 0 /\ NoSys(Cpu) /\ ~AtCall
  <2>1. \A d \in Clients : ~Asking(d)
    BY <1>0, <1>1, <1>2 DEF Asking, Asks
  <2>2. sus.sys = 0 /\ NoSys(Cpu)
    BY <1>1, <2>1 DEF AskedInv, AskedFor
  <2>3. s.sys = sus.sys
    BY <1>0, <1>2 DEF Asks, Request, Bump, Counters
  <2> QED
    BY <2>1, <2>2, <2>3 DEF AskedInv, BreakFor
<1>3. CASE AwaitStop(c, h, s)
  <2>1. /\ pc' = [pc EXCEPT ![c] = "suspending"]
        /\ sus' = s /\ fState = kRunning
        /\ waiting' = {c}
        /\ fBreakOnSysCall' = (h = kStopOnSysCall)
    BY <1>3 DEF AwaitStop
  <2>2. CASE h = kStopOnSysCall
    <3>1. Asking(c)'
      BY <1>0, <2>1, <2>2 DEF Asking
    <3> QED
      BY <1>0, <2>1, <3>1 DEF AskedFor, BreakFor, WaitsFor, AskedInv
  <2>3. CASE h = kStopNow
    BY <1>0, <1>2, <2>1, <2>3
    DEF AskedInv, AskedFor, BreakFor, AtCall, WaitsFor, NoSys
  <2> QED
    BY <1>0, <2>2, <2>3
<1>4. CASE Settle(c, h, s)
  <2> DEFINE granted == h = kStopNow \/ (fState = kSuspended /\ s.sys # 0)
  <2>1. /\ pc' = [pc EXCEPT ![c] = IF granted THEN "stopped" ELSE "idle"]
        /\ sus' = IF granted /\ h = kStopOnSysCall THEN Bump(s, "ui", 1) ELSE s
        /\ fState # kRunning
        /\ fBreakOnSysCall' = FALSE
    BY <1>4 DEF Settle
  <2>2. fState = kSuspended /\ pc[Cpu] = "parked" /\ frames[Cpu] = << >>
    BY <2>1 DEF IInv, States, Places, InCall
  <2>3. BreakFor' /\ WaitsFor'
    BY <1>0, <2>1, <2>2, EmptySeq DEF BreakFor, AtCall, WaitsFor
  <2>4. AskedFor'
    <3>1. CASE granted
      <4>1. Holding(c)'
        BY <1>0, <2>1, <3>1 DEF Holding
      <4> QED
        BY <4>1 DEF AskedFor
    <3>2. CASE ~granted
      <4>1. sus'.sys = 0
        BY <2>1, <2>2, <3>2
      <4> QED
        BY <1>0, <2>2, <4>1, EmptySeq DEF AskedFor, NoSys
    <3> QED
      BY <3>1, <3>2
  <2> QED
    BY <2>3, <2>4 DEF AskedInv
<1> QED
  BY <1>3, <1>4

\* A client that is stopped.
LEMMA AskedHolder ==
  ASSUME IInv, PlainInv, AskedInv, Undisturbed, NEW c \in Clients,
         ResumeThread(c) \/ ResetEmulator(c)
           \/ (c = UiThread /\ (GetSuspendState \/ SetSuspendState))
  PROVE  AskedInv'
<1>0. /\ pc \in [Threads -> Locations]
      /\ c \in Threads /\ c # Cpu /\ Cpu \in Threads
      /\ sus \in Counters
      /\ UNCHANGED <<how, frames>>
  BY SessionAssumption
  DEF IInv, TypeOK, ResumeThread, ResetEmulator, GetSuspendState,
      SetSuspendState
<1>1. pc[c] \in {"stopped", "dbgset"} /\ (ResumeThread(c) => pc[c] = "stopped")
  BY <1>0 DEF ResumeThread, ResetEmulator, GetSuspendState, SetSuspendState,
              IInv, Places, ClientPlaces
<1>2. Holding(c) /\ frames[c] = << >>
  BY <1>0, <1>1 DEF Holding, IInv, Places, InCall
<1>3. /\ pc[Cpu] = "parked" /\ frames[Cpu] = << >>
      /\ \A d \in Clients : d # c => pc[d] = "idle"
  BY <1>2, ClientAlone
<1>4. fBreakOnSysCall = FALSE
  BY <1>1, <1>3 DEF IInv, TypeOK, AskedInv, BreakFor, Asking
<1>5. NoSys(Cpu)' /\ (pc'[Cpu] = "parked" => ~AtCall')
  BY <1>0, <1>3, EmptySeq DEF NoSys, AtCall
<1>6. CASE ResumeThread(c)
  <2>1. sus.ui = 1 /\ sus.ext = 0
    BY <1>2, EmptySeq DEF IInv, Counts, Counted, Perhaps, Undisturbed, Unthrown, Signals, PlainInv
  <2>2. sus'.sys = 0 /\ waiting' = {} /\ UNCHANGED fBreakOnSysCall
    <3>1. Wrap4(1 + -1) = 0
      BY DEF Wrap4
    <3> DEFINE t == Bump(sus, "ui", -1)
    <3>2. t.ui = 0 /\ t.ext = 0 /\ t \in Counters
      BY <1>0, <2>1, <3>1, BumpType DEF Bump, Counters
    <3>3. Release(sus) = [t EXCEPT !.sys = 0]
      BY <2>1, <3>2 DEF Release
    <3> HIDE DEF t
    <3> QED
      BY <1>6, <2>1, <3>2, <3>3 DEF ResumeThread, Counters
  <2>3. pc'[Cpu] = "parked"
    BY <1>0, <1>3, <1>6 DEF ResumeThread
  <2> QED
    BY <1>4, <1>5, <2>2, <2>3 DEF AskedInv, AskedFor, BreakFor, WaitsFor
<1>7. CASE ~ResumeThread(c)
  <2>1. Holding(c)' /\ pc'[Cpu] = "parked"
    BY <1>0, <1>1, <1>3, <1>7 DEF ResetEmulator, GetSuspendState,
       SetSuspendState, Holding
  <2>2. fState' = kSuspended
    BY <1>1, <1>7 DEF IInv, States, ResetEmulator, GetSuspendState,
       SetSuspendState
  <2>3. fBreakOnSysCall' = FALSE
    BY <1>4, <1>7 DEF ResetEmulator, Reset, GetSuspendState, SetSuspendState
  <2> QED
    BY <1>5, <2>1, <2>2, <2>3
    DEF AskedInv, AskedFor, BreakFor, WaitsFor, kRunning, kSuspended
<1> QED
  BY <1>6, <1>7

LEMMA AskedClient ==
  ASSUME IInv, PlainInv, AskedInv, Orderly, Undisturbed, NEW c \in Clients,
         ClientStep(c)
  PROVE  AskedInv'
<1>0. /\ sus \in Counters /\ how \in [Clients -> StopMethod]
      /\ pc[c] \in ClientPlaces
  BY DEF IInv, TypeOK, Places
<1>1. ASSUME NEW h \in StopMethod, SuspendThread(c, h) PROVE AskedInv'
  <2>1. idleSync = NoOne
    BY <1>1 DEF SuspendThread, CanEnter, Orderly
  <2>2. Request(sus, h) \in Counters
    BY <1>0, RequestType
  <2>3. Asks(c, h, Request(sus, h))
    BY <1>1, <2>1, <2>2 DEF SuspendThread, Asks
  <2> QED
    BY <1>1, <2>3, AskedSuspend DEF SuspendThread, Orderly
<1>2. CASE WakeInSuspend(c)
  <2>1. Asks(c, how[c], sus)
    BY <1>0, <1>2 DEF WakeInSuspend, Asks
  <2> QED
    BY <1>2, <2>1, AskedSuspend DEF WakeInSuspend, Orderly
<1>3. CASE ResumeThread(c) \/ ResetEmulator(c)
  BY <1>3, AskedHolder
<1>4. CASE GiveUp(c) \/ WakeInDestroy(c)
  BY <1>0, <1>4 DEF GiveUp, WakeInDestroy, ClientPlaces
<1>5. CASE DestroyThread(c)
  BY <1>5, SessionAssumption DEF DestroyThread, Orderly
<1> QED
  BY <1>1, <1>2, <1>3, <1>4, <1>5 DEF ClientStep

\* A step of a client in its ROM calls leaves the CPU thread where it is.
LEMMA AskedClientExec ==
  ASSUME AskedInv, NEW t \in Clients, Holding(t)',
         UNCHANGED <<fBreakOnSysCall, how, pc[Cpu], frames[Cpu]>>,
         \A c \in Clients : c # t => pc'[c] = pc[c],
         pc[t] # "suspending",
         \/ waiting' = {} \/ fNestLevel' > 0
         \/ UNCHANGED <<fState, fNestLevel, waiting>>
  PROVE  AskedInv'
<1>1. \A c \in Clients : Asking(c) => Asking(c)'
  BY DEF Asking
<1>2. BreakFor'
  BY <1>1 DEF AskedInv, BreakFor, AtCall
<1> QED
  BY <1>2 DEF AskedInv, AskedFor, WaitsFor

\* Nor does the CPU thread disturb the clients while it runs.
LEMMA AskedCpuExec ==
  ASSUME AskedInv, Cpu \in Threads, Cpu \notin Clients,
         UNCHANGED how, fBreakOnSysCall' => fBreakOnSysCall,
         \A c \in Clients : pc'[c] = pc[c] /\ frames'[c] = frames[c],
         sus.sys = 0 /\ NoSys(Cpu) => sus'.sys = 0 /\ NoSys(Cpu)',
         ~fBreakOnSysCall /\ ~AtCall => ~AtCall',
         pc'[Cpu] # "parked"
  PROVE  AskedInv'
<1>1. \A c \in Clients : /\ Asking(c)' <=> Asking(c)
                         /\ Holding(c)' <=> Holding(c)
  BY DEF Asking, Holding
<1>2. AskedFor'
  BY <1>1 DEF AskedInv, AskedFor
<1>3. BreakFor'
  BY <1>1 DEF AskedInv, BreakFor
<1> QED
  BY <1>2, <1>3 DEF AskedInv, WaitsFor

\* What the calls of the CPU thread keep of this when its frames change.
LEMMA AskedFrames ==
  ASSUME NEW f \in Frame, frames \in [Threads -> Seq(Frame)],
         f.old.sys = 0 \/ ~NoSys(Cpu),
         f.back # "sysCall" \/ AtCall,
         FramesPushed(Cpu, f) \/ FramesPopped(Cpu) \/ FramesSet(Cpu, f)
  PROVE  /\ NoSys(Cpu) => NoSys(Cpu)'
         /\ ~AtCall /\ pc'[Cpu] # "sysCall" => ~AtCall'
<1>1. CASE FramesPushed(Cpu, f)
  <2>1. \A i \in 1..Len(frames'[Cpu]) :
          \/ i \in 1..Len(frames[Cpu]) /\ frames'[Cpu][i] = frames[Cpu][i]
          \/ frames'[Cpu][i] = f
    BY <1>1 DEF FramesPushed
  <2>2. NoSys(Cpu) => NoSys(Cpu)'
    BY <2>1 DEF NoSys
  <2>3. ~AtCall /\ pc'[Cpu] # "sysCall" => ~AtCall'
    BY <2>1 DEF AtCall
  <2> QED
    BY <2>2, <2>3
<1>2. CASE FramesPopped(Cpu)
  BY <1>2 DEF FramesPopped, NoSys, AtCall
<1>3. CASE FramesSet(Cpu, f)
  BY <1>3 DEF FramesSet, NoSys, AtCall
<1> QED
  BY <1>1, <1>2, <1>3

LEMMA AskedExec ==
  ASSUME IInv, IInv', PlainInv, AskedInv, Orderly, Undisturbed,
         NEW t \in Threads, ExecStep(t)
  PROVE  AskedInv'
<1>0. /\ pc[t] \in ClientPlaces \cup CpuPlaces
      /\ pc \in [Threads -> Locations]
      /\ frames \in [Threads -> Seq(Frame)]
      /\ sus \in Counters /\ Zero.sys = 0
      /\ Cpu \in Threads /\ Cpu \notin Clients
  BY SessionAssumption DEF IInv, Places, TypeOK, Zero
<1>1. /\ ~Throw(t) /\ ~Unwind(t) /\ ~ResetAfterThrow(t)
      /\ ~HostSignalSend(t) /\ ~HostSignalResume(t)
  BY <1>0 DEF Throw, Unwind, ResetAfterThrow, HostSignalSend,
              HostSignalResume, ClientPlaces, CpuPlaces, Orderly, Undisturbed,
              Unthrown
<1>2. /\ UNCHANGED <<fBreakOnSysCall, how>>
      /\ \A u \in Threads : u # t => pc'[u] = pc[u] /\ frames'[u] = frames[u]
      /\ pc[t] \in {"stopped", "callCPU", "exec", "sysCall", "cycle",
                    "uncall", "subLoop"}
  BY <1>0, <1>1
  DEF ExecStep, ExecuteSubroutine, CallCPU, CheckForBreak, CallCPUReturn,
      SubroutineAgain, SubroutineDone, SubroutineReturn, OpcodeAsks, Push,
      Pop, SetTop, session, ClientPlaces, CpuPlaces
<1>3. pc[t] \in {"callCPU", "uncall", "subLoop"} =>
        /\ frames[t] # << >> /\ Top(t) \in Frame /\ Top(t).old \in Counters
        /\ Top(t).back \in {"run", "exec", "sysCall", "stopped", "failed"}
        /\ Top(t) = frames[t][Len(frames[t])]
        /\ Len(frames[t]) \in 1..Len(frames[t])
  <2>1. pc[t] \in {"callCPU", "uncall", "subLoop"} => frames[t] # << >>
    BY DEF IInv, Places, InCall
  <2> QED
    BY <1>0, <2>1, TopType DEF Top
<1>4. /\ pc'[t] \in {"callCPU", "exec", "uncall", "run", "subLoop", "cycle"}
           \/ (SubroutineDone(t) /\ pc'[t] = Top(t).back)
      /\ pc'[t] \notin {"idle", "suspending", "parked"}
  BY <1>0, <1>1, <1>3
  DEF ExecStep, ExecuteSubroutine, CallCPU, CheckForBreak, CallCPUReturn,
      SubroutineAgain, SubroutineDone, SubroutineReturn, OpcodeAsks
<1>5. CASE t \in Clients
  <2>1. Holding(t)'
    <3>1. pc'[t] \in {"stopped", "dbgset"} \/ InCall(t)'
      BY <1>4, <1>5 DEF IInv, Places, ClientPlaces, InCall
    <3> QED
      BY <3>1 DEF IInv, Places, Holding
  <2>2. frames[t] # << >> => fNestLevel > 0
    BY <1>5 DEF IInv, Nested
  <2>3. \/ waiting' = {} \/ fNestLevel' > 0
        \/ UNCHANGED <<fState, fNestLevel, waiting>>
    BY <1>1, <1>3, <2>2
    DEF ExecStep, ExecuteSubroutine, CallCPU, CheckForBreak, CallCPUReturn,
        SubroutineAgain, SubroutineDone, SubroutineReturn, OpcodeAsks,
        Broadcast, session
  <2>4. UNCHANGED <<fBreakOnSysCall, how, pc[Cpu], frames[Cpu]>>
    BY <1>0, <1>2, <1>5
  <2>5. \A c \in Clients : c # t => pc'[c] = pc[c]
    BY <1>2 DEF Threads
  <2> QED
    BY <1>2, <1>5, <2>1, <2>3, <2>4, <2>5, AskedClientExec
<1>6. CASE t = Cpu
  <2>1. /\ \A c \in Clients : pc'[c] = pc[c] /\ frames'[c] = frames[c]
        /\ pc'[Cpu] # "parked"
    BY <1>0, <1>2, <1>4, <1>6 DEF Threads
  <2> SUFFICES
        /\ sus.sys = 0 /\ NoSys(Cpu) => sus'.sys = 0 /\ NoSys(Cpu)'
        /\ ~fBreakOnSysCall /\ ~AtCall => ~AtCall'
    BY <1>0, <1>2, <2>1, AskedCpuExec, Zenon
  <2>2. CASE ExecuteSubroutine(Cpu)
    <3> DEFINE f == [old |-> sus, nest |-> fNestLevel, state |-> fState,
                     back |-> pc[Cpu]]
    <3>1. f \in Frame /\ f.old = sus /\ f.back = pc[Cpu]
      BY <2>2 DEF Frame, TypeOK, IInv, ExecuteSubroutine
    <3>2. Push(Cpu, f) /\ sus' = Zero /\ pc'[Cpu] # "sysCall"
      BY <1>0, <2>2 DEF ExecuteSubroutine
    <3> HIDE DEF f
    <3>3. FramesPushed(Cpu, f)
      BY <1>0, <3>1, <3>2, PushFrame
    <3>4. CASE sus.sys = 0
      <4>1. f.back # "sysCall" \/ AtCall
        BY <3>1 DEF AtCall
      <4> QED
        BY <1>0, <3>1, <3>2, <3>3, <3>4, <4>1, AskedFrames
    <3>5. CASE sus.sys # 0
      <4>1. ~AtCall => ~AtCall'
        BY <1>0, <3>1, <3>2, <3>3 DEF AtCall, FramesPushed
      <4> QED
        BY <3>5, <4>1
    <3> QED
      BY <3>4, <3>5
  <2>3. CASE CallCPU(Cpu)
    <3> DEFINE f == [Top(Cpu) EXCEPT !.state = fState]
    <3>1. /\ f \in Frame /\ f.old = Top(Cpu).old /\ f.back = Top(Cpu).back
          /\ frames[Cpu] # << >>
      BY <1>3, <1>6, <2>3 DEF Frame, IInv, TypeOK, CallCPU
    <3>2. SetTop(Cpu, f) /\ UNCHANGED sus /\ pc'[Cpu] # "sysCall"
      BY <1>0, <2>3 DEF CallCPU
    <3> HIDE DEF f
    <3>3. FramesSet(Cpu, f)
      BY <1>0, <3>1, <3>2, SetTopFrame
    <3>4. f.old.sys = 0 \/ ~NoSys(Cpu)
      BY <1>3, <1>6, <2>3, <3>1 DEF NoSys, CallCPU
    <3>5. f.back # "sysCall" \/ AtCall
      BY <1>3, <1>6, <2>3, <3>1 DEF AtCall, CallCPU
    <3> QED
      BY <1>0, <3>1, <3>2, <3>3, <3>4, <3>5, AskedFrames
  <2>4. CASE SubroutineAgain(Cpu)
    <3> DEFINE f == [Top(Cpu) EXCEPT !.old = Absorb(@, sus)]
    <3>0. /\ frames[Cpu] # << >> /\ Top(Cpu) \in Frame
          /\ Top(Cpu).old \in Counters
          /\ Top(Cpu) = frames[Cpu][Len(frames[Cpu])]
          /\ Len(frames[Cpu]) \in 1..Len(frames[Cpu])
      BY <1>3, <1>6, <2>4 DEF SubroutineAgain
    <3>1. /\ Absorb(Top(Cpu).old, sus) \in Counters
          /\ Absorb(Top(Cpu).old, sus).sys = Top(Cpu).old.sys
      <4>1. Plain(Top(Cpu).old)
        BY <1>0, <3>0 DEF PlainInv, PlainFrames
      <4> QED
        BY <1>0, <3>0, <4>1, AbsorbType, AbsorbPlain DEF PlainInv
    <3>2. /\ f \in Frame /\ f.old.sys = Top(Cpu).old.sys
          /\ f.back = Top(Cpu).back
      BY <3>0, <3>1 DEF Frame
    <3>3. SetTop(Cpu, f) /\ sus' = Zero /\ pc'[Cpu] # "sysCall"
      BY <1>0, <2>4 DEF SubroutineAgain
    <3> HIDE DEF f
    <3>4. FramesSet(Cpu, f)
      BY <1>0, <3>0, <3>2, <3>3, SetTopFrame
    <3>5. f.old.sys = 0 \/ ~NoSys(Cpu)
      BY <3>0, <3>2 DEF NoSys
    <3>6. f.back # "sysCall" \/ AtCall
      BY <3>0, <3>2 DEF AtCall
    <3> QED
      BY <1>0, <3>2, <3>3, <3>4, <3>5, <3>6, AskedFrames
  <2>5. CASE SubroutineDone(Cpu)
    <3>0. /\ frames[Cpu] # << >> /\ Top(Cpu) \in Frame
          /\ Top(Cpu).old \in Counters
          /\ Top(Cpu) = frames[Cpu][Len(frames[Cpu])]
          /\ Len(frames[Cpu]) \in 1..Len(frames[Cpu])
      BY <1>3, <1>6, <2>5 DEF SubroutineDone
    <3>1. FramesPopped(Cpu)
      BY <1>0, <2>5, <3>0, PopFrame DEF SubroutineDone
    <3>2. sus'.sys = Top(Cpu).old.sys
      <4>1. Plain(Top(Cpu).old)
        BY <1>0, <3>0 DEF PlainInv, PlainFrames
      <4> QED
        BY <1>0, <2>5, <3>0, <4>1, AbsorbPlain DEF PlainInv, SubroutineDone
    <3>3. NoSys(Cpu) => sus'.sys = 0 /\ NoSys(Cpu)'
      BY <3>0, <3>1, <3>2 DEF NoSys, FramesPopped
    <3>4. pc'[Cpu] = Top(Cpu).back
      BY <1>0, <2>5 DEF SubroutineDone
    <3>5. ~AtCall => ~AtCall'
      BY <3>0, <3>1, <3>4, SMTT(40) DEF AtCall, FramesPopped
    <3> QED
      BY <3>3, <3>5
  <2>6. CASE CallCPUReturn(Cpu)
    <3>1. UNCHANGED sus /\ pc'[Cpu] # "sysCall"
      BY <1>0, <2>6 DEF CallCPUReturn
    <3>2. FramesPopped(Cpu) \/ frames' = frames
      BY <1>0, <1>3, <1>6, <2>6, PopFrame DEF CallCPUReturn
    <3> QED
      BY <3>1, <3>2 DEF FramesPopped, NoSys, AtCall
  <2>7. CASE CheckForBreak(Cpu) \/ SubroutineReturn(Cpu)
    <3>1. /\ UNCHANGED frames /\ sus'.sys = sus.sys
          /\ pc'[Cpu] # "sysCall"
      BY <1>0, <2>7 DEF CheckForBreak, SubroutineReturn, OpcodeAsks, session,
                        Counters
    <3> QED
      BY <3>1 DEF NoSys, AtCall
  <2> QED
    BY <1>1, <1>6, <2>2, <2>3, <2>4, <2>5, <2>6, <2>7 DEF ExecStep
<1> QED
  BY <1>5, <1>6 DEF Threads
LEMMA AskedCpu ==
  ASSUME IInv, AskedInv, Orderly, CpuStep
  PROVE  AskedInv'
<1>0. /\ pc[Cpu] \in CpuPlaces
      /\ pc \in [Threads -> Locations]
      /\ frames \in [Threads -> Seq(Frame)]
      /\ sus \in Counters /\ fNestLevel \in Nat
      /\ Cpu \in Threads /\ Cpu \notin Clients
      /\ ~fStop
  BY SessionAssumption DEF IInv, Places, TypeOK
<1>1. ~BlockOnDialog /\ ~WakeInDialog
  BY <1>0 DEF BlockOnDialog, WakeInDialog, CpuPlaces, Orderly
<1>2. /\ UNCHANGED how
      /\ \A c \in Clients : pc'[c] = pc[c] /\ frames'[c] = frames[c]
  BY <1>0, <1>1
  DEF CpuStep, RunLoop, WakeInRun, Park, Start, Finish, SystemCall,
      StopAtSysCall, PassSysCall, EnterDebugger, ScheduledReset, OpcodeAsks,
      Push
<1>3. \A c \in Clients : /\ Asking(c)' <=> Asking(c)
                         /\ Holding(c)' <=> Holding(c)
  BY <1>2 DEF Asking, Holding
<1>4. CASE (RunLoop \/ WakeInRun) /\ Park
  <2>1. /\ UNCHANGED <<frames, sus, fNestLevel, fBreakOnSysCall>>
        /\ pc'[Cpu] = "parked"
        /\ fNestLevel' > 0 \/ fState' = kSuspended
    BY <1>0, <1>4 DEF RunLoop, WakeInRun, Park
  <2>2. AskedFor' /\ BreakFor'
    BY <1>3, <2>1 DEF AskedInv, AskedFor, NoSys, BreakFor, AtCall
  <2> QED
    BY <2>1, <2>2 DEF AskedInv, WaitsFor, kRunning, kSuspended
<1>5. CASE (RunLoop \/ WakeInRun) /\ Start
  <2> DEFINE f == [old |-> Zero, nest |-> fNestLevel, state |-> fState,
                   back |-> "run"]
  <2>1. f \in Frame /\ f.old.sys = 0 /\ f.back # "sysCall"
    BY ZeroType DEF Frame, IInv, TypeOK, Zero
  <2>2. Push(Cpu, f) /\ pc'[Cpu] = "callCPU"
    BY <1>0, <1>5 DEF Start
  <2> HIDE DEF f
  <2>3. FramesPushed(Cpu, f)
    BY <1>0, <2>1, <2>2, PushFrame
  <2>4. /\ NoSys(Cpu) => NoSys(Cpu)'
        /\ ~AtCall => ~AtCall'
    BY <1>0, <2>1, <2>2, <2>3, AskedFrames
  <2>5. UNCHANGED <<sus, fBreakOnSysCall>>
    BY <1>5 DEF RunLoop, WakeInRun
  <2> QED
    BY <1>0, <1>2, <2>2, <2>4, <2>5, AskedCpuExec
<1>6. CASE StopAtSysCall
  <2>1. \E c \in Clients : Asking(c)
    BY <1>6 DEF StopAtSysCall, AskedInv, BreakFor, AtCall
  <2>2. pc'[Cpu] # "parked"
    BY <1>0, <1>6 DEF StopAtSysCall
  <2> QED
    BY <1>3, <2>1, <2>2 DEF AskedInv, AskedFor, BreakFor, WaitsFor
<1>7. CASE SystemCall
  <2>1. /\ UNCHANGED <<sus, frames, fBreakOnSysCall>>
        /\ pc'[Cpu] # "parked" /\ fBreakOnSysCall
    BY <1>0, <1>7 DEF SystemCall, session
  <2> QED
    BY <1>0, <1>2, <2>1, AskedCpuExec DEF NoSys
<1>8. CASE PassSysCall \/ EnterDebugger \/ ScheduledReset
  <2>1. /\ UNCHANGED frames
        /\ fBreakOnSysCall' => fBreakOnSysCall
        /\ pc'[Cpu] \notin {"parked", "sysCall"}
    BY <1>0, <1>8 DEF PassSysCall, EnterDebugger, ScheduledReset, Reset,
                      OpcodeAsks, session
  <2>2. sus'.sys = sus.sys \/ sus'.sys = 0
    BY <1>0, <1>8 DEF PassSysCall, EnterDebugger, ScheduledReset, Reset,
                      ClearForReset, Bump, Counters, session
  <2>3. NoSys(Cpu)' <=> NoSys(Cpu)
    BY <2>1 DEF NoSys
  <2>4. ~AtCall => ~AtCall'
    BY <2>1 DEF AtCall
  <2> QED
    BY <1>0, <1>2, <2>1, <2>2, <2>3, <2>4, AskedCpuExec
<1>9. RunLoop \/ WakeInRun => Park \/ Start
  BY <1>0 DEF RunLoop, WakeInRun
<1> QED
  BY <1>1, <1>4, <1>5, <1>6, <1>7, <1>8, <1>9 DEF CpuStep

LEMMA AskedInvariant ==
  ASSUME Orderly, Undisturbed
  PROVE  Spec => [](IInv /\ Nests /\ PlainInv /\ AskedInv)
<1>1. Init => AskedInv
  BY AskedInit
<1>2. IInv /\ IInv' /\ PlainInv /\ AskedInv /\ [Next]_vars => AskedInv'
  <2> SUFFICES ASSUME IInv, IInv', PlainInv, AskedInv, [Next]_vars
               PROVE  AskedInv'
    OBVIOUS
  <2>1. CASE UNCHANGED vars
    BY <2>1 DEF vars, AskedInv, AskedFor, BreakFor, WaitsFor, Asking, Holding,
                NoSys, AtCall
  <2>2. CASE UiStep
    <3>1. pc[UiThread] \in ClientPlaces /\ dialog = "none"
      BY SessionAssumption DEF IInv, Places
    <3>2. ~ShowDialog /\ ~AnswerDialog /\ ~UnblockDialog
      BY <3>1 DEF ShowDialog, AnswerDialog, UnblockDialog, ClientPlaces
    <3> QED
      BY <2>2, <3>2, AskedHolder, SessionAssumption DEF UiStep, Undisturbed
  <2> QED
    BY <2>1, <2>2, AskedClient, AskedExec, AskedCpu DEF Next, Terminated, Undisturbed
<1> QED
  BY <1>1, <1>2, PlainInvariant, PTL DEF Spec, Undisturbed

(* A suspension does not outlive the stop that made it, EmSession.cpp's    *)
(* ResumeThread and the end of ExecuteSubroutine: when no client holds or  *)
(* asks for a stop, a CPU thread that waits in Run was stopped by the      *)
(* debugger.  Not when the program signals: ScheduleSuspendExternal sets   *)
(* fSuspendBySysCall as well, which no later resumption need clear.        *)
THEOREM OnlyTheDebuggerParksIt ==
  ASSUME Orderly, Undisturbed PROVE Spec => []NobodyParksIt
<1>1. IInv /\ Nests /\ PlainInv /\ AskedInv => NobodyParksIt
  <2> SUFFICES ASSUME IInv, Nests, PlainInv, AskedInv,
                      pc[Cpu] = "parked", Cpu \in waiting,
                      \A c \in Clients : pc[c] = "idle"
               PROVE  sus.dbg # 0
    BY DEF NobodyParksIt
  <2>1. \A t \in Threads : frames[t] = << >>
    BY DEF IInv, Places, InCall, Threads
  <2>2. fNestLevel = 0
    BY <2>1 DEF Nests
  <2>3. fState = kSuspended /\ sus # Zero
    BY <2>2 DEF AskedInv, WaitsFor, IInv, States, Awaited, Undisturbed, Unthrown
  <2>4. sus.ui = 0 /\ sus.ext = 0
    BY <2>1, EmptySeq, SessionAssumption
    DEF IInv, Counts, Counted, PlainInv, Signals, Undisturbed, Threads
  <2>5. sus.sys = 0
    BY <2>1 DEF AskedInv, AskedFor, Asking, Holding, Threads
  <2>6. sus.sub = 0
    BY DEF PlainInv, Leaving, Threads
  <2> QED
    BY <2>3, <2>4, <2>5, <2>6 DEF IInv, TypeOK, Counters, Zero
<1> QED
  BY <1>1, AskedInvariant, PTL

-----------------------------------------------------------------------------
(* Clients without idle_sync                                               *)

(* The clients stop the CPU thread at once and let it go again, under      *)
(* idle_sync or not, and at most as many as fSuspendByUIThread can count.  *)
Counting ==
  /\ Destroyer = NoOne
  /\ Features \subseteq {"sub", "signal", "reset"}
  /\ IsFiniteSet(Clients) /\ Cardinality(Clients) <= 7

StopsOnly ==
  \A c \in Clients : pc[c] \in {"idle", "suspending", "stopped"} /\ how[c] = kStopNow

\* The clients that hold a stop or ask for one.
Stopping == {c \in Clients : pc[c] # "idle"}

\* The UI suspensions in the first m frames of s.
SavedIn(s, m) == UNION {{<<Cpu, i>>} \X (1..s[i].old.ui) : i \in 1..m}

\* u UI suspensions, and those in the CPU thread's frames s, count n stops.
Balanced(s, u, n) ==
  /\ \A i \in 1..Len(s) : s[i].old.ui \in 0..7
  /\ u + Cardinality(SavedIn(s, Len(s))) = n

\* The invariant: where there is a stop, it is in sus, or saved in a frame of
\* the CPU thread that will add it again before it can park or start.
CountInv ==
  /\ Regular /\ StopsOnly /\ States
  /\ sus.ui >= 0
  /\ Balanced(frames[Cpu], sus.ui, Cardinality(Stopping))

\* They are finitely many.
LEMMA SavedFinite ==
  ASSUME NEW s, NEW m \in Nat, \A i \in 1..m : s[i].old.ui \in 0..7
  PROVE  IsFiniteSet(SavedIn(s, m)) /\ Cardinality(SavedIn(s, m)) \in Nat
<1>1. IsFiniteSet({Cpu} \X (1..m)) /\ IsFiniteSet(1..7)
  <2>1. IsFiniteSet({Cpu} \X (1..m))
    BY RowCount, Zenon
  <2>2. 1 \in Int /\ 7 \in Int
    OBVIOUS
  <2>3. IsFiniteSet(1..7)
    BY <2>2, FS_Interval, Zenon
  <2> QED
    BY <2>1, <2>3
<1>2. IsFiniteSet(({Cpu} \X (1..m)) \X (1..7))
  BY <1>1, FS_Product, ZenonT(60)
<1>3. SavedIn(s, m) \subseteq ({Cpu} \X (1..m)) \X (1..7)
  BY DEF SavedIn
<1> QED
  BY <1>2, <1>3, FS_Subset, FS_CardinalityType

\* The suspensions of a sequence of frames are those of all but the last,
\* and those of the last.
LEMMA SavedSplit ==
  ASSUME NEW s, NEW m \in Nat, \A i \in 1..(m + 1) : s[i].old.ui \in 0..7
  PROVE  /\ Cardinality(SavedIn(s, m)) \in Nat
         /\ Cardinality(SavedIn(s, m + 1))
              = Cardinality(SavedIn(s, m)) + s[m + 1].old.ui
<1> DEFINE n == s[m + 1].old.ui
           A == SavedIn(s, m)
           B == {<<Cpu, m + 1>>} \X (1..n)
<1>1. n \in 0..7 /\ \A i \in 1..m : s[i].old.ui \in 0..7
  OBVIOUS
<1>2. IsFiniteSet(A) /\ Cardinality(A) \in Nat
  BY <1>1, SavedFinite
<1>3. IsFiniteSet(B) /\ Cardinality(B) = n
  <2>1. n \in Nat
    BY <1>1
  <2> HIDE DEF n
  <2> QED
    BY <2>1, RowCount, Zenon
<1>4. SavedIn(s, m + 1) = A \cup B
  <2>1. 1..(m + 1) = (1..m) \cup {m + 1}
    OBVIOUS
  <2> QED
    BY <2>1 DEF SavedIn
<1>5. A \cap B = {}
  <2>1. m + 1 \notin 1..m
    OBVIOUS
  <2> QED
    BY <2>1 DEF SavedIn
<1> HIDE DEF A, B, n
<1>6. Cardinality(A \cup B) = Cardinality(A) + Cardinality(B) - Cardinality({})
  BY <1>2, <1>3, <1>5, FS_Union
<1>7. Cardinality({}) = 0
  BY FS_EmptySet
<1>8. Cardinality(A \cup B) = Cardinality(A) + n
  BY <1>1, <1>2, <1>3, <1>6, <1>7
<1> QED
  BY <1>2, <1>4, <1>8, Zenon DEF A, n

LEMMA SavedSame ==
  ASSUME NEW r, NEW s, NEW m, \A i \in 1..m : r[i].old.ui = s[i].old.ui
  PROVE  SavedIn(r, m) = SavedIn(s, m)
BY DEF SavedIn

\* The balance is kept when the CPU thread's frames come and go, as long as
\* what is counted in fSuspendState changes by as much the other way.
LEMMA BalancedPush ==
  ASSUME NEW f, NEW u \in Int, NEW n, Balanced(frames[Cpu], u, n),
         FramesPushed(Cpu, f), f.old.ui \in 0..7
  PROVE  Balanced(frames'[Cpu], u - f.old.ui, n)
<1> DEFINE m == Len(frames[Cpu])
           r == frames'[Cpu]
<1>1. /\ m \in Nat /\ Len(r) = m + 1
      /\ \A i \in 1..m : r[i] = frames[Cpu][i]
      /\ r[m + 1] = f
  BY DEF FramesPushed
<1>2. \A i \in 1..(m + 1) : i \in 1..m \/ i = m + 1
  BY <1>1
<1>3. \A i \in 1..(m + 1) : r[i].old.ui \in 0..7
  BY <1>1, <1>2 DEF Balanced
<1>4. SavedIn(r, m) = SavedIn(frames[Cpu], m)
  BY <1>1, SavedSame
<1>5. /\ Cardinality(SavedIn(r, m)) \in Nat
      /\ Cardinality(SavedIn(r, m + 1)) = Cardinality(SavedIn(r, m)) + f.old.ui
  BY <1>1, <1>3, SavedSplit
<1>6. u + Cardinality(SavedIn(frames[Cpu], m)) = n
  BY DEF Balanced
<1>7. u - f.old.ui + Cardinality(SavedIn(r, m + 1)) = n
  BY <1>4, <1>5, <1>6
<1> QED
  BY <1>1, <1>3, <1>7 DEF Balanced

LEMMA BalancedTop ==
  ASSUME NEW u \in Int, NEW n, Balanced(frames[Cpu], u, n),
         Len(frames[Cpu]) \in Nat \ {0}
  PROVE  /\ Top(Cpu).old.ui \in 0..7
         /\ Cardinality(SavedIn(frames[Cpu], Len(frames[Cpu]) - 1)) \in Nat
         /\ u + Top(Cpu).old.ui
              + Cardinality(SavedIn(frames[Cpu], Len(frames[Cpu]) - 1)) = n
<1> DEFINE s == frames[Cpu]
           m == Len(s) - 1
<1>1. m \in Nat /\ m + 1 = Len(s) /\ Top(Cpu) = s[m + 1]
  BY DEF Top
<1>2. /\ \A i \in 1..(m + 1) : s[i].old.ui \in 0..7
      /\ u + Cardinality(SavedIn(s, m + 1)) = n
  BY <1>1 DEF Balanced
<1> HIDE DEF m
<1>3. /\ Cardinality(SavedIn(s, m)) \in Nat
      /\ Cardinality(SavedIn(s, m + 1)) = Cardinality(SavedIn(s, m)) + s[m + 1].old.ui
  BY <1>1, <1>2, SavedSplit
<1>4. s[m + 1].old.ui \in 0..7
  BY <1>1, <1>2
<1>5. u + s[m + 1].old.ui + Cardinality(SavedIn(s, m)) = n
  <2> DEFINE a == Cardinality(SavedIn(s, m))
             b == s[m + 1].old.ui
             k == Cardinality(SavedIn(s, m + 1))
  <2>1. a \in Nat /\ b \in 0..7 /\ k = a + b /\ u + k = n
    BY <1>2, <1>3, <1>4
  <2> HIDE DEF a, b, k
  <2>2. u + b + a = n
    BY <2>1
  <2> QED
    BY <2>2 DEF a, b
<1> QED
  BY <1>1, <1>3, <1>4, <1>5 DEF m

LEMMA BalancedPop ==
  ASSUME NEW u \in Int, NEW n, Balanced(frames[Cpu], u, n), FramesPopped(Cpu)
  PROVE  Balanced(frames'[Cpu], u + Top(Cpu).old.ui, n)
<1> DEFINE s == frames[Cpu]
           r == frames'[Cpu]
           m == Len(r)
<1>1. /\ Len(s) \in Nat \ {0} /\ m = Len(s) - 1
      /\ \A i \in 1..m : r[i] = s[i]
  BY DEF FramesPopped
<1>2. SavedIn(r, m) = SavedIn(s, m)
  BY <1>1, SavedSame
<1>3. \A i \in 1..m : r[i].old.ui \in 0..7
  <2>1. \A i \in 1..m : i \in 1..Len(s)
    BY <1>1
  <2> HIDE DEF m
  <2> QED
    BY <1>1, <2>1 DEF Balanced
<1>4. /\ Top(Cpu).old.ui \in 0..7
      /\ Cardinality(SavedIn(s, m)) \in Nat
      /\ u + Top(Cpu).old.ui + Cardinality(SavedIn(s, m)) = n
  BY <1>1, BalancedTop
<1> QED
  BY <1>2, <1>3, <1>4 DEF Balanced

LEMMA BalancedSet ==
  ASSUME NEW f, NEW u \in Int, NEW n, Balanced(frames[Cpu], u, n),
         FramesSet(Cpu, f), f.old.ui \in 0..7
  PROVE  Balanced(frames'[Cpu], u + Top(Cpu).old.ui - f.old.ui, n)
<1> DEFINE s == frames[Cpu]
           r == frames'[Cpu]
           m == Len(s) - 1
<1>1. /\ Len(s) \in Nat \ {0} /\ m \in Nat /\ m + 1 = Len(s) /\ Len(r) = m + 1
      /\ \A i \in 1..Len(s) : r[i] = IF i = Len(s) THEN f ELSE s[i]
  BY DEF FramesSet
<1> HIDE DEF m
<1>2. r[m + 1] = f /\ \A i \in 1..m : r[i] = s[i]
  BY <1>1
<1>3. SavedIn(r, m) = SavedIn(s, m)
  BY <1>2, SavedSame
<1>4. \A i \in 1..(m + 1) : r[i].old.ui \in 0..7
  BY <1>1 DEF Balanced
<1>5. /\ Top(Cpu).old.ui \in 0..7
      /\ Cardinality(SavedIn(s, m)) \in Nat
      /\ u + Top(Cpu).old.ui + Cardinality(SavedIn(s, m)) = n
  BY <1>1, BalancedTop DEF m
<1>6. Cardinality(SavedIn(r, m + 1)) = Cardinality(SavedIn(r, m)) + f.old.ui
  BY <1>1, <1>2, <1>4, SavedSplit
<1>7. u + Top(Cpu).old.ui - f.old.ui + Cardinality(SavedIn(r, m + 1)) = n
  BY <1>3, <1>5, <1>6
<1> QED
  BY <1>1, <1>4, <1>7 DEF Balanced

\* What the invariant says of the counters and of the clients.
LEMMA CountFacts ==
  ASSUME Counting, CountInv
  PROVE  /\ sus \in Counters /\ sus.ui \in 0..7
         /\ IsFiniteSet(Stopping) /\ Cardinality(Stopping) \in 0..7
         /\ sus.ui <= Cardinality(Stopping)
         /\ pc[Cpu] = "parked" => sus.ui = Cardinality(Stopping)
         /\ \A c \in Clients : frames[c] = << >> /\ ~InCall(c)
         /\ \A c \in Clients : Holding(c) <=> pc[c] = "stopped"
         /\ frames \in [Threads -> Seq(Frame)] /\ pc \in [Threads -> Locations]
         /\ Len(frames[Cpu]) \in Nat
<1>1. /\ frames \in [Threads -> Seq(Frame)] /\ pc \in [Threads -> Locations]
      /\ sus \in Counters /\ sus.ui >= 0
  BY DEF CountInv, Regular, TypeOK
<1>2. sus.ui \in 0..7
  BY <1>1 DEF Counters, Int4
<1>3. IsFiniteSet(Stopping) /\ Cardinality(Stopping) \in 0..7
  <2>1. Stopping \in SUBSET Clients
    BY DEF Stopping
  <2>2. IsFiniteSet(Stopping) /\ Cardinality(Stopping) <= Cardinality(Clients)
    BY <2>1, FS_Subset DEF Counting
  <2>3. Cardinality(Stopping) \in Nat /\ Cardinality(Clients) \in Nat
    BY <2>2, FS_CardinalityType DEF Counting
  <2>4. Cardinality(Clients) <= 7
    BY DEF Counting
  <2> QED
    BY <2>2, <2>3, <2>4
<1>4. \A c \in Clients : frames[c] = << >> /\ ~InCall(c)
  BY DEF CountInv, Regular, Places, StopsOnly, InCall
<1>5. \A c \in Clients : Holding(c) <=> pc[c] = "stopped"
  BY <1>4 DEF CountInv, StopsOnly, Holding
<1>6. Len(frames[Cpu]) \in Nat
  BY <1>1
<1> DEFINE saved == SavedIn(frames[Cpu], Len(frames[Cpu]))
<1>7. Cardinality(saved) \in Nat /\ sus.ui + Cardinality(saved) = Cardinality(Stopping)
  BY <1>6, SavedFinite DEF CountInv, Balanced
<1>8. pc[Cpu] = "parked" => Cardinality(saved) = 0
  <2>1. ASSUME pc[Cpu] = "parked" PROVE frames[Cpu] = << >>
    BY <2>1 DEF CountInv, Regular, Places, InCall
  <2>2. frames[Cpu] = << >> => saved = {}
    BY EmptySeq DEF SavedIn
  <2> QED
    BY <2>1, <2>2, FS_EmptySet
<1> HIDE DEF saved
<1>9. sus.ui <= Cardinality(Stopping) /\ (pc[Cpu] = "parked" => sus.ui = Cardinality(Stopping))
  BY <1>2, <1>3, <1>7, <1>8
<1> QED
  BY <1>1, <1>2, <1>3, <1>4, <1>5, <1>6, <1>9

\* What has to be shown of a step.
LEMMA CountNext ==
  ASSUME Counting, TypeOK', Places', StopsOnly',
         fState' \in {kRunning, kSuspended},
         fState' = kSuspended => pc'[Cpu] = "parked",
         fState' = kSuspended /\ fNestLevel' = 0 => sus' # Zero,
         \A c \in Clients : pc'[c] = "stopped" => fState' = kSuspended,
         Fitted(Cpu)',
         pc'[Cpu] \in {"subLoop", "unwind"} => Len(frames'[Cpu]) > 1,
         sus'.ui >= 0,
         Balanced(frames'[Cpu], sus'.ui, Cardinality(Stopping'))
  PROVE  CountInv'
<1>1. \A c \in Clients : /\ frames'[c] = << >> /\ Len(frames'[c]) = 0
                         /\ pc'[c] \in {"idle", "suspending", "stopped"}
  BY EmptySeq DEF Places, StopsOnly, InCall
<1>2. \A c \in Clients : Holding(c)' <=> pc'[c] = "stopped"
  BY <1>1 DEF Holding
<1>3. Held'
  BY <1>2 DEF Held
<1>4. Callers'
  <2> SUFFICES ASSUME NEW t \in Threads, pc'[t] \notin {"idle", "suspending"},
                      NEW u \in Threads, u # t
               PROVE  frames'[u] = << >>
    BY DEF Callers
  <2>1. CASE u \in Clients
    BY <1>1, <2>1
  <2>2. CASE u = Cpu
    <3>1. pc'[Cpu] = "parked"
      BY <1>1, <2>2
    <3> QED
      BY <2>2, <3>1 DEF Places, InCall
  <2> QED
    BY <2>1, <2>2
<1>5. \A t \in Threads : Fitted(t)'
  BY <1>1 DEF Fitted
<1>6. Regular'
  BY <1>3, <1>4, <1>5 DEF Regular
<1>7. \A i \in 1..Len(frames'[Cpu]) : frames'[Cpu][i].state = kRunning
  BY DEF Fitted, Fits
<1>8. States'
  BY <1>1, <1>7 DEF States
<1> QED
  BY <1>6, <1>8 DEF CountInv, Balanced, SavedIn

LEMMA CountInit == ASSUME Counting PROVE Init => CountInv
<1> SUFFICES ASSUME Init PROVE CountInv
  OBVIOUS
<1>1. TypeOK
  BY TypeInit DEF TypeInv
<1>2. /\ \A t \in Threads : frames[t] = << >> /\ Len(frames[t]) = 0
      /\ pc[Cpu] = "run"
      /\ \A c \in Clients : pc[c] = "idle" /\ how[c] = kStopNow
      /\ sus.ui = 0 /\ fState = kRunning
  BY SessionAssumption, EmptySeq DEF Init, Zero
<1>3. Places /\ StopsOnly /\ States /\ Held /\ Callers
  BY <1>2 DEF Init, Places, StopsOnly, States, Held, Holding, InCall, Callers,
              ClientPlaces, CpuPlaces, kRunning, kSuspended
<1>4. \A t \in Threads : Fitted(t)
  BY <1>2 DEF Fitted
<1>5. Stopping = {} /\ SavedIn(frames[Cpu], Len(frames[Cpu])) = {}
  BY <1>2 DEF Stopping, SavedIn
<1>6. Balanced(frames[Cpu], sus.ui, Cardinality(Stopping))
  BY <1>2, <1>5, FS_EmptySet DEF Balanced
<1> QED
  BY <1>1, <1>2, <1>3, <1>4, <1>6 DEF CountInv, Regular

\* A client that goes from one place to another.
LEMMA StoppingMove ==
  ASSUME Counting, CountInv, NEW c \in Clients,
         NEW l \in {"idle", "suspending", "stopped"},
         pc' = [pc EXCEPT ![c] = l]
  PROVE  /\ Cardinality(Stopping') \in Int
         /\ Cardinality(Stopping') =
              Cardinality(Stopping) + (IF l = "idle" THEN 0 ELSE 1)
                                    - (IF pc[c] = "idle" THEN 0 ELSE 1)
<1>1. IsFiniteSet(Stopping) /\ Cardinality(Stopping) \in 0..7 /\ pc \in [Threads -> Locations]
  BY CountFacts
<1>2. Stopping' = IF l = "idle" THEN Stopping \ {c} ELSE Stopping \cup {c}
  BY <1>1 DEF Stopping
<1>3. c \in Stopping <=> pc[c] # "idle"
  BY DEF Stopping
<1>4. CASE l = "idle"
  <2>1. Cardinality(Stopping \ {c}) =
          IF c \in Stopping THEN Cardinality(Stopping) - 1 ELSE Cardinality(Stopping)
    BY <1>1, FS_RemoveElement, Zenon
  <2> QED
    BY <1>1, <1>2, <1>3, <1>4, <2>1
<1>5. CASE l # "idle"
  <2>1. Cardinality(Stopping \cup {c}) =
          IF c \in Stopping THEN Cardinality(Stopping) ELSE Cardinality(Stopping) + 1
    BY <1>1, FS_AddElement, Zenon
  <2> QED
    BY <1>1, <1>2, <1>3, <1>5, <2>1
<1> QED
  BY <1>4, <1>5

LEMMA CountClient ==
  ASSUME Counting, CountInv, TypeOK', NEW c \in Clients,
         NEW l \in {"idle", "suspending", "stopped"},
         pc' = [pc EXCEPT ![c] = l], how' = [how EXCEPT ![c] = kStopNow],
         UNCHANGED <<fStop, dialog, frames>>,
         fState' \in {fState, kRunning},
         \A d \in Clients : pc'[d] = "stopped" => fState' = kSuspended,
         fState' = kSuspended /\ fNestLevel' = 0 => sus' # Zero,
         sus'.ui >= 0,
         sus'.ui = sus.ui + (IF l = "idle" THEN 0 ELSE 1)
                          - (IF pc[c] = "idle" THEN 0 ELSE 1)
  PROVE  CountInv'
<1>1. /\ pc \in [Threads -> Locations] /\ c \in Threads /\ c # Cpu
      /\ how \in [Clients -> StopMethod]
      /\ sus.ui \in 0..7 /\ sus'.ui \in Int4
      /\ Cardinality(Stopping) \in 0..7 /\ Cardinality(Stopping') \in Int
      /\ \A d \in Clients : frames[d] = << >>
  <2>1. Cardinality(Stopping) \in 0..7
    BY CountFacts
  <2>2. Cardinality(Stopping') \in Int
    BY StoppingMove
  <2> QED
    BY <2>1, <2>2, CountFacts, SessionAssumption DEF CountInv, Regular, TypeOK, Counters
<1>2. Places'
  BY <1>1 DEF CountInv, Regular, Places, InCall, ClientPlaces
<1>3. StopsOnly'
  BY <1>1 DEF CountInv, StopsOnly
<1>4. /\ fState' \in {kRunning, kSuspended}
      /\ fState' = kSuspended => pc'[Cpu] = "parked"
  BY <1>1 DEF CountInv, States, kRunning, kSuspended
<1>5. /\ Fitted(Cpu)'
      /\ pc'[Cpu] \in {"subLoop", "unwind"} => Len(frames'[Cpu]) > 1
  BY <1>1 DEF CountInv, Regular, Fitted, Fits
<1>6. Balanced(frames'[Cpu], sus'.ui, Cardinality(Stopping'))
  <2> DEFINE saved == Cardinality(SavedIn(frames[Cpu], Len(frames[Cpu])))
             n == Cardinality(Stopping)
             m == Cardinality(Stopping')
             a == IF l = "idle" THEN 0 ELSE 1
             b == IF pc[c] = "idle" THEN 0 ELSE 1
  <2>1. saved \in Nat
    BY CountFacts, SavedFinite DEF CountInv, Balanced
  <2>2. m = n + a - b /\ sus'.ui = sus.ui + a - b /\ sus.ui + saved = n
    BY StoppingMove DEF CountInv, Balanced
  <2>3. a \in {0, 1} /\ b \in {0, 1}
    OBVIOUS
  <2> HIDE DEF saved, m, n, a, b
  <2>4. sus'.ui + saved = m
    BY <1>1, <2>1, <2>2, <2>3
  <2> QED
    BY <2>4 DEF CountInv, Balanced, saved, m
<1> QED
  BY <1>2, <1>3, <1>4, <1>5, <1>6, CountNext

\* A client that stops the CPU thread, or asks to, is counted.
LEMMA CountStop ==
  ASSUME Counting, CountInv, TypeOK', NEW c \in Clients, NEW s \in Counters,
         \/ pc[c] = "idle" /\ s = Request(sus, kStopNow)
         \/ pc[c] = "suspending" /\ s = sus,
         how' = [how EXCEPT ![c] = kStopNow],
         AwaitStop(c, kStopNow, s) \/ Settle(c, kStopNow, s),
         UNCHANGED <<fState, fNestLevel, fStop, dialogs, frames>>
  PROVE  CountInv'
<1>1. /\ sus \in Counters /\ sus.ui \in 0..7
      /\ IsFiniteSet(Stopping) /\ Cardinality(Stopping) \in 0..7
      /\ sus.ui <= Cardinality(Stopping)
      /\ pc \in [Threads -> Locations] /\ c \in Threads /\ c # Cpu
  BY CountFacts, SessionAssumption
<1>2. s.ui = sus.ui + 1 - (IF pc[c] = "idle" THEN 0 ELSE 1)
  <2>1. CASE pc[c] = "idle"
    <3>1. Stopping \cup {c} \in SUBSET Clients /\ c \notin Stopping
      BY <2>1 DEF Stopping
    <3>2. Cardinality(Stopping) + 1 <= Cardinality(Clients)
      <4>1. Cardinality(Stopping \cup {c}) = Cardinality(Stopping) + 1
        BY <1>1, <3>1, FS_AddElement
      <4>2. Cardinality(Stopping \cup {c}) <= Cardinality(Clients)
        BY <3>1, FS_Subset DEF Counting
      <4> QED
        BY <4>1, <4>2
    <3>3. Cardinality(Clients) \in Nat /\ Cardinality(Clients) <= 7
      BY FS_CardinalityType DEF Counting
    <3>4. sus.ui \in 0..6
      BY <1>1, <3>2, <3>3
    <3>5. Wrap4(sus.ui + 1) = sus.ui + 1
      BY <3>4 DEF Wrap4
    <3> QED
      BY <1>1, <2>1, <3>5 DEF Request, Bump, Counters
  <2>2. CASE pc[c] = "suspending" /\ s = sus
    BY <1>1, <2>2
  <2> QED
    BY <2>1, <2>2
<1>3. CASE AwaitStop(c, kStopNow, s)
  <2>1. fState = kRunning /\ pc' = [pc EXCEPT ![c] = "suspending"] /\ sus' = s
    BY <1>3 DEF AwaitStop
  <2>2. \A d \in Clients : pc'[d] # "stopped"
    BY <1>1, <2>1 DEF CountInv, States, kRunning, kSuspended
  <2>3. s.ui >= 0
    BY <1>1, <1>2
  <2> QED
    BY <1>2, <2>1, <2>2, <2>3, CountClient DEF kRunning, kSuspended
<1>4. CASE Settle(c, kStopNow, s)
  <2>1. /\ fState = kSuspended /\ pc' = [pc EXCEPT ![c] = "stopped"]
        /\ sus' = s
    BY <1>4 DEF Settle, CountInv, States, kStopNow, kStopOnSysCall
  <2>2. sus.ui = Cardinality(Stopping)
    BY <2>1, CountFacts DEF CountInv, States
  <2>3. s.ui > 0
    <3>1. CASE pc[c] = "idle"
      BY <1>1, <1>2, <3>1
    <3>2. CASE pc[c] # "idle"
      <4>1. Stopping # {}
        BY <3>2 DEF Stopping
      <4>2. Cardinality(Stopping) # 0
        BY <1>1, <4>1, FS_EmptySet
      <4> QED
        BY <1>1, <1>2, <2>2, <3>2, <4>2
    <3> QED
      BY <3>1, <3>2
  <2>4. s # Zero
    BY <2>3 DEF Zero
  <2>5. s.ui >= 0
    BY <1>1, <1>2, <2>3
  <2> QED
    BY <1>2, <2>1, <2>4, <2>5, CountClient
<1> QED
  BY <1>3, <1>4

LEMMA CountResume ==
  ASSUME Counting, CountInv, TypeOK', NEW c \in Clients, ResumeThread(c)
  PROVE  CountInv'
<1>1. /\ sus \in Counters /\ sus.ui \in 0..7
      /\ IsFiniteSet(Stopping) /\ Cardinality(Stopping) \in 0..7
      /\ pc \in [Threads -> Locations] /\ how \in [Clients -> StopMethod]
      /\ c \in Threads /\ c # Cpu
  BY CountFacts, SessionAssumption DEF CountInv, Regular, TypeOK
<1>2. pc[c] = "stopped" /\ pc' = [pc EXCEPT ![c] = "idle"] /\ how[c] = kStopNow
  BY DEF ResumeThread, CountInv, StopsOnly
<1>3. fState = kSuspended /\ pc[Cpu] = "parked"
  BY <1>2 DEF CountInv, States
<1>4. sus.ui = Cardinality(Stopping) /\ sus.ui \in 1..7
  <2>1. Stopping # {}
    BY <1>2 DEF Stopping
  <2>2. Cardinality(Stopping) # 0
    BY <1>1, <2>1, FS_EmptySet
  <2> QED
    BY <1>1, <1>3, <2>2, CountFacts
<1>5. sus'.ui = sus.ui - 1
  <2>1. Wrap4(sus.ui - 1) = sus.ui - 1 /\ ~(sus.ui <= 0)
    BY <1>4 DEF Wrap4
  <2>2. Wrap4(sus.ui + (-1)) = sus.ui - 1
    BY <1>4 DEF Wrap4
  <2>3. sus' = Release(sus)
    BY DEF ResumeThread
  <2> QED
    BY <1>1, <2>1, <2>2, <2>3 DEF Release, Bump, Counters
<1>6. Cardinality(Stopping') = sus'.ui
  <2>1. Cardinality(Stopping') = Cardinality(Stopping) + 0 - 1
    BY <1>2, StoppingMove
  <2> QED
    BY <1>1, <1>4, <1>5, <2>1
<1>7. \A d \in Clients : pc'[d] = "stopped" => sus' # Zero
  <2> SUFFICES ASSUME NEW d \in Clients, pc'[d] = "stopped" PROVE sus' # Zero
    OBVIOUS
  <2>1. Stopping' # {}
    BY DEF Stopping
  <2>2. Stopping' \subseteq Stopping
    BY <1>1, <1>2 DEF Stopping
  <2>3. IsFiniteSet(Stopping')
    BY <1>1, <2>2, FS_Subset
  <2>4. Cardinality(Stopping') # 0
    BY <2>1, <2>3, FS_EmptySet
  <2> QED
    BY <1>6, <2>4 DEF Zero
<1>8. /\ \A d \in Clients : pc'[d] = "stopped" => fState' = kSuspended
      /\ fState' = kSuspended => sus' # Zero
      /\ fState' \in {fState, kRunning}
  <2>1. sus.ui > 0
    BY <1>4
  <2>2. fState' = IF sus' = Zero THEN kRunning ELSE kSuspended
    BY <1>3, <2>1 DEF ResumeThread
  <2> QED
    BY <1>3, <1>7, <2>2 DEF kRunning, kSuspended
<1>9. sus'.ui >= 0
  BY <1>4, <1>5
<1>10. /\ UNCHANGED <<fStop, dialog, frames>> /\ how' = [how EXCEPT ![c] = kStopNow]
       /\ sus'.ui = sus.ui + 0 - 1
  BY <1>1, <1>2, <1>4, <1>5 DEF ResumeThread
<1> QED
  BY <1>2, <1>8, <1>9, <1>10, CountClient

LEMMA CountStopper ==
  ASSUME Counting, CountInv, TypeOK', NEW c \in Clients, ClientStep(c)
  PROVE  CountInv'
<1>1. /\ sus \in Counters /\ pc[c] \in {"idle", "suspending", "stopped"}
      /\ pc \in [Threads -> Locations] /\ how \in [Clients -> StopMethod]
      /\ how[c] = kStopNow
  BY CountFacts DEF CountInv, StopsOnly, Regular, TypeOK
<1>2. ASSUME NEW h \in StopMethod, SuspendThread(c, h) PROVE CountInv'
  <2>1. h = kStopNow
    BY <1>2 DEF SuspendThread, StopMethod, Counting
  <2>2. Request(sus, kStopNow) \in Counters
    BY <1>1, RequestType
  <2> QED
    BY <1>2, <2>1, <2>2, CountStop DEF SuspendThread
<1>3. CASE WakeInSuspend(c)
  <2>1. how' = [how EXCEPT ![c] = kStopNow]
    BY <1>1, <1>3 DEF WakeInSuspend
  <2> QED
    BY <1>1, <1>3, <2>1, CountStop DEF WakeInSuspend
<1>4. CASE ResumeThread(c)
  BY <1>4, CountResume
<1>5. CASE ResetEmulator(c)
  <2>1. /\ pc[c] = "stopped" /\ pc' = [pc EXCEPT ![c] = "stopped"]
        /\ how' = [how EXCEPT ![c] = kStopNow]
        /\ UNCHANGED <<fState, fStop, dialog, frames>>
    BY <1>1, <1>5 DEF ResetEmulator
  <2>2. sus'.ui = sus.ui
    BY <1>1, <1>5 DEF ResetEmulator, Reset, ClearForReset, Counters
  <2>3. fState = kSuspended /\ pc[Cpu] = "parked"
    BY <2>1 DEF CountInv, States
  <2>4. sus.ui \in 0..7 /\ sus.ui # 0
    <3>1. Stopping # {}
      BY <2>1 DEF Stopping
    <3> QED
      BY <2>3, <3>1, CountFacts, FS_EmptySet
  <2>5. sus' # Zero /\ sus'.ui >= 0 /\ sus'.ui = sus.ui + 1 - 1
    BY <2>2, <2>4 DEF Zero
  <2> QED
    BY <2>1, <2>3, <2>5, CountClient
<1>6. ~GiveUp(c) /\ ~DestroyThread(c) /\ ~WakeInDestroy(c)
  BY <1>1, SessionAssumption DEF GiveUp, DestroyThread, WakeInDestroy, Counting
<1> QED
  BY <1>2, <1>3, <1>4, <1>5, <1>6 DEF ClientStep

\* A step of the CPU thread, with what it does to its frames.
LEMMA CountMoved ==
  ASSUME Counting, CountInv, TypeOK',
         NEW l \in {"run", "parked", "callCPU", "exec", "sysCall", "cycle",
                    "uncall", "subLoop"},
         pc' = [pc EXCEPT ![Cpu] = l],
         UNCHANGED <<fStop, dialog, how>>,
         \A u \in Threads : u # Cpu => frames'[u] = frames[u],
         l \in {"run", "parked"} <=> frames'[Cpu] = << >>,
         fState' \in {kRunning, kSuspended},
         fState' = kSuspended => l = "parked",
         fState' = kSuspended /\ fNestLevel' = 0 => sus' # Zero,
         fState = kSuspended => fState' = kSuspended \/ sus = Zero,
         Fitted(Cpu)',
         l = "subLoop" => Len(frames'[Cpu]) > 1,
         sus'.ui >= 0,
         Balanced(frames'[Cpu], sus'.ui, Cardinality(Stopping))
  PROVE  CountInv'
<1>1. /\ pc \in [Threads -> Locations] /\ Cpu \notin Clients
      /\ \A c \in Clients : frames[c] = << >> /\ ~InCall(c)
  BY CountFacts, SessionAssumption
<1>2. pc'[Cpu] = l /\ \A c \in Clients : pc'[c] = pc[c]
  BY <1>1
<1>3. Places'
  BY <1>1, <1>2 DEF CountInv, Regular, Places, InCall, CpuPlaces
<1>4. StopsOnly' /\ Stopping' = Stopping
  BY <1>1, <1>2 DEF CountInv, StopsOnly, Stopping
<1>5. \A c \in Clients : pc'[c] = "stopped" => fState' = kSuspended
  <2> SUFFICES ASSUME NEW c \in Clients, pc[c] = "stopped"
               PROVE  fState' = kSuspended
    BY <1>2
  <2>1. pc[Cpu] = "parked" /\ fState = kSuspended
    BY DEF CountInv, States
  <2>2. Stopping # {}
    BY DEF Stopping
  <2>3. sus.ui # 0
    BY <2>1, <2>2, CountFacts, FS_EmptySet
  <2> QED
    BY <2>1, <2>3 DEF Zero
<1> QED
  BY <1>2, <1>3, <1>4, <1>5, CountNext

\* Where the CPU thread executes, and is not stopped.
LEMMA CountRuns ==
  ASSUME Counting, CountInv, pc[Cpu] # "parked"
  PROVE  /\ fState = kRunning
         /\ pc[Cpu] # "run" => frames[Cpu] # << >> /\ Len(frames[Cpu]) \in Nat \ {0}
<1>1. fState = kRunning
  BY DEF CountInv, States
<1>2. pc[Cpu] # "run" => frames[Cpu] # << >>
  BY DEF CountInv, Regular, Places, InCall, CpuPlaces, Counting
<1>3. frames[Cpu] # << >> => Len(frames[Cpu]) \in Nat \ {0}
  BY EmptySeq DEF CountInv, Regular, TypeOK
<1> QED
  BY <1>1, <1>2, <1>3

LEMMA CountQuiet ==
  ASSUME Counting, CountInv, TypeOK',
         pc[Cpu] \in {"exec", "sysCall", "cycle"},
         NEW l \in {"exec", "sysCall", "cycle", "uncall"},
         pc' = [pc EXCEPT ![Cpu] = l],
         sus'.ui = sus.ui,
         UNCHANGED <<fState, fStop, dialog, how, frames>>
  PROVE  CountInv'
<1>1. fState = kRunning /\ frames[Cpu] # << >>
  BY CountRuns
<1>2. Fitted(Cpu)'
  BY DEF CountInv, Regular, Fitted, Fits
<1>3. sus'.ui >= 0 /\ Balanced(frames'[Cpu], sus'.ui, Cardinality(Stopping))
  BY DEF CountInv
<1>4. /\ \A u \in Threads : u # Cpu => frames'[u] = frames[u]
      /\ l \in {"run", "parked"} <=> frames'[Cpu] = << >>
      /\ fState' = kRunning /\ kRunning # kSuspended
  BY <1>1 DEF kRunning, kSuspended
<1> QED
  BY <1>2, <1>3, <1>4, CountMoved

LEMMA CountCall ==
  ASSUME Counting, CountInv, TypeOK', ExecuteSubroutine(Cpu)
  PROVE  CountInv'
<1> DEFINE f == [old |-> sus, nest |-> fNestLevel, state |-> fState,
                 back |-> pc[Cpu]]
<1>1. pc[Cpu] \in {"exec", "sysCall"}
  BY DEF ExecuteSubroutine, CountInv, Regular, Places, CpuPlaces, Counting
<1>2. /\ fState = kRunning /\ Len(frames[Cpu]) \in Nat \ {0}
      /\ sus \in Counters /\ sus.ui \in 0..7
      /\ frames \in [Threads -> Seq(Frame)] /\ Fitted(Cpu)
  BY <1>1, CountRuns, CountFacts DEF CountInv, Regular
<1>3. f \in Frame /\ f.old.ui = sus.ui
  BY <1>1, <1>2 DEF CountInv, Regular, TypeOK, Frame
<1>4. Push(Cpu, f)
  BY DEF ExecuteSubroutine
<1>5. Fits(Cpu, Len(frames[Cpu]) + 1, f)
  BY <1>1, <1>2 DEF Fits
<1> HIDE DEF f
<1>6. FramesPushed(Cpu, f)
  BY <1>2, <1>3, <1>4, PushFrame
<1>7. Fitted(Cpu)'
  BY <1>2, <1>5, <1>6, FittedPush
<1>8. sus'.ui = 0 /\ sus.ui - f.old.ui = 0
  BY <1>2, <1>3 DEF ExecuteSubroutine, Zero
<1>9. Balanced(frames'[Cpu], 0, Cardinality(Stopping))
  <2>1. /\ sus.ui \in Int /\ f.old.ui \in 0..7
        /\ Balanced(frames[Cpu], sus.ui, Cardinality(Stopping))
    BY <1>2, <1>3 DEF CountInv
  <2>2. Balanced(frames'[Cpu], sus.ui - f.old.ui, Cardinality(Stopping))
    BY <1>6, <2>1, BalancedPush
  <2> QED
    BY <1>8, <2>2
<1>10. /\ pc' = [pc EXCEPT ![Cpu] = "callCPU"] /\ pc[Cpu] # "parked"
       /\ UNCHANGED <<fState, fStop, dialog, how>>
       /\ \A u \in Threads : u # Cpu => frames'[u] = frames[u]
       /\ frames'[Cpu] # << >> /\ kRunning # kSuspended
  BY <1>1, <1>6 DEF ExecuteSubroutine, FramesPushed, kRunning, kSuspended
<1> QED
  BY <1>2, <1>7, <1>8, <1>9, <1>10, CountMoved

LEMMA CountEnter ==
  ASSUME Counting, CountInv, TypeOK', CallCPU(Cpu)
  PROVE  CountInv'
<1> DEFINE f == [Top(Cpu) EXCEPT !.state = fState]
<1>1. pc[Cpu] = "callCPU"
  BY DEF CallCPU
<1>2. /\ fState = kRunning /\ frames[Cpu] # << >> /\ Len(frames[Cpu]) \in Nat \ {0}
      /\ sus \in Counters /\ sus.ui \in 0..7
      /\ frames \in [Threads -> Seq(Frame)] /\ Fitted(Cpu)
  BY <1>1, CountRuns, CountFacts DEF CountInv, Regular
<1>3. Top(Cpu) \in Frame /\ Fits(Cpu, Len(frames[Cpu]), Top(Cpu))
  BY <1>2, RegularTop DEF CountInv
<1>4. f \in Frame /\ f.old = Top(Cpu).old
  BY <1>3 DEF CountInv, Regular, TypeOK, Frame
<1>5. SetTop(Cpu, f)
  BY DEF CallCPU
<1>6. Fits(Cpu, Len(frames[Cpu]), f)
  BY <1>2, <1>3 DEF Fits, Frame
<1> HIDE DEF f
<1>7. FramesSet(Cpu, f)
  BY <1>2, <1>4, <1>5, SetTopFrame
<1>8. Fitted(Cpu)'
  BY <1>2, <1>6, <1>7, FittedSet
<1>9. Top(Cpu).old.ui \in 0..7
  BY <1>2, BalancedTop DEF CountInv
<1>10. Balanced(frames'[Cpu], sus.ui, Cardinality(Stopping))
  <2>1. Balanced(frames'[Cpu], sus.ui + Top(Cpu).old.ui - f.old.ui, Cardinality(Stopping))
    BY <1>2, <1>4, <1>7, <1>9, BalancedSet DEF CountInv
  <2>2. sus.ui + Top(Cpu).old.ui - f.old.ui = sus.ui
    BY <1>2, <1>4, <1>9
  <2> QED
    BY <2>1, <2>2
<1>11. /\ pc' = [pc EXCEPT ![Cpu] = "exec"] /\ pc[Cpu] # "parked"
       /\ UNCHANGED <<fStop, dialog, how>> /\ fState' = kRunning
       /\ \A u \in Threads : u # Cpu => frames'[u] = frames[u]
       /\ frames'[Cpu] # << >> /\ kRunning # kSuspended
  BY <1>1, <1>2, <1>7 DEF CallCPU, FramesSet, kRunning, kSuspended
<1>12. sus'.ui = sus.ui /\ sus'.ui >= 0
  BY <1>2 DEF CallCPU
<1>13. Balanced(frames'[Cpu], sus'.ui, Cardinality(Stopping))
  BY <1>10, <1>12
<1> QED
  BY <1>2, <1>8, <1>11, <1>12, <1>13, CountMoved

LEMMA CountReturn ==
  ASSUME Counting, CountInv, TypeOK', CallCPUReturn(Cpu)
  PROVE  CountInv'
<1>1. pc[Cpu] = "uncall"
  BY DEF CallCPUReturn
<1>2. /\ fState = kRunning /\ frames[Cpu] # << >> /\ Len(frames[Cpu]) \in Nat \ {0}
      /\ sus \in Counters /\ sus.ui \in 0..7 /\ sus.ui >= 0
      /\ frames \in [Threads -> Seq(Frame)] /\ Fitted(Cpu)
  BY <1>1, CountRuns, CountFacts DEF CountInv, Regular
<1>3. Fits(Cpu, Len(frames[Cpu]), Top(Cpu))
  BY <1>2, RegularTop DEF CountInv
<1>4. /\ fState' = kRunning /\ kRunning # kSuspended
      /\ UNCHANGED <<sus, fStop, dialog, how>>
  BY <1>3 DEF Fits, CallCPUReturn, kRunning, kSuspended
<1>5. CASE Top(Cpu).back = "run"
  <2>1. Len(frames[Cpu]) = 1 /\ Top(Cpu).old.ui = 0
    BY <1>3, <1>5 DEF Fits
  <2>2. FramesPopped(Cpu)
    BY <1>2, <1>5, PopFrame DEF CallCPUReturn
  <2>3. Fitted(Cpu)'
    BY <1>2, <2>2, FittedPop
  <2>4. Balanced(frames'[Cpu], sus.ui, Cardinality(Stopping))
    <3>1. Balanced(frames'[Cpu], sus.ui + Top(Cpu).old.ui, Cardinality(Stopping))
      BY <1>2, <2>2, BalancedPop DEF CountInv
    <3>2. sus.ui + Top(Cpu).old.ui = sus.ui
      BY <1>2, <2>1
    <3> QED
      BY <3>1, <3>2
  <2>5. /\ pc' = [pc EXCEPT ![Cpu] = "run"] /\ pc[Cpu] # "parked"
        /\ \A u \in Threads : u # Cpu => frames'[u] = frames[u]
        /\ frames'[Cpu] = << >>
    BY <1>1, <1>5, <2>1, <2>2 DEF CallCPUReturn, FramesPopped
  <2> QED
    BY <1>2, <1>4, <2>3, <2>4, <2>5, CountMoved
<1>6. CASE Top(Cpu).back # "run"
  <2>1. Len(frames[Cpu]) # 1
    BY <1>3, <1>6 DEF Fits
  <2>2. Len(frames[Cpu]) > 1
    <3>1. \A n \in Nat \ {0} : n # 1 => n > 1
      OBVIOUS
    <3> QED
      BY <1>2, <2>1, <3>1, Zenon
  <2>3. pc' = [pc EXCEPT ![Cpu] = "subLoop"] /\ frames' = frames /\ pc[Cpu] # "parked"
    BY <1>1, <1>6 DEF CallCPUReturn
  <2>4. Fitted(Cpu)'
    BY <2>3 DEF CountInv, Regular, Fitted, Fits
  <2>5. Balanced(frames'[Cpu], sus'.ui, Cardinality(Stopping))
    BY <1>4, <2>3 DEF CountInv
  <2>6. frames'[Cpu] # << >> /\ Len(frames'[Cpu]) > 1
        /\ \A u \in Threads : u # Cpu => frames'[u] = frames[u]
    BY <1>2, <2>2, <2>3
  <2> QED
    BY <1>2, <1>4, <2>3, <2>4, <2>5, <2>6, CountMoved
<1> QED
  BY <1>5, <1>6

\* What a ROM call has put aside and what has been asked for since can be
\* added in four bits.
LEMMA AbsorbedCount ==
  ASSUME Counting, CountInv, Len(frames[Cpu]) \in Nat \ {0},
         Top(Cpu).old \in Counters
  PROVE  /\ Top(Cpu).old.ui \in 0..7
         /\ Absorb(Top(Cpu).old, sus).ui = sus.ui + Top(Cpu).old.ui
         /\ ClipExternal(Absorb(Top(Cpu).old, sus)).ui = sus.ui + Top(Cpu).old.ui
         /\ sus.ui + Top(Cpu).old.ui \in 0..7
<1>1. sus \in Counters /\ sus.ui \in 0..7 /\ Cardinality(Stopping) \in 0..7
  BY CountFacts
<1> DEFINE saved == Cardinality(SavedIn(frames[Cpu], Len(frames[Cpu]) - 1))
           n == Cardinality(Stopping)
           a == sus.ui
           b == Top(Cpu).old.ui
<1>2. b \in 0..7 /\ saved \in Nat /\ a + b + saved = n
  BY <1>1, BalancedTop DEF CountInv
<1>3. a \in 0..7 /\ n \in 0..7
  BY <1>1
<1> HIDE DEF saved, n, a, b
<1>4. a + b \in 0..7
  BY <1>2, <1>3
<1>5. Wrap4(b + a) = a + b
  BY <1>2, <1>3, <1>4 DEF Wrap4
<1>6. Absorb(Top(Cpu).old, sus).ui = a + b
  BY <1>1, <1>5 DEF Absorb, Counters, a, b
<1>7. \A s \in Counters : ClipExternal(s).ui = s.ui
  BY DEF ClipExternal, Counters
<1>8. Absorb(Top(Cpu).old, sus) \in Counters
  BY <1>1, AbsorbType
<1> QED
  BY <1>2, <1>4, <1>6, <1>7, <1>8 DEF a, b

LEMMA CountAgain ==
  ASSUME Counting, CountInv, TypeOK', SubroutineAgain(Cpu)
  PROVE  CountInv'
<1> DEFINE f == [Top(Cpu) EXCEPT !.old = Absorb(@, sus)]
<1>1. pc[Cpu] = "subLoop"
  BY DEF SubroutineAgain
<1>2. /\ fState = kRunning /\ frames[Cpu] # << >> /\ Len(frames[Cpu]) \in Nat \ {0}
      /\ sus \in Counters /\ sus.ui \in 0..7 /\ Len(frames[Cpu]) > 1
      /\ frames \in [Threads -> Seq(Frame)] /\ Fitted(Cpu)
  BY <1>1, CountRuns, CountFacts DEF CountInv, Regular
<1>3. Top(Cpu) \in Frame /\ Top(Cpu).old \in Counters
      /\ Fits(Cpu, Len(frames[Cpu]), Top(Cpu))
  BY <1>2, RegularTop, TopType DEF CountInv
<1>4. f \in Frame /\ f.old = Absorb(Top(Cpu).old, sus)
  BY <1>2, <1>3, AbsorbType DEF Frame
<1>5. SetTop(Cpu, f)
  BY DEF SubroutineAgain
<1>6. Fits(Cpu, Len(frames[Cpu]), f)
  <2>1. f.back = Top(Cpu).back /\ f.state = Top(Cpu).state /\ f.nest = Top(Cpu).nest
    BY <1>3 DEF Frame
  <2>2. Len(frames[Cpu]) # 1
    <3>1. \A n \in Nat \ {0} : n > 1 => n # 1
      OBVIOUS
    <3> QED
      BY <1>2, <3>1, Zenon
  <2> HIDE DEF f
  <2> QED
    BY <1>3, <2>1, <2>2 DEF Fits
<1>7. f.old.ui = sus.ui + Top(Cpu).old.ui /\ f.old.ui \in 0..7 /\ Top(Cpu).old.ui \in 0..7
  BY <1>2, <1>3, <1>4, AbsorbedCount
<1> HIDE DEF f
<1>8. FramesSet(Cpu, f)
  BY <1>2, <1>4, <1>5, SetTopFrame
<1>9. Fitted(Cpu)'
  BY <1>2, <1>6, <1>8, FittedSet
<1>10. Balanced(frames'[Cpu], 0, Cardinality(Stopping))
  <2>1. Balanced(frames'[Cpu], sus.ui + Top(Cpu).old.ui - f.old.ui, Cardinality(Stopping))
    BY <1>2, <1>7, <1>8, BalancedSet DEF CountInv
  <2>2. sus.ui + Top(Cpu).old.ui - f.old.ui = 0
    <3>1. \A a, b, k \in Int : k = a + b => a + b - k = 0
      OBVIOUS
    <3>2. sus.ui \in Int /\ Top(Cpu).old.ui \in Int /\ f.old.ui \in Int
      BY <1>2, <1>7
    <3> QED
      BY <1>7, <3>1, <3>2, Zenon
  <2> QED
    BY <2>1, <2>2
<1>11. /\ pc' = [pc EXCEPT ![Cpu] = "callCPU"] /\ pc[Cpu] # "parked"
       /\ UNCHANGED <<fState, fStop, dialog, how>> /\ sus'.ui = 0
       /\ \A u \in Threads : u # Cpu => frames'[u] = frames[u]
       /\ frames'[Cpu] # << >> /\ kRunning # kSuspended
  BY <1>1, <1>8 DEF SubroutineAgain, FramesSet, kRunning, kSuspended, Zero
<1> QED
  BY <1>2, <1>9, <1>10, <1>11, CountMoved

LEMMA CountDone ==
  ASSUME Counting, CountInv, TypeOK', SubroutineDone(Cpu)
  PROVE  CountInv'
<1>1. pc[Cpu] = "subLoop"
  BY DEF SubroutineDone
<1>2. /\ fState = kRunning /\ frames[Cpu] # << >> /\ Len(frames[Cpu]) \in Nat \ {0}
      /\ sus \in Counters /\ sus.ui \in 0..7 /\ Len(frames[Cpu]) > 1
      /\ frames \in [Threads -> Seq(Frame)] /\ Fitted(Cpu)
  BY <1>1, CountRuns, CountFacts DEF CountInv, Regular
<1>3. Top(Cpu) \in Frame /\ Top(Cpu).old \in Counters
      /\ Fits(Cpu, Len(frames[Cpu]), Top(Cpu))
  BY <1>2, RegularTop, TopType DEF CountInv
<1>4. Top(Cpu).back \in {"exec", "sysCall"}
  <2>1. Len(frames[Cpu]) # 1
    <3>1. \A n \in Nat \ {0} : n > 1 => n # 1
      OBVIOUS
    <3> QED
      BY <1>2, <3>1, Zenon
  <2> QED
    BY <1>3, <2>1 DEF Fits
<1>5. FramesPopped(Cpu)
  BY <1>2, PopFrame DEF SubroutineDone
<1>6. Fitted(Cpu)'
  BY <1>2, <1>5, FittedPop
<1>7. sus'.ui = sus.ui + Top(Cpu).old.ui /\ sus'.ui \in 0..7
  BY <1>2, <1>3, AbsorbedCount DEF SubroutineDone
<1>8. Balanced(frames'[Cpu], sus'.ui, Cardinality(Stopping)) /\ sus'.ui >= 0
  BY <1>2, <1>5, <1>7, BalancedPop DEF CountInv
<1>9. /\ pc' = [pc EXCEPT ![Cpu] = Top(Cpu).back] /\ pc[Cpu] # "parked"
      /\ UNCHANGED <<fState, fStop, dialog, how>>
      /\ \A u \in Threads : u # Cpu => frames'[u] = frames[u]
      /\ frames'[Cpu] # << >> /\ kRunning # kSuspended
  BY <1>1, <1>2, <1>5 DEF SubroutineDone, FramesPopped, kRunning, kSuspended
<1> QED
  BY <1>2, <1>4, <1>6, <1>8, <1>9, CountMoved

\* Only the CPU thread executes.
LEMMA CountExec ==
  ASSUME Counting, CountInv, TypeOK', NEW t \in Threads, ExecStep(t)
  PROVE  CountInv'
<1>1. "throw" \notin Features /\ "rpcThrow" \notin Features
  BY DEF Counting
<1>2. t = Cpu
  <2> SUFFICES ASSUME t \in Clients PROVE FALSE
    OBVIOUS
  <2>1. pc[t] \in {"idle", "suspending", "stopped"} /\ how[t] # kStopOnSysCall
    BY DEF CountInv, StopsOnly, kStopNow, kStopOnSysCall
  <2> QED
    BY <2>1
    DEF ExecStep, ExecuteSubroutine, CallCPU, CheckForBreak, CallCPUReturn,
        SubroutineAgain, SubroutineDone, SubroutineReturn, HostSignalSend,
        HostSignalResume, Throw, Unwind, ResetAfterThrow, OpcodeAsks
<1>3. pc[Cpu] \in CpuPlaces /\ sus \in Counters /\ pc \in [Threads -> Locations]
  BY CountFacts DEF CountInv, Regular, Places
<1>4. ~Throw(t) /\ ~Unwind(t) /\ ~ResetAfterThrow(t)
  BY <1>1, <1>2, <1>3 DEF Throw, Unwind, ResetAfterThrow, CpuPlaces
<1>5. CASE CheckForBreak(Cpu)
  BY <1>5, CountQuiet DEF CheckForBreak
<1>6. CASE SubroutineReturn(Cpu)
  <2>1. sus'.ui = sus.ui
    BY <1>3, <1>6 DEF SubroutineReturn, Counters
  <2> QED
    BY <1>6, <2>1, CountQuiet DEF SubroutineReturn, OpcodeAsks
<1>7. CASE HostSignalSend(Cpu)
  <2>1. sus'.ui = sus.ui
    BY <1>3, <1>7 DEF HostSignalSend, Bump, Counters
  <2> QED
    BY <1>7, <2>1, CountQuiet DEF HostSignalSend, OpcodeAsks
<1>8. CASE HostSignalResume(Cpu)
  <2>1. sus'.ui = sus.ui
    BY <1>3, <1>8 DEF HostSignalResume, Bump, Counters
  <2>2. pc' = [pc EXCEPT ![Cpu] = "exec"]
    BY <1>3, <1>8 DEF HostSignalResume
  <2> QED
    BY <1>8, <2>1, <2>2, CountQuiet DEF HostSignalResume
<1> QED
  BY <1>2, <1>4, <1>5, <1>6, <1>7, <1>8, CountCall, CountEnter, CountReturn,
     CountAgain, CountDone DEF ExecStep

LEMMA CountRun ==
  ASSUME Counting, CountInv, TypeOK', RunLoop \/ WakeInRun
  PROVE  CountInv'
<1>1. /\ pc[Cpu] \in {"run", "parked"} /\ frames[Cpu] = << >> /\ Len(frames[Cpu]) = 0
      /\ fState \in {kRunning, kSuspended} /\ kRunning # kSuspended
      /\ fStop = FALSE /\ fNestLevel \in Nat
  BY EmptySeq
  DEF RunLoop, WakeInRun, CountInv, Regular, Places, InCall, States, TypeOK,
      kRunning, kSuspended
<1>2. /\ sus \in Counters /\ sus.ui \in 0..7 /\ sus.ui >= 0 /\ Fitted(Cpu)
      /\ frames \in [Threads -> Seq(Frame)]
      /\ UNCHANGED <<sus, fNestLevel, fStop, dialog, how>>
  BY CountFacts DEF CountInv, Regular, RunLoop, WakeInRun
<1>3. \/ Park /\ (fNestLevel = 0 => sus # Zero)
      \/ Start /\ sus = Zero /\ fNestLevel = 0
      \/ Start /\ sus = Zero /\ pc[Cpu] = "run"
  BY <1>1 DEF RunLoop, WakeInRun
<1>4. CASE Park /\ (fNestLevel = 0 => sus # Zero)
  <2>1. /\ pc' = [pc EXCEPT ![Cpu] = "parked"] /\ frames' = frames
        /\ fState' \in {kRunning, kSuspended}
        /\ fState = kSuspended => fState' = kSuspended
        /\ fNestLevel' = 0 => sus' # Zero
    BY <1>1, <1>2, <1>4 DEF Park
  <2>2. Fitted(Cpu)'
    BY <1>2, <2>1 DEF Fitted, Fits
  <2>3. Balanced(frames'[Cpu], sus'.ui, Cardinality(Stopping))
    BY <1>2, <2>1 DEF CountInv
  <2> QED
    BY <1>1, <1>2, <2>1, <2>2, <2>3, CountMoved
<1>5. CASE Start /\ sus = Zero /\ (fNestLevel = 0 \/ pc[Cpu] = "run")
  <2> DEFINE f == [old |-> Zero, nest |-> fNestLevel, state |-> fState,
                   back |-> "run"]
  <2>1. fState = kRunning
    BY <1>1, <1>5 DEF CountInv, States, Awaited, Counting
  <2>2. f \in Frame /\ f.old.ui = 0
    BY <1>1, ZeroType DEF Frame, SessionState, Zero
  <2>3. Push(Cpu, f)
    BY <1>5 DEF Start
  <2>4. Fits(Cpu, Len(frames[Cpu]) + 1, f)
    BY <1>1, <2>1, <2>2 DEF Fits
  <2> HIDE DEF f
  <2>5. FramesPushed(Cpu, f)
    BY <1>2, <2>2, <2>3, PushFrame
  <2>6. Fitted(Cpu)'
    BY <1>2, <2>4, <2>5, FittedPush
  <2>7. Balanced(frames'[Cpu], sus.ui, Cardinality(Stopping))
    <3>1. Balanced(frames'[Cpu], sus.ui - f.old.ui, Cardinality(Stopping))
      <4>1. /\ sus.ui \in Int /\ f.old.ui \in 0..7
            /\ Balanced(frames[Cpu], sus.ui, Cardinality(Stopping))
        BY <1>2, <2>2 DEF CountInv
      <4> QED
        BY <2>5, <4>1, BalancedPush
    <3>2. sus.ui - f.old.ui = sus.ui
      BY <1>2, <2>2
    <3> QED
      BY <3>1, <3>2
  <2>8. /\ pc' = [pc EXCEPT ![Cpu] = "callCPU"] /\ fState' = kRunning
        /\ \A u \in Threads : u # Cpu => frames'[u] = frames[u]
        /\ frames'[Cpu] # << >>
    BY <1>5, <2>1, <2>5 DEF Start, FramesPushed
  <2> QED
    BY <1>1, <1>2, <2>1, <2>6, <2>7, <2>8, CountMoved
<1> QED
  BY <1>3, <1>4, <1>5

LEMMA CountCpu ==
  ASSUME Counting, CountInv, TypeOK', CpuStep
  PROVE  CountInv'
<1>1. /\ pc[Cpu] \in CpuPlaces /\ sus \in Counters
      /\ pc \in [Threads -> Locations]
  BY CountFacts DEF CountInv, Regular, Places
<1>2. ~BlockOnDialog /\ ~WakeInDialog /\ ~EnterDebugger
  BY <1>1 DEF BlockOnDialog, WakeInDialog, EnterDebugger, CpuPlaces, Counting
<1>3. CASE SystemCall \/ PassSysCall
  BY <1>3, CountQuiet DEF SystemCall, PassSysCall
<1>4. CASE StopAtSysCall
  <2>1. sus'.ui = sus.ui
    BY <1>1, <1>4 DEF StopAtSysCall, Counters
  <2> QED
    BY <1>4, <2>1, CountQuiet DEF StopAtSysCall
<1>5. CASE ScheduledReset
  <2>1. sus'.ui = sus.ui
    BY <1>1, <1>5 DEF ScheduledReset, Reset, ClearForReset, Counters
  <2> QED
    BY <1>5, <2>1, CountQuiet DEF ScheduledReset, OpcodeAsks
<1> QED
  BY <1>2, <1>3, <1>4, <1>5, CountRun DEF CpuStep

LEMMA CountUi ==
  ASSUME Counting, CountInv, UiStep
  PROVE  FALSE
<1>1. /\ pc[UiThread] \in {"idle", "suspending", "stopped"}
      /\ dialog = "none" /\ "debugger" \notin Features
  BY SessionAssumption DEF CountInv, StopsOnly, Regular, Places, Counting
<1> QED
  BY <1>1
  DEF UiStep, ShowDialog, AnswerDialog, UnblockDialog, GetSuspendState,
      SetSuspendState

LEMMA CountIdle ==
  ASSUME CountInv, UNCHANGED vars
  PROVE  CountInv'
<1>1. /\ \A t \in Threads : (Fitted(t)' <=> Fitted(t)) /\ (InCall(t)' <=> InCall(t))
      /\ \A c \in Clients : Holding(c)' <=> Holding(c)
      /\ \A t \in Threads : Top(t)' = Top(t)
  BY DEF vars, Fitted, Fits, InCall, Holding, Top
<1>2. TypeOK' /\ Places' /\ Held' /\ Callers' /\ StopsOnly' /\ Stopping' = Stopping
  BY <1>1
  DEF vars, CountInv, Regular, TypeOK, Places, Held, Callers, StopsOnly, Stopping
<1>3. States'
  BY <1>1 DEF vars, CountInv, States, Awaited
<1>4. Balanced(frames[Cpu], sus.ui, Cardinality(Stopping))'
  BY <1>2 DEF vars, CountInv, Balanced, SavedIn
<1> QED
  BY <1>1, <1>2, <1>3, <1>4 DEF vars, CountInv, Regular

LEMMA CountInvariant == ASSUME Counting PROVE Spec => [](CountInv /\ Nests)
<1>1. Init => CountInv /\ Nests
  BY CountInit, NestsInit
<1>2. CountInv /\ TypeOK' /\ [Next]_vars => CountInv'
  BY CountStopper, CountExec, CountCpu, CountUi, CountIdle DEF Next, Terminated
<1>3. CountInv /\ Nests /\ [Next]_vars => Nests'
  BY NestsStep DEF CountInv, Counting, Undisrupted
<1> QED
  BY <1>1, <1>2, <1>3, TypeCorrect, PTL DEF Spec

(* A stop lasts as long as its stopper also when the clients do not wait   *)
(* for each other under idle_sync, as SaveSession and ResetEmulator do     *)
(* not: the stops are counted, and only the last release lets the CPU      *)
(* thread run.                                                             *)
THEOREM StopsAddUp == ASSUME Counting PROVE Spec => []StopMeansStopped
<1>1. CountInv => StopMeansStopped
  BY DEF CountInv, Regular, Held, StopMeansStopped
<1> QED
  BY <1>1, CountInvariant, PTL

\* Such a session is a SessionGate as well: the CPU thread starts only when
\* the last stop has been released, and several stops may be held at a time.
THEOREM GateOfCounts == ASSUME Counting PROVE Spec => GateSpec
<1>1. Undisrupted
  BY DEF Counting, Undisrupted
<1>2. CountInv => Regular
  BY DEF CountInv
<1>3. CountInv /\ CountInv' /\ [Next]_vars => [Gate!Next]_Gate!gate
  <2>1. CountInv' => Regular'
    BY <1>2, PTL
  <2> QED
    BY <1>1, <1>2, <2>1, GateStep
<1> QED
  BY <1>3, GateInit, CountInvariant, PTL DEF Spec, GateSpec, Gate!Spec

\* fSuspendByUIThread, with what the CPU thread's ROM calls have put aside,
\* counts the stops in force or asked for, however they come and go.
THEOREM CountsBalance == ASSUME Counting PROVE Spec => []SuspendBalance
<1>1. CountInv => SuspendBalance
  <2> SUFFICES ASSUME CountInv PROVE SuspendBalance
    OBVIOUS
  <2> DEFINE H == {c \in Clients : Holding(c)}
             A == {c \in Clients : pc[c] = "suspending" /\ how[c] = kStopNow}
  <2>1. /\ H \cup A = Stopping /\ H \cap A = {}
    BY CountFacts DEF Stopping, CountInv, StopsOnly
  <2>2. H \in SUBSET Stopping /\ A \in SUBSET Stopping
    BY <2>1
  <2>3. IsFiniteSet(H) /\ IsFiniteSet(A) /\ Cardinality(H) \in Nat /\ Cardinality(A) \in Nat
    BY <2>2, CountFacts, FS_Subset, FS_CardinalityType
  <2>4. Cardinality(Stopping) = Cardinality(H) + Cardinality(A)
    <3> HIDE DEF H, A
    <3>1. Cardinality(H \cup A) = Cardinality(H) + Cardinality(A) - Cardinality(H \cap A)
      BY <2>3, FS_Union
    <3>2. Cardinality(H \cap A) = 0 /\ H \cup A = Stopping
      BY <2>1, FS_EmptySet
    <3>3. \A h, a \in Nat : h + a - 0 = h + a
      OBVIOUS
    <3> QED
      BY <2>3, <3>1, <3>2, <3>3, Zenon
  <2>5. Stops = Cardinality(H) + Cardinality(A) + 0
    BY DEF Stops, CountInv, Regular, Places
  <2>6. \A c \in Clients : Len(frames[c]) = 0
    BY CountFacts, EmptySeq
  <2>7. SavedStops = SavedIn(frames[Cpu], Len(frames[Cpu]))
    <3>1. \A c \in Clients : 1..Len(frames[c]) = {}
      <4>1. 1..0 = {}
        OBVIOUS
      <4> QED
        BY <2>6, <4>1
    <3>2. SavedStops = UNION {FrameStops(Cpu, i) : i \in 1..Len(frames[Cpu])}
      BY <3>1 DEF SavedStops
    <3> QED
      BY <3>2 DEF FrameStops, SavedIn
  <2>8. \A t \in Threads : \A i \in 1..Len(frames[t]) : frames[t][i].old.ui >= 0
    BY <2>6 DEF CountInv, Balanced
  <2>9. sus.ui + Cardinality(SavedStops) = Cardinality(Stopping)
    BY <2>7 DEF CountInv, Balanced
  <2> HIDE DEF H, A
  <2> QED
    BY <2>3, <2>4, <2>5, <2>8, <2>9 DEF SuspendBalance
<1> QED
  BY <1>1, CountInvariant, PTL

\* What SuspendThread would assert is so for every one of them: a stop is
\* granted counted in fSuspendState, with no return of a subroutine left to
\* be taken, and while no ROM call is in progress.
THEOREM CountedGrants == ASSUME Counting PROVE Spec => GrantAsserted
<1>1. Counting /\ CountInv /\ Nests /\ PlainInv => Granted
  <2> SUFFICES ASSUME Counting, CountInv, Nests, PlainInv,
                      NEW c \in Clients, pc[c] = "stopped"
               PROVE  sus.ui > 0 /\ sus.sub = 0 /\ fNestLevel = 0
    BY DEF Granted
  <2>1. pc[Cpu] = "parked"
    BY DEF CountInv, States
  <2>2. \A t \in Threads : frames[t] = << >>
    BY <2>1, CountFacts DEF CountInv, Regular, Places, InCall
  <2>3. Stopping # {}
    BY DEF Stopping
  <2>4. sus.ui \in 0..7 /\ sus.ui # 0
    BY <2>1, <2>3, CountFacts, FS_EmptySet
  <2>5. sus.sub = 0
    BY NobodyLeaves DEF CountInv, Plain
  <2> QED
    BY <2>2, <2>4, <2>5 DEF Nests
<1>2. CountInv /\ PlainInv /\ [Next]_vars => PlainInv'
  BY PlainStep DEF CountInv, Counting, Calm, Undisrupted, Unthrown
<1> QED
  BY <1>1, <1>2, PlainInit, CountInvariant, GrantedNow, PTL DEF Spec, GrantAsserted

\* The ROM calls that the CPU thread makes meanwhile are counted, too.
THEOREM CallsOfCounts == ASSUME Counting PROVE Spec => []NestAccounting
<1>1. CountInv /\ Nests => NestAccounting
  BY NestsCount DEF CountInv
<1> QED
  BY <1>1, CountInvariant, PTL

=============================================================================

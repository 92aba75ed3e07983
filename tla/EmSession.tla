----------------------------- MODULE EmSession -----------------------------
(***************************************************************************)
(* The CPU thread of a session and the threads that stop, borrow and       *)
(* restart it: SrcShared/EmSession.cpp, with the checkpoints of            *)
(* SrcShared/Hardware/EmCPU68K.cpp at which the CPU thread looks at the    *)
(* shared state.                                                           *)
(*                                                                         *)
(* fSharedLock protects every variable below except pc, how and idleSync.  *)
(* A piece of code that runs under one hold of that lock is one action, so *)
(* the lock itself is not a variable; a wait on fSharedCondition is        *)
(* membership in waiting, and a broadcast empties waiting.                 *)
(*                                                                         *)
(* A client is a thread other than the CPU thread.  It goes through        *)
(*   idle -> suspending -> stopped -> (ROM calls) -> idle                  *)
(* which is the life of one EmSessionStopper.  A ROM call made by a client *)
(* (ExecuteSubroutine) runs the emulated processor on the client's thread. *)
(***************************************************************************)
EXTENDS Integers, Sequences, FiniteSets

CONSTANTS
  Clients,    \* the threads that use the session
  Cpu,        \* the CPU thread, EmSession::fThread
  NoOne,      \* nobody owns PHEMApp.idle_sync
  Synced,     \* the clients that work under PHEMApp.idle_sync
  UiThread,   \* the client that runs the idle handler: dialogs and packets
  Destroyer,  \* the App thread, which deletes the session; or NoOne
  Heedless,   \* clients that make ROM calls whether or not they were stopped
  Features,   \* what the emulated program and the user may do, see below
  MaxNest,    \* bound on the ROM calls in progress on one thread
  MaxCount    \* bound on the debugger and external suspensions

(* "dialog"   the CPU thread may need a dialog (BlockOnDialog)             *)
(* "reset"    the emulated program may reset itself, a client may reset it *)
(* "throw"    the CPU thread may throw EmExceptionReset                    *)
(* "rpcThrow" so may a ROM call made for a packet by the UI thread         *)
(* "debugger" an exception may enter the debugger, a packet may leave it   *)
(* "signal"   the program may call HostSignalSend and HostSignalResume     *)
(* "syscall"  clients may ask for kStopOnSysCall, and may make ROM calls   *)
(* "sub"      the program's system calls may be patched by ROM calls       *)
AllFeatures ==
  {"dialog", "reset", "throw", "rpcThrow", "debugger", "signal", "syscall",
   "sub"}

ASSUME SessionAssumption ==
  /\ Cpu \notin Clients
  /\ NoOne \notin Clients \cup {Cpu}
  /\ Synced \subseteq Clients
  /\ UiThread \in Clients
  /\ Destroyer \in Clients \cup {NoOne}
  /\ Heedless \subseteq Clients \ {UiThread}
  /\ Features \subseteq AllFeatures
  /\ MaxNest \in Nat
  /\ MaxCount \in 1..7

VARIABLES
  fState,          \* EmSessionState
  sus,             \* fSuspendState.fCounters
  fBreakOnSysCall,
  fNestLevel,
  fStop,
  waiting,         \* the threads in fSharedCondition.wait
  dialog,          \* the dialog action: "none", "posted" or "answered"
  dlgReturn,       \* what BlockOnDialog restores: fState and where it was
  snapshot,        \* the EmSuspendState ExitDebugger has read
  atSysCall,       \* the CPU thread stands before a system call of the UI task
  pc,              \* where each thread is
  how,             \* the EmStopMethod of each client's stopper
  frames,          \* each thread's calls to CallCPU and ExecuteSubroutine
  idleSync         \* the owner of PHEMApp.idle_sync

vars == <<fState, sus, fBreakOnSysCall, fNestLevel, fStop, waiting, dialog,
          dlgReturn, snapshot, atSysCall, pc, how, frames, idleSync>>

Threads == Clients \cup {Cpu}

kRunning     == "running"
kStopped     == "stopped"
kSuspended   == "suspended"
kBlockedOnUI == "blockedOnUI"
SessionState == {kRunning, kStopped, kSuspended, kBlockedOnUI}

\* kStopOnCycle is implemented but no caller uses it.
kStopNow       == "now"
kStopOnSysCall == "onSysCall"
StopMethod == {kStopNow, kStopOnSysCall}

-----------------------------------------------------------------------------
(* The suspend counters.  The three counts are 4-bit signed bit fields,    *)
(* the others single bits.  fSuspendByTimeout is left out: its only setter *)
(* is the Exchange Manager import, which PrvCanUseExgMgr switches off.     *)

Int4 == -8..7
\* Mutant: the bit fields taken for unsigned ones.
Wrap4Unsigned(n) == n % 16
Wrap4(n) == ((n + 8) % 16) - 8

Counters == [ui : Int4, dbg : Int4, ext : Int4, sys : {0, 1}, sub : {0, 1}]
Zero == [ui |-> 0, dbg |-> 0, ext |-> 0, sys |-> 0, sub |-> 0]

Bump(s, f, n) == [s EXCEPT ![f] = Wrap4(@ + n)]

\* What SuspendThread asks for before it looks at fState.
Request(s, h) ==
  IF h = kStopNow THEN Bump(s, "ui", 1) ELSE [s EXCEPT !.sys = 1]

\* Mutant: the stop of every client is released at once.
ReleaseAll(s) == [s EXCEPT !.ui = 0, !.sys = 0]
\* Mutant: the last release leaves fSuspendBySysCall set.
ReleaseNotSysCall(s) == IF s.ui <= 0 THEN s ELSE Bump(s, "ui", -1)

\* ResumeThread's arithmetic; it does nothing when no UI stop is counted.
Release(s) ==
  LET t == Bump(s, "ui", -1)
  IN  IF s.ui <= 0 THEN s
      ELSE IF t.ui = 0 /\ t.ext = 0 THEN [t EXCEPT !.sys = 0] ELSE t

\* EmSession::Reset's effect on the counters.
ClearForReset(s) == [s EXCEPT !.dbg = 0, !.ext = 0, !.sys = 0, !.sub = 0]

\* Mutant: stops asked for during a ROM call are not carried over.
AbsorbNotUI(old, s) ==
  [old EXCEPT !.dbg = Wrap4(@ + s.dbg), !.ext = Wrap4(@ + s.ext)]

\* ExecuteSubroutine, after the processor comes back: what is added to the
\* saved counters, and what stays to decide whether to go round again.
Absorb(old, s) ==
  [old EXCEPT !.ui  = Wrap4(@ + s.ui),
              !.dbg = Wrap4(@ + s.dbg),
              !.ext = Wrap4(@ + s.ext)]
Left(s) == [s EXCEPT !.ui = 0, !.ext = 0, !.sys = 0]

ClipExternal(s) == IF s.ext < 0 THEN [s EXCEPT !.ext = 0] ELSE s

-----------------------------------------------------------------------------
(* Frames.  A frame is one call of CallCPU, made by Run (back = "run") or  *)
(* by ExecuteSubroutine (back = where that was called).  It holds the      *)
(* values the C++ frames restore on the way out.                           *)

Frame == [old : Counters, nest : Nat, state : SessionState,
          back : {"run", "exec", "sysCall", "stopped", "failed"}]

Top(t) == frames[t][Len(frames[t])]
Push(t, f) == frames' = [frames EXCEPT ![t] = Append(@, f)]
Pop(t) == frames' = [frames EXCEPT ![t] = SubSeq(@, 1, Len(@) - 1)]
SetTop(t, f) == frames' = [frames EXCEPT ![t][Len(frames[t])] = f]

\* The ROM calls in progress on a thread.
Depth(t) ==
  Len(frames[t]) - (IF t = Cpu /\ frames[t] # << >> THEN 1 ELSE 0)

Goto(t, l) == pc' = [pc EXCEPT ![t] = l]
Wait(t) == waiting' = {t}               \* broadcast, then wait
Broadcast == waiting' = {}
IsNested == fNestLevel > 0

Locations ==
  {"idle", "suspending", "stopped", "caught", "failed", "destroying", "destroyed",
   "showing", "unblock", "dbgset",                        \* clients
   "run", "parked", "dialog", "done",                     \* the CPU thread
   "callCPU", "exec", "sysCall", "cycle", "uncall", "subLoop",
   "throw", "unwind", "resetting"}

TypeOK ==
  /\ fState \in SessionState
  /\ sus \in Counters
  /\ fBreakOnSysCall \in BOOLEAN
  /\ fNestLevel \in Nat
  /\ fStop \in BOOLEAN
  /\ waiting \subseteq Threads
  /\ dialog \in {"none", "posted", "answered"}
  /\ dlgReturn \in [state : SessionState, back : {"exec", "cycle", "resetting"}]
  /\ snapshot \in Counters
  /\ atSysCall \in BOOLEAN
  /\ pc \in [Threads -> Locations]
  /\ how \in [Clients -> StopMethod]
  /\ frames \in [Threads -> Seq(Frame)]
  /\ idleSync \in Clients \cup {NoOne}

\* CreateThread (false), the only way the thread is created.
Init ==
  /\ fState = kRunning
  /\ sus = Zero
  /\ fBreakOnSysCall = FALSE
  /\ fNestLevel = 0
  /\ fStop = FALSE
  /\ waiting = {}
  /\ dialog = "none"
  /\ dlgReturn = [state |-> kRunning, back |-> "exec"]
  /\ snapshot = Zero
  /\ atSysCall = FALSE
  /\ pc = [t \in Threads |-> IF t = Cpu THEN "run" ELSE "idle"]
  /\ how = [c \in Clients |-> kStopNow]
  /\ frames = [t \in Threads |-> << >>]
  /\ idleSync = NoOne

session == <<fState, sus, fBreakOnSysCall, fNestLevel, fStop>>
dialogs == <<dialog, dlgReturn>>

-----------------------------------------------------------------------------
(* SuspendThread and ResumeThread, called by clients                       *)

\* Mutant: the callers of Java do not synchronize on idle_sync.
CanEnterAlways(c) == TRUE
CanEnter(c) == c \in Synced => idleSync = NoOne
Enter(c) == idleSync' = IF c \in Synced THEN c ELSE idleSync
Leave(c) == idleSync' = IF idleSync = c THEN NoOne ELSE idleSync

\* Ask (again) for the break, wake everybody, and wait.
AwaitStop(c, h, s) ==
  /\ fState = kRunning
  /\ sus' = s
  /\ fBreakOnSysCall' = (h = kStopOnSysCall)
  /\ Wait(c)
  /\ Goto(c, "suspending")
  /\ Enter(c)

\* Mutant: a stop at a system call is granted without being counted.
SettleUncounted(c, h, s) ==
  LET granted == h = kStopNow \/ (fState = kSuspended /\ s.sys # 0)
      next == IF granted THEN "stopped"
              ELSE IF c \in Heedless THEN "failed" ELSE "idle"
  IN  /\ fState # kRunning
      /\ sus' = s
      /\ fBreakOnSysCall' = FALSE
      /\ waiting' = waiting
      /\ Goto(c, next)
      /\ IF next = "idle" THEN Leave(c) ELSE Enter(c)

\* Not running any more: decide whether the stop is the one asked for.
Settle(c, h, s) ==
  LET granted == h = kStopNow \/ (fState = kSuspended /\ s.sys # 0)
      next == IF granted THEN "stopped"
              ELSE IF c \in Heedless THEN "failed" ELSE "idle"
  IN  /\ fState # kRunning
      /\ sus' = IF granted /\ h = kStopOnSysCall THEN Bump(s, "ui", 1) ELSE s
      /\ fBreakOnSysCall' = FALSE
      /\ waiting' = waiting
      /\ Goto(c, next)
      /\ IF next = "idle" THEN Leave(c) ELSE Enter(c)

SuspendThread(c, h) ==
  /\ pc[c] = "idle"
  /\ c # Destroyer
  /\ pc[Cpu] # "done"               \* the session still exists
  /\ h = kStopOnSysCall => "syscall" \in Features
  /\ CanEnter(c)
  /\ how' = [how EXCEPT ![c] = h]
  /\ AwaitStop(c, h, Request(sus, h)) \/ Settle(c, h, Request(sus, h))
  /\ UNCHANGED <<fState, fNestLevel, fStop, dialogs, snapshot, atSysCall,
                 frames>>

WakeInSuspend(c) ==
  /\ pc[c] = "suspending"
  /\ c \notin waiting
  /\ AwaitStop(c, how[c], sus) \/ Settle(c, how[c], sus)
  /\ UNCHANGED <<fState, fNestLevel, fStop, dialogs, snapshot, atSysCall,
                 how, frames>>

\* Mutant: ResumeThread wakes nobody.
ResumeThreadSilent(c) ==
  /\ pc[c] \in {"stopped", "caught"}
  /\ sus' = Release(sus)
  /\ fState' = IF sus.ui > 0 /\ sus' = Zero /\ fState = kSuspended
               THEN kRunning ELSE fState
  /\ Goto(c, "idle")
  /\ Leave(c)
  /\ UNCHANGED <<fBreakOnSysCall, fNestLevel, fStop, waiting, dialogs,
                 snapshot, atSysCall, how, frames>>

ResumeThread(c) ==
  /\ pc[c] \in {"stopped", "caught"}
  /\ sus' = Release(sus)
  /\ fState' = IF sus.ui > 0 /\ sus' = Zero /\ fState = kSuspended
               THEN kRunning ELSE fState
  /\ waiting' = IF sus.ui > 0 THEN {} ELSE waiting
  /\ Goto(c, "idle")
  /\ Leave(c)
  /\ UNCHANGED <<fBreakOnSysCall, fNestLevel, fStop, dialogs, snapshot,
                 atSysCall, how, frames>>

\* A stopper that did not stop anything does not resume anything.
GiveUp(c) ==
  /\ pc[c] = "failed"
  /\ Goto(c, "idle")
  /\ Leave(c)
  /\ UNCHANGED <<session, waiting, dialogs, snapshot, atSysCall, how, frames>>

-----------------------------------------------------------------------------
(* ExecuteSubroutine and CallCPU, on whichever thread makes the ROM call   *)

ExecuteSubroutine(t) ==
  /\ \/ pc[t] = "stopped" /\ how[t] = kStopOnSysCall
     \/ pc[t] = "failed"
     \/ pc[t] \in {"exec", "sysCall"} /\ "sub" \in Features
  /\ Depth(t) < MaxNest
  /\ Push(t, [old |-> sus, nest |-> fNestLevel, state |-> fState,
              back |-> pc[t]])
  /\ sus' = Zero
  /\ fNestLevel' = fNestLevel + 1
  /\ Broadcast
  /\ Goto(t, "callCPU")
  /\ UNCHANGED <<fState, fBreakOnSysCall, fStop, dialogs, snapshot,
                 atSysCall, how, idleSync>>

CallCPU(t) ==
  /\ pc[t] = "callCPU"
  /\ SetTop(t, [Top(t) EXCEPT !.state = fState])
  /\ fState' = kRunning
  /\ atSysCall' = (t # Cpu /\ atSysCall)    \* Execute begins with an opcode
  /\ Goto(t, "exec")
  /\ UNCHANGED <<sus, fBreakOnSysCall, fNestLevel, fStop, waiting, dialogs,
                 snapshot, how, idleSync>>

\* EmSession::CheckForBreak.  A thread looks when CycleSlowly has seen a
\* request ("exec"), and at once when its own opcode has made one ("cycle").
BreakWanted == (IF IsNested THEN [sus EXCEPT !.ext = 0] ELSE sus) # Zero

CheckForBreak(t) ==
  /\ \/ pc[t] = "exec" /\ BreakWanted
     \/ pc[t] = "cycle"
  /\ Goto(t, IF BreakWanted THEN "uncall" ELSE "exec")
  /\ UNCHANGED <<session, waiting, dialogs, snapshot, atSysCall, how, frames,
                 idleSync>>

\* The end of CallCPU: fState gets its old value back.
CallCPUReturn(t) ==
  /\ pc[t] = "uncall"
  /\ fState' = Top(t).state
  /\ IF Top(t).back = "run"
     THEN Pop(t) /\ Goto(t, "run")
     ELSE frames' = frames /\ Goto(t, "subLoop")
  /\ UNCHANGED <<sus, fBreakOnSysCall, fNestLevel, fStop, waiting, dialogs,
                 snapshot, atSysCall, how, idleSync>>

\* ExecuteSubroutine after CallCPU: go round again, or restore and return.
SubroutineAgain(t) ==
  /\ pc[t] = "subLoop"
  /\ Left(sus) = Zero
  /\ SetTop(t, [Top(t) EXCEPT !.old = Absorb(@, sus)])
  /\ sus' = Zero
  /\ fNestLevel' = Top(t).nest + 1
  /\ Broadcast
  /\ Goto(t, "callCPU")
  /\ UNCHANGED <<fState, fBreakOnSysCall, fStop, dialogs, snapshot,
                 atSysCall, how, idleSync>>

SubroutineDone(t) ==
  /\ pc[t] = "subLoop"
  /\ Left(sus) # Zero
  /\ sus' = ClipExternal(Absorb(Top(t).old, sus))
  /\ fNestLevel' = Top(t).nest
  /\ Broadcast
  /\ Pop(t)
  /\ Goto(t, Top(t).back)
  /\ UNCHANGED <<fState, fBreakOnSysCall, fStop, dialogs, snapshot,
                 atSysCall, how, idleSync>>

-----------------------------------------------------------------------------
(* What the emulated program does while a thread executes it               *)

\* An opcode that asks for a break is followed by CheckForBreak.
OpcodeAsks(t) == pc[t] = "exec" /\ Goto(t, "cycle")

\* HandleTrap12: the subroutine called by this thread has returned.
SubroutineReturn(t) ==
  /\ OpcodeAsks(t)
  /\ Depth(t) > 0
  /\ sus' = [sus EXCEPT !.sub = 1]
  /\ UNCHANGED <<fState, fBreakOnSysCall, fNestLevel, fStop, waiting, dialogs,
                 snapshot, atSysCall, how, frames, idleSync>>

\* EmPalmOS::HandleSystemCall: the break is wanted; is the memory semaphore
\* free and the UI task the current one?  (SysKernelInfo is a ROM call.)
SystemCall ==
  /\ pc[Cpu] = "exec"
  /\ ~IsNested
  /\ fBreakOnSysCall
  /\ Goto(Cpu, "sysCall")
  /\ UNCHANGED <<session, waiting, dialogs, snapshot, atSysCall, how, frames,
                 idleSync>>

\* Yes: back up to the trap and ScheduleSuspendSysCall.
StopAtSysCall ==
  /\ pc[Cpu] = "sysCall"
  /\ sus' = [sus EXCEPT !.sys = 1]
  /\ atSysCall' = TRUE
  /\ Goto(Cpu, "cycle")
  /\ UNCHANGED <<fState, fBreakOnSysCall, fNestLevel, fStop, waiting, dialogs,
                 snapshot, how, frames, idleSync>>

\* No: make the system call.
PassSysCall ==
  /\ pc[Cpu] = "sysCall"
  /\ Goto(Cpu, "exec")
  /\ UNCHANGED <<session, waiting, dialogs, snapshot, atSysCall, how, frames,
                 idleSync>>

\* Debug::EnterDebugger -> ScheduleSuspendException.
EnterDebugger ==
  /\ "debugger" \in Features
  /\ OpcodeAsks(Cpu)
  /\ ~IsNested
  /\ sus.dbg < MaxCount
  /\ sus' = Bump(sus, "dbg", 1)
  /\ UNCHANGED <<fState, fBreakOnSysCall, fNestLevel, fStop, waiting, dialogs,
                 snapshot, atSysCall, how, frames, idleSync>>

\* HostSignalSend with somebody waiting: ScheduleSuspendExternal.
HostSignalSend(t) ==
  /\ "signal" \in Features
  /\ OpcodeAsks(t)
  /\ sus.ext < MaxCount
  /\ sus' = [Bump(sus, "ext", 1) EXCEPT !.sys = 1]
  /\ UNCHANGED <<fState, fBreakOnSysCall, fNestLevel, fStop, waiting, dialogs,
                 snapshot, atSysCall, how, frames, idleSync>>

\* HostSignalWait and HostSignalResume: ScheduleResumeExternal.
HostSignalResume(t) ==
  /\ "signal" \in Features
  /\ pc[t] = "exec"
  /\ sus.ext > -MaxCount
  /\ sus' = Bump(sus, "ext", -1)
  /\ UNCHANGED <<fState, fBreakOnSysCall, fNestLevel, fStop, waiting, dialogs,
                 snapshot, atSysCall, pc, how, frames, idleSync>>

\* EmSession::Reset, as far as this state goes.
Reset ==
  /\ sus' = ClearForReset(sus)
  /\ fBreakOnSysCall' = FALSE
  /\ fNestLevel' = 0
  /\ atSysCall' = FALSE

\* ScheduleReset, carried out by ExecuteSpecial (true) in the CPU thread.
ScheduledReset ==
  /\ "reset" \in Features
  /\ OpcodeAsks(Cpu)
  /\ ~IsNested
  /\ Reset
  /\ UNCHANGED <<fState, fStop, waiting, dialogs, snapshot, how, frames,
                 idleSync>>

\* ResetEmulator: a client that has stopped the thread resets it directly.
ResetEmulator(c) ==
  /\ "reset" \in Features
  /\ pc[c] = "stopped"
  /\ how[c] = kStopNow
  /\ Reset
  /\ UNCHANGED <<fState, fStop, waiting, dialogs, snapshot, pc, how, frames,
                 idleSync>>

(* An error in a ROM call, or the Reset button of an error dialog, throws  *)
(* EmExceptionReset.  It unwinds through CallCPU and ExecuteSubroutine     *)
(* without SubroutineDone, so the counters those had saved are gone.  Run, *)
(* or the packet handler of the UI thread, catches it and resets.          *)
Throw(t) ==
  /\ \/ /\ pc[t] = "exec"
        /\ t \in {Cpu, UiThread}
        /\ (IF t = Cpu THEN "throw" ELSE "rpcThrow") \in Features
     \/ pc[t] = "throw"
  /\ fState' = Top(t).state
  /\ IF Top(t).back = "run"
     THEN Pop(t) /\ Goto(t, "resetting")
     ELSE frames' = frames /\ Goto(t, "unwind")
  /\ UNCHANGED <<sus, fBreakOnSysCall, fNestLevel, fStop, waiting, dialogs,
                 snapshot, atSysCall, how, idleSync>>

\* Mutant: fNestLevel is not restored when an exception unwinds.
UnwindNested(t) ==
  /\ pc[t] = "unwind"
  /\ Pop(t)
  /\ Goto(t, IF Len(frames[t]) = 1 THEN "resetting" ELSE "throw")
  /\ UNCHANGED <<fState, sus, fBreakOnSysCall, fNestLevel, fStop, waiting,
                 dialogs, snapshot, atSysCall, how, idleSync>>

Unwind(t) ==
  /\ pc[t] = "unwind"
  /\ fNestLevel' = Top(t).nest
  /\ Pop(t)
  /\ Goto(t, IF Len(frames[t]) = 1 THEN "resetting" ELSE "throw")
  /\ UNCHANGED <<fState, sus, fBreakOnSysCall, fStop, waiting, dialogs,
                 snapshot, atSysCall, how, idleSync>>

ResetAfterThrow(t) ==
  /\ pc[t] = "resetting"
  /\ Reset
  /\ Goto(t, IF t = Cpu THEN "run" ELSE "caught")
  /\ UNCHANGED <<fState, fStop, waiting, dialogs, snapshot, how, frames,
                 idleSync>>

-----------------------------------------------------------------------------
(* Dialogs: the CPU thread posts an action and waits, the idle handler     *)
(* takes the action, runs the dialog, stores the result and broadcasts.    *)

BlockOnDialog ==
  /\ "dialog" \in Features
  /\ pc[Cpu] \in {"exec", "cycle", "resetting"}
  /\ ~fStop                    \* else it posts and returns at once
  /\ dialog = "none"
  /\ dialog' = "posted"
  /\ dlgReturn' = [state |-> fState, back |-> pc[Cpu]]
  /\ fState' = kBlockedOnUI
  /\ Wait(Cpu)
  /\ Goto(Cpu, "dialog")
  /\ UNCHANGED <<sus, fBreakOnSysCall, fNestLevel, fStop, snapshot, atSysCall,
                 how, frames, idleSync>>

WakeInDialog ==
  /\ pc[Cpu] = "dialog"
  /\ Cpu \notin waiting
  /\ IF dialog = "answered" \/ fStop
     THEN /\ dialog' = IF dialog = "answered" THEN "none" ELSE dialog
          /\ fState' = dlgReturn.state
          /\ Broadcast
          /\ Goto(Cpu, dlgReturn.back)
     ELSE waiting' = waiting \cup {Cpu} /\ UNCHANGED <<dialog, fState, pc>>
  /\ UNCHANGED <<sus, fBreakOnSysCall, fNestLevel, fStop, dlgReturn, snapshot,
                 atSysCall, how, frames, idleSync>>

\* EmActionHandler::DoAll under the idle handler: take the action, ...
ShowDialog ==
  /\ pc[UiThread] = "idle"
  /\ CanEnter(UiThread)
  /\ dialog = "posted"
  /\ Enter(UiThread)
  /\ Goto(UiThread, "showing")
  /\ UNCHANGED <<session, waiting, dialogs, snapshot, atSysCall, how, frames>>

\* ... store the button the user chose, without the lock, ...
AnswerDialog ==
  /\ pc[UiThread] = "showing"
  /\ dialog' = "answered"
  /\ Goto(UiThread, "unblock")
  /\ UNCHANGED <<session, waiting, dlgReturn, snapshot, atSysCall, how, frames,
                 idleSync>>

\* Mutant: the answer is stored but nobody is told.
UnblockDialogSilent ==
  /\ pc[UiThread] = "unblock"
  /\ Goto(UiThread, "idle")
  /\ Leave(UiThread)
  /\ UNCHANGED <<session, waiting, dialogs, snapshot, atSysCall, how, frames>>

\* ... and broadcast.
UnblockDialog ==
  /\ pc[UiThread] = "unblock"
  /\ Broadcast
  /\ Goto(UiThread, "idle")
  /\ Leave(UiThread)
  /\ UNCHANGED <<session, dialogs, snapshot, atSysCall, how, frames>>

(* Debug::ExitDebugger: GetSuspendState and SetSuspendState each take the  *)
(* lock, the clearing of fSuspendByDebugger is between them.               *)
GetSuspendState ==
  /\ "debugger" \in Features
  /\ pc[UiThread] = "stopped"
  /\ how[UiThread] = kStopNow
  /\ sus.dbg # 0
  /\ snapshot' = [sus EXCEPT !.dbg = 0]
  /\ Goto(UiThread, "dbgset")
  /\ UNCHANGED <<session, waiting, dialogs, atSysCall, how, frames, idleSync>>

SetSuspendState ==
  /\ pc[UiThread] = "dbgset"
  /\ sus' = snapshot
  /\ snapshot' = Zero
  /\ Goto(UiThread, "stopped")
  /\ UNCHANGED <<fState, fBreakOnSysCall, fNestLevel, fStop, waiting, dialogs,
                 atSysCall, how, frames, idleSync>>

-----------------------------------------------------------------------------
(* EmSession::Run and DestroyThread                                        *)

\* Mutant: the CPU thread parks without telling the thread that waits for it.
ParkSilent ==
  /\ fState' = IF IsNested THEN fState ELSE kSuspended
  /\ waiting' = waiting \cup {Cpu}
  /\ Goto(Cpu, "parked")
  /\ frames' = frames

Park ==
  /\ fState' = IF IsNested THEN fState ELSE kSuspended
  /\ Wait(Cpu)
  /\ Goto(Cpu, "parked")
  /\ frames' = frames

Start ==
  /\ Push(Cpu, [old |-> Zero, nest |-> fNestLevel, state |-> fState,
                back |-> "run"])
  /\ Goto(Cpu, "callCPU")
  /\ UNCHANGED <<fState, waiting>>

Finish ==
  /\ fState' = kStopped
  /\ Broadcast
  /\ Goto(Cpu, "done")
  /\ frames' = frames

\* The top of the outer loop.
RunLoop ==
  /\ pc[Cpu] = "run"
  /\ \/ fStop /\ Finish
     \/ ~fStop /\ sus = Zero /\ Start
     \/ ~fStop /\ sus # Zero /\ Park
  /\ UNCHANGED <<sus, fBreakOnSysCall, fNestLevel, fStop, dialogs, snapshot,
                 atSysCall, how, idleSync>>

\* Mutant: the thread wakes while a client's ROM call has cleared the counters.
WakeInRunNested ==
  /\ pc[Cpu] = "parked"
  /\ Cpu \notin waiting
  /\ LET stay == sus # Zero /\ ~fStop
     IN  \/ stay /\ Park
         \/ ~stay /\ fStop /\ Finish
         \/ ~stay /\ ~fStop /\ Start
  /\ UNCHANGED <<sus, fBreakOnSysCall, fNestLevel, fStop, dialogs, snapshot,
                 atSysCall, how, idleSync>>

\* The return of fSharedCondition.wait in the inner loop.
WakeInRun ==
  /\ pc[Cpu] = "parked"
  /\ Cpu \notin waiting
  /\ LET stay == IsNested \/ (sus # Zero /\ ~fStop)
     IN  \/ stay /\ Park
         \/ ~stay /\ fStop /\ Finish
         \/ ~stay /\ ~fStop /\ Start
  /\ UNCHANGED <<sus, fBreakOnSysCall, fNestLevel, fStop, dialogs, snapshot,
                 atSysCall, how, idleSync>>

\* Mutant: DestroyThread does not wake a parked thread.
DestroyThreadSilent(c) ==
  /\ c = Destroyer
  /\ pc[c] = "idle"
  /\ ~fStop
  /\ fStop' = TRUE
  /\ sus' = Bump(sus, "ui", 1)
  /\ waiting' = waiting \cup {c}
  /\ Goto(c, "destroying")
  /\ UNCHANGED <<fState, fBreakOnSysCall, fNestLevel, dialogs, snapshot,
                 atSysCall, how, frames, idleSync>>

\* The App thread deletes the session; that it saves it first, under a
\* kStopNow stopper, is what any other client may do as well.
DestroyThread(c) ==
  /\ c = Destroyer
  /\ pc[c] = "idle"
  /\ ~fStop
  /\ fStop' = TRUE
  /\ sus' = Bump(sus, "ui", 1)
  /\ Wait(c)
  /\ Goto(c, "destroying")
  /\ UNCHANGED <<fState, fBreakOnSysCall, fNestLevel, dialogs, snapshot,
                 atSysCall, how, frames, idleSync>>

WakeInDestroy(c) ==
  /\ pc[c] = "destroying"
  /\ c \notin waiting
  /\ IF fState = kStopped
     THEN Goto(c, "destroyed") /\ waiting' = waiting
     ELSE waiting' = waiting \cup {c} /\ pc' = pc
  /\ UNCHANGED <<session, dialogs, snapshot, atSysCall, how, frames, idleSync>>

-----------------------------------------------------------------------------
ClientStep(c) ==
  \/ \E h \in StopMethod : SuspendThread(c, h)
  \/ WakeInSuspend(c) \/ ResumeThread(c) \/ GiveUp(c) \/ ResetEmulator(c)
  \/ DestroyThread(c) \/ WakeInDestroy(c)

ExecStep(t) ==
  \/ ExecuteSubroutine(t) \/ CallCPU(t) \/ CheckForBreak(t)
  \/ CallCPUReturn(t) \/ SubroutineAgain(t) \/ SubroutineDone(t)
  \/ SubroutineReturn(t) \/ HostSignalSend(t) \/ HostSignalResume(t)
  \/ Throw(t) \/ Unwind(t) \/ ResetAfterThrow(t)

CpuStep ==
  \/ RunLoop \/ WakeInRun \/ BlockOnDialog \/ WakeInDialog
  \/ SystemCall \/ StopAtSysCall \/ PassSysCall
  \/ EnterDebugger \/ ScheduledReset

UiStep ==
  \/ ShowDialog \/ AnswerDialog \/ UnblockDialog
  \/ GetSuspendState \/ SetSuspendState

\* Nothing is left to do once the session has been destroyed.
Terminated == pc[Cpu] = "done" /\ UNCHANGED vars

Next ==
  \/ \E c \in Clients : ClientStep(c)
  \/ \E t \in Threads : ExecStep(t)
  \/ CpuStep
  \/ UiStep
  \/ Terminated

Spec == Init /\ [][Next]_vars

(* Fairness.  Every thread that can run is scheduled: the steps inside a   *)
(* call and those of a thread that has been woken are weakly fair.  Strong *)
(* fairness says of things done again and again that each of them ends: a  *)
(* client destroys its stopper, a ROM call returns, the program makes a    *)
(* system call and makes it in the UI task, the CPU thread reaches the end *)
(* of a cycle outside its ROM calls and wins the lock when it may run      *)
(* again, and the idle handler wins idle_sync.                             *)
Fairness ==
  /\ \A c \in Clients :
       WF_vars(WakeInSuspend(c)) /\ WF_vars(WakeInDestroy(c))
  /\ \A t \in Threads :
       /\ WF_vars(CallCPU(t)) /\ WF_vars(CallCPUReturn(t))
       /\ WF_vars(pc[t] = "cycle" /\ CheckForBreak(t))
       /\ WF_vars(SubroutineAgain(t)) /\ WF_vars(SubroutineDone(t))
       /\ WF_vars(Unwind(t)) /\ WF_vars(pc[t] = "throw" /\ Throw(t))
       /\ WF_vars(ResetAfterThrow(t))
  /\ WF_vars(RunLoop) /\ WF_vars(WakeInRun) /\ WF_vars(WakeInDialog)
  /\ WF_vars(AnswerDialog) /\ WF_vars(UnblockDialog)
  /\ WF_vars(SetSuspendState)
  /\ SF_vars(\E c \in Clients : ResumeThread(c) \/ GiveUp(c))
  /\ SF_vars(\E t \in Threads : SubroutineReturn(t))
  /\ SF_vars(SystemCall) /\ SF_vars(StopAtSysCall)
  /\ SF_vars(Depth(Cpu) = 0 /\ CheckForBreak(Cpu))
  /\ SF_vars(~IsNested /\ (sus = Zero \/ fStop) /\ WakeInRun)
  /\ SF_vars(ShowDialog)

FairSpec == Spec /\ Fairness

-----------------------------------------------------------------------------
(* Properties                                                              *)

Executing(t) == pc[t] \in {"exec", "sysCall", "cycle"}

\* The client is between a granted SuspendThread and its ResumeThread.
Holding(c) == pc[c] \in {"stopped", "dbgset", "resetting", "caught"} \/ frames[c] # << >>

\* There is one emulated processor: whatever stoppers, ROM calls and dialogs
\* are in progress, at most one thread is in EmCPU68K::Execute.
OneExecutor == \A t, u \in Threads : Executing(t) /\ Executing(u) => t = u

\* What an EmSessionStopper is for: as long as it exists the CPU thread is
\* parked in Run or blocked on a dialog, even while the client's own ROM
\* calls zero the counters that parked it (the comment in EmSession::Run).
StopMeansStopped ==
  \A c \in Clients : Holding(c) => pc[Cpu] \in {"parked", "dialog", "done"}

JustGranted(c) ==
  pc[c] \in {"idle", "suspending"} /\ pc'[c] = "stopped"

\* The three EmAsserts at the end of SuspendThread, which this build leaves
\* out: a stop is granted with a UI suspension counted, with the return of every
\* ROM call's subroutine taken by the caller it was meant for, and with either
\* no ROM call in progress or the CPU thread blocked on a dialog.
GrantAsserted ==
  [][\A c \in Clients : JustGranted(c) =>
       /\ sus'.ui > 0
       /\ sus'.sub = 0
       /\ fNestLevel' = 0 \/ fState' = kBlockedOnUI]_vars

\* kStopOnSysCall: "Suspend on the next call to a system function".  The
\* thread is then at a place where a ROM call may be made.
GrantAtSysCall ==
  [][\A c \in Clients :
       JustGranted(c) /\ how'[c] = kStopOnSysCall => atSysCall']_vars

\* EmSession implements the gate: nobody but a holder borrows the processor,
\* and no stop is granted or released while the wrong thread is using it.
Gate == INSTANCE SessionGate
  WITH Nobody <- NoOne,
       holders <- {c \in Clients : Holding(c)},
       user <- IF \E t \in Threads : Executing(t)
               THEN CHOOSE t \in Threads : Executing(t) ELSE NoOne
GateSpec == Gate!Spec

\* The stops that are in force or requested, each counted once.
Stops ==
  Cardinality({c \in Clients : Holding(c)})
  + Cardinality({c \in Clients : pc[c] = "suspending" /\ how[c] = kStopNow})
  + (IF fStop THEN 1 ELSE 0)

\* The UI suspensions that ROM calls have put aside, one by one: the frame
\* that keeps each, and its number among those of the frame.
FrameStops(t, i) == {<<t, i>>} \X (1..frames[t][i].old.ui)
SavedStops ==
  UNION {UNION {FrameStops(t, i) : i \in 1..Len(frames[t])} : t \in Threads}

\* No stop is lost and none is left behind: fSuspendByUIThread, together with
\* what ExecuteSubroutine has put aside for later, counts the stops.
SuspendBalance ==
  /\ \A t \in Threads : \A i \in 1..Len(frames[t]) : frames[t][i].old.ui >= 0
  /\ sus.ui + Cardinality(SavedStops) = Stops

\* fNestLevel is the number of ROM calls in progress on all threads.
RomCalls == UNION {{t} \X (1..Depth(t)) : t \in Threads}
NestAccounting == fNestLevel = Cardinality(RomCalls)

\* A suspension never outlives its cause: when no thread holds or asks for a
\* stop, only the debugger or a signal keeps the CPU thread parked.
NobodyParksIt ==
  (pc[Cpu] = "parked" /\ Cpu \in waiting /\ \A c \in Clients : pc[c] = "idle")
    => sus.dbg # 0 \/ sus.ext # 0

\* SuspendThread returns, one way or the other.
StopIsSettled ==
  \A c \in Clients : pc[c] = "suspending" ~> pc[c] # "suspending"

\* The emulated program always gets to run again, unless the debugger or a
\* signal has stopped it: no wake-up of the CPU thread is lost.
ProgramRuns ==
  pc[Cpu] = "parked" ~> \/ Executing(Cpu) \/ sus.dbg # 0 \/ sus.ext # 0
                        \/ fStop

\* BlockOnDialog returns: the answer and its broadcast reach the CPU thread,
\* whatever else is broadcast in between.
DialogEnds == pc[Cpu] = "dialog" ~> pc[Cpu] # "dialog"

\* DestroyThread's wait for the CPU thread ends.
DestroyEnds == fStop ~> fState = kStopped
=============================================================================

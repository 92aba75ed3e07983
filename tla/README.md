# A TLA+ model of PHEM

PHEM is the Palm OS Emulator (POSE) ported to Android. The core, C++
under `app/src/main/jni`, emulates a 68000-based handheld; the
Java part shows its screen, forwards pen and key events and drives the core
through JNI. This directory models the parts of it whose correctness depends on
the order in which things happen. Paths below are relative to
`src/app/src/main/jni`; `SrcShared/` is left out where the file name is unique.

| module | what it is |
|---|---|
| `EmSession` | the CPU thread of a session and the threads that stop it, borrow the processor from it, answer its dialogs, reset it and destroy it |
| `SessionGate` | what `EmSession` promises, as a specification of its own |
| `EmSession_proofs` | theorems about `EmSession` |
| `EmTransportSerial` | one serial port: the UART's side of it, the read thread, the write thread, the far end |
| `ByteChannel` | what one direction of a serial line promises |
| `EmTransportSerial_proofs` | theorems about `EmTransportSerial` |
| `EmUARTDragonball` | the UART between the emulated program and a serial port |
| `EmUARTDragonball_proofs` | theorems about `EmUARTDragonball` |
| `PHEMNativeIF` | starting, pausing, loading and shutting down from Java: two callers and the App thread |
| `PHEMNativeIF_proofs` | theorems about `PHEMNativeIF` |
| `InstructionBreaks` | tail patches and breakpoints, which share the marks at which the processor stops |
| `Debugging_proofs` | theorems about `InstructionBreaks` and `SocketMessaging` |
| `EmMinimize` | replaying a recording of events again and again to find the few that matter |
| `Hordes` | a series of Gremlins that take turns in one emulated device |
| `SessionEvents` | pen, keys and buttons on their way to the ROM; sleep and wake-up |
| `DeviceEvents_proofs` | theorems about `Hordes` and `SessionEvents`, the two sources of the device's events |
| `EmFileImport` | installing a list of files, by a call or by a dialog with a Cancel button |
| `EmFileImport_proofs` | theorems about `EmFileImport` |
| `MCServices` | the last six components in one instance: it extends five and instantiates `EmMinimize` |
| `EmROMTransfer` | the X-modem receiver of a ROM image, its sender, and a line that loses things |
| `EmROMTransfer_proofs` | two theorems about `EmROMTransfer` |
| `SocketMessaging` | the sockets of debuggers and scripts, and what `Debug` and `RPC` do on them |
| `MCLines` | `EmTransportSerial`, `EmROMTransfer` and `SocketMessaging` in one instance |

## 1. Inventory

`PROJECT.json` lists every component with its files. This section says of each
one that has control worth modelling what it keeps, what is done to it, and what
makes it correct.

### Threads

| thread | runs | enters the core through |
|---|---|---|
| CPU thread | `EmSession::Run`, the 68000 loop, head and tail patches, system calls | - |
| Java UI thread | pen and key events, menus, installs; most of it under `synchronized(PHEMApp.idle_sync)` | `PHEMNativeIF` |
| idle thread | `Handle_Idle`: dialogs, debugger packets, queued actions; under `idle_sync` | `PHEMNativeIF.HandleIdle` |
| background tasks | `InstallPalmFile`, `SaveSession`, `ResetEmulator` | `PHEMNativeIF`, not under `idle_sync` |
| App thread | `App_Run_Static`: creates the application, waits for shutdown, saves, deletes the session | started by `StartEmulator` |
| `CommRead`, `CommWrite` | one pair for every open serial port | created by `OpenCommPort` |

### Session (`EmSession.cpp`, `EmSession.h`)

State: `fState` (running, stopped, suspended, blocked on a dialog),
`fSuspendState` (reasons to stand still, counted in bit fields of 4 bits and
1 bit), `fBreakOnSysCall`, `fNestLevel` (ROM calls in progress), `fStop`, all
under `fSharedLock`, with one condition, `fSharedCondition`, on which everybody
waits. Operations: create, stop, resume and destroy the thread, execute a ROM
subroutine, block on a dialog, reset, schedule a suspension. It is the meeting
point of all threads, and the most important part to get right:

- a stop that was granted keeps the CPU thread out until it is released,
  although a ROM call by the stopper zeroes the very counters that hold it;
- one processor state, so one thread that executes;
- nothing leaks: every stop is counted once and released once;
- everybody waits on the same condition, so every change of what somebody may
  wait for has to be broadcast;
- resets and exceptions cut across all of it.

### Processor, system calls, debugger, host control

`EmCPU68K::Execute` looks at the session's state at the end of cycles and after
opcodes that ask for it. `EmPalmOS::HandleSystemCall` stops at a system call of
the user-interface task on request. `Debug::EnterDebugger` suspends,
`Debug::ExitDebugger` reads the suspend state, edits it and writes it back.
Host control lets a script stop and continue the emulated program by signals.
Each is in `EmSession` as far as it touches the session's state.

### Idle handler, actions, dialogs (`EmDocument.cpp`, `EmAction.cpp`, `EmDlg.cpp`)

The CPU thread cannot show a dialog; it queues an action and sleeps; the idle
handler takes the action, shows the dialog, stores the answer and broadcasts.
Correct when each dialog is answered once and the sleeper gets the answer, and
when an exception in one action, which deletes the other queued ones, does not
delete what somebody waits for (it does: `EmAction.cpp:137`, listed as a hazard).

### Pausing and shutting down (`PHEMNativeIF.cpp`)

`Pause_Emulation` and `Resume_Emulation` count pauses and keep one stopper alive
between JNI calls; the App thread sleeps until `ShutdownEmulator` sets `g_done`.
Correct when the pauses nest, the shutdown's signal is not lost, and the next
session starts from a clean state.

### Serial transport (`EmTransportSerial.cpp`, `SrcAndroid/EmTransportSerialAndroid.cpp`)

State: the port's handle, `fCommEstablished`, a read and a write buffer with a
mutex each, `fTimeToQuit`, a pipe that interrupts `select`, a condition that
wakes the write thread. Operations: open, close, read, write, ask how much there
is. Correct when each direction keeps its order, closing ends and leaves no
thread behind, and nothing waits for ever.

### UART (`Hardware/EmUARTDragonball.cpp`)

Two FIFOs, a copy of the registers' last state, and the transport. Called by
register accesses and, once per cycle, to poll the transport. Correct when the
status bits tell what the FIFOs hold, bytes keep their order, and enabling,
disabling, loopback and flow control take effect at the right time.

### Events, Gremlins, minimization

`EmSession` keeps queues of pen, key and button events, filled by the UI thread
and drained by the CPU thread; `EmEventPlayback` records and replays;
`Hordes` runs series of Gremlins and `EmMinimize` shrinks a failing one. Correct
when no stroke of the pen is left down, each Gremlin goes on with the device it
left, every Gremlin of a horde gets its turns, and what minimization keeps
reproduces the error and cannot do without any of its events.

### Patches (`Patches/EmPatchMgr.cpp`)

Head patches run instead of or before a system call, tail patches after its
return. The list of pending tail patches is keyed by the return address, counts
how often each is waited for, and marks the address in the meta-memory, in the
same bit the debugger marks its breakpoints with. Correct when each call that
wants a tail patch gets it, also through recursion, when calls are abandoned and
after a reset, and when neither user of the marks takes away the other's.

### Sockets, packets, remote calls (`SocketMessaging.cpp`, `SLP.cpp`, `EmRPC.cpp`)

Sockets with states, packets that come in parts, clients that wait for signals
with a time-out. The sockets call back into `Debug` and `RPC`, which close and
create sockets in the callback. Correct when there is always a socket that
listens, the list of waiting clients refers to live sockets, and the reply goes
to the one who asked.

### ROM transfer (`EmROMTransfer.cpp`)

The receiving end of X-modem over a serial port, polled by a dialog. Correct when
blocks that are lost, cut short or repeated leave no gap and no repetition in the
image, and the transfer ends.

### Installing files (`EmFileImport.cpp`, `EmDlg.cpp`)

An importer steps through one file and makes a database of it by ROM calls; a
loop or a dialog takes it from file to file. Correct when no failure and no Cancel
leaves a part of a file on the device.

### Chips and cards

Flash memory (`EmBankROM.cpp`) and ATA cards (`Hardware/TRG`) are state machines
driven by writes of the emulated program; the interrupt controller and the
timers (`EmRegs*.cpp`) and the STOP instruction decide when the processor sleeps
and wakes. Correct when an illegal sequence leaves the machine where it can be
used again, and no interrupt is lost between the test and the sleep.

### Everything else

Section 9 says what is not modelled, and why.

## 2. `EmSession`: the session and its threads

### State and code

A variable has the name of the member it stands for, where it stands for one.
`sus` is `fSuspendState.fCounters`. `waiting` is the set of threads inside
`fSharedCondition.wait`: a broadcast empties it, and who wakes tests its
condition again. `pc` says where each thread is, `frames` what the C++ objects on
its stack will put back on the way out: the `EmValueChanger`s of `CallCPU` and
`ExecuteSubroutine` and the latter's saved counters.

Code that runs under one hold of `fSharedLock` is one action. The lock is free in
between: between the polls of `EmCPU68K::Execute`, inside waits, and where
`ExitDebugger` reads the state under one hold and writes it under another.

| action | code |
|---|---|
| `SuspendThread`, `WakeInSuspend` | `EmSession::SuspendThread`, the loop around its wait |
| `ResumeThread`, `GiveUp` | the destructor of `EmSessionStopper` |
| `ExecuteSubroutine`, `CallCPU`, `CheckForBreak`, `CallCPUReturn`, `SubroutineAgain`, `SubroutineDone` | the functions of these names and their ways out |
| `SubroutineReturn` | the trap at the end of a ROM call |
| `SystemCall`, `StopAtSysCall`, `PassSysCall` | `EmPalmOS::HandleSystemCall` |
| `EnterDebugger`, `HostSignalSend`, `HostSignalResume`, `ScheduledReset`, `ResetEmulator` | what the program, a script or the user may do |
| `Throw`, `Unwind`, `ResetAfterThrow` | `EmExceptionReset` on its way up |
| `BlockOnDialog`, `WakeInDialog`, `ShowDialog`, `AnswerDialog`, `UnblockDialog` | a dialog, seen from both sides |
| `GetSuspendState`, `SetSuspendState` | `Debug::ExitDebugger` |
| `RunLoop`, `WakeInRun` | `EmSession::Run` |
| `DestroyThread`, `WakeInDestroy` | `EmSession::DestroyThread` |

A client is any thread but the CPU thread. `Synced` is the set of those whose
callers hold `idle_sync`; `Features` says which of the troubles below a
configuration has: dialogs, resets, exceptions on either side, the debugger,
host signals, system-call stops, patches that make ROM calls.

### Properties

- `OneExecutor`: one emulated processor, at most one thread in it.
- `StopMeansStopped`: from a granted `SuspendThread` to its `ResumeThread` the
  CPU thread is parked or in a dialog.
- `SuspendBalance`: `fSuspendByUIThread` plus what ROM calls have put aside is
  the number of stops held or asked for.
- `NestAccounting`: `fNestLevel` is the number of ROM calls in progress on all
  threads.
- `GrantAsserted`: the three assertions at the end of `SuspendThread`, which the
  NDEBUG build leaves out: a UI suspension is counted, `fSuspendBySubroutineReturn` is
  clear, and no ROM call is in progress unless the CPU thread is in a dialog.
- `GrantAtSysCall`: what `kStopOnSysCall` is documented to mean.
- `NobodyParksIt`: a parked CPU thread has a reason to be parked.
- `GateSpec`: the session implements `SessionGate`, with the holders of a stop and
  the executing thread as the refinement mapping.
- `StopIsSettled`, `ProgramRuns`, `DialogEnds`, `DestroyEnds`: nobody waits for
  ever in `SuspendThread`, in `Run`, in `BlockOnDialog`, in `DestroyThread`.

### Runs

| run | instance | shows |
|---|---|---|
| `session_synced` | two clients under `idle_sync`, everything but dialogs and exceptions, ROM calls nested to depth 2 | the safety properties and the refinement |
| `session_unsynced_now` | three clients without `idle_sync`, `kStopNow` only | the counting alone keeps the CPU thread out until the last stop is gone |
| `session_live` | a client under `idle_sync` that makes ROM calls even after a failed stop; the App thread destroys the session at any time | every wait ends |
| `session_dialogs` | the same with dialogs, all clients careful | a dialog is answered, and every wait ends |
| `session_throw` | exceptions out of any depth of the program's own ROM calls | the state is restored on the way out |
| `syscall_stop_anywhere` | expected to fail | a stop at a system call is granted wherever the CPU thread happens to be |

Bounds. Two clients suffice for every race of one stopper against another and
against the CPU thread; `session_unsynced_now` has a third because a count of two
that drops to one must still stop the CPU thread while somebody asks. `MaxNest` = 2
is the least depth at which an inner ROM call saves counters that an outer one has
already changed. `MaxCount` = 1 bounds the debugger and external suspensions; it
limits the state space, not the 4-bit arithmetic, which `Wrap4` models in full.
The configurations keep features apart that are known to break a property
together, and dialogs apart from patches and the debugger, since together they
multiply the states without a new interaction. What breaks can be seen by adding
the feature to `session_synced.cfg` or `session_live.cfg`:

- with `reset` in `session_live.cfg`, `StopIsSettled` fails: a reset by the CPU
  thread (`EmSession.cpp:487`) erases the request of a client that is already
  asleep, and it sleeps for ever;
- with `dialog` in `session_synced.cfg`, `StopMeansStopped` fails: a `kStopNow`
  granted between a dialog's answer and the CPU thread's waking does not stop it
  (`EmSession.cpp:1668`);
- with `rpcThrow` in `session_synced.cfg`, `StopMeansStopped` fails: an exception
  in the UI thread's ROM call lets the CPU thread start while the UI thread holds
  its stop (`EmSession.cpp:2480`);
- with `throw` in `session_synced.cfg`, `GrantAsserted` fails: an exception that
  unwinds a ROM call drops the stop requests the call had set aside.

`Terminated` is the only stutter allowed at the end, so deadlock is checked.

Fairness (`Fairness` in the module). Weak fairness of the steps inside a call and
of woken threads: Android schedules every runnable thread. Strong fairness, which
is stronger, is asked only where the code goes round a loop and some round ends:
a client deletes its stopper, a ROM call returns, the program makes a system call
in the UI task, the polled CPU thread gets to its poll outside ROM calls, a woken
CPU thread wins `fSharedLock` against clients that stop and resume it again and
again, and the idle handler wins `idle_sync`. Nobody is obliged to stop, reset or
destroy anything. `ProgramRuns` and `StopIsSettled` would not hold under weak
fairness alone: a client may always be faster than the CPU thread.

### Theorems (`EmSession_proofs`)

- `TypeCorrect`: `TypeOK` is invariant, for every set of clients, every set of
  features and every bound. It needs only `SessionAssumption`.
- `StopsHold` and `OneAtATime`: `StopMeansStopped` and `OneExecutor` are
  invariants for any number of clients and any depth of ROM calls, provided
  `Orderly`: all clients are under `idle_sync`, they look at whether their stop
  succeeded, nobody destroys the session, there are no dialogs, and only the CPU
  thread throws exceptions, out of any of its ROM calls. The list above shows that
  dialogs, and exceptions in a client's ROM call, have to be left out.
- `ImplementsGate`: under the same assumptions `GateSpec` holds; the session
  implements `SessionGate`, action by action.
- `NestingCounted`: `NestAccounting` is an invariant, under `Orderly` too. An exception
  leaves no ROM call counted.
- `GrantsAsserted`, `SuspensionsBalance`: `GrantAsserted` and `SuspendBalance` hold under
  `Orderly` and `Unthrown`. They are false with exceptions: one drops the counters that
  the unwound ROM calls have put aside, and with them a stop that is asked for. That
  `fSuspendBySubroutineReturn` is clear needs an invariant of its own, `PlainInv`: the
  flag is set only while its thread is on the way out of the ROM call that returned.
- `OnlyTheDebuggerParksIt`: `NobodyParksIt`, under `Orderly` and `Undisturbed` (no
  signals, no exceptions). With signals it is false: `HostSignalResume` with nothing
  suspended, and `HostSignalSend` after it, leave `fSuspendBySysCall` set
  (`HostControl.cpp`). With exceptions too: a stop whose count was dropped can be
  granted for another reason, a reset then clears that reason, and the client's
  `ResumeThread`, which finds nothing counted, wakes nobody.
- `StopsAddUp`, `GateOfCounts`, `CountsBalance`, `CountedGrants`, `CallsOfCounts`:
  `StopMeansStopped`, `GateSpec`, `SuspendBalance`, `GrantAsserted` and
  `NestAccounting` without `idle_sync`, under `Counting`: up to seven clients, in any
  mixture of those that take `idle_sync`, those that do not and those that ignore a failed
  stop, all stopping with `kStopNow` as `SaveSession`, `ResetEmulator` and the idle handler
  do; the emulated program makes ROM calls, signals and resets as it likes. Seven is what
  `fSuspendByUIThread` can count: it is a signed field of four bits, and an eighth stop
  would make it negative. Dialogs, exceptions, the debugger and destruction are left out.

None of these properties is inductive. The inductive invariant `IInv` adds: `Places`
(which thread may be where), `OneClient` (whoever is not idle owns `idle_sync`),
`Backs` (a thread's first frame was made from `Run` or from a stop, all others
from the emulated program), `Held` (the property), `States` (what `fState` is at
each place and what it will be put back to), `Nested` (a client's ROM call keeps
`fNestLevel` positive, which is what keeps `Run` from leaving its inner loop),
`Counts` (the one UI suspension is in exactly one place: in `fSuspendState`, or in
the counters saved by exactly one of the frames) and `Lasts`. `Counts` is what makes the
proof go through the moment at which a ROM call has zeroed the counters: then the
suspension sits in a frame, and the frame's return puts it back. An exception of the
CPU thread may lose it there (`Perhaps`): such a stop is granted uncounted, once
something else suspends the thread. `Lasts` says why it holds all the same: nobody wakes
the CPU thread while it waits, or it is nested and parks again. The step lemmas
follow the actions; those about frames (`PushFrame`, `PopFrame`, `SetTopFrame`)
and about counters (`BumpType` to `AbsorbType`, `CountPush`, `CountPop`) are
shared by all.

`SuspensionsBalance` is a consequence of `IInv`: under `idle_sync` at most one client has
frames or a stop, so that the sums over threads have one term beside the CPU thread's.
`NestingCounted` and `GrantsAsserted` add `Nests`: each frame keeps the level it has to restore. `OnlyTheDebuggerParksIt` adds to these, for each
counter but the debugger's, when it may be positive (`PlainInv`, `AskedInv`). For `ImplementsGate` each
step lemma says besides who holds a stop and who executes afterwards; a grant is
possible in the gate because `Held` keeps the executor out.

Under `Counting` there is no client alone to follow, and the invariant `CountInv` counts
instead: what `fSuspendByUIThread` holds, together with what each of the CPU thread's
frames has put aside (`Balanced`), is the number of clients that hold or await a stop. It
is kept because every sum stays within 0..7, so that no addition wraps
(`AbsorbedCount`), and it gives the property since a parked CPU thread has no
frames: then the field is the number of stops itself, and is zero only when the last
is released. Both invariants contain `Regular` (types, `Places`, `Held`, one thread in
calls, frames in order), from which alone `OneAtATime`, the steps of the gate and the
nesting follow, so that those lemmas serve both.

Only model-checked: all liveness, and everything with dialogs, exceptions in a client's
ROM call or destruction; of clients without `idle_sync`, everything with exceptions or
the debugger. `session_unsynced_now` is inside `Counting`, `session_dialogs` is not.

### Left out

`kStopOnCycle` (no caller), suspension by time-out (its only setter is switched
off), saving and loading, Gremlins' bookkeeping, the deferred errors of
`ExecuteSpecial`, the STOP instruction. The emulated program is reduced to the
requests it makes of the session. Two clients with a `kStopOnSysCall` stop each and
no `idle_sync` between them could both make ROM calls; `InstallPalmFile` is such a
client, and the runs keep clients without `idle_sync` to `kStopNow`.

## 3. `EmTransportSerial`: a serial port

### State and code

The user is the thread that runs the UART. Opening and closing by another thread
happens with that one stopped, so they count as one. Places (`user`, `reader`,
`writer`) tell who holds which mutex: `CommWrite` holds `fDataMutex` from its
creation, except inside `fDataCondition.wait`; `PutOutgoingData` holds
`fWriteMutex` while it asks for `fDataMutex`; `OutgoingDataSize` and
`GetOutgoingData` ask for `fWriteMutex` under `fDataMutex`. `fReadMutex` is never
held across another call and is not a variable. A byte is its number in its
stream, so that order and repetition can be seen.

| action | code |
|---|---|
| `Open`, `HostSetConfig` | `EmTransportSerial::Open`, `OpenCommPort`, `CreateCommThreads` |
| `Close`, `SignalQuit`, `JoinAndClose` | `EmTransportSerial::Close`, `DestroyCommThreads`, `CloseCommPort` |
| `PutOutgoingData`, `WakeCommWrite` | the two halves of `PutOutgoingData` |
| `BytesInBuffer`, `GetIncomingData` | the two calls `EmUARTDragonball::ReceiveRxFIFO` makes |
| `ReaderLoop`, `Select`, `ReadPort`, `PutIncomingData` | `CommRead` |
| `WriterStarts`, `WriterWakes`, `OutgoingDataSize`, `GetOutgoingData`, `WritePort` | `CommWrite` |
| `FarEndSends`, `FarEndHangsUp` | the other end of the line |

Reads are partial, writes may be accepted in part and the rest is dropped as in
the code, the far end may hang up, setting the configuration may fail, and the
port may be the fake one ("/@") that is never opened.

### Properties and runs

- `OutChannel`, `InChannel`: each direction implements `ByteChannel`. Through two
  buffers, the kernel's queue and the threads' local buffers, across closing and
  opening again, no byte overtakes another and none comes twice. Bytes may be
  lost: `write`'s result is ignored, and what the port holds is lost on close.
- `ThreadsNeedPort`: a comm thread does not outlive the port and the pipe.
- `CloseEnds`: both joins of `DestroyCommThreads` return.
- `InputArrives`: a byte in an open port gets to the buffer the UART reads.
- `WriteReturns`: `PutOutgoingData` returns.

`BothChannels` is the conjunction of the first two. `lines` (section 6) checks all
but the last. `serial_deadlock` checks the last and
fails: the program's second write takes `fWriteMutex`, then wants `fDataMutex`;
`CommWrite`, busy with the first, has `fDataMutex` and wants `fWriteMutex`. Both
wait for ever, and with the CPU thread everything that ever stops it.

Bounds: `MaxOut` and `MaxIn` are the bytes sent in each direction over the whole
run. With three bytes, one can be in the port, one in a thread's buffer and one in
the queue, and any two of them out of order or doubled are seen. `FifoSize` = 2
makes reads and writes of one and of several bytes different, and leaves a byte
behind for the next read. Closing and opening are not bounded. Deadlock is not
checked: a program that has written its bytes may stop, and the one deadlock there
is has a run of its own.

Fairness: weak, for each of the three threads, inside a call. The program is not
obliged to call anything, nor the far end to send.

### Theorems (`EmTransportSerial_proofs`)

For any number of bytes and any FIFO size, from `TransportAssumption` alone:
`TypeCorrect`, `ThreadsEnd` (`ThreadsNeedPort` is invariant), and
`ImplementsChannels` (`BothChannels`: the refinement, both ways). The inductive
invariants: `LifeInv` ties the handle, the pipe and the threads to the place of
the user; `OutLine` and `InLine` say that the concatenation of all the places a
byte passes, from the far end of the direction to the near one, is in order and
that its largest number is at most the number sent. `Ordered` and the lemmas about
appending and dropping (`OrderedConcat`, `OrderedSplit`) carry it through the moves.
The type invariant is not simply of the shape of the actions: that a read asks for
at most `FifoSize` bytes depends on the limit `ReceiveRxFIFO` applies.

Only model-checked: `CloseEnds`, `InputArrives`.

### Left out

A change of configuration while the port is open, the modem lines (empty functions
on Android), the global list of open transports, failures of `pipe` and of thread
creation. `CommWrite` waits before it looks at the queue, so bytes written before
its first wait go out with the next write only: the model has this behaviour, no
property forbids it yet.

## 4. `EmUARTDragonball`: the UART

### State and code

The UART of the EZ chip and its serial device. All of its handlers run on the CPU
thread, or on a thread that has stopped it, so each is one action. The transport's
own threads only append to what a handler may read; its inside is
`EmTransportSerial`, here it is `transport` (none, closed, open), `buffer` and
`sent`.

`reg` holds the control bits that are set, the two ways to turn RTS on taken
together; settings that only go on to the port are left out. `EmUARTDragonball`
keeps a copy of the registers from handler to handler, `fState`; it always equals
the registers before the handler, so `reg` stands for both, and where the code
reads the old copy while it works on the new one (RTS in `ReceiveRxFIFO`), the
model reads `reg` and not the new value. `status` is the set of status bits. The
interrupt is a function of it, as `UpdateUARTInterrupts` follows every update.

| action | code |
|---|---|
| `WriteControl`, `WriteData` | `EmRegsEZ::uartWrite`, `StateChanged` (with `SendTxData`, `TransmitTxFIFO`), `UpdateState` |
| `ReadData`, `Poll` | `uartRead`, `CycleSlowly`, `UpdateState`, `ReceiveRxFIFO` |
| `EnableDriver`, `DisableDriver` | a port write, `EmHAL::CompareLineDriverStates`, `LineDriverChanged` |
| `Reset` | `EmRegsEZ::Reset` of the hardware: registers change, no transport is told |
| `SetTransportForDevice` | the user chooses another port, with the session stopped |
| `Receive` | the transport's read thread |

### Properties and the run `uart`

- `StatusHonest`: every handler leaves exactly the status bits that the FIFOs call
  for. The one exception is the read of a byte, which leaves those of before the byte
  was taken: `UpdateState` computes them before it takes the byte out, and DATA_READY
  stays up until the next handler. The comments say otherwise (`ReadyMeansData`, below).
- `AvailHonoured`: whoever has seen TX_AVAIL may write a byte later, and it is
  sent or queued, though the port was opened, closed or replaced in between.
- `BytesKept`, four properties in one. Two say that bytes leave the FIFOs only in
  their order and towards their end, with the exceptions named: disabling a half
  flushes its FIFO, replacing the port drops its buffer. Two say that both
  directions implement `ByteChannel`: what is there twice, or was never sent, does
  not arrive.
- `InputPosted`: with the port open, the receiver enabled, RTS on and no loopback,
  received bytes do not stay in the transport, unless the FIFO is full.

Three properties are stated and not checked, as they do not hold: each is what a comment of
`EmUARTDragonball.cpp` says and the code does not do. Put into `uart.cfg`, TLC finds
each violated:

| property | the comment | the code |
|---|---|---|
| `ReadyMeansData` | reading RX_DATA clears DATA_READY (36-37); the bit "indicates that at least one byte is present" (475) | `UpdateState` sets it (478) before it takes the byte out (535) |
| `DisabledIsFlushed` | while RX_ENABLE is low "the receiver is disabled and the receive FIFO is flushed" (152-153) | only the write that clears it flushes; `UpdateState` (448) and the loopback (410) fill the FIFO again |
| `LoopIgnoresPort` | in loopback the receiver "ignores the RXD pin" (358-359) | `UpdateState` receives from the port all the same (448) |

This is why `StatusHonest` has its exception, and why `InputPosted` speaks of a receiver that
is enabled and not in loopback.

Bounds: FIFOs of two bytes have all the states that matter, empty, half, full with
something behind; three bytes written fill the transmit FIFO and try once more;
two bytes received and any byte looped back overfill the receive FIFO. Register
writes, opening, closing and resets are not bounded. Deadlock is not checked, as
`Poll` is always possible. Fairness: weak for `Poll`, which `CycleSlowly` does
as long as the processor runs; the program owes nothing.

### Theorems (`EmUARTDragonball_proofs`)

For all FIFO sizes and any number of bytes, from `UARTAssumption`: `TypeCorrect`,
`StatusCorrect`, `WritesAreKept` (that is `AvailHonoured`) and `NothingIsDropped`
(that is `BytesKept`, with both refinements of `ByteChannel`). `TypeOK` is
inductive. The argument goes through `UpdateProps`, which says what `UpdateState`
does to whatever the rest of a handler gives it, the status bits included;
`ChangedProps` and `SendProps` add what `StateChanged` does before. That a byte is
not dropped follows from `StatusInv` in the state before the write: TX_AVAIL
means that there is room now, since nothing between two handlers touches the FIFO.

`NothingIsDropped` needs two more invariants: `TxLine`, that what was sent followed
by what waits is numbered upwards, and `RxLine`, the same of `Stream`, which is what
the program has read, then the FIFO, then the transport's buffer. `UpdateInOrder`
is the main step: whatever `UpdateState` moves, and whether or not it takes a
byte out, the stream keeps the received bytes and their order and gains none; only
bytes looped back may vanish. `RxCases` and `TxCases` list what a step can be for either
direction, so that the rest is done once for each kind of step and not for each action.
Bytes looped back are zeros anywhere in the stream, hence `Rising`, which
does not count them, and `Kept` in the property.

Only model-checked: `InputPosted`.

### What the model shows besides, and what is left out

A transmit FIFO that filled up while the port was closed is never sent after the
port opens, as `TransmitTxFIFO` is only called when a byte found room. This is in
`PROJECT.json` as a hazard; no comment promises anything else.

Left out: the configuration passed to the port, the IR device and the switch
between the two, the second UART of the VZ and its level markers, saving and
loading. `buffer` is not yet the `fReadBuffer` of `EmTransportSerial`; the two
modules are not composed.

## 5. Services: six parts in one run

Six parts of the emulator share no state worth modelling. `MCServices` puts
them side by side: `which` chooses one in the initial state, and the others rest.
The run `services` checks each as if it were alone; its states are the sum of
theirs. Deadlock is not checked: at the bounds each part may stop.

### Starting, pausing, shutting down (`PHEMNativeIF`)

Callers are the user-interface thread and the background task (`AsyncTask` runs
one at a time). `at` is where each is; a caller that has called `SuspendThread`
holds `g_stopper_mutex` and is `suspending`. The session is its number, so that a
stopper of an earlier session is told from one of the live session.

| action | code |
|---|---|
| `PauseAgain`, `PauseFirst`, `Paused` | `Pause_Emulation`, with the wait in the middle |
| `Resume_Emulation` | the function of this name |
| `OnPause`, `OnResume`, `BackKey`, `OnDestroy`, `Install`, `InstallDone`, `Load` | the activity and its tasks, which call these |
| `ShutdownEmulator`, `Joined`, `StartApp` | the two halves of `ShutdownEmulator`; `NewSession`, `RestartSession` and `Start_App` |
| `Startup`, `TestDone`, `Wait`, `SpuriousWakeup`, `Woken`, `BlockIdle`, `HandleSessionClose` | `App_Run_Static` |

`PausesNest`: whoever has paused the live session and not resumed it has a
stopper of that session, and no stop is left without somebody who paused. Three
sessions are enough for a stopper to outlive one and meet the next. The model is
restricted by `HomeDuringLoad` = FALSE: with TRUE, that is, when Android pauses
the activity while a task replaces the session, `PausesNest` fails, because
`ShutdownEmulator` zeroes the count and keeps the stopper (`:1832`), and a pause
that was waiting (`:1049`) then counts on the new session.

`ShutdownEnds`, in the run `shutdown_lost`, fails: `App_Run_Static` tests `g_done`
and waits without holding the mutex, so that the signal may come in between.
Every thread has fairness there, strong for the callers' steps, which compete for
`g_stopper_mutex` and the class's monitor; and a spurious wake-up is allowed but
not obliged.

Theorem `PausesAreOfTheirSession` (`PHEMNativeIF_proofs`): with `HomeDuringLoad` =
FALSE, `PausesNest` is an invariant for any number of sessions. The invariant adds
that what the App thread and the callers know of each other agrees (`AppTracks`: a
shutdown in progress, a session being replaced), that `g_stopper_mutex` and the
monitor exclude (`Exclusion`), and what the count of pauses is at each place of
the two callers (`Counted`), from which the stopper's session follows (`Pairing`).
`PauseTypes` is the type invariant. Only model-checked: `ShutdownEnds`, which fails.

The module leaves a dangling stopper (`:1072`), `HandleIdle` reading `gDocument`
while the App thread closes it (`:1417`), and two `Load`s that start two App
threads (`:415`) without an effect or out altogether.

### Tail patches and breakpoints (`InstructionBreaks`)

A system call is the address it returns to. `Turn` is one turn of the loop of
`EmCPU68K::Execute`: the break test, then an opcode, then `CheckForBreak`. In the
break test both owners of the marks look: the patch manager recovers from a tail
patch, the debugger enters and remembers to step over its breakpoint.

| action | code |
|---|---|
| `Opcode`, `SystemCall`, `SystemReturn`, `Abandon` | the program: `Execute`, `EmPatchMgr::HandleInstructionBreak`, `Debug::HandleInstructionBreak`, `SetupForTailpatch`, `RecoverFromTailpatch` |
| `SkippedCall` | a call that its head patch handles: `EmPatchMgr::HandlePatches` and `EmPalmOS::HandleSystemCall` with `kSkipROM`, going on at `fNextPC` |
| `SetBreakpoint`, `ClearBreakpoint`, `Continue` | packets of the debugger |
| `ResetBreaks` | `EmSession::Reset` as far as it touches the marks |

- `EveryWaiterMarked`: an address that a tail patch or a breakpoint waits for is
  marked, although each change takes all marks away and puts them back.
- `NoTailpatchLost`: each pending call finds its entry when it returns.

Depth 3 has a recursive call and one around it; two call sites and one other
address let tail patches and breakpoints coincide or not. `MaxCount` bounds the
calls that never return, with a debugger or without. An opcode with a breakpoint is
executed before the processor stops, and again after Continue (`EmCPU68K.cpp:396`): the model
does the same, which is why a patched call may be set up twice.

`Recursing` says into what a patched call may recurse, back to the same return address. The
run `services` has neither case, and `NoTailpatchLost` holds with calls recursing without a
debugger. Each of the other cases breaks it, as TLC shows at once when it is put into
`Recursing` in `services.cfg`: "skip", a call within that its head patch handles, which goes on at the
mark of the outer call (`EmPatchMgr.cpp:617`) and uses up its entry; and "stop", under a debugger, whose
breakpoint at the mark makes the processor meet it twice (`EmPatchMgr.cpp:714`).

Theorem `WaitersMarked` (`Debugging_proofs`): `EveryWaiterMarked` is an
invariant for any addresses, breakpoints and depth. With two facts of type it is
inductive; the work is in `Remarked`, which takes the marks of both owners away
and puts both back. An owner that puts back only its own would fail where the
other waits at the same address, and this is the mutant of the run.

Theorem `TailpatchesMet`: `NoTailpatchLost` is an invariant too, if no patched call recurses
into one that its head patch handles nor, with a debugger, at all. `Met` counts, for each
address, the pending calls that return there and the one that is there now (`Load`). Without a
debugger the count of the entry is at least that, so calls may recurse and be
abandoned as they like. With one, the processor may reach the same
return twice, and the entry be used up before the call has returned: then
`Met` says that no address has more than one such call, in the state the program is
in and in the one the debugger will restore, so that the return that is met twice is nobody else's.

### Minimization (`EmMinimize`)

A recording is a sequence of events; a range of them is masked out and the rest
is replayed; whether the program still crashes decides which range is next.
`call` names the function the CPU thread is about to call, so that the user's
Stop and a reset come in between. A whole replay, through `ReplayGetEvent`
and `ReplayGetPen` with their own idea of whether the pen is down, is one action:
its outcome is a function of the recording, the mask and the program. The
program crashes when it has seen all events of `needed`, and may follow the pen
with `EvtGetPen` (`tracks`): TLC tries all of these.

`Minimal`: what is left crashes the program, if the recording did, and no event
can be left out, a pen up going with its pen down. `MinimizationEnds`: it comes to an
end, under weak fairness of the CPU thread, unless a reset has ended the playback
it waits for: `EmMinimize::Reset`, which would turn minimization off
(`EmMinimize.cpp:333`), is not called on that path, nor on any other. Recordings of three events and ranges of at most two have every case of
splitting, including the odd one, and a stroke of the pen with an event inside.
With an event that puts the device to sleep (`Kinds` with "off") minimization
does not end: `ExecuteStoppedLoop` turns playback off and on again around the
press of the power button, which rewinds it (`EmCPU68K.cpp:717-725`, `:809`).
Left out: the compressed encoding of recordings (in which a pen event with
x ≥ 256 and y < 256 gets the wrong tag, `EmEventPlayback.cpp:1179`), and the races of
Stop, which takes no lock, inside a handler.

### Hordes (`Hordes`)

A Gremlin's events follow from its number and how many it has generated, so an
event is its rank, and the device's state is whose events it was sent and how
many. `files` is what is saved on disk. Handlers set flags of the session;
`EmSession::ExecuteSpecial` serves them at the end of the opcode, one action per
flag, in its order.

| action | code |
|---|---|
| `StartHorde`, `Stop`, `Resume`, `Step` | `Hordes::New`, `Stop`, `Resume`, `Step` |
| `PostFakeEvent`, `PostFakePenEvent`, `StopEventReached`, `ErrorEncountered` | the functions of these names, `GetFakeEvent`, `BumpCounter`, `NextGremlin` |
| `SaveSuspendedState`, `LoadRootState`, `StartGremlinFromLoadedRootState`, `StartGremlinFromLoadedSuspendedState` | the functions of these names |

- `NoGremlinForgotten`: when the horde ends, each Gremlin has crashed or has
  reached the last depth, though that need not be a multiple of the depth at
  which they switch; but for a `ZeroSwitch`.
- `RunsInItsOwnState`: the Gremlin that posts is the one the device belongs to,
  as far along as the device, and has not crashed.
- `HordeEnds`: a limited horde ends or is stopped, if the program goes on asking
  for events and does so with `EvtGetEvent` again and again.

Two Gremlins and depths up to two have a round in which one has crashed, and a
last round cut short. `StartHorde` takes what the dialog passes: for the depth at
which Gremlins switch and for the last depth, -1 when its box is not checked, and otherwise the number
beside it, which may be 0. `New` makes -1 of 0 (`Hordes.cpp:212`). With a last depth and a
switch depth of 0 (`ZeroSwitch`) this goes wrong, and `NoGremlinForgotten` and `HordeEnds` except it: `min` makes no limit of the
two (`Hordes.cpp:229`), so that no Gremlin stops at the last depth, and the first error
ends the horde, as `gMaxDepth / gSwitchDepth` is negative (`:827`), with the other Gremlins not started.
`MaximumHolds` and `AllHaveReached` (`NoGremlinForgotten` without its exception) say what should be;
TLC finds both violated under `services.cfg`.

Two more properties are stated and not checked, as they do not
hold: `HistoryIsTrue` (the events recorded for a Gremlin are not always those its
device was sent: what it does between its barrier and being put away is in its
recording only, `Hordes.cpp:1413`, `:1309`) and, with `Stepping`,
`OnMeansPosting` (`Hordes.cpp:1043`). After Step the depth may be negative, and
the search for the next Gremlin never ends (`:799-815`): left out. That the last
round loses its switch barrier (`CGremlins.cpp:1788`) is modelled.

Theorems (`DeviceEvents_proofs`), for hordes of any size and rounds of any number
and length. `EachInItsOwnState`: `RunsInItsOwnState` is an invariant, with Step or
without. The invariant `HInv` says that at most one of the session's flags is set
and which (so that no two handlers serve the same opcode), and that every file saved is
of the Gremlin it is filed under, at the rank that Gremlin has reached. `EachRunsToTheEnd`:
`NoGremlinForgotten` is an invariant, if nobody presses Step, for any switch depth and
last depth that the dialog can pass, so for all of them but a `ZeroSwitch`. It needs, beyond
that, `Stages`: which Gremlins have had their turn in the current round, that
each of those is at the round's barrier or crashed, and that the barrier of the last
round is the last depth. The search for the next Gremlin is a least element in a
cyclic order there, as in the module, and not a loop. Only model-checked: `HordeEnds`.

### Events for the device (`SessionEvents`)

The user-interface thread fills three queues, the CPU thread drains them in a
head patch (`PuppetString`) and in `CycleSlowly`. Between putting an event and
remembering it, and between that and waking the ROM, the UI thread may be
overtaken; these are steps of their own.

- `NothingSticks`: when the user has let go and the queues are empty, neither pen
  nor button is down on the device, through repetitions that are dropped, resets
  and naps.
- `EventsAreTaken`: a posted key or pen event is taken, unless the device is
  switched off. Weak fairness for the ROM's own steps, strong fairness for the
  stop at a system call that wakes it, as the ROM makes system calls again and
  again but not always. No fairness for time-outs, so the wake-up has to work.

Four posts have a stroke with a move in it and an event of another kind.
`Gremlins` is FALSE: with TRUE `PowerPressedAtOnce` fails (`EmCPU68K.cpp`, near
line 770: a button released by the user comes first), and Gremlins started while the pen is
held leave it down. A pen event posted while the device is asleep makes the UI
thread wait for a system call that does not come until a button wakes the device
(`EmSession.cpp`, near line 1893): `EventsAreTaken` excludes this case.

Theorem `LetGoIsLetGo` (`DeviceEvents_proofs`): `NothingSticks` is an invariant
for any screen and any number of posts, with Gremlins off. The invariant is that the
last event of each queue or, when it is empty, the last one given to the device,
is the last thing the user did with the pen or the button; the drop of repeated pen
events keeps it, because what is dropped equals what is last. Gremlins have to be off for
a reason: one started while the pen is held takes the queue's place and leaves the pen down. 
`EventTypes`, the type invariant, holds with Gremlins too. Only model-checked:
`EventsAreTaken`.

### Installing files (`EmFileImport`)

A file becomes a database on the device through ROM calls, and each of these may
fail (`Faults`); so may the opening of a file of the list. Files are a name, a
number of entries and whether they are valid; a database is the file it was made
from, how much of it is there, and whether it is open. Databases that were there
before may be held open by an application. Every step of `IncrementalInstall` is an
action, as `Continue` may return after any of them; `Cancel` comes between two.

| action | code |
|---|---|
| `Import` | `LoadPalmFileList`, or `PrvDatabaseImport` when the dialog opens |
| `HomeBrewInstallStart`, `...Middle`, `...End` | the functions of these names, with what `Continue` does about an error |
| `NextFile` | the loop of `LoadPalmFileList`; the dialog's idle handler when an importer is done |
| `Cancel` | the dialog's Cancel button |

- `WholeOrNothing`: however an installation ends, no database holds a part of a file,
  none that was reported as installed is open, and each of these is there unless a
  later file had its name.

Two names, two files and two entries are enough for a file that replaces another of
the list, for a failure between two entries, and for one after the other file.

Theorem `NoPartLeft` (`EmFileImport_proofs`): `WholeOrNothing` for lists and files of any
length and any names and faults. The invariant says how much of which file is in the
database the importer holds, at each of its places, and that every other database is what
it was or is a complete file of the part of the list that is done. `ImportTypes` bounds the
importer's places in file and list.

What the property leaves room for: when the last ROM call fails, the database is
complete but stays open (`EmFileImport.cpp`, near line 1082), so a later installation of the same
name fails. `InstallPalmFile` ignores the result of `LoadPalmFileList`
(`PHEMNativeIF.cpp:1367`); after an error the rest of the list is skipped, and a file that cannot
be opened ends the dialog without a message (`EmDlg.cpp`, near line 1365). Not in the model:
exceptions out of a ROM call, which leave the database as it is; Cancel in the half
second after the last file, when there is no importer (`EmDlg.cpp:1405`); databases in
ROM; and that the steps are ROM calls of a CPU thread stopped for them, which is
`EmSession`'s part.

## 6. Lines: three parts in one run

`MCLines` extends `EmTransportSerial`, `EmROMTransfer` and `SocketMessaging` and lets
them run side by side, for the run `lines`. Deadlock is not checked: a program
may stop writing, and a transfer ends.

### ROM transfer (`EmROMTransfer`)

A block of X-modem is two pieces, its head and its tail; the line may lose either
(`Faults`), the first byte of a head, or an answer, `MaxFaults` times in all. Reads
take any number of pieces the buffer has room for. `ReadSomeData` and `CheckForTimeouts` are
the two things `Continue` does; `SenderAnswered` is the program on the device, which
sends its block again for a nak and the next for any ack, as steps 5 and 6 of the
notes at the top of the file say.

`CheckForTimeouts` looks at the clock only (`:480`), so it may happen whatever is under way:
an answer, a block, or the block that the receiver has half of, down to its first byte (`Beheaded`).
`late` counts these; `MaxLate` bounds them. A time-out with nothing under way that would still be
read or answered (`Quiet`) is not bounded.

- `RomIntact`, two properties in one. `BeginningOfROM`: while no time-out has raced anything, what has been put together is a
  beginning of the ROM, and all of it when the sender's end has come.
  `RomOrdered`: however time-outs race blocks and answers, no block is copied twice or
  after a later one.
- `DownloadEnds`: the transfer is over some time. The dialog calls `Continue` again and again
  (weak fairness); the line loses finitely often, and time-outs race finitely often.

Four blocks, three faults and one racing time-out have a lost block, a lost answer for
its repetition, and the same for the next, two blocks under way at once from then on, and a block
whose number is `kXModemEof`. `EmROMTransfer` alone passes with `MaxLate` = 3 as well.

Two properties say what comments of the code say, are stated and not checked, as they do not
hold. `ExpectedBlocks` ("it's the block number we're expecting", `:539-540`, and the `EmAssert` of
`:418-421`), violated under `lines.cfg` and also with `Faults` = {}: after one
time-out that races an answer, with a line that loses nothing, a block is
skipped; nothing in `HaveValidBlock` or, outside of a debug build, in
`HandleNewBlock` compares the number with the expected one, and bytes that have come
behind a valid block are forgotten (`:447`). This is why `BeginningOfROM` has its condition.
`HaveEntireROM` ("Return whether or now we have downloaded the entire ROM", `:553`), violated with
`MaxLate` = 0 and `Faults` = {"first"}: a block numbered 4 that has lost its first byte looks like the
end of the transmission (`:360`). This is why it speaks of the sender's end.

Theorems (`EmROMTransfer_proofs`), for every number of blocks, set of faults and number of racing
time-outs, assuming `SafeLine`: the buffer takes the two pieces of a block.

- `Intact`: `RomIntact`, from the next two.
- `Beginning`: `BeginningOfROM`. Without racing time-outs the protocol is
  half-duplex, so that the invariant `IInv` is a disjunction: the receiver has not
  opened the port (`Waiting`), or it is waiting for one block and the sender is at
  that block or the one before (`Receiving`), or it is done (`Received`). In the second, only one of
  answer and block is under way, and what is in `wire` and `fTempBuffer` comes from the block the
  sender is at. The block numbers are counted modulo 256 in the code and in the
  model; that this does no harm is because the sender is never more than one block
  from the receiver, and the proof says so. `Orderly` adds that nothing is claimed once `late` > 0.
- `Ordered`: `RomOrdered`. The invariant `InOrder` says that numbers never fall from the buffer over
  the line to the sender, and that none is below the block taken last, n, whose number modulo 256
  `fLastValidBlock` remembers (`After`): a block with another number is a later one.

Left out: the check sum's arithmetic (a block with a wrong one is one that lost a
piece), the name and size in block 0.

### Sockets, debuggers and scripts (`SocketMessaging`)

Handlers of sockets call back into `Debug` and `RPC`, which close, delete and create sockets
before the handler returns. So the state of all sockets is one variable, `net`,
and `Close`, `DebugConnected`, `RPCDisconnected` and so on are operators from
`net` to `net`. The UI thread walks over the sockets (`iter` is its place), the CPU thread
writes to one when it enters the debugger and to several when it signals.

| action | code |
|---|---|
| `IdleAll`, `AcceptConnection`, `FoundClosed`, `HandleNewPacket`, `NextSocket`, `IdleAllEnds` | `CSocket::IdleAll`, `CTCPSocket::Idle`, `SLP::EventCallback` |
| `StopGained` | the `EmSessionStopper` of `Debug::EventCallback`, after the sockets have changed |
| `RPCTimeout`, `RPCIdleEnds` | `RPC::Idle` |
| `EnterDebugger`, `SendState` | `Debug::EnterDebugger` |
| `SignalWaiters`, `Signal`, `Signalled` | `RPC::SignalWaiters` |
| `Shutdown` | `EmApplication::Shutdown` |
| `ClientConnects`, `ClientAsks`, `ClientCloses` | debuggers and scripts, outside of the program |

Addresses are renumbered by their place in the list when sockets are deleted, so that
histories that differ in addresses only are one state. `Kept` is the set of places
that `DeletePending` keeps, `Rank` the address a kept socket gets.

- `SomebodyListens`: a debugger finds both ports open unless one is connected, a
  script always does; no global refers to a socket that is gone; after `Shutdown`
  all are gone.
- `WaitersTracked`: the list of clients that wait for a signal has one entry for
  each of them, on a live connection.

A packet says in its header for whom it is, and is dispatched whatever port it came through
(`SLP.cpp:293`): `ClientAsks` sends either kind, one that is answered at once (by `Debug` or by `RPC`)
and one that waits for a signal, through either kind of socket. A packet is handled with
the CPU thread stopped. `Debug::EventCallback` changes the sockets first and then stops it:
the CPU thread may be in `EnterDebugger` or `SignalWaiters` meanwhile (`ui.at` = "stopping").

One debugger and two scripts at a time (eight sockets are enough for these, their
listeners, and those not yet deleted). `SocketFaults` = {"reply", "stop"}: an answer may find
the connection broken, and the session may not stop for a packet. The others
break the properties, each by itself, and are left out of the run `lines`:

- "accept": accept fails (`SocketMessaging.cpp:763`) and nobody listens any more, which violates
  `SomebodyListens` although the sockets are "pretty tenacious when it comes to auto-starting the
  listening process" (`DebugMgr.cpp:2028-2030`); what would listen again is within `#if 0`. "listen": the listener made anew after a connection cannot listen, and is
  deleted (`Opened`), with the same effect.
- "crossed": a client waits for a signal through a debugger's port, where its
  disconnection is not noticed: `RPC::EventCallback` forgets such entries (`EmRPC.cpp:398`),
  `Debug::EventCallback` (`DebugMgr.cpp:2069`) does not. The entry refers to a deleted socket, which
  violates `WaitersTracked`.
- "deferred": a signal that finds the connection broken changes the
  list that is being walked. "race": the UI thread does the same, as `EmRPC.cpp:407` takes no lock.
- "entry": a state packet that cannot be sent makes the CPU thread wait for itself
  (run `debugger_entry_hangs`).

The model assumes that the UI is initialized (`EmPatchState::UIInitialized`): before, the callback
stops nobody, and `DeletePending` may delete a socket that `EnterDebugger` still uses.

Not in the model: `Read` loops for ever when the peer closes inside a packet
(`SocketMessaging.cpp`, near line 700), a full send buffer is taken for a broken connection
(near line 935), `gSocketsToBeAdded` is pushed from two threads without a lock (near line 255).
There is no fairness, and no liveness is claimed.

Theorems `ListenersThere`, `WaitersRight` and `SocketsTypes` (`Debugging_proofs`):
`SomebodyListens`, `WaitersTracked` and the types, for any number `MaxScripts` of scripts
that connect, ask and close as they like, any number of packets of either kind through either
kind of socket, other than a wait through a debugger's, and any of the faults "reply", "stop" and
"entry" (`Room`). With any other member of `SocketFaults` one of the first two is false, as above. TLC needs `NULL` and a range of addresses for the sockets; the theorems
assume that range to be 1..N with N at least `MaxScripts` + 6, and prove that it never
runs out, so that a new socket always finds a free address: after `DeletePending` at most
`MaxScripts` connected scripts, their listener and two sockets of the debugger are left,
and until the next one a script listener and two debugger listeners may come.
`SocketsInv` is inductive; TLC checked it before it was proved. Its parts:

- `Numbered`: addresses are given out in order, and stand in order in the list of
  sockets and in the list of those to be added. A renumbering keeps every relation
  between sockets because `Rank` grows along the kept places (`Ranks`, `KeptElements`).
- `Kinds`: what a socket of each state can have in its buffers; one that is
  unconnected is to be deleted.
- `ScriptsListener`, `DebugListeners`: exactly one socket listens for scripts; for
  debuggers one at each port and nobody is connected, or none and one is
  connected; and these are the sockets the globals refer to.
- `Waiters`: an entry of the list belongs to a live connection, and from the place
  on that `SignalWaiters` has reached, the entries are those that are owed an answer.
- `Bounded`: the numbers above.
- `Threads`: which thread is in which handler. `Gone`: after `Shutdown` nothing is left.

## 7. Findings

`PROJECT.json` quotes code and comment for each.

1. A stop at a system call is granted anywhere (`syscall_stop_anywhere`).
2. Writing to a serial port may deadlock with its write thread (`serial_deadlock`).
3. A shutdown may be signalled between the App thread's test and its wait, and
   never ends (`shutdown_lost`).
4. A debugger whose connection breaks as an exception is reported to it hangs the
   CPU thread (`debugger_entry_hangs`).

Further divergences have no run of their own. The property named, put into the configuration
named with the change named, is violated:

| divergence | property | configuration |
|---|---|---|
| the UART reports data with its FIFO empty | `ReadyMeansData` | `uart.cfg` |
| it receives with its receiver disabled | `DisabledIsFlushed` | `uart.cfg` |
| it reads the port in loopback mode | `LoopIgnoresPort` | `uart.cfg` |
| a patched call loses its tail patch to one within that its head patch handles | `NoTailpatchLost` | `services.cfg`, `Recursing` = {"skip"} |
| or to a return that the debugger makes the processor meet twice | `NoTailpatchLost` | `services.cfg`, `Recursing` = {"stop"} |
| a horde that switches at depth 0 forgets Gremlins at the first error | `AllHaveReached` | `services.cfg` |
| and has no last depth | `MaximumHolds` | `services.cfg` |
| a time-out that races an answer makes the ROM transfer skip a block | `ExpectedBlocks` | `lines.cfg` |
| the ROM transfer takes a block's number for its end | `HaveEntireROM` | `lines.cfg` |
| a client that waits through a debugger's port is not forgotten when it goes | `WaitersTracked` | `lines.cfg`, `SocketFaults` = {"crossed"} |
| a port whose accept fails is not listened to any more | `SomebodyListens` | `lines.cfg`, `SocketFaults` = {"accept"} |

Sections 2, 5 and 6 list further divergences, with the change of the configuration
that shows each.

## 8. Plan

1. Theorems: `Orderly` with dialogs and only system-call stops, as the run
   `session_dialogs` has them.
2. `EmUARTDragonball` composed with `EmTransportSerial` in place of its
   `BytesInBuffer`; the second UART of the VZ, the IR device.
3. Interrupts, timers and the STOP instruction (`EmRegsEZ.cpp`, `EmCPU68K.cpp`):
   no lost wake-up. `SessionEvents` has the buttons' part of it.
4. The action queue of `EmAction` with `DoAll`'s error path, over several kinds
   of actions.
5. The Flash command state machines of `EmBankROM.cpp` and the ATA one of
   `Hardware/TRG`.
6. The exceptions of ROM calls in `EmFileImport`, composed with `EmSession`; `EmTransportSocket`.
7. Two unsynchronized holders that make ROM calls; the write thread's first wait.

## 9. Not modelled

Most of the repository's lines hold no control of its own, and a model of them
would say nothing a reader cannot see: `UAE/cpuemu.c` and its relatives are
generated from a table of opcodes (a tenth of all lines); `Platform_NetLib`,
`EmPatchModuleNetLib`, `HostControl` and `ROMStubs` forward one call each to the host or the ROM;
`EmRegsMediaQ11xx`, `EmRegsSED*` and the skins describe displays; headers of Palm OS
and libraries (jpeg, zlib, omnithread, gzip) come from elsewhere. `map` therefore
covers a small share of all lines: the control of what is modelled.

- *Memory and its checking* (`EmBank*`, `MetaMemory`): which access is legal is a
  large case analysis over the contents of ROM and heap; the result of an access
  is a look-up.
- *Processors*: opcodes are data; the ARM processor is a stub.
- *NetLib*, *other transports*: translations of calls, one for one.
- *Dialogs, windows, skins, pictures*: contents and drawing.
- *Files, sessions on disk, preferences, profiling, tracing, sound*: sequential
  input and output, or measurement that the emulation does not depend on.
- *ROM images and devices*: a parser and a table.
- *Flash*, *ATA*, *interrupts*: candidates, in the plan.

Out of the prover's reach, and left to TLC: liveness and everything under fairness,
and what a recursion or a filter computes for all inputs, which takes an
induction over data. This concerns `Minimal` (a replay is a fold over the
recording) and the types of `EmMinimize`. The filter of `DeletePending` is a set of
places for this reason: what it keeps can be said without an induction. The other conjuncts of `ServicesTypeOK` and `LinesTypeOK` are
theorems (`TypeCorrect` of `EmTransportSerial`, `SocketsTypes`, `PauseTypes`, `ImportTypes`,
`EventTypes`), or, for
`InstructionBreaks`, `Hordes` and `EmROMTransfer`, checked at the bounds of the run: what the
inductive invariants need of these types is part of them (`Lists`, `HordeTypes`, and the
sequences in `IInv`), without the bounds that only the configurations set.

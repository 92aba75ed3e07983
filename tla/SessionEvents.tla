--------------------------- MODULE SessionEvents ---------------------------
(***************************************************************************)
(* Events for the device (EmSession.cpp, EmPatchMgr::PuppetString,         *)
(* EmCPU68K::ExecuteStoppedLoop, EmRegsEZ::CycleSlowly).  The              *)
(* user-interface thread puts the pen, the keys and the buttons of the     *)
(* user into three queues.  The CPU thread takes keys and pen events when  *)
(* the ROM is about to wait for an event, and feeds buttons to the         *)
(* hardware no faster than one in kButtonEventThreshold.                   *)
(***************************************************************************)
EXTENDS Naturals, Sequences

CONSTANTS
  Points,     \* points of the screen
  MaxPosts,   \* bound on the events the user posts
  Gremlins    \* does the user start Gremlins?

Up == "up"
Key == "key"

VARIABLES
  ui,                              \* place of the user-interface thread in Post...Event
  finger, thumb,                   \* the user: a point touched or Up, a button held or not
  hordesOn,                        \* Hordes::IsOn
  fKeyQueue, fPenQueue, fButtonQueue,
  fLastPenEvent, throttled,        \* gLastButtonEvent is less than kButtonEventThreshold ago
  cpu,                             \* what the ROM is doing
  woken,                           \* EvtWakeup has been called
  devicePen, fKeyBits, asleep,     \* what the device knows of the pen and of the button
  posts                            \* events posted so far

user == <<finger, thumb, posts>>
queues == <<fKeyQueue, fPenQueue, fButtonQueue, fLastPenEvent, throttled>>
machine == <<devicePen, fKeyBits, asleep>>
eventVars == <<ui, finger, thumb, hordesOn, fKeyQueue, fPenQueue, fButtonQueue, fLastPenEvent,
               throttled, cpu, woken, devicePen, fKeyBits, asleep, posts>>

EventsTypeOK ==
  /\ ui \in {"idle", "put", "waking"}
  /\ {finger, devicePen, fLastPenEvent} \subseteq Points \union {Up}
  /\ fPenQueue \in Seq(Points \union {Up}) /\ fKeyQueue \in Seq({Key}) /\ fButtonQueue \in Seq(BOOLEAN)
  /\ {thumb, hordesOn, throttled, woken, fKeyBits, asleep} \subseteq BOOLEAN
  /\ cpu \in {"app", "asking", "doze", "entering", "stopped"}
  /\ asleep <=> cpu \in {"entering", "stopped"}

EventsInit ==
  /\ ui = "idle" /\ finger = Up /\ thumb = FALSE /\ hordesOn = FALSE /\ posts = 0
  /\ fKeyQueue = << >> /\ fPenQueue = << >> /\ fButtonQueue = << >>
  /\ fLastPenEvent = Up /\ throttled = FALSE
  /\ cpu = "app" /\ woken = FALSE /\ devicePen = Up /\ fKeyBits = FALSE /\ asleep = FALSE

-----------------------------------------------------------------------------
(***************************************************************************)
(* The user and the user-interface thread.                                 *)
(***************************************************************************)
PrvCanBotherCPU == ~hordesOn

Posting == ui = "idle" /\ posts < MaxPosts /\ posts' = posts + 1

SameAsLastPoint(event) == finger = fLastPenEvent      \* mutant: compares points, and loses pen ups
SameAsLast(event) == event # Up /\ event = fLastPenEvent

\* The pen goes down, moves or goes up; the event is put unless it repeats the last.
PostPenEvent(event) ==
  /\ Posting /\ (event = Up => finger # Up)
  /\ finger' = event
  /\ IF PrvCanBotherCPU /\ ~SameAsLast(event)
     THEN fPenQueue' = Append(fPenQueue, event) /\ ui' = "put"
     ELSE UNCHANGED <<fPenQueue, ui>>
  /\ UNCHANGED <<thumb, hordesOn, fKeyQueue, fButtonQueue, fLastPenEvent, throttled, cpu, woken, machine>>

\* "Remember this event for the next time", and wake the CPU.
RememberPenEvent ==
  /\ ui = "put"
  /\ fLastPenEvent' = finger
  /\ ui' = "waking"
  /\ UNCHANGED <<user, hordesOn, fKeyQueue, fPenQueue, fButtonQueue, throttled, cpu, woken, machine>>

PostKeyEvent ==
  /\ Posting /\ PrvCanBotherCPU
  /\ fKeyQueue' = Append(fKeyQueue, Key) /\ ui' = "waking"
  /\ UNCHANGED <<finger, thumb, hordesOn, fPenQueue, fButtonQueue, fLastPenEvent, throttled, cpu, woken, machine>>

PostButtonEvent ==
  /\ Posting
  /\ thumb' = ~thumb
  /\ fButtonQueue' = IF PrvCanBotherCPU THEN Append(fButtonQueue, thumb') ELSE fButtonQueue
  /\ UNCHANGED <<ui, finger, hordesOn, fKeyQueue, fPenQueue, fLastPenEvent, throttled, cpu, woken, machine>>

\* A stop at a system call: the ROM makes them while it runs, and in its interrupt handlers while
\* it dozes, but not in its sleep.
AtSysCall == cpu \in {"asking", "doze"}

PrvWakeUpCPU ==
  /\ ui = "waking" /\ AtSysCall
  /\ woken' = TRUE /\ ui' = "idle"
  /\ UNCHANGED <<user, hordesOn, queues, cpu, machine>>

StartOrStopGremlins ==
  /\ Gremlins /\ ui = "idle" /\ AtSysCall
  /\ hordesOn' = ~hordesOn
  /\ UNCHANGED <<ui, user, queues, cpu, woken, machine>>

-----------------------------------------------------------------------------
(***************************************************************************)
(* The CPU thread.                                                         *)
(***************************************************************************)
\* EvtGetEvent or EvtGetPen finds nothing in the queues of the ROM and calls SysEvGroupWait.
SysEvGroupWait ==
  /\ cpu = "app" /\ cpu' = "asking"
  /\ UNCHANGED <<ui, user, hordesOn, queues, woken, machine>>

\* mutant: the first check is made for pen events only.
PuppetStringPen ==
  /\ cpu = "asking"
  /\ IF ~hordesOn /\ fPenQueue # << >>
     THEN fPenQueue' = Tail(fPenQueue) /\ devicePen' = Head(fPenQueue) /\ cpu' = "app" /\ UNCHANGED woken
     ELSE cpu' = (IF woken THEN "app" ELSE "doze") /\ woken' = FALSE /\ UNCHANGED <<fPenQueue, devicePen>>
  /\ UNCHANGED <<ui, user, hordesOn, fKeyQueue, fButtonQueue, fLastPenEvent, throttled, fKeyBits, asleep>>

\* The head patch.  An event that is enqueued makes the wait return at once.
PuppetString ==
  /\ cpu = "asking"
  /\ CASE hordesOn -> cpu' = "app" /\ UNCHANGED <<fKeyQueue, fPenQueue, devicePen, woken>>
       [] ~hordesOn /\ fKeyQueue # << >> ->
            fKeyQueue' = Tail(fKeyQueue) /\ cpu' = "app" /\ UNCHANGED <<fPenQueue, devicePen, woken>>
       [] ~hordesOn /\ fKeyQueue = << >> /\ fPenQueue # << >> ->
            /\ fPenQueue' = Tail(fPenQueue) /\ devicePen' = Head(fPenQueue)
            /\ cpu' = "app" /\ UNCHANGED <<fKeyQueue, woken>>
       [] OTHER ->
            /\ cpu' = IF woken THEN "app" ELSE "doze"
            /\ woken' = FALSE /\ UNCHANGED <<fKeyQueue, fPenQueue, devicePen>>
  /\ UNCHANGED <<ui, user, hordesOn, fButtonQueue, fLastPenEvent, throttled, fKeyBits, asleep>>

EndOfDoze ==
  /\ cpu = "doze" /\ woken
  /\ cpu' = "app" /\ woken' = FALSE
  /\ UNCHANGED <<ui, user, hordesOn, queues, machine>>

Timeout ==
  /\ cpu = "doze" /\ cpu' = "app"
  /\ UNCHANGED <<ui, user, hordesOn, queues, woken, machine>>

\* The device is switched off by the ROM: for want of use, by the button, or by a Gremlin.
Sleep ==
  /\ cpu = "app" /\ cpu' = "entering" /\ asleep' = TRUE
  /\ UNCHANGED <<ui, user, hordesOn, queues, woken, devicePen, fKeyBits>>

HasButtonEvent == ~throttled /\ fButtonQueue # << >>

\* The beginning of ExecuteStoppedLoop: while Gremlins runs, press the power button.
ExecuteStoppedLoop ==
  /\ cpu = "entering" /\ cpu' = "stopped"
  /\ IF hordesOn /\ ~HasButtonEvent
     THEN fButtonQueue' = fButtonQueue \o <<TRUE, FALSE>> /\ throttled' = FALSE
     ELSE UNCHANGED <<fButtonQueue, throttled>>
  /\ UNCHANGED <<ui, user, hordesOn, fKeyQueue, fPenQueue, fLastPenEvent, woken, machine>>

\* An interrupt of the clock, or a stop of the CPU thread, during the loop.
Interrupt ==
  /\ cpu = "stopped"
  /\ cpu' = IF fKeyBits THEN "app" ELSE "entering"
  /\ asleep' = ~fKeyBits
  /\ UNCHANGED <<ui, user, hordesOn, queues, woken, devicePen, fKeyBits>>

\* GetButtonEvent, and the pressed button wakes a device that is asleep.
CycleSlowly ==
  /\ HasButtonEvent
  /\ fButtonQueue' = Tail(fButtonQueue) /\ throttled' = TRUE
  /\ fKeyBits' = Head(fButtonQueue)
  /\ cpu' = IF cpu = "stopped" /\ fKeyBits' THEN "app" ELSE cpu
  /\ asleep' = (asleep /\ cpu' # "app")
  /\ UNCHANGED <<ui, user, hordesOn, fKeyQueue, fPenQueue, fLastPenEvent, woken, devicePen>>

ThresholdPasses ==
  /\ throttled /\ throttled' = FALSE
  /\ UNCHANGED <<ui, user, hordesOn, fKeyQueue, fPenQueue, fButtonQueue, fLastPenEvent, cpu, woken, machine>>

\* EmSession::Reset, other than the one the ROM makes of itself.
ResetEvents ==
  /\ fKeyQueue' = << >> /\ fPenQueue' = << >> /\ fButtonQueue' = << >>
  /\ fLastPenEvent' = Up
  /\ cpu' = "app" /\ woken' = FALSE /\ hordesOn' = FALSE
  /\ devicePen' = Up /\ fKeyBits' = FALSE /\ asleep' = FALSE
  /\ UNCHANGED <<ui, user, throttled>>

User == \/ \E p \in Points \union {Up} : PostPenEvent(p)
        \/ PostKeyEvent \/ PostButtonEvent \/ StartOrStopGremlins
Rom == SysEvGroupWait \/ PuppetString \/ EndOfDoze
EventsNext == \/ User \/ RememberPenEvent \/ PrvWakeUpCPU
              \/ Rom \/ Timeout \/ Sleep \/ ExecuteStoppedLoop \/ Interrupt \/ CycleSlowly
              \/ ThresholdPasses \/ ResetEvents

\* Both threads run on; the user may rest, and a wait need not time out.
EventsSpec == EventsInit /\ [][EventsNext]_eventVars
              /\ WF_eventVars(RememberPenEvent) /\ SF_eventVars(PrvWakeUpCPU) /\ WF_eventVars(Rom)

-----------------------------------------------------------------------------
\* What the user lets go of, the device lets go of: no pen or button stays down on it.
NothingSticks ==
  /\ finger = Up /\ fPenQueue = << >> => devicePen = Up
  /\ ~thumb /\ fButtonQueue = << >> => ~fKeyBits

\* A key or pen event wakes the ROM and is taken, unless the device is switched off.
EventsAreTaken == (fKeyQueue # << >> \/ fPenQueue # << >>) ~> ((fKeyQueue = << >> /\ fPenQueue = << >>) \/ asleep)

\* "have the Power button posted to the hardware registers immediately"
PowerPressedAtOnce ==
  [][cpu = "entering" /\ cpu' = "stopped" /\ fButtonQueue' # fButtonQueue => Head(fButtonQueue')]_eventVars
=============================================================================

---------------------------- MODULE PHEMNativeIF ----------------------------
(***************************************************************************)
(* Starting, pausing and shutting down the emulator from Java              *)
(* (SrcAndroid/PHEMNativeIF.cpp and the activity that calls it).           *)
(*                                                                         *)
(* Three threads: the user-interface thread, one background task at a time *)
(* (AsyncTask runs them in series), and the App thread that creates a      *)
(* session, sleeps, and closes it.  The session itself is EmSession; here  *)
(* it is its number and the count of stops this code holds on it.          *)
(***************************************************************************)
EXTENDS Integers

CONSTANTS
  MaxSessions,    \* bound on the sessions started
  HomeDuringLoad  \* may the activity be paused while a task replaces the session?

ASSUME SessionAssumption == MaxSessions \in Nat /\ HomeDuringLoad \in BOOLEAN

Replacing(p) == p \in {"shutting", "joining", "starting"}

VARIABLES
  app,          \* place of the App thread
  at,           \* place of the two callers
  shown,        \* the activity is in the foreground
  g_done, g_allow_idle, g_stop_count,
  g_stopper,    \* the EmSessionStopper: its session (0: no object), and whether it holds a stop
  g_stopper_mutex, g_loop_mutex,  \* their owners
  session,      \* gSession: the number of the live session, or 0
  started,      \* number of sessions started so far
  session_active,
  stops,        \* stops held on the live session
  paused        \* per caller, the session it has paused and not yet resumed, or 0

vars == <<app, at, shown, g_done, g_allow_idle, g_stop_count, g_stopper, g_stopper_mutex,
          g_loop_mutex, session, started, session_active, stops, paused>>
appVars   == <<app, g_done, g_allow_idle, g_loop_mutex, session, started, session_active>>
pauseVars == <<g_stop_count, g_stopper, g_stopper_mutex, stops, paused>>

Callers == {"ui", "task"}
NoStopper == [of |-> 0, held |-> FALSE]

\* Where a caller is: outside, waiting for g_stopper_mutex or inside SuspendThread (and what it
\* will do with the pause), about to resume, about to shut down, waiting in join.
Places == {"idle", "wantsPause", "suspending", "working", "wantsResume", "shutting", "joining", "starting"}

TypeOK ==
  /\ app \in {"none", "starting", "test", "waits", "waiting", "woken", "blocking", "closing", "ended"}
  /\ at \in [Callers -> Places]
  /\ {shown, g_done, g_allow_idle, session_active} \subseteq BOOLEAN
  /\ g_stop_count \in 0 .. 2
  /\ g_stopper \in [of : 0 .. MaxSessions, held : BOOLEAN]
  /\ g_stopper_mutex \in Callers \union {"free"}
  /\ g_loop_mutex \in {"free", "app"}
  /\ session \in 0 .. started /\ started \in 0 .. MaxSessions
  /\ stops \in 0 .. 1
  /\ paused \in [Callers -> 0 .. MaxSessions]

Init ==
  /\ app = "none" /\ at = [c \in Callers |-> "idle"] /\ shown = TRUE
  /\ g_done = FALSE /\ g_allow_idle = FALSE /\ session_active = FALSE
  /\ g_stop_count = 0 /\ g_stopper = NoStopper /\ stops = 0
  /\ g_stopper_mutex = "free" /\ g_loop_mutex = "free"
  /\ session = 0 /\ started = 0 /\ paused = [c \in Callers |-> 0]

Goto(c, p) == at' = [at EXCEPT ![c] = p]

(***************************************************************************)
(* Pausing.  Pause_Emulation keeps g_stopper_mutex while it waits for the  *)
(* CPU thread in SuspendThread.                                            *)
(***************************************************************************)
AfterPause(c) == IF c = "task" THEN "working" ELSE IF shown THEN "shutting" ELSE "idle"

\* Somebody else has stopped the session already: one more pause on the same stopper.
PauseAgain(c) ==
  /\ at[c] = "wantsPause" /\ g_stopper_mutex = "free" /\ g_stop_count > 0
  /\ g_stop_count' = g_stop_count + 1
  /\ paused' = [paused EXCEPT ![c] = session]
  /\ Goto(c, AfterPause(c))
  /\ UNCHANGED <<appVars, shown, g_stopper, g_stopper_mutex, stops>>

PauseFirst(c) ==
  /\ at[c] = "wantsPause" /\ g_stopper_mutex = "free" /\ g_stop_count = 0
  /\ g_stopper_mutex' = c
  /\ paused' = [paused EXCEPT ![c] = session]  \* gSession is read here
  /\ Goto(c, "suspending")
  /\ UNCHANGED <<appVars, shown, g_stop_count, g_stopper, stops>>

\* SuspendThread returns, with the stop or without it (a dialog is up, or the session has gone).
Paused(c) ==
  /\ at[c] = "suspending"
  /\ \E held \in {paused[c] = session /\ session # 0, FALSE} :
       /\ g_stopper' = [of |-> paused[c], held |-> held]
       /\ stops' = IF held THEN stops + 1 ELSE stops
  /\ g_stop_count' = g_stop_count + 1
  /\ g_stopper_mutex' = "free"
  /\ Goto(c, AfterPause(c))
  /\ UNCHANGED <<appVars, shown, paused>>

\* Deleting a stopper whose session was deleted touches freed memory; the
\* model lets that pass without an effect on the live session.
Resume_Emulation(c) ==
  /\ at[c] = "wantsResume" /\ g_stopper_mutex = "free"
  /\ g_stop_count' = IF g_stop_count = 0 THEN 0 ELSE g_stop_count - 1
  /\ IF g_stop_count = 1
       THEN /\ g_stopper' = NoStopper
            /\ stops' = IF g_stopper.held /\ g_stopper.of = session THEN stops - 1 ELSE stops
       ELSE UNCHANGED <<g_stopper, stops>>
  /\ paused' = [paused EXCEPT ![c] = 0]
  /\ Goto(c, "idle")
  /\ UNCHANGED <<appVars, shown, g_stopper_mutex>>

(***************************************************************************)
(* What the user and Android make the callers do.                          *)
(***************************************************************************)
OnPause ==
  /\ at["ui"] = "idle" /\ shown
  /\ HomeDuringLoad \/ ~Replacing(at["task"])
  /\ shown' = FALSE
  /\ Goto("ui", IF session_active THEN "wantsPause" ELSE "idle")
  /\ UNCHANGED <<appVars, pauseVars>>

OnResume ==
  /\ at["ui"] = "idle" /\ ~shown
  /\ shown' = TRUE
  /\ Goto("ui", IF session_active THEN "wantsResume" ELSE "idle")
  /\ UNCHANGED <<appVars, pauseVars>>

\* The last press of the back button: pause, shut down, and leave.  The dialog of a task in
\* progress does not let it through.
BackKey ==
  /\ at["ui"] = "idle" /\ at["task"] = "idle" /\ shown /\ session_active
  /\ Goto("ui", "wantsPause")
  /\ UNCHANGED <<appVars, pauseVars, shown>>

OnDestroy ==
  /\ at["ui"] = "idle" /\ ~shown /\ session_active
  /\ Goto("ui", "shutting")
  /\ UNCHANGED <<appVars, pauseVars, shown>>

Install ==
  /\ at["task"] = "idle" /\ at["ui"] = "idle" /\ shown /\ session_active
  /\ Goto("task", "wantsPause")
  /\ UNCHANGED <<appVars, pauseVars, shown>>

InstallDone ==
  /\ at["task"] = "working"
  /\ Goto("task", "wantsResume")
  /\ UNCHANGED <<appVars, pauseVars, shown>>

\* A session is loaded or made anew once the one before has appeared or has gone.
Load ==
  /\ at["task"] = "idle" /\ at["ui"] = "idle" /\ shown
  /\ session_active \/ app \in {"none", "ended"}
  /\ Goto("task", IF session_active THEN "shutting" ELSE "starting")
  /\ UNCHANGED <<appVars, pauseVars, shown>>

(***************************************************************************)
(* Shutting down and starting.  Shutdown_Emulator is a synchronized method *)
(* and looks at session_active under that lock.                            *)
(***************************************************************************)
AfterShutdown(c) == IF c = "task" THEN "starting" ELSE "idle"

ShutdownEmulator(c) ==
  /\ at[c] = "shutting" /\ \A d \in Callers : at[d] # "joining"
  /\ IF session_active
       THEN /\ g_loop_mutex = "free"
            /\ g_done' = TRUE
            /\ app' = IF app = "waiting" THEN "woken" ELSE app
            /\ Goto(c, "joining")
            /\ UNCHANGED shown
       ELSE /\ Goto(c, AfterShutdown(c))
            /\ shown' = (shown /\ c # "ui")
            /\ UNCHANGED <<g_done, app>>
  /\ UNCHANGED <<pauseVars, g_allow_idle, g_loop_mutex, session, started, session_active>>

JoinedKept(c) ==      \* mutant: the count of pauses outlives the session
  /\ at[c] = "joining" /\ app = "ended"
  /\ session_active' = FALSE
  /\ Goto(c, AfterShutdown(c))
  /\ shown' = (shown /\ c # "ui")
  /\ UNCHANGED <<app, g_done, g_allow_idle, g_loop_mutex, session, started, g_stop_count, g_stopper, g_stopper_mutex, stops, paused>>

Joined(c) ==
  /\ at[c] = "joining" /\ app = "ended"
  /\ g_stop_count' = 0
  /\ session_active' = FALSE
  /\ Goto(c, AfterShutdown(c))
  /\ shown' = (shown /\ c # "ui")
  /\ UNCHANGED <<app, g_done, g_allow_idle, g_loop_mutex, session, started, g_stopper, g_stopper_mutex, stops, paused>>

\* NewSession or RestartSession, Start_App.
StartApp ==
  /\ at["task"] = "starting" /\ started < MaxSessions
  /\ g_done' = FALSE
  /\ started' = started + 1
  /\ app' = "starting"
  /\ Goto("task", "idle")
  /\ UNCHANGED <<pauseVars, shown, g_allow_idle, g_loop_mutex, session, session_active>>

(***************************************************************************)
(* App_Run_Static.  It waits for g_loop_cond without holding g_loop_mutex: *)
(* pthread_cond_wait unlocks a mutex that is not its own, or that is free, *)
(* and comes back owning it; nothing here ever unlocks it again.           *)
(***************************************************************************)
App(from, to) == app = from /\ app' = to /\ UNCHANGED <<at, shown, pauseVars, started>>

\* The session is created, and its window tells Java; or the start-up fails.
Startup ==
  \/ /\ App("starting", "test")
     /\ session' = started /\ session_active' = TRUE /\ g_allow_idle' = TRUE
     /\ UNCHANGED <<g_done, g_loop_mutex>>
  \/ /\ App("starting", "ended")
     /\ UNCHANGED <<g_done, g_allow_idle, g_loop_mutex, session, session_active>>

TestDone ==
  /\ App("test", IF g_done THEN "blocking" ELSE "waits")
  /\ UNCHANGED <<g_done, g_allow_idle, g_loop_mutex, session, session_active>>

Wait ==
  /\ App("waits", "waiting")
  /\ g_loop_mutex' = "free"
  /\ UNCHANGED <<g_done, g_allow_idle, session, session_active>>

SpuriousWakeup ==
  /\ App("waiting", "woken")
  /\ UNCHANGED <<g_done, g_allow_idle, g_loop_mutex, session, session_active>>

Woken ==
  /\ g_loop_mutex = "free"
  /\ App("woken", "test")
  /\ g_loop_mutex' = "app"
  /\ UNCHANGED <<g_done, g_allow_idle, session, session_active>>

BlockIdle ==
  /\ App("blocking", "closing")
  /\ g_allow_idle' = FALSE /\ g_done' = FALSE
  /\ UNCHANGED <<g_loop_mutex, session, session_active>>

\* HandleSessionClose deletes the session, with all that was suspended in it.
HandleSessionClose ==
  /\ app = "closing" /\ app' = "ended"
  /\ session' = 0 /\ stops' = 0
  /\ UNCHANGED <<at, shown, g_stop_count, g_stopper, g_stopper_mutex, paused, started,
                 g_done, g_allow_idle, g_loop_mutex, session_active>>

AppStep == \/ Startup \/ TestDone \/ Wait \/ Woken \/ BlockIdle \/ HandleSessionClose
CallerStep(c) == \/ PauseAgain(c) \/ PauseFirst(c) \/ Paused(c) \/ Resume_Emulation(c)
                 \/ ShutdownEmulator(c) \/ Joined(c)

Next ==
  \/ AppStep \/ SpuriousWakeup
  \/ \E c \in Callers : CallerStep(c)
  \/ InstallDone \/ StartApp
  \/ OnPause \/ OnResume \/ BackKey \/ OnDestroy \/ Install \/ Load

\* Every thread goes on with what it is doing.
Fairness == /\ WF_vars(AppStep) /\ WF_vars(InstallDone)
            /\ \A c \in Callers : SF_vars(CallerStep(c))
Spec == Init /\ [][Next]_vars /\ Fairness

(***************************************************************************)
(* Properties                                                              *)
(***************************************************************************)
\* A pause in the live session keeps a stopper of that session, and whoever has not been
\* resumed is the only reason for a stop: none is left over from a caller or a session gone by.
PausesNest ==
  session # 0 =>
    /\ stops = 1 => \E c \in Callers : paused[c] = session
    /\ \A c \in Callers : paused[c] = session /\ at[c] # "suspending" =>
         g_stop_count > 0 /\ g_stopper.of = session

\* ShutdownEmulator returns: "Wake up the app thread, tell it to go away."
ShutdownEnds == \A c \in Callers : at[c] = "joining" ~> at[c] # "joining"
=============================================================================

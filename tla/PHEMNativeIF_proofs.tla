-------------------------- MODULE PHEMNativeIF_proofs --------------------------
(***************************************************************************)
(* What is proved of PHEMNativeIF: for any number of sessions, and while   *)
(* the activity is not paused in the middle of a change of session, the    *)
(* count of pauses and the one stopper that stands for them agree with the *)
(* callers.                                                                *)
(***************************************************************************)
EXTENDS PHEMNativeIF, TLAPS

Live == {"test", "waits", "waiting", "woken", "blocking", "closing"}

Types ==
  /\ app \in Live \union {"none", "starting", "ended"}
  /\ at \in [Callers -> Places]
  /\ shown \in BOOLEAN /\ g_done \in BOOLEAN /\ g_allow_idle \in BOOLEAN /\ session_active \in BOOLEAN
  /\ g_stop_count \in Nat
  /\ g_stopper \in [of : 0 .. started, held : BOOLEAN]
  /\ g_stopper_mutex \in Callers \union {"free"}
  /\ g_loop_mutex \in {"free", "app"}
  /\ started \in 0 .. MaxSessions
  /\ stops \in {0, 1}
  /\ paused \in [Callers -> 0 .. started]

\* The session, the flag Java looks at, and the App thread.
AppTracks ==
  /\ session \in {0, started}
  /\ session # 0 <=> app \in Live
  /\ session # 0 => session_active
  /\ app = "none" => started = 0
  /\ app = "starting" => /\ ~session_active /\ at["task"] = "idle"
                         /\ \A c \in Callers : paused[c] < started
                         /\ g_stopper.of < started

\* Where a caller may be, with the other where it is.
Exclusion ==
  /\ Replacing(at["task"]) => at["ui"] = "idle" /\ shown
  /\ at["task"] = "starting" => ~session_active /\ app \in {"none", "ended"}
  /\ at["task"] \in {"shutting", "joining"} => session_active
  /\ ~session_active => at["ui"] = "idle"
  /\ at["ui"] = "wantsResume" => shown
  /\ at["ui"] \notin {"starting", "working"}
  /\ \A c \in Callers : at[c] = "suspending" <=> g_stopper_mutex = c
  /\ g_stopper_mutex # "free" => g_stop_count = 0

\* The pauses that count.
Holds(c) == session # 0 /\ paused[c] = session /\ at[c] # "suspending"
Installing == at["task"] \in {"working", "wantsResume"}
Away == \/ ~shown /\ at["ui"] \notin {"wantsPause", "suspending"}
        \/ at["ui"] \in {"wantsResume", "shutting", "joining"}
One(b) == IF b THEN 1 ELSE 0

\* The count is that of the callers that hold a pause on the live session; with no session there
\* may be one more than that for each that has not come to its resume.
Counted ==
  /\ g_stop_count <= One(Away) + One(Installing)
  /\ ~session_active => g_stop_count <= One(Installing)
  /\ session # 0 => g_stop_count = One(Holds("ui")) + One(Holds("task"))
  /\ session # 0 /\ g_stop_count > 0 => g_stopper.of = session
  /\ stops = 1 <=> session # 0 /\ g_stopper.of = session /\ g_stopper.held
  /\ stops = 1 => g_stop_count > 0
  /\ g_stopper.held => g_stopper.of # 0

\* Who pauses the live session, and who comes to resume it.
Pairing ==
  session # 0 =>
    /\ at["task"] \in {"suspending", "working", "wantsResume"} <=> paused["task"] = session
    /\ at["ui"] = "suspending" => paused["ui"] = session
    /\ paused["ui"] = session => \/ at["ui"] \in {"suspending", "wantsResume", "shutting", "joining"}
                                 \/ at["ui"] = "idle" /\ ~shown
    /\ \/ at["ui"] = "wantsResume"
       \/ at["ui"] = "idle" /\ ~shown
       => paused["ui"] = session \/ at["task"] = "idle"

IInv == Types /\ AppTracks /\ Exclusion /\ Counted /\ Pairing

-----------------------------------------------------------------------------
\* A step of a caller leaves the other where it was.
LEMMA Moves ==
  ASSUME Types, NEW c \in Callers, NEW p \in Places, Goto(c, p)
  PROVE  /\ at' \in [Callers -> Places]
         /\ at'[c] = p
         /\ \A d \in Callers : d # c => at'[d] = at[d]
BY DEF Types, Goto

\* While a task replaces the session, the activity stays.
LEMMA OnPauseStep ==
  ASSUME IInv, ~HomeDuringLoad, OnPause
  PROVE  IInv'
<1>1. /\ at["ui"] = "idle" /\ shown /\ ~Replacing(at["task"]) /\ shown' = FALSE
      /\ Goto("ui", IF session_active THEN "wantsPause" ELSE "idle")
      /\ UNCHANGED <<app, g_done, g_allow_idle, g_loop_mutex, session, started, session_active>>
      /\ UNCHANGED <<g_stop_count, g_stopper, g_stopper_mutex, stops, paused>>
  BY DEF OnPause, appVars, pauseVars
<1>2. /\ at' \in [Callers -> Places]
      /\ at'["ui"] = IF session_active THEN "wantsPause" ELSE "idle"
      /\ at'["task"] = at["task"]
  BY <1>1, Moves DEF Callers, Places, IInv
<1>3. Types'
  BY <1>1, <1>2 DEF IInv, Types
<1>4. AppTracks'
  BY <1>1, <1>2 DEF IInv, AppTracks
<1>5. Exclusion'
  BY <1>1, <1>2 DEF IInv, Exclusion, Replacing, Callers
<1>6. Counted'
  BY <1>1, <1>2 DEF IInv, Types, Counted, Holds, One, Away, Installing
<1>7. Pairing'
  BY <1>1, <1>2 DEF IInv, AppTracks, Pairing
<1> QED
  BY <1>3, <1>4, <1>5, <1>6, <1>7 DEF IInv

LEMMA OnResumeStep ==
  ASSUME IInv, OnResume
  PROVE  IInv'
<1>1. /\ at["ui"] = "idle" /\ ~shown /\ shown' = TRUE
      /\ Goto("ui", IF session_active THEN "wantsResume" ELSE "idle")
      /\ UNCHANGED <<app, g_done, g_allow_idle, g_loop_mutex, session, started, session_active>>
      /\ UNCHANGED <<g_stop_count, g_stopper, g_stopper_mutex, stops, paused>>
  BY DEF OnResume, appVars, pauseVars
<1>2. /\ at' \in [Callers -> Places]
      /\ at'["ui"] = IF session_active THEN "wantsResume" ELSE "idle"
      /\ at'["task"] = at["task"]
  BY <1>1, Moves DEF Callers, Places, IInv
<1>3. Types'
  BY <1>1, <1>2 DEF IInv, Types
<1>4. AppTracks'
  BY <1>1, <1>2 DEF IInv, AppTracks
<1>5. Exclusion'
  BY <1>1, <1>2 DEF IInv, Exclusion, Replacing, Callers
<1>6. Counted'
  BY <1>1, <1>2 DEF IInv, Types, Counted, Holds, One, Away, Installing
<1>7. Pairing'
  BY <1>1, <1>2 DEF IInv, AppTracks, Pairing
<1> QED
  BY <1>3, <1>4, <1>5, <1>6, <1>7 DEF IInv

LEMMA BackKeyStep ==
  ASSUME IInv, BackKey
  PROVE  IInv'
<1>1. /\ at["ui"] = "idle" /\ at["task"] = "idle" /\ shown /\ session_active
      /\ Goto("ui", "wantsPause") /\ UNCHANGED shown
      /\ UNCHANGED <<app, g_done, g_allow_idle, g_loop_mutex, session, started, session_active>>
      /\ UNCHANGED <<g_stop_count, g_stopper, g_stopper_mutex, stops, paused>>
  BY DEF BackKey, appVars, pauseVars
<1>2. /\ at' \in [Callers -> Places]
      /\ at'["ui"] = "wantsPause"
      /\ at'["task"] = at["task"]
  BY <1>1, Moves DEF Callers, Places, IInv
<1>3. Types'
  BY <1>1, <1>2 DEF IInv, Types
<1>4. AppTracks'
  BY <1>1, <1>2 DEF IInv, AppTracks
<1>5. Exclusion'
  BY <1>1, <1>2 DEF IInv, Exclusion, Replacing, Callers
<1>6. Counted'
  BY <1>1, <1>2 DEF IInv, Types, Counted, Holds, One, Away, Installing
<1>7. Pairing'
  BY <1>1, <1>2 DEF IInv, AppTracks, Pairing
<1> QED
  BY <1>3, <1>4, <1>5, <1>6, <1>7 DEF IInv

LEMMA OnDestroyStep ==
  ASSUME IInv, OnDestroy
  PROVE  IInv'
<1>1. /\ at["ui"] = "idle" /\ ~shown /\ session_active
      /\ Goto("ui", "shutting") /\ UNCHANGED shown
      /\ UNCHANGED <<app, g_done, g_allow_idle, g_loop_mutex, session, started, session_active>>
      /\ UNCHANGED <<g_stop_count, g_stopper, g_stopper_mutex, stops, paused>>
  BY DEF OnDestroy, appVars, pauseVars
<1>2. /\ at' \in [Callers -> Places]
      /\ at'["ui"] = "shutting"
      /\ at'["task"] = at["task"]
  BY <1>1, Moves DEF Callers, Places, IInv
<1>3. Types'
  BY <1>1, <1>2 DEF IInv, Types
<1>4. AppTracks'
  BY <1>1, <1>2 DEF IInv, AppTracks
<1>5. Exclusion'
  BY <1>1, <1>2 DEF IInv, Exclusion, Replacing, Callers
<1>6. Counted'
  BY <1>1, <1>2 DEF IInv, Types, Counted, Holds, One, Away, Installing
<1>7. Pairing'
  BY <1>1, <1>2 DEF IInv, AppTracks, Pairing
<1> QED
  BY <1>3, <1>4, <1>5, <1>6, <1>7 DEF IInv

LEMMA InstallStep ==
  ASSUME IInv, Install
  PROVE  IInv'
<1>1. /\ at["task"] = "idle" /\ at["ui"] = "idle" /\ shown /\ session_active
      /\ Goto("task", "wantsPause") /\ UNCHANGED shown
      /\ UNCHANGED <<app, g_done, g_allow_idle, g_loop_mutex, session, started, session_active>>
      /\ UNCHANGED <<g_stop_count, g_stopper, g_stopper_mutex, stops, paused>>
  BY DEF Install, appVars, pauseVars
<1>2. /\ at' \in [Callers -> Places]
      /\ at'["task"] = "wantsPause"
      /\ at'["ui"] = at["ui"]
  BY <1>1, Moves DEF Callers, Places, IInv
<1>3. Types'
  BY <1>1, <1>2 DEF IInv, Types
<1>4. AppTracks'
  BY <1>1, <1>2 DEF IInv, AppTracks
<1>5. Exclusion'
  BY <1>1, <1>2 DEF IInv, Exclusion, Replacing, Callers
<1>6. Counted'
  BY <1>1, <1>2 DEF IInv, Types, Counted, Holds, One, Away, Installing
<1>7. Pairing'
  BY <1>1, <1>2 DEF IInv, AppTracks, Pairing
<1> QED
  BY <1>3, <1>4, <1>5, <1>6, <1>7 DEF IInv

LEMMA InstallDoneStep ==
  ASSUME IInv, InstallDone
  PROVE  IInv'
<1>1. /\ at["task"] = "working" /\ Goto("task", "wantsResume") /\ UNCHANGED shown
      /\ UNCHANGED <<app, g_done, g_allow_idle, g_loop_mutex, session, started, session_active>>
      /\ UNCHANGED <<g_stop_count, g_stopper, g_stopper_mutex, stops, paused>>
  BY DEF InstallDone, appVars, pauseVars
<1>2. /\ at' \in [Callers -> Places]
      /\ at'["task"] = "wantsResume"
      /\ at'["ui"] = at["ui"]
  BY <1>1, Moves DEF Callers, Places, IInv
<1>3. Types'
  BY <1>1, <1>2 DEF IInv, Types
<1>4. AppTracks'
  BY <1>1, <1>2 DEF IInv, AppTracks
<1>5. Exclusion'
  BY <1>1, <1>2 DEF IInv, Exclusion, Replacing, Callers
<1>6. Counted'
  BY <1>1, <1>2 DEF IInv, Types, Counted, Holds, One, Away, Installing
<1>7. Pairing'
  BY <1>1, <1>2 DEF IInv, AppTracks, Pairing
<1> QED
  BY <1>3, <1>4, <1>5, <1>6, <1>7 DEF IInv

LEMMA LoadStep ==
  ASSUME IInv, Load
  PROVE  IInv'
<1>1. /\ at["task"] = "idle" /\ at["ui"] = "idle" /\ shown
      /\ session_active \/ app \in {"none", "ended"}
      /\ Goto("task", IF session_active THEN "shutting" ELSE "starting") /\ UNCHANGED shown
      /\ UNCHANGED <<app, g_done, g_allow_idle, g_loop_mutex, session, started, session_active>>
      /\ UNCHANGED <<g_stop_count, g_stopper, g_stopper_mutex, stops, paused>>
  BY DEF Load, appVars, pauseVars
<1>2. /\ at' \in [Callers -> Places]
      /\ at'["task"] = IF session_active THEN "shutting" ELSE "starting"
      /\ at'["ui"] = at["ui"]
  BY <1>1, Moves DEF Callers, Places, IInv
<1>3. Types'
  BY <1>1, <1>2 DEF IInv, Types
<1>4. AppTracks'
  BY <1>1, <1>2 DEF IInv, AppTracks
<1>5. Exclusion'
  BY <1>1, <1>2 DEF IInv, Exclusion, Replacing, Callers
<1>6. Counted'
  BY <1>1, <1>2 DEF IInv, Types, Counted, Holds, One, Away, Installing
<1>7. Pairing'
  BY <1>1, <1>2 DEF IInv, AppTracks, Pairing
<1> QED
  BY <1>3, <1>4, <1>5, <1>6, <1>7 DEF IInv

\* Somebody holds a pause already: of the live session, if there is one.
LEMMA PauseAgainStep ==
  ASSUME IInv, NEW c \in Callers, PauseAgain(c)
  PROVE  IInv'
<1>1. /\ at[c] = "wantsPause" /\ g_stopper_mutex = "free" /\ g_stop_count > 0
      /\ g_stop_count' = g_stop_count + 1
      /\ paused' = [paused EXCEPT ![c] = session]
      /\ Goto(c, IF c = "task" THEN "working" ELSE IF shown THEN "shutting" ELSE "idle")
      /\ UNCHANGED <<app, g_done, g_allow_idle, g_loop_mutex, session, started, session_active>>
      /\ UNCHANGED <<shown, g_stopper, g_stopper_mutex, stops>>
  BY DEF PauseAgain, AfterPause, appVars
<1>2. /\ at' \in [Callers -> Places]
      /\ at'[c] = (IF c = "task" THEN "working" ELSE IF shown THEN "shutting" ELSE "idle")
      /\ \A d \in Callers : d # c => at'[d] = at[d]
  BY <1>1, Moves DEF Callers, Places, IInv
<1>3. /\ paused' \in [Callers -> 0 .. started] /\ paused'[c] = session
      /\ \A d \in Callers : d # c => paused'[d] = paused[d]
  BY <1>1 DEF IInv, Types, AppTracks, Callers
<1>4. CASE c = "ui"
  <2>1. "task" \in Callers /\ "task" # c
    BY <1>4 DEF Callers
  <2>2. Types'
    BY <1>1, <1>2, <1>3, <1>4, <2>1 DEF IInv, Types, AppTracks, Exclusion, Counted
  <2>3. AppTracks'
    BY <1>1, <1>2, <1>3, <1>4, <2>1 DEF IInv, Types, AppTracks, Exclusion, Pairing, Callers
  <2>4. Exclusion'
    BY <1>1, <1>2, <1>3, <1>4, <2>1 DEF IInv, Types, Exclusion, Replacing, Callers
  <2>5. Counted'
    BY <1>1, <1>2, <1>3, <1>4, <2>1 DEF IInv, Types, AppTracks, Exclusion, Counted, Pairing, Holds,
       One, Away, Installing, Callers, Replacing
  <2>6. Pairing'
    BY <1>1, <1>2, <1>3, <1>4, <2>1 DEF IInv, Types, AppTracks, Exclusion, Pairing, Callers, Replacing
  <2> QED
    BY <2>2, <2>3, <2>4, <2>5, <2>6 DEF IInv
<1>5. CASE c = "task"
  <2>1. "ui" \in Callers /\ "ui" # c
    BY <1>5 DEF Callers
  <2>2. Types'
    BY <1>1, <1>2, <1>3, <1>5, <2>1 DEF IInv, Types, AppTracks, Exclusion, Counted
  <2>3. AppTracks'
    BY <1>1, <1>2, <1>3, <1>5, <2>1 DEF IInv, Types, AppTracks, Exclusion, Pairing, Callers
  <2>4. Exclusion'
    BY <1>1, <1>2, <1>3, <1>5, <2>1 DEF IInv, Types, Exclusion, Replacing, Callers
  <2>5. Counted'
    BY <1>1, <1>2, <1>3, <1>5, <2>1 DEF IInv, Types, AppTracks, Exclusion, Counted, Pairing, Holds,
       One, Away, Installing, Callers, Replacing
  <2>6. Pairing'
    BY <1>1, <1>2, <1>3, <1>5, <2>1 DEF IInv, Types, AppTracks, Exclusion, Pairing, Callers, Replacing
  <2> QED
    BY <2>2, <2>3, <2>4, <2>5, <2>6 DEF IInv
<1> QED
  BY <1>4, <1>5 DEF Callers

LEMMA PauseFirstStep ==
  ASSUME IInv, NEW c \in Callers, PauseFirst(c)
  PROVE  IInv'
<1>1. /\ at[c] = "wantsPause" /\ g_stopper_mutex = "free" /\ g_stop_count = 0
      /\ g_stopper_mutex' = c
      /\ paused' = [paused EXCEPT ![c] = session]
      /\ Goto(c, "suspending")
      /\ UNCHANGED <<app, g_done, g_allow_idle, g_loop_mutex, session, started, session_active>>
      /\ UNCHANGED <<shown, g_stop_count, g_stopper, stops>>
  BY DEF PauseFirst, appVars
<1>2. /\ at' \in [Callers -> Places] /\ at'[c] = "suspending"
      /\ \A d \in Callers : d # c => at'[d] = at[d]
  BY <1>1, Moves DEF Callers, Places, IInv
<1>3. /\ paused' \in [Callers -> 0 .. started] /\ paused'[c] = session
      /\ \A d \in Callers : d # c => paused'[d] = paused[d]
  BY <1>1 DEF IInv, Types, AppTracks, Callers
<1>4. CASE c = "ui"
  <2>1. "task" \in Callers /\ "task" # c
    BY <1>4 DEF Callers
  <2>2. Types'
    BY <1>1, <1>2, <1>3, <1>4, <2>1 DEF IInv, Types, AppTracks, Exclusion, Counted
  <2>3. AppTracks'
    BY <1>1, <1>2, <1>3, <1>4, <2>1 DEF IInv, Types, AppTracks, Exclusion, Pairing, Callers
  <2>4. Exclusion'
    BY <1>1, <1>2, <1>3, <1>4, <2>1 DEF IInv, Types, Exclusion, Replacing, Callers
  <2>5. Counted'
    BY <1>1, <1>2, <1>3, <1>4, <2>1 DEF IInv, Types, AppTracks, Exclusion, Counted, Pairing, Holds,
       One, Away, Installing, Callers, Replacing
  <2>6. Pairing'
    BY <1>1, <1>2, <1>3, <1>4, <2>1 DEF IInv, Types, AppTracks, Exclusion, Pairing, Callers, Replacing
  <2> QED
    BY <2>2, <2>3, <2>4, <2>5, <2>6 DEF IInv
<1>5. CASE c = "task"
  <2>1. "ui" \in Callers /\ "ui" # c
    BY <1>5 DEF Callers
  <2>2. Types'
    BY <1>1, <1>2, <1>3, <1>5, <2>1 DEF IInv, Types, AppTracks, Exclusion, Counted
  <2>3. AppTracks'
    BY <1>1, <1>2, <1>3, <1>5, <2>1 DEF IInv, Types, AppTracks, Exclusion, Pairing, Callers
  <2>4. Exclusion'
    BY <1>1, <1>2, <1>3, <1>5, <2>1 DEF IInv, Types, Exclusion, Replacing, Callers
  <2>5. Counted'
    BY <1>1, <1>2, <1>3, <1>5, <2>1 DEF IInv, Types, AppTracks, Exclusion, Counted, Pairing, Holds,
       One, Away, Installing, Callers, Replacing
  <2>6. Pairing'
    BY <1>1, <1>2, <1>3, <1>5, <2>1 DEF IInv, Types, AppTracks, Exclusion, Pairing, Callers, Replacing
  <2> QED
    BY <2>2, <2>3, <2>4, <2>5, <2>6 DEF IInv
<1> QED
  BY <1>4, <1>5 DEF Callers

LEMMA PausedStep ==
  ASSUME IInv, NEW c \in Callers, Paused(c)
  PROVE  IInv'
<1>1. /\ at[c] = "suspending" /\ g_stopper_mutex' = "free"
      /\ g_stop_count' = g_stop_count + 1
      /\ Goto(c, IF c = "task" THEN "working" ELSE IF shown THEN "shutting" ELSE "idle")
      /\ UNCHANGED <<app, g_done, g_allow_idle, g_loop_mutex, session, started, session_active>>
      /\ UNCHANGED <<shown, paused>>
  BY DEF Paused, AfterPause, appVars
<1>2. /\ at' \in [Callers -> Places]
      /\ at'[c] = (IF c = "task" THEN "working" ELSE IF shown THEN "shutting" ELSE "idle")
      /\ \A d \in Callers : d # c => at'[d] = at[d]
  BY <1>1, Moves DEF Callers, Places, IInv
<1>3. PICK held \in BOOLEAN :
        /\ held => paused[c] = session /\ session # 0
        /\ g_stopper' = [of |-> paused[c], held |-> held]
        /\ stops' = IF held THEN stops + 1 ELSE stops
  BY DEF Paused
<1>4. /\ g_stopper' \in [of : 0 .. started, held : BOOLEAN] /\ g_stopper'.of = paused[c]
      /\ \/ ~g_stopper'.held /\ stops' = stops
         \/ g_stopper'.held /\ paused[c] = session /\ session # 0 /\ stops' = stops + 1
  <2>1. paused[c] \in 0 .. started
    BY DEF IInv, Types
  <2>2. /\ g_stopper' \in [of : 0 .. started, held : BOOLEAN]
        /\ g_stopper'.of = paused[c] /\ g_stopper'.held = held
    BY <1>3, <2>1
  <2> QED
    BY <1>3, <2>2
<1>5. CASE c = "ui"
  <2>1. "task" \in Callers /\ "task" # c
    BY <1>5 DEF Callers
  <2>2. Types'
    BY <1>1, <1>2, <1>4, <1>5, <2>1 DEF IInv, Types, AppTracks, Exclusion, Counted
  <2>3. AppTracks'
    BY <1>1, <1>2, <1>4, <1>5, <2>1 DEF IInv, Types, AppTracks, Exclusion, Pairing, Callers
  <2>4. Exclusion'
    BY <1>1, <1>2, <1>4, <1>5, <2>1 DEF IInv, Types, Exclusion, Replacing, Callers
  <2>5. Counted'
    BY <1>1, <1>2, <1>4, <1>5, <2>1 DEF IInv, Types, AppTracks, Exclusion, Counted, Pairing, Holds,
       One, Away, Installing, Callers, Replacing
  <2>6. Pairing'
    BY <1>1, <1>2, <1>4, <1>5, <2>1 DEF IInv, Types, AppTracks, Exclusion, Pairing, Callers, Replacing
  <2> QED
    BY <2>2, <2>3, <2>4, <2>5, <2>6 DEF IInv
<1>6. CASE c = "task"
  <2>1. "ui" \in Callers /\ "ui" # c
    BY <1>6 DEF Callers
  <2>2. Types'
    BY <1>1, <1>2, <1>4, <1>6, <2>1 DEF IInv, Types, AppTracks, Exclusion, Counted
  <2>3. AppTracks'
    BY <1>1, <1>2, <1>4, <1>6, <2>1 DEF IInv, Types, AppTracks, Exclusion, Pairing, Callers
  <2>4. Exclusion'
    BY <1>1, <1>2, <1>4, <1>6, <2>1 DEF IInv, Types, Exclusion, Replacing, Callers
  <2>5. Counted'
    BY <1>1, <1>2, <1>4, <1>6, <2>1 DEF IInv, Types, AppTracks, Exclusion, Counted, Pairing, Holds,
       One, Away, Installing, Callers, Replacing
  <2>6. Pairing'
    BY <1>1, <1>2, <1>4, <1>6, <2>1 DEF IInv, Types, AppTracks, Exclusion, Pairing, Callers, Replacing
  <2> QED
    BY <2>2, <2>3, <2>4, <2>5, <2>6 DEF IInv
<1> QED
  BY <1>5, <1>6 DEF Callers

\* Whoever resumes holds one of the pauses, or there is none.
LEMMA ResumeStep ==
  ASSUME IInv, NEW c \in Callers, Resume_Emulation(c)
  PROVE  IInv'
<1>1. /\ at[c] = "wantsResume" /\ g_stopper_mutex = "free"
      /\ g_stop_count' = IF g_stop_count = 0 THEN 0 ELSE g_stop_count - 1
      /\ paused' = [paused EXCEPT ![c] = 0]
      /\ Goto(c, "idle")
      /\ UNCHANGED <<app, g_done, g_allow_idle, g_loop_mutex, session, started, session_active>>
      /\ UNCHANGED <<shown, g_stopper_mutex>>
  BY DEF Resume_Emulation, appVars
<1>2. /\ at' \in [Callers -> Places] /\ at'[c] = "idle"
      /\ \A d \in Callers : d # c => at'[d] = at[d]
  BY <1>1, Moves DEF Callers, Places, IInv
<1>3. /\ paused' \in [Callers -> 0 .. started] /\ paused'[c] = 0
      /\ \A d \in Callers : d # c => paused'[d] = paused[d]
  BY <1>1 DEF IInv, Types, AppTracks, Callers
<1>4. /\ g_stopper' \in [of : 0 .. started, held : BOOLEAN]
      /\ \/ /\ g_stop_count = 1 /\ g_stopper'.of = 0 /\ ~g_stopper'.held
            /\ stops' = IF g_stopper.held /\ g_stopper.of = session THEN stops - 1 ELSE stops
         \/ g_stop_count # 1 /\ g_stopper' = g_stopper /\ stops' = stops
  <2>1. 0 \in 0 .. started
    BY SessionAssumption DEF IInv, Types
  <2>2. NoStopper \in [of : 0 .. started, held : BOOLEAN] /\ NoStopper.of = 0 /\ ~NoStopper.held
    BY <2>1 DEF NoStopper
  <2>3. g_stopper \in [of : 0 .. started, held : BOOLEAN] /\ UNCHANGED started
    BY <1>1 DEF IInv, Types
  <2>4. \/ /\ g_stop_count = 1 /\ g_stopper' = NoStopper
           /\ stops' = IF g_stopper.held /\ g_stopper.of = session THEN stops - 1 ELSE stops
        \/ g_stop_count # 1 /\ g_stopper' = g_stopper /\ stops' = stops
    BY DEF Resume_Emulation
  <2> QED
    BY <2>2, <2>3, <2>4
<1>5. CASE c = "ui"
  <2>1. "task" \in Callers /\ "task" # c
    BY <1>5 DEF Callers
  <2>2. Types'
    BY <1>1, <1>2, <1>3, <1>4, <1>5, <2>1 DEF IInv, Types, AppTracks, Exclusion, Counted
  <2>3. AppTracks'
    BY <1>1, <1>2, <1>3, <1>4, <1>5, <2>1 DEF IInv, Types, AppTracks, Exclusion, Pairing, Callers
  <2>4. Exclusion'
    BY <1>1, <1>2, <1>3, <1>4, <1>5, <2>1 DEF IInv, Types, Exclusion, Replacing, Callers
  <2>5. Counted'
    BY <1>1, <1>2, <1>3, <1>4, <1>5, <2>1 DEF IInv, Types, AppTracks, Exclusion, Counted, Pairing,
       Holds, One, Away, Installing, Callers, Replacing
  <2>6. Pairing'
    BY <1>1, <1>2, <1>3, <1>4, <1>5, <2>1 DEF IInv, Types, AppTracks, Exclusion, Pairing, Callers,
       Replacing
  <2> QED
    BY <2>2, <2>3, <2>4, <2>5, <2>6 DEF IInv
<1>6. CASE c = "task"
  <2>1. "ui" \in Callers /\ "ui" # c
    BY <1>6 DEF Callers
  <2>2. Types'
    BY <1>1, <1>2, <1>3, <1>4, <1>6, <2>1 DEF IInv, Types, AppTracks, Exclusion, Counted
  <2>3. AppTracks'
    BY <1>1, <1>2, <1>3, <1>4, <1>6, <2>1 DEF IInv, Types, AppTracks, Exclusion, Pairing, Callers
  <2>4. Exclusion'
    BY <1>1, <1>2, <1>3, <1>4, <1>6, <2>1 DEF IInv, Types, Exclusion, Replacing, Callers
  <2>5. Counted'
    BY <1>1, <1>2, <1>3, <1>4, <1>6, <2>1 DEF IInv, Types, AppTracks, Exclusion, Counted, Pairing,
       Holds, One, Away, Installing, Callers, Replacing
  <2>6. Pairing'
    BY <1>1, <1>2, <1>3, <1>4, <1>6, <2>1 DEF IInv, Types, AppTracks, Exclusion, Pairing, Callers,
       Replacing
  <2> QED
    BY <2>2, <2>3, <2>4, <2>5, <2>6 DEF IInv
<1> QED
  BY <1>5, <1>6 DEF Callers

LEMMA ShutdownStep ==
  ASSUME IInv, NEW c \in Callers, ShutdownEmulator(c)
  PROVE  IInv'
<1>1. /\ at[c] = "shutting" /\ session_active
      /\ g_done' = TRUE /\ app' = IF app = "waiting" THEN "woken" ELSE app
      /\ Goto(c, "joining") /\ UNCHANGED shown
      /\ UNCHANGED <<g_stop_count, g_stopper, g_stopper_mutex, stops, paused>>
      /\ UNCHANGED <<g_allow_idle, g_loop_mutex, session, started, session_active>>
  BY DEF ShutdownEmulator, pauseVars, IInv, Exclusion, Callers
<1>2. /\ at' \in [Callers -> Places] /\ at'[c] = "joining"
      /\ \A d \in Callers : d # c => at'[d] = at[d]
  BY <1>1, Moves DEF Callers, Places, IInv
<1>3. CASE c = "ui"
  <2>1. "task" \in Callers /\ "task" # c
    BY <1>3 DEF Callers
  <2>2. Types'
    BY <1>1, <1>2, <1>3, <2>1 DEF IInv, Types, Live
  <2>3. AppTracks'
    BY <1>1, <1>2, <1>3, <2>1 DEF IInv, Types, AppTracks, Exclusion, Callers, Live
  <2>4. Exclusion'
    BY <1>1, <1>2, <1>3, <2>1 DEF IInv, Types, AppTracks, Exclusion, Replacing, Callers
  <2>5. Counted'
    BY <1>1, <1>2, <1>3, <2>1 DEF IInv, Types, AppTracks, Exclusion, Counted, Pairing, Holds, One,
       Away, Installing, Callers, Replacing, Live
  <2>6. Pairing'
    BY <1>1, <1>2, <1>3, <2>1 DEF IInv, Types, AppTracks, Exclusion, Pairing, Callers, Replacing, Live
  <2> QED
    BY <2>2, <2>3, <2>4, <2>5, <2>6 DEF IInv
<1>4. CASE c = "task"
  <2>1. "ui" \in Callers /\ "ui" # c
    BY <1>4 DEF Callers
  <2>2. Types'
    BY <1>1, <1>2, <1>4, <2>1 DEF IInv, Types, Live
  <2>3. AppTracks'
    BY <1>1, <1>2, <1>4, <2>1 DEF IInv, Types, AppTracks, Exclusion, Callers, Live
  <2>4. Exclusion'
    BY <1>1, <1>2, <1>4, <2>1 DEF IInv, Types, AppTracks, Exclusion, Replacing, Callers
  <2>5. Counted'
    BY <1>1, <1>2, <1>4, <2>1 DEF IInv, Types, AppTracks, Exclusion, Counted, Pairing, Holds, One,
       Away, Installing, Callers, Replacing, Live
  <2>6. Pairing'
    BY <1>1, <1>2, <1>4, <2>1 DEF IInv, Types, AppTracks, Exclusion, Pairing, Callers, Replacing, Live
  <2> QED
    BY <2>2, <2>3, <2>4, <2>5, <2>6 DEF IInv
<1> QED
  BY <1>3, <1>4 DEF Callers

LEMMA JoinedStep ==
  ASSUME IInv, NEW c \in Callers, Joined(c)
  PROVE  IInv'
<1>1. /\ at[c] = "joining" /\ app = "ended"
      /\ g_stop_count' = 0 /\ session_active' = FALSE
      /\ Goto(c, IF c = "task" THEN "starting" ELSE "idle")
      /\ shown' = (shown /\ c # "ui")
      /\ UNCHANGED <<app, g_done, g_allow_idle, g_loop_mutex, session, started>>
      /\ UNCHANGED <<g_stopper, g_stopper_mutex, stops, paused>>
  BY DEF Joined, AfterShutdown
<1>2. /\ at' \in [Callers -> Places] /\ at'[c] = (IF c = "task" THEN "starting" ELSE "idle")
      /\ \A d \in Callers : d # c => at'[d] = at[d]
  BY <1>1, Moves DEF Callers, Places, IInv
<1>3. CASE c = "ui"
  <2>1. "task" \in Callers /\ "task" # c
    BY <1>3 DEF Callers
  <2>2. Types'
    BY <1>1, <1>2, <1>3, <2>1 DEF IInv, Types, Live
  <2>3. AppTracks'
    BY <1>1, <1>2, <1>3, <2>1 DEF IInv, Types, AppTracks, Exclusion, Callers, Live
  <2>4. Exclusion'
    BY <1>1, <1>2, <1>3, <2>1 DEF IInv, Types, AppTracks, Exclusion, Replacing, Callers
  <2>5. Counted'
    BY <1>1, <1>2, <1>3, <2>1 DEF IInv, Types, AppTracks, Exclusion, Counted, Pairing, Holds, One,
       Away, Installing, Callers, Replacing, Live
  <2>6. Pairing'
    BY <1>1, <1>2, <1>3, <2>1 DEF IInv, Types, AppTracks, Exclusion, Pairing, Callers, Replacing, Live
  <2> QED
    BY <2>2, <2>3, <2>4, <2>5, <2>6 DEF IInv
<1>4. CASE c = "task"
  <2>1. "ui" \in Callers /\ "ui" # c
    BY <1>4 DEF Callers
  <2>2. Types'
    BY <1>1, <1>2, <1>4, <2>1 DEF IInv, Types, Live
  <2>3. AppTracks'
    BY <1>1, <1>2, <1>4, <2>1 DEF IInv, Types, AppTracks, Exclusion, Callers, Live
  <2>4. Exclusion'
    BY <1>1, <1>2, <1>4, <2>1 DEF IInv, Types, AppTracks, Exclusion, Replacing, Callers
  <2>5. Counted'
    BY <1>1, <1>2, <1>4, <2>1 DEF IInv, Types, AppTracks, Exclusion, Counted, Pairing, Holds, One,
       Away, Installing, Callers, Replacing, Live
  <2>6. Pairing'
    BY <1>1, <1>2, <1>4, <2>1 DEF IInv, Types, AppTracks, Exclusion, Pairing, Callers, Replacing, Live
  <2> QED
    BY <2>2, <2>3, <2>4, <2>5, <2>6 DEF IInv
<1> QED
  BY <1>3, <1>4 DEF Callers

\* No pause is of the session to come.
LEMMA StartAppStep ==
  ASSUME IInv, StartApp
  PROVE  IInv'
<1>1. /\ at["task"] = "starting" /\ started < MaxSessions /\ ~session_active
      /\ g_done' = FALSE /\ started' = started + 1 /\ app' = "starting"
      /\ Goto("task", "idle") /\ UNCHANGED shown
      /\ UNCHANGED <<g_stop_count, g_stopper, g_stopper_mutex, stops, paused>>
      /\ UNCHANGED <<g_allow_idle, g_loop_mutex, session, session_active>>
  BY DEF StartApp, pauseVars, IInv, Exclusion
<1>2. /\ at' \in [Callers -> Places] /\ at'["task"] = "idle" /\ at'["ui"] = at["ui"]
  BY <1>1, Moves DEF Callers, Places, IInv
<1>3. /\ started \in Nat /\ started' \in 0 .. MaxSessions /\ g_stopper.of <= started
      /\ 0 .. started \subseteq 0 .. started' /\ \A c \in Callers : paused[c] <= started
  BY <1>1, SessionAssumption DEF IInv, Types
<1>4. Types'
  BY <1>1, <1>2, <1>3 DEF IInv, Types, Live
<1>5. AppTracks'
  BY <1>1, <1>2, <1>3 DEF IInv, Types, AppTracks, Exclusion, Callers, Live
<1>6. Exclusion'
  BY <1>1, <1>2, <1>3 DEF IInv, Types, AppTracks, Exclusion, Replacing, Callers
<1>7. Counted'
  BY <1>1, <1>2, <1>3 DEF IInv, Types, AppTracks, Exclusion, Counted, Pairing, Holds, One, Away,
     Installing, Callers, Replacing, Live
<1>8. Pairing'
  BY <1>1, <1>2, <1>3 DEF IInv, Types, AppTracks, Exclusion, Pairing, Callers, Replacing, Live
<1> QED
  BY <1>4, <1>5, <1>6, <1>7, <1>8 DEF IInv

LEMMA StartupStep ==
  ASSUME IInv, Startup
  PROVE  IInv'
<1>1. /\ app = "starting" /\ ~session_active /\ session = 0 /\ started > 0
      /\ g_loop_mutex' = g_loop_mutex /\ g_done' = g_done
      /\ UNCHANGED <<at, shown, started>>
      /\ UNCHANGED <<g_stop_count, g_stopper, g_stopper_mutex, stops, paused>>
  BY DEF Startup, App, pauseVars, IInv, Types, AppTracks, Live, Callers
<1>2. \/ app' = "test" /\ session' = started /\ session_active' = TRUE /\ g_allow_idle' = TRUE
      \/ app' = "ended" /\ session' = 0 /\ session_active' = FALSE /\ g_allow_idle' = g_allow_idle
  BY <1>1 DEF Startup, App, IInv, Types
<1>3. Types'
  BY <1>1, <1>2 DEF IInv, Types, Live
<1>4. AppTracks'
  BY <1>1, <1>2 DEF IInv, AppTracks, Live
<1>5. Exclusion'
  BY <1>1, <1>2 DEF IInv, AppTracks, Exclusion, Replacing, Callers
<1>6. Counted'
  BY <1>1, <1>2 DEF IInv, Types, AppTracks, Exclusion, Counted, Holds, One, Away, Installing, Callers
<1>7. Pairing'
  BY <1>1, <1>2 DEF IInv, Types, AppTracks, Exclusion, Pairing, Callers
<1> QED
  BY <1>3, <1>4, <1>5, <1>6, <1>7 DEF IInv

\* The App thread goes its round, or closes the session.
LEMMA RoundStep ==
  ASSUME IInv, TestDone \/ Wait \/ SpuriousWakeup \/ Woken \/ BlockIdle
  PROVE  IInv'
<1>1. /\ app \in Live /\ app' \in Live
      /\ g_done' \in BOOLEAN /\ g_allow_idle' \in BOOLEAN /\ g_loop_mutex' \in {"free", "app"}
      /\ UNCHANGED <<at, shown, started, session, session_active>>
      /\ UNCHANGED <<g_stop_count, g_stopper, g_stopper_mutex, stops, paused>>
  BY DEF TestDone, Wait, SpuriousWakeup, Woken, BlockIdle, App, pauseVars, Live, IInv, Types
<1>2. app' \notin {"none", "starting", "ended"} /\ app \notin {"none", "starting", "ended"}
  BY <1>1 DEF Live
<1>3. Types'
  BY <1>1 DEF IInv, Types
<1>4. AppTracks'
  BY <1>1, <1>2 DEF IInv, AppTracks
<1>5. Exclusion'
  BY <1>1, <1>2 DEF IInv, Exclusion
<1>6. Counted'
  BY <1>1 DEF IInv, Counted, Holds, Away, Installing
<1>7. Pairing'
  BY <1>1 DEF IInv, Pairing
<1> QED
  BY <1>3, <1>4, <1>5, <1>6, <1>7 DEF IInv

LEMMA CloseStep ==
  ASSUME IInv, HandleSessionClose
  PROVE  IInv'
<1>1. /\ app = "closing" /\ app' = "ended" /\ session' = 0 /\ stops' = 0
      /\ UNCHANGED <<at, shown, g_stop_count, g_stopper, g_stopper_mutex, paused, started>>
      /\ UNCHANGED <<g_done, g_allow_idle, g_loop_mutex, session_active>>
  BY DEF HandleSessionClose
<1>2. Types'
  BY <1>1 DEF IInv, Types, Live
<1>3. AppTracks'
  BY <1>1 DEF IInv, AppTracks, Live
<1>4. Exclusion'
  BY <1>1 DEF IInv, Exclusion, Replacing
<1>5. Counted'
  BY <1>1 DEF IInv, Types, Counted, Holds, Away, Installing, One
<1>6. Pairing'
  BY <1>1 DEF Pairing
<1> QED
  BY <1>2, <1>3, <1>4, <1>5, <1>6 DEF IInv

-----------------------------------------------------------------------------
LEMMA InitHolds == Init => IInv
<1> SUFFICES ASSUME Init PROVE IInv
  OBVIOUS
<1>1. /\ app = "none" /\ at["ui"] = "idle" /\ at["task"] = "idle" /\ shown = TRUE
      /\ g_stopper_mutex = "free" /\ g_stop_count = 0 /\ stops = 0 /\ session = 0 /\ started = 0
      /\ session_active = FALSE /\ g_done = FALSE /\ g_allow_idle = FALSE /\ g_loop_mutex = "free"
      /\ at \in [Callers -> Places] /\ \A c \in Callers : at[c] = "idle"
      /\ paused \in [Callers -> {0}]
  BY DEF Init, Callers, Places
<1>2. g_stopper \in [of : 0 .. 0, held : BOOLEAN] /\ ~g_stopper.held
  BY DEF Init, NoStopper
<1>3. Types
  <2>1. started \in 0 .. MaxSessions /\ 0 \in 0 .. started /\ 0 .. started = 0 .. 0
    BY <1>1, SessionAssumption
  <2>2. paused \in [Callers -> 0 .. started] /\ g_stopper \in [of : 0 .. started, held : BOOLEAN]
    BY <1>1, <1>2, <2>1
  <2> QED
    BY <1>1, <2>1, <2>2 DEF Types
<1>4. AppTracks /\ Exclusion /\ Counted /\ Pairing
  BY <1>1, <1>2 DEF AppTracks, Live, Exclusion, Callers, Replacing, Counted, Installing, Away, One,
     Pairing
<1> QED
  BY <1>3, <1>4 DEF IInv

LEMMA StepKeeps ==
  ASSUME ~HomeDuringLoad, IInv, [Next]_vars
  PROVE  IInv'
<1>1. ASSUME NEW c \in Callers, CallerStep(c) PROVE IInv'
  BY <1>1, PauseAgainStep, PauseFirstStep, PausedStep, ResumeStep, ShutdownStep,
     JoinedStep DEF CallerStep
<1>2. CASE AppStep \/ SpuriousWakeup
  BY <1>2, StartupStep, RoundStep, CloseStep DEF AppStep
<1>3. CASE InstallDone \/ StartApp
  BY <1>3, InstallDoneStep, StartAppStep
<1>4. CASE OnPause \/ OnResume \/ BackKey \/ OnDestroy \/ Install \/ Load
  BY <1>4, OnPauseStep, OnResumeStep, BackKeyStep, OnDestroyStep, InstallStep, LoadStep
<1>5. CASE UNCHANGED vars
  <2>1. Types' /\ AppTracks' /\ Pairing'
    BY <1>5 DEF vars, IInv, Types, AppTracks, Pairing
  <2>2. Exclusion'
    BY <1>5 DEF vars, IInv, Exclusion, Replacing
  <2>3. Counted'
    BY <1>5 DEF vars, IInv, Counted, Holds, Away, Installing, One
  <2> QED
    BY <2>1, <2>2, <2>3 DEF IInv
<1> QED
  BY <1>1, <1>2, <1>3, <1>4, <1>5 DEF Next

LEMMA Invariant == ~HomeDuringLoad => (Spec => []IInv)
<1> SUFFICES ASSUME ~HomeDuringLoad PROVE Spec => []IInv
  OBVIOUS
<1>1. IInv /\ [Next]_vars => IInv'
  BY StepKeeps
<1> QED
  BY <1>1, InitHolds, PTL DEF Spec

\* The types, for any number of sessions.  The stops on the live session are never more than one nor
\* less than none, however many callers pause it and in whatever order they resume: the count of the
\* code, and not the number of stoppers, follows the callers.
THEOREM PauseTypes == ~HomeDuringLoad => (Spec => []TypeOK)
<1> SUFFICES ASSUME ~HomeDuringLoad PROVE Spec => []TypeOK
  OBVIOUS
<1>1. IInv => TypeOK
  <2> SUFFICES ASSUME IInv PROVE TypeOK
    OBVIOUS
  <2>1. g_stop_count \in 0 .. 2
    BY DEF IInv, Types, Counted, One
  <2>2. started \in Nat /\ 0 .. started \subseteq 0 .. MaxSessions
    BY SessionAssumption DEF IInv, Types
  <2>3. g_stopper \in [of : 0 .. MaxSessions, held : BOOLEAN]
    BY <2>2 DEF IInv, Types
  <2>4. paused \in [Callers -> 0 .. MaxSessions]
    BY <2>2 DEF IInv, Types
  <2>5. session \in 0 .. started /\ stops \in 0 .. 1
    BY <2>2 DEF IInv, Types, AppTracks
  <2> QED
    BY <2>1, <2>3, <2>4, <2>5 DEF IInv, Types, Live, TypeOK
<1> QED
  BY <1>1, Invariant, PTL

\* A pause of the live session keeps a stopper of that session, and a stop is there for a caller that
\* has yet to resume: none outlives the caller or the session that it was for.  Proved for any number
\* of sessions, as long as the activity is not paused while a task replaces the session; where it
\* may be, Android's order of calls is what decides.
THEOREM PausesAreOfTheirSession == ~HomeDuringLoad => (Spec => []PausesNest)
<1> SUFFICES ASSUME ~HomeDuringLoad PROVE Spec => []PausesNest
  OBVIOUS
<1>1. IInv => PausesNest
  <2> SUFFICES ASSUME IInv, session # 0 PROVE PausesNest
    BY DEF PausesNest
  <2>1. stops = 1 => \E c \in Callers : paused[c] = session
    BY DEF IInv, Counted, One, Holds, Callers
  <2>2. \A c \in Callers : paused[c] = session /\ at[c] # "suspending" =>
          g_stop_count > 0 /\ g_stopper.of = session
    BY DEF IInv, Counted, One, Holds, Callers
  <2> QED
    BY <2>1, <2>2 DEF PausesNest
<1> QED
  BY <1>1, Invariant, PTL

=============================================================================

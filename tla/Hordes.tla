------------------------------- MODULE Hordes -------------------------------
(***************************************************************************)
(* A horde of Gremlins (Hordes.cpp, CGremlins.cpp): each Gremlin posts     *)
(* its pseudo-random events up to the next barrier, is put away in a       *)
(* suspended state, and the next one is started from the root state or     *)
(* resumed from its own, until all have crashed or reached the last depth. *)
(*                                                                         *)
(* A Gremlin's events follow from its number and from how many it has      *)
(* generated, so an event is its rank.  What a handler schedules is done   *)
(* by EmSession::ExecuteSpecial at the end of the same opcode.             *)
(***************************************************************************)
EXTENDS Integers, Sequences

CONSTANTS
  MaxStop,   \* bound on the Gremlins of a horde, numbered from 0
  MaxRounds, \* bound on gMaxDepth
  MaxRun,    \* bound on the events of one Gremlin
  Stepping   \* may the user press Step?

ASSUME HordesAssumption ==
  /\ MaxStop \in Nat /\ MaxRounds \in Nat /\ MaxRun \in Nat
  /\ Stepping \in BOOLEAN

Forever == -1
Numbers == 0 .. MaxStop

VARIABLES
  range,         \* gGremlinStartNumber, gGremlinStopNumber
  gSwitchDepth, gMaxDepth, gCurrentDepth, gCurrentGremlin,
  halted,        \* gGremlinHaltedInError[...].fHalted
  gIsOn,
  gTheGremlin,   \* inited, counter, until, finalUntil, and the events it has generated
  scheduled,     \* the flags of the session
  device,        \* whose events the device has been sent, and how many
  fgEvents,      \* EmEventPlayback: the rank of the last event recorded; are they all there, in order?
  files,         \* the suspended state of each Gremlin, and its events; the root state
  reached,       \* the furthest event limit each Gremlin has finished to
  ended          \* EndHordes has been called

horde == <<range, gSwitchDepth, gMaxDepth, gCurrentDepth, gCurrentGremlin, halted>>
hordesVars == <<range, gSwitchDepth, gMaxDepth, gCurrentDepth, gCurrentGremlin, halted, gIsOn,
                gTheGremlin, scheduled, device, fgEvents, files, reached, ended>>

Least(a, b) == IF a < b THEN a ELSE b
Fresh(until) == [inited |-> TRUE, counter |-> 0, until |-> until, finalUntil |-> gMaxDepth', generated |-> 0]
Recorded(events, rank) == [last |-> rank, intact |-> events.intact /\ rank = events.last + 1]
Nothing == [last |-> 0, intact |-> TRUE]
NoEvents == [of |-> 0, count |-> 0]
Blank == [gremlin |-> [inited |-> FALSE, counter |-> 0, until |-> 0, finalUntil |-> 0, generated |-> 0],
          device |-> NoEvents, on |-> FALSE]
Members == range.first .. range.last

HordesTypeOK ==
  /\ range \in [first : Numbers, last : Numbers] /\ gCurrentGremlin \in Numbers
  /\ gSwitchDepth \in {Forever} \union 1 .. MaxRounds /\ gMaxDepth \in {Forever} \union 1 .. MaxRounds
  /\ gCurrentDepth \in -1 .. MaxRun /\ halted \subseteq Numbers
  /\ gTheGremlin.until \in {Forever} \union 0 .. MaxRounds * (MaxRun + 1)
  /\ fgEvents.last \in 0 .. MaxRun
  /\ {gIsOn, ended} \subseteq BOOLEAN

HordesInit ==
  /\ range = [first |-> 0, last |-> 0] /\ gSwitchDepth = Forever /\ gMaxDepth = Forever
  /\ gCurrentDepth = 0 /\ gCurrentGremlin = 0 /\ halted = {}
  /\ gIsOn = FALSE /\ gTheGremlin = Blank.gremlin /\ scheduled = {}
  /\ device = NoEvents /\ fgEvents = Nothing
  /\ files = [root |-> Blank, suspended |-> [g \in Numbers |-> Blank], events |-> [g \in Numbers |-> Nothing]]
  /\ reached = [g \in Numbers |-> 0] /\ ended = FALSE

-----------------------------------------------------------------------------
(***************************************************************************)
(* Moving on to the next Gremlin.                                          *)
(***************************************************************************)
Size == range.last - range.first + 1

FollowingSameDepth(n) ==      \* mutant: the next round is at the same depth
  [gremlin |-> IF gCurrentGremlin + n <= range.last THEN gCurrentGremlin + n ELSE gCurrentGremlin + n - Size,
   depth   |-> gCurrentDepth]

\* What ProposeNextGremlin proposes when it is called for the n-th time, at most once for each Gremlin.
Following(n) ==
  IF gCurrentGremlin + n <= range.last
  THEN [gremlin |-> gCurrentGremlin + n, depth |-> gCurrentDepth]
  ELSE [gremlin |-> gCurrentGremlin + n - Size,
        depth   |-> IF gCurrentDepth >= 0 THEN gCurrentDepth + 1 ELSE gCurrentDepth]

SearchAny(h) == {Following(1)}      \* mutant: runs those that crashed

\* The search of NextGremlin: the first to follow that has not halted, or none.
Search(h) ==
  {Following(n) : n \in {i \in 1 .. Size : /\ Following(i).gremlin \notin h
                                        /\ \A j \in 1 .. (i - 1) : Following(j).gremlin \in h}}

\* gMaxDepth / gSwitchDepth and gMaxDepth % gSwitchDepth, also with a gSwitchDepth of -1.
LastRound == IF gSwitchDepth = Forever THEN -gMaxDepth ELSE gMaxDepth \div gSwitchDepth
Rest == IF gSwitchDepth = Forever THEN 0 ELSE gMaxDepth % gSwitchDepth

BeyondMaxDepthEarly(depth) ==      \* mutant: what is left of a depth that does not divide evenly is skipped
  gMaxDepth # Forever /\ depth >= LastRound

BeyondMaxDepth(depth) ==
  gMaxDepth # Forever /\ (depth > LastRound \/ (depth = LastRound /\ Rest = 0))

\* NextGremlin, with Stop and EndHordes.
NextGremlin(h) ==
  /\ halted' = h
  /\ gIsOn' = FALSE
  /\ \/ /\ Search(h) = {}
        /\ UNCHANGED <<gCurrentGremlin, gCurrentDepth>>
        /\ ended' = TRUE
     \/ \E next \in Search(h) :
          /\ gCurrentGremlin' = next.gremlin /\ gCurrentDepth' = next.depth
          /\ ended' = (ended \/ BeyondMaxDepth(next.depth))
  /\ LET over == Search(h) = {} \/ BeyondMaxDepth(gCurrentDepth')
     IN /\ fgEvents' = IF over THEN Nothing ELSE fgEvents
        /\ scheduled' = IF over
             THEN IF range.first = range.last THEN scheduled ELSE scheduled \union {"loadRoot"}
             ELSE scheduled \union {IF gCurrentDepth' = 0 THEN "fromRoot" ELSE "fromSuspended"}
  /\ UNCHANGED <<range, gSwitchDepth, gMaxDepth, gTheGremlin, device>>

-----------------------------------------------------------------------------
(***************************************************************************)
(* The user.                                                               *)
(***************************************************************************)
\* Hordes::New, with the root state it saves.  The dialog passes -1 for a box that is not checked
\* and the number beside it, which may be 0, for one that is.
Depth(d) == IF d = 0 THEN Forever ELSE d

New(last, switch, max) ==
  /\ range' = [first |-> 0, last |-> last]
  /\ gSwitchDepth' = Depth(IF switch = Forever \/ last = 0 THEN max ELSE switch)
  /\ gMaxDepth' = Depth(max)
  /\ gCurrentDepth' = 0 /\ gCurrentGremlin' = 0 /\ halted' = {}
  /\ gTheGremlin' = Fresh(IF gMaxDepth' = Forever THEN gSwitchDepth' ELSE Least(gSwitchDepth', gMaxDepth'))
  /\ device' = NoEvents /\ fgEvents' = Nothing
  /\ files' = [files EXCEPT !.root = [gremlin |-> gTheGremlin', device |-> NoEvents, on |-> FALSE]]
  /\ gIsOn' = TRUE
  /\ UNCHANGED <<scheduled, reached, ended>>

StartHorde ==
  /\ ~gTheGremlin.inited
  /\ \E last \in Numbers, switch, max \in {Forever} \union 0 .. MaxRounds : New(last, switch, max)

\* Hordes::Stop, from the control window.
Stop ==
  /\ gIsOn /\ scheduled = {} /\ gIsOn' = FALSE
  /\ UNCHANGED <<horde, gTheGremlin, scheduled, device, fgEvents, files, reached, ended>>

CanResume == gTheGremlin.inited /\ ~gIsOn /\ scheduled = {} /\ ~ended

Resume ==
  /\ CanResume /\ gIsOn' = TRUE
  /\ gTheGremlin' = [gTheGremlin EXCEPT !.until = gTheGremlin.finalUntil]
  /\ UNCHANGED <<horde, scheduled, device, fgEvents, files, reached, ended>>

\* Hordes::Step: "Spoof info to look as if this was a single Gremlin run."
Step ==
  /\ Stepping /\ CanResume /\ gTheGremlin.counter < MaxRun
  /\ gIsOn' = TRUE
  /\ gCurrentDepth' = gMaxDepth
  /\ range' = [first |-> gCurrentGremlin, last |-> gCurrentGremlin]
  /\ gTheGremlin' = [gTheGremlin EXCEPT !.until = gTheGremlin.counter + 1]
  /\ UNCHANGED <<gSwitchDepth, gMaxDepth, gCurrentGremlin, halted, scheduled, device, fgEvents, files, reached, ended>>

-----------------------------------------------------------------------------
(***************************************************************************)
(* The CPU thread asks for events while Hordes is on.                      *)
(***************************************************************************)
Running == gIsOn /\ scheduled = {}
Limited == gTheGremlin.until > 0
PastLimit == Limited /\ gTheGremlin.counter > gTheGremlin.until

\* The Gremlin generates an event, which is recorded, and counts it: BumpCounter.
Generate(generates) ==
  /\ gTheGremlin.counter < MaxRun
  /\ gTheGremlin' = [gTheGremlin EXCEPT !.counter = @ + 1, !.generated = @ + IF generates THEN 1 ELSE 0]
  /\ fgEvents' = IF generates THEN Recorded(fgEvents, gTheGremlin'.generated) ELSE fgEvents
  /\ device' = [of |-> gCurrentGremlin, count |-> gTheGremlin'.generated]
  /\ scheduled' = IF Limited /\ gTheGremlin.until = gTheGremlin'.counter
                  THEN scheduled \union {"saveSuspended"} ELSE scheduled
  /\ UNCHANGED <<horde, gIsOn, files, reached, ended>>

\* GetFakeEvent gives up beyond its own limit, which may be 0.
PostFakeEvent ==
  /\ Running /\ ~PastLimit
  /\ LET endOfDays == gTheGremlin.until >= 0 /\ gTheGremlin.counter > gTheGremlin.until
     IN \E generates \in BOOLEAN : (generates => ~endOfDays) /\ Generate(generates)

PostFakePenEvent == Running /\ Generate(TRUE)

\* SaveEvents writes what is recorded to the file of the current Gremlin.
Saved == [files EXCEPT !.events[gCurrentGremlin] = fgEvents]

StopEventReached ==
  /\ Running /\ PastLimit
  /\ reached' = [reached EXCEPT ![gCurrentGremlin] = IF @ < gTheGremlin.until THEN gTheGremlin.until ELSE @]
  /\ files' = Saved
  /\ NextGremlin(halted)

\* EmExceptionNextGremlin::DoAction.  With a negative depth the search for another Gremlin never
\* ends, which is left out.
ErrorEncountered ==
  /\ Running /\ device.count > 0 /\ gCurrentDepth >= 0
  /\ files' = Saved
  /\ NextGremlin(halted \union {gCurrentGremlin})
  /\ UNCHANGED reached

-----------------------------------------------------------------------------
(***************************************************************************)
(* EmSession::ExecuteSpecial, in the order in which it looks at the flags. *)
(***************************************************************************)
Order == <<"saveSuspended", "loadRoot", "fromRoot", "fromSuspended">>
First == Order[CHOOSE i \in DOMAIN Order : Order[i] \in scheduled /\ \A j \in 1 .. (i - 1) : Order[j] \notin scheduled]

Do(flag) == scheduled # {} /\ First = flag /\ scheduled' = scheduled \ {flag}

\* Loading makes until finalUntil; TurnOn takes what was saved.
LoadState(state) ==
  /\ device' = state.device /\ gIsOn' = state.on
  /\ gTheGremlin' = [state.gremlin EXCEPT !.until = state.gremlin.finalUntil]

SaveSuspendedState ==
  /\ Do("saveSuspended")
  /\ files' = [Saved EXCEPT !.suspended[gCurrentGremlin] = [gremlin |-> gTheGremlin, device |-> device, on |-> gIsOn]]
  /\ UNCHANGED <<horde, gIsOn, gTheGremlin, device, fgEvents, reached, ended>>

LoadRootState ==
  /\ Do("loadRoot")
  /\ LoadState(files.root) /\ fgEvents' = Nothing
  /\ UNCHANGED <<horde, files, reached, ended>>

StartGremlinFromLoadedRootState ==
  /\ Do("fromRoot")
  /\ device' = files.root.device /\ fgEvents' = Nothing
  /\ UNCHANGED <<range, gSwitchDepth, gMaxDepth, gCurrentDepth, gCurrentGremlin, halted>>
  /\ gTheGremlin' = Fresh(IF gMaxDepth = Forever THEN gSwitchDepth ELSE Least(gSwitchDepth, gMaxDepth))
  /\ gIsOn' = TRUE
  /\ UNCHANGED <<files, reached, ended>>

\* SetUntil after the load: the next barrier, or the end.
NextBarrier == LET u == gSwitchDepth * (gCurrentDepth + 1)
               IN IF gMaxDepth = Forever THEN u ELSE Least(u, gMaxDepth)

StartGremlinFromLoadedSuspendedState ==
  /\ Do("fromSuspended")
  /\ LET state == files.suspended[gCurrentGremlin]
     IN device' = state.device /\ gTheGremlin' = [state.gremlin EXCEPT !.until = NextBarrier]
  /\ fgEvents' = files.events[gCurrentGremlin]
  /\ gIsOn' = TRUE
  /\ UNCHANGED <<horde, files, reached, ended>>

ExecuteSpecial == \/ SaveSuspendedState \/ LoadRootState
                  \/ StartGremlinFromLoadedRootState \/ StartGremlinFromLoadedSuspendedState
RunGremlin == PostFakeEvent \/ PostFakePenEvent \/ StopEventReached

HordesNext == StartHorde \/ Stop \/ Resume \/ Step \/ RunGremlin \/ ErrorEncountered \/ ExecuteSpecial
\* The program under test asks for events for ever, and with EvtGetEvent again and again.
HordesSpec == HordesInit /\ [][HordesNext]_hordesVars
              /\ WF_hordesVars(ExecuteSpecial) /\ WF_hordesVars(RunGremlin) /\ WF_hordesVars(StopEventReached)

-----------------------------------------------------------------------------
\* A horde with a maximum whose Gremlins switch at a depth of 0, which New makes -1.
ZeroSwitch == gSwitchDepth = Forever /\ gMaxDepth # Forever

\* "All the Gremlins have reached gMaxDepth when the depth exceeds the depth necessary to reach
\* gMaxDepth": a horde is over only when every Gremlin has crashed or reached the last depth.
\* This does not hold for a ZeroSwitch, and neither does MaximumHolds; no run checks them.
AllHaveReached ==
  ended /\ ~Stepping => \A g \in Members : g \in halted \/ (gMaxDepth # Forever /\ reached[g] >= gMaxDepth)

\* "Will run each Gremlin until ... a maximum of N events": it stops at the event after.
MaximumHolds == Running /\ gMaxDepth # Forever => gTheGremlin.counter <= gMaxDepth + 1

\* Whatever the depths, but for a ZeroSwitch, no Gremlin is forgotten at the end of the horde.
NoGremlinForgotten == ZeroSwitch \/ AllHaveReached

\* The Gremlin that runs, runs on the device it left, and has not crashed.
RunsInItsOwnState ==
  Running /\ ~ended => /\ device.count = gTheGremlin.generated
                       /\ device.count > 0 => device.of = gCurrentGremlin
                       /\ gCurrentGremlin \notin halted

\* What is recorded is what the device has been sent: each event once, in order.
HistoryIsTrue == Running => fgEvents = [last |-> device.count, intact |-> TRUE]

\* Whenever Hordes is on, the Gremlin can post an event or has reached its limit.
OnMeansPosting == Running /\ gTheGremlin.until # Forever =>
                    PastLimit \/ gTheGremlin.counter <= gTheGremlin.until

\* A horde of limited depth comes to its end, unless the user stops it or it is a ZeroSwitch.
HordeEnds == (gIsOn /\ gMaxDepth # Forever /\ ~ZeroSwitch) ~> (ended \/ (~gIsOn /\ scheduled = {}))
=============================================================================

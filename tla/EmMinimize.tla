----------------------------- MODULE EmMinimize -----------------------------
(***************************************************************************)
(* Minimization (EmMinimize.cpp over EmEventPlayback.cpp): of the events   *)
(* a Gremlin has recorded before a crash, find few that still lead to it.  *)
(* The CPU thread replays the events with a range of them masked out, and  *)
(* the outcome of the replay decides which range is tried next.            *)
(*                                                                         *)
(* "call" names the function the CPU thread is about to call, because the  *)
(* user may press Stop in between; a whole replay is one action.  The      *)
(* program under test crashes once it has seen all the events of "needed". *)
(***************************************************************************)
EXTENDS Naturals, Sequences, SequencesExt

CONSTANTS
  MaxEvents,  \* bound on the events recorded
  kMaxRange,  \* ranges longer than this are split before they are tried
  Kinds       \* of {"key", "down", "up", "off"}: pen down and up; off puts the device to sleep

kLastPass == 0
Events == [id : 1 .. MaxEvents, kind : Kinds]
ErrorEvent == [id |-> 0, kind |-> "error"]
Recordings ==
  UNION {[1 .. n -> Kinds] : n \in 1 .. MaxEvents}

VARIABLES
  fgEvents, fgMask, fgReplaying,                         \* EmEventPlayback
  fgIsOn, fLevels, fgPassNumber, fgPassEndedInError,     \* EmMinimize; innermost level first
  call,
  device,     \* the program since the state was loaded: what it has seen, and its pen
  needed, tracks,   \* the program: what crashes it, and whether it follows the pen with EvtGetPen
  genuine     \* the recording, as first culled, did crash it

playVars == <<fgEvents, fgMask, fgReplaying, device>>
program  == <<needed, tracks, genuine>>
minVars  == <<fgEvents, fgMask, fgReplaying, fgIsOn, fLevels, fgPassNumber, fgPassEndedInError,
              call, device, needed, tracks, genuine>>

Loaded == [seen |-> {}, pen |-> "up"]
All(s) == [i \in DOMAIN s |-> TRUE]
Level(b, e, c) == [fBegin |-> b, fEnd |-> e, fChecked |-> c]
Top == Head(fLevels)
Span(l) == l.fEnd - l.fBegin
Asked(l) == (l.fBegin + 1) .. l.fEnd       \* the events of a range; sequences count from 1

MinTypeOK ==
  /\ fgEvents \in Seq(Events \union {ErrorEvent}) /\ Len(fgEvents) <= MaxEvents + 1
  /\ fgMask \in [DOMAIN fgEvents -> BOOLEAN]
  /\ {fgReplaying, fgIsOn, fgPassEndedInError, tracks, genuine} \subseteq BOOLEAN
  /\ \A i \in DOMAIN fLevels : fLevels[i].fBegin <= fLevels[i].fEnd /\ fLevels[i].fEnd <= Len(fgEvents)
  /\ fgPassNumber \in 0 .. MaxEvents + 1
  /\ call \in {"none", "split", "disable", "next", "complete", "replay"}

MinInit ==
  /\ fgEvents = << >> /\ fgMask = << >> /\ fgReplaying = FALSE
  /\ fgIsOn = FALSE /\ fLevels = << >> /\ fgPassNumber = 0 /\ fgPassEndedInError = FALSE
  /\ call = "none" /\ device = Loaded
  /\ needed = {} /\ tracks = FALSE /\ genuine = FALSE

-----------------------------------------------------------------------------
\* GetNextReplayEvent: a pen up is returned exactly when the pen is down, masked out or not.
Returned(e, enabled, penIsDown) == IF e.kind = "up" THEN penIsDown ELSE enabled

\* CullEvents: what would be returned, were it all taken with ReplayGetEvent.
CullEvents(evs, mask) ==
  FoldLeft(LAMBDA st, i :
             IF Returned(evs[i], mask[i], st.penIsDown)
             THEN [penIsDown |-> evs[i].kind = "down", kept |-> Append(st.kept, evs[i])]
             ELSE st,
           [penIsDown |-> FALSE, kept |-> << >>], [i \in DOMAIN evs |-> i]).kept

(***************************************************************************)
(* Playing one event.  The ROM asks with EvtGetPen while a program that    *)
(* follows the pen believes it down (ReplayGetPen), else with EvtGetEvent  *)
(* (ReplayGetEvent).  ReplayGetPen leaves fPenIsDown alone when it finds a *)
(* pen event; finding another, it makes up a pen up and puts the event     *)
(* back, to be had with the next ReplayGetEvent.  A pen up has no effect   *)
(* when the pen is up already.                                             *)
(***************************************************************************)
Play(st, e, i) ==
  LET byGetPen == tracks /\ st.device.pen = "down"
      seen == IF e.kind = "up" /\ st.device.pen = "up" THEN st.device.seen
              ELSE st.device.seen \union {e.id}
      pen  == CASE e.kind \in {"up", "down"} -> e.kind
                [] byGetPen -> "up"
                [] OTHER -> st.device.pen
  IN [device |-> [seen |-> seen, pen |-> pen],
      fPenIsDown |-> IF byGetPen /\ e.kind \in {"up", "down"} THEN st.fPenIsDown ELSE e.kind = "down",
      fIndex |-> i,
      outcome |-> CASE needed \subseteq seen -> "error"
                    [] e.kind = "off" -> "asleep"
                    [] OTHER -> "playing"]

\* A replay from the first event on, up to an error, a nap of the device, or the end.
Replay(evs, mask, dev) ==
  FoldLeft(LAMBDA st, i :
             IF st.outcome = "playing" /\ Returned(evs[i], mask[i], st.fPenIsDown)
             THEN Play(st, evs[i], i) ELSE st,
           [device |-> dev, fPenIsDown |-> FALSE, fIndex |-> 0, outcome |-> "playing"],
           [i \in DOMAIN evs |-> i])

\* CurrentRange, then EnableEvents or DisableEvents.
SetMask(from, to, value) ==
  [i \in DOMAIN fgMask |-> IF i \in (from + 1) .. to THEN value ELSE fgMask[i]]

InitialLevelEarly(evs) == <<Level(0, Len(fgEvents), FALSE)>>      \* mutant: before the events are culled
InitialLevel(evs) == <<Level(0, Len(evs), FALSE)>>

-----------------------------------------------------------------------------
\* DoMinimize: any recording that ends in an error, for any program.
\* EmMinimize::Start drops the error event and culls once before the first level is set up.
Start(kinds) ==
  /\ call = "none" /\ ~fgIsOn /\ fgEvents = << >>
  /\ LET evs == [i \in DOMAIN kinds |-> [id |-> i, kind |-> kinds[i]]]
     IN fgEvents' = CullEvents(evs, All(evs))
  /\ \E n \in (SUBSET (DOMAIN kinds)) \ {{}}, t \in BOOLEAN : needed' = n /\ tracks' = t
  /\ fgMask' = All(fgEvents')
  /\ genuine' = (needed' \subseteq {fgEvents'[i].id : i \in DOMAIN fgEvents'})
  /\ fgIsOn' = TRUE /\ fgPassNumber' = 1 /\ fLevels' = InitialLevel(fgEvents')
  /\ call' = "split"
  /\ UNCHANGED <<fgReplaying, fgPassEndedInError, device>>

HalvedShort(l) ==      \* mutant: the right half begins one event late
  LET mid == (l.fBegin + l.fEnd) \div 2
  IN <<Level(l.fBegin, mid, l.fChecked /\ mid - l.fBegin > 1),
       Level(IF mid + 1 < l.fEnd THEN mid + 1 ELSE mid, l.fEnd, l.fChecked /\ l.fEnd - mid > 1)>>

\* SplitAndStartAgain and one turn of the loop of SplitCurrentLevel.
Halved(l) ==
  LET mid == (l.fBegin + l.fEnd) \div 2
  IN <<Level(l.fBegin, mid, l.fChecked /\ mid - l.fBegin > 1),
       Level(mid, l.fEnd, l.fChecked /\ l.fEnd - mid > 1)>>

SplitAndStartAgain ==
  /\ call = "split"
  /\ IF Span(Top) <= 1
     THEN /\ fLevels' = [i \in DOMAIN fLevels |-> [fLevels[i] EXCEPT !.fChecked = FALSE]]
          /\ call' = "next"
     ELSE /\ fLevels' = Halved(Top) \o Tail(fLevels)
          /\ call' = IF Span(Head(fLevels')) <= kMaxRange THEN "disable" ELSE "split"
  /\ UNCHANGED <<playVars, fgIsOn, fgPassNumber, fgPassEndedInError, program>>

\* StartAgain: playback begins anew, and the saved state is loaded before the program runs on.
StartAgain == fgReplaying' = TRUE /\ device' = Loaded /\ call' = "replay"

DisableAndStartAgain ==
  /\ call = "disable"
  /\ IF Span(Top) = 1 /\ fgEvents[Top.fEnd].kind = "up"
     THEN call' = "next" /\ UNCHANGED <<fgMask, fgReplaying, device>>
     ELSE fgMask' = SetMask(Top.fBegin, Top.fEnd, FALSE) /\ StartAgain
  /\ UNCHANGED <<fgEvents, fgIsOn, fLevels, fgPassNumber, fgPassEndedInError, program>>

NextSubRange ==
  /\ call = "next"
  /\ fLevels' = Tail(fLevels)
  /\ call' = IF fLevels' = << >> THEN "complete"
             ELSE IF Head(fLevels').fChecked \/ Span(Head(fLevels')) > kMaxRange THEN "split"
             ELSE "disable"
  /\ UNCHANGED <<playVars, fgIsOn, fgPassNumber, fgPassEndedInError, program>>

\* MinimizationPassComplete, and MinimizationComplete, which records the
\* error event again for the file it saves.
MinimizationPassComplete ==
  /\ call = "complete"
  /\ LET culled == CullEvents(fgEvents, fgMask)
         done   == Len(culled) = Len(fgEvents) /\ fgPassNumber = kLastPass
     IN /\ fgEvents' = IF done THEN Append(culled, ErrorEvent) ELSE culled
        /\ fgMask' = All(fgEvents')
        /\ fLevels' = IF done THEN << >> ELSE InitialLevel(culled)
        /\ fgIsOn' = (fgIsOn /\ ~done)
        /\ CASE Len(culled) < Len(fgEvents) ->
                  fgPassNumber' = fgPassNumber + 1 /\ call' = "split" /\ UNCHANGED <<fgReplaying, device>>
             [] done -> call' = "none" /\ fgReplaying' = FALSE /\ device' = Loaded /\ UNCHANGED fgPassNumber
             [] OTHER -> fgPassNumber' = kLastPass /\ StartAgain
  /\ UNCHANGED <<fgPassEndedInError, program>>

-----------------------------------------------------------------------------
\* ErrorOccurred.  When events were left to play they are disabled and a new pass is begun.
ErrorOccurred(at) ==
  /\ fgPassEndedInError' = TRUE
  /\ IF at < Len(fgEvents)
     THEN /\ fgMask' = SetMask(at, Len(fgEvents), FALSE)
          /\ fLevels' = << >> /\ call' = "complete"
     ELSE call' = "next" /\ UNCHANGED <<fgMask, fLevels>>
  /\ UNCHANGED fgReplaying

\* mutant: the range that turned out to be needed is tried once more, not split.
NoErrorOccurredAgain ==
  /\ fgReplaying' = FALSE /\ fgPassEndedInError' = FALSE
  /\ fgMask' = SetMask(Top.fBegin, Top.fEnd, TRUE)
  /\ call' = "disable" /\ UNCHANGED fLevels

\* ReplayGetEvent finds no more events: NoErrorOccurred.
NoErrorOccurred ==
  /\ fgReplaying' = FALSE /\ fgPassEndedInError' = FALSE
  /\ fgMask' = SetMask(Top.fBegin, Top.fEnd, TRUE)
  /\ IF fgPassNumber = kLastPass
     THEN fLevels' = << >> /\ call' = "complete"
     ELSE fLevels' = [fLevels EXCEPT ![1].fChecked = TRUE] /\ call' = "split"

\* The program runs from the loaded state, or from where it went to sleep: ExecuteStoppedLoop
\* turns the playback off and on again around the press of the power button, which rewinds it.
RunProgram ==
  /\ call = "replay" /\ fgReplaying
  /\ LET r == Replay(fgEvents, fgMask, device)
     IN /\ device' = r.device
        /\ CASE r.outcome = "asleep" ->
                  UNCHANGED <<fgMask, fgReplaying, fLevels, fgPassEndedInError, call>>
             [] r.outcome = "error" /\ fgIsOn -> ErrorOccurred(r.fIndex)
             [] r.outcome = "playing" /\ fgIsOn -> NoErrorOccurred
             [] OTHER ->  \* minimization was stopped: an ordinary error, or the end of a replay
                  fgReplaying' = FALSE /\ call' = "none" /\ UNCHANGED <<fgMask, fLevels, fgPassEndedInError>>
  /\ UNCHANGED <<fgEvents, fgIsOn, fgPassNumber, program>>

\* The Stop button, on the user-interface thread, at any time.
Stop ==
  /\ fgIsOn
  /\ fgIsOn' = FALSE /\ fgReplaying' = FALSE
  /\ UNCHANGED <<fgEvents, fgMask, fLevels, fgPassNumber, fgPassEndedInError, call, device, program>>

\* A reset of the device: EmEventPlayback::Reset.  EmMinimize::Reset is never called.
DeviceReset ==
  /\ call = "replay" /\ fgReplaying
  /\ fgReplaying' = FALSE
  /\ UNCHANGED <<fgEvents, fgMask, fgIsOn, fLevels, fgPassNumber, fgPassEndedInError, call, device, program>>

CpuStep == SplitAndStartAgain \/ DisableAndStartAgain \/ NextSubRange \/ MinimizationPassComplete \/ RunProgram

MinNext == (\E kinds \in Recordings : Start(kinds)) \/ CpuStep \/ Stop \/ DeviceReset

\* The CPU thread runs on; nothing obliges the user to press Stop, or the device to be reset.
MinSpec == MinInit /\ [][MinNext]_minVars /\ WF_minVars(CpuStep)

-----------------------------------------------------------------------------
Done == fgEvents # << >> /\ Last(fgEvents) = ErrorEvent
Result == Front(fgEvents)
Without(i) == [All(Result) EXCEPT ![i] = FALSE]

\* If the recording crashes the program when it is replayed, so do the events that are left.
Reproduces == Done /\ genuine => fgPassEndedInError /\ Replay(Result, All(Result), Loaded).outcome = "error"

\* No single event that is left can be left out: without it the program does not crash (a pen up
\* goes with its pen down).
Minimal ==
  Done /\ genuine =>
    \A i \in DOMAIN Result :
      Result[i].kind # "up" => Replay(Result, Without(i), Loaded).outcome # "error"

\* Minimization comes to an end, by itself or because it was stopped.
MinimizationEnds == fgIsOn ~> ~fgIsOn

\* ... unless a reset has silently ended the playback it waits for.
MinimizationEndsUnlessReset == fgIsOn ~> (~fgIsOn \/ (call = "replay" /\ ~fgReplaying))
=============================================================================

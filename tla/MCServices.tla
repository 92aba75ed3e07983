----------------------------- MODULE MCServices -----------------------------
(***************************************************************************)
(* The parts of the emulator that have no state in common with each other, *)
(* in one instance: which says the part that runs, the others rest in      *)
(* their initial states.                                                   *)
(***************************************************************************)
EXTENDS InstructionBreaks, EmFileImport, PHEMNativeIF, Hordes, SessionEvents

CONSTANTS
  MaxEvents, kMaxRange, Kinds         \* EmMinimize

VARIABLES
  which,
  minEvents, fgMask, fgReplaying, fgIsOn, fLevels, fgPassNumber, fgPassEndedInError, call, minDevice,
  needed, tracks, genuine

Minimizer == INSTANCE EmMinimize WITH fgEvents <- minEvents, device <- minDevice

inMinimizer == <<minEvents, fgMask, fgReplaying, fgIsOn, fLevels, fgPassNumber, fgPassEndedInError, call,
                 minDevice, needed, tracks, genuine>>

\* Part p runs, and the others rest.
Alone(p) ==
  /\ which = p /\ UNCHANGED which
  /\ IF p = "pauses" THEN TRUE ELSE UNCHANGED vars
  /\ IF p = "breaks" THEN TRUE ELSE UNCHANGED breakVars
  /\ IF p = "minimizer" THEN TRUE ELSE UNCHANGED inMinimizer
  /\ IF p = "horde" THEN TRUE ELSE UNCHANGED hordesVars
  /\ IF p = "input" THEN TRUE ELSE UNCHANGED eventVars
  /\ IF p = "import" THEN TRUE ELSE UNCHANGED importVars

Parts == {"pauses", "breaks", "minimizer", "horde", "input", "import"}
allVars == <<which, vars, breakVars, inMinimizer, hordesVars, eventVars, importVars>>

ServicesInit ==
  /\ which \in Parts
  /\ Init /\ BreakInit /\ Minimizer!MinInit /\ HordesInit /\ EventsInit
  /\ ImportInit
  /\ debugged => which = "breaks"
  /\ (\E n \in Names : dbs[n] # Absent) => which = "import"

ServicesNext ==
  \/ Alone("pauses") /\ Next
  \/ Alone("breaks") /\ BreakNext
  \/ Alone("minimizer") /\ Minimizer!MinNext
  \/ Alone("horde") /\ HordesNext
  \/ Alone("input") /\ EventsNext
  \/ Alone("import") /\ ImportNext

\* The fairness of each part, as its own module states it.
ServicesSpec ==
  /\ ServicesInit /\ [][ServicesNext]_allVars
  /\ WF_inMinimizer(which = "minimizer" /\ Minimizer!CpuStep)
  /\ WF_hordesVars(which = "horde" /\ ExecuteSpecial)
  /\ WF_hordesVars(which = "horde" /\ RunGremlin)
  /\ WF_hordesVars(which = "horde" /\ StopEventReached)
  /\ WF_eventVars(which = "input" /\ RememberPenEvent)
  /\ SF_eventVars(which = "input" /\ PrvWakeUpCPU)
  /\ WF_eventVars(which = "input" /\ Rom)

-----------------------------------------------------------------------------
\* Each part keeps its types.
ServicesTypeOK ==
  /\ TypeOK /\ BreakTypeOK /\ Minimizer!MinTypeOK /\ HordesTypeOK /\ EventsTypeOK
  /\ ImportTypeOK

\* EmMinimize.cpp: what is left reproduces the error, and nothing of it can be left out.
Minimal == Minimizer!Reproduces /\ Minimizer!Minimal

\* EmMinimize.cpp: minimization comes to an end.
MinimizationEnds == which = "minimizer" => Minimizer!MinimizationEndsUnlessReset
=============================================================================

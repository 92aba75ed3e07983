------------------------------- MODULE MCLines -------------------------------
(***************************************************************************)
(* The lines to the outside in one instance: a serial port, the X-modem    *)
(* transfer of a ROM, the sockets of debuggers and scripts.  They have no  *)
(* state in common; which says the one in use, the others rest in their    *)
(* initial states.                                                         *)
(***************************************************************************)
EXTENDS EmTransportSerial, EmROMTransfer, SocketMessaging

VARIABLE which

allVars == <<which, vars, romVars, socketVars>>

LinesInit ==
  /\ which \in {"serial", "rom", "net"}
  /\ Init /\ RomInit /\ SocketsInit
  /\ which # "serial" => device = "port"

LinesNext ==
  \/ which = "serial" /\ Next /\ UNCHANGED <<which, romVars, socketVars>>
  \/ which = "rom" /\ RomNext /\ UNCHANGED <<which, vars, socketVars>>
  \/ which = "net" /\ SocketsNext /\ UNCHANGED <<which, vars, romVars>>

\* The fairness of each part, as its own module states it.
LinesSpec ==
  /\ LinesInit /\ [][LinesNext]_allVars
  /\ WF_vars(which = "serial" /\ CommRead) /\ WF_vars(which = "serial" /\ CommWrite)
  /\ WF_vars(which = "serial" /\ Busy)
  /\ WF_romVars(which = "rom" /\ SenderAnswered) /\ WF_romVars(which = "rom" /\ WaitForTransport)
  /\ WF_romVars(which = "rom" /\ ReadSomeData) /\ WF_romVars(which = "rom" /\ CheckForTimeouts)

-----------------------------------------------------------------------------
\* Each part keeps its types.
LinesTypeOK == TypeOK /\ RomTypeOK /\ SocketsTypeOK

\* EmROMTransfer.cpp: the transfer ends.
DownloadEnds == which = "rom" => TransferEnds
=============================================================================

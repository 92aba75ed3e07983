---------------------------- MODULE SessionGate ----------------------------
(***************************************************************************)
(* What EmSession promises its clients: there is one emulated processor,   *)
(* the CPU thread uses it only while nobody holds a stop, and the holder   *)
(* of a stop may borrow it for a call of a ROM function.                   *)
(***************************************************************************)
CONSTANTS
  Clients,  \* the threads that stop the CPU thread
  Cpu,      \* the CPU thread, not a client
  Nobody    \* the processor is not in use; not a thread

VARIABLES
  holders,  \* the clients whose stop is in force
  user      \* the thread that runs the processor

gate == <<holders, user>>

GateTypeOK == holders \subseteq Clients /\ user \in Clients \cup {Cpu, Nobody}

Init == holders = {} /\ user = Nobody

Grant(c) ==
  /\ c \notin holders
  /\ user # Cpu
  /\ holders' = holders \cup {c}
  /\ user' = user

Release(c) ==
  /\ c \in holders
  /\ user # c
  /\ holders' = holders \ {c}
  /\ user' = user

Run ==
  /\ holders = {}
  /\ user = Nobody
  /\ user' = Cpu
  /\ holders' = holders

Pause ==
  /\ user = Cpu
  /\ user' = Nobody
  /\ holders' = holders

Borrow(c) ==
  /\ c \in holders
  /\ user = Nobody
  /\ user' = c
  /\ holders' = holders

Return(c) ==
  /\ user = c
  /\ user' = Nobody
  /\ holders' = holders

Next ==
  \/ Run \/ Pause
  \/ \E c \in Clients : Grant(c) \/ Release(c) \/ Borrow(c) \/ Return(c)

Spec == Init /\ [][Next]_gate

\* A stop excludes the CPU thread, and a borrower holds one.
Exclusive == user # Nobody => IF user = Cpu THEN holders = {} ELSE user \in holders
=============================================================================

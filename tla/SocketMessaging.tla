-------------------------- MODULE SocketMessaging --------------------------
(***************************************************************************)
(* The sockets on which debuggers and scripts talk to the emulator         *)
(* (SocketMessaging.cpp, SLP.cpp), what Debug (DebugMgr.cpp) and RPC       *)
(* (EmRPC.cpp) do when something happens on them, and the scripts that     *)
(* wait for a signal.  The UI thread idles the sockets; the CPU thread     *)
(* writes to them when it enters the debugger or sends a signal.           *)
(*                                                                         *)
(* A handler calls back into others before it returns: the operators map   *)
(* the state of all sockets, net, to the state after the call.             *)
(***************************************************************************)
EXTENDS Naturals, Sequences, FiniteSets, SequencesExt

CONSTANTS
  Sockets,      \* addresses of CTCPSocket objects, 1 .. n
  NULL,
  MaxScripts,   \* bound on the scripts connected at a time
  SocketFaults  \* of {"reply", "deferred", "entry": that send may fail; "accept", "listen": that call
                \* may fail; "stop": the CPU may not stop; "race": UI and CPU thread meet in
                \* gSLPTimeouts; "crossed": a client waits for a signal through a debugger's port}

DebugPorts == {"debug1", "debug2"}
Free == [state |-> "free", port |-> "rpc", fDeleted |-> FALSE, pending |-> FALSE,
         inbox |-> << >>, closed |-> FALSE, owed |-> 0]

VARIABLES
  net,    \* the sockets, and the globals that refer to them
  ui,     \* where the UI thread is in EmDocument::HandleIdle
  cpu     \* where the CPU thread is in EnterDebugger or SignalWaiters

socketVars == <<net, ui, cpu>>

CTCPSocket ==
  [state : {"free", "unconnected", "listening", "connected"}, port : DebugPorts \union {"rpc"},
   fDeleted : BOOLEAN, pending : BOOLEAN, inbox : {<< >>} \union {<<k>> : k \in {"ask", "wait"}},
   closed : BOOLEAN, owed : 0 .. 1]

Nets ==
  [sock : [Sockets -> CTCPSocket], gSockets : Seq(Sockets), gSocketsToBeAdded : Seq(Sockets),
   gDebuggerSocket : [DebugPorts -> Sockets \union {NULL}],
   gConnectedDebugSocket : Sockets \union {NULL}, gSLPTimeouts : Seq(Sockets)]

SocketsTypeOK ==
  /\ net \in Nets
  /\ ui.at \in {"out", "idling", "stopping", "rpc", "down"} /\ ui.iter \in 0 .. Cardinality(Sockets) + 1
  /\ cpu.at \in {"running", "entering", "signalling", "waiting for itself"}
  /\ cpu.iter \in 0 .. Cardinality(Sockets) + 1

-----------------------------------------------------------------------------
\* What a loop that erases leaves of the list q: the elements at the places I, in their order.
Rank(I, i) == Cardinality({j \in I : j <= i})
Kept(q, I) == [k \in 1 .. Cardinality(I) |-> q[CHOOSE i \in I : Rank(I, i) = k]]

\* CTCPSocket::CTCPSocket and Open; the ports are free.
Unused(n) == CHOOSE s \in Sockets : n.sock[s] = Free /\ \A r \in Sockets : r < s => n.sock[r] # Free

Listen(n, port) ==
  [n EXCEPT !.sock[Unused(n)] = [Free EXCEPT !.state = "listening", !.port = port],
            !.gSocketsToBeAdded = Append(@, Unused(n))]

CreateListeningSockets(n) ==
  LET one == Listen(n, "debug1") IN
  [Listen(one, "debug2") EXCEPT !.gDebuggerSocket = [debug1 |-> Unused(n), debug2 |-> Unused(one)]]

\* Close and Delete of a socket that is not connected.
Shut(n, s) ==
  LET old == n.sock[s] IN
  [n EXCEPT !.sock[s] = [Free EXCEPT !.state = "unconnected", !.port = old.port, !.fDeleted = old.fDeleted]]
Delete(n, s) == [n EXCEPT !.sock[s].fDeleted = TRUE]

ShutAll(n, S) == [n EXCEPT !.sock = [s \in Sockets |-> IF s \in S THEN Delete(Shut(n, s), s).sock[s] ELSE @[s]]]

DeleteListeningSockets(n) ==
  [ShutAll(n, {n.gDebuggerSocket[p] : p \in DebugPorts} \ {NULL})
     EXCEPT !.gDebuggerSocket = [p \in DebugPorts |-> NULL]]

\* Debug::EventCallback and RPC::EventCallback.
DebugConnected(n, s) ==
  DeleteListeningSockets([n EXCEPT !.gConnectedDebugSocket = s, !.gDebuggerSocket[n.sock[s].port] = NULL])

DebugDisconnected(n, s) == CreateListeningSockets(Delete([n EXCEPT !.gConnectedDebugSocket = NULL], s))

RPCConnected(n) == Listen(n, "rpc")

ForgottenNone(n, s) == n.gSLPTimeouts      \* mutant: nothing is forgotten
Forgotten(n, s) ==
  LET q == n.gSLPTimeouts IN Kept(q, {i \in 1 .. Len(q) : q[i] # s})
RPCDisconnected(n, s) == Delete([n EXCEPT !.gSLPTimeouts = Forgotten(n, s)], s)

\* CTCPSocket::Close, of which only a socket that was connected tells anybody.
CloseSocketSilent(n, s) == Shut(n, s)       \* mutant: no callback
CloseSocket(n, s) ==
  CASE n.sock[s].state # "connected" -> Shut(n, s)
    [] n.sock[s].state = "connected" /\ n.sock[s].port = "rpc" -> RPCDisconnected(Shut(n, s), s)
    [] OTHER -> DebugDisconnected(Shut(n, s), s)

\* CTCPSocket::Open of the listeners made anew, as it may come out: one that cannot listen is deleted.
Anew(n) == {s \in Sockets : net.sock[s] = Free /\ n.sock[s].state = "listening"}
Opened(n) ==
  {n} \union
  {[ShutAll(n, S) EXCEPT !.gDebuggerSocket = [p \in DebugPorts |-> IF @[p] \in S THEN NULL ELSE @[p]]] :
     S \in IF "listen" \in SocketFaults THEN SUBSET Anew(n) ELSE {}}

\* SLP::SendPacket and CTCPSocket::Write, which closes the socket when send fails.
Fails(n, s, where) == {FALSE} \union (IF where \in SocketFaults /\ n.sock[s].closed THEN {TRUE} ELSE {})
Answered(n, s) == [n EXCEPT !.sock[s].owed = IF @ > 0 THEN @ - 1 ELSE @]
Write(n, s, failed) == IF failed THEN CloseSocket(n, s) ELSE n

AddPending(n) == [n EXCEPT !.gSockets = @ \o n.gSocketsToBeAdded, !.gSocketsToBeAdded = << >>]

\* What is left is numbered by its place in gSockets: an address has no meaning.
DeletePending(n) ==
  LET q == n.gSockets
      left == Kept(q, {i \in 1 .. Len(q) : ~n.sock[q[i]].fDeleted})
      Place(s) == IF Contains(left, s) THEN CHOOSE i \in 1 .. Len(left) : left[i] = s ELSE NULL
  IN [n EXCEPT !.sock = [s \in Sockets |-> IF s <= Len(left) THEN @[left[s]] ELSE Free],
               !.gSockets = [i \in 1 .. Len(left) |-> i],
               !.gDebuggerSocket = [p \in DebugPorts |-> Place(@[p])],
               !.gConnectedDebugSocket = Place(@),
               !.gSLPTimeouts = [i \in 1 .. Len(@) |-> Place(@[i])]]

SocketsInit ==
  /\ net = RPCConnected(CreateListeningSockets(
             [sock |-> [s \in Sockets |-> Free], gSockets |-> << >>, gSocketsToBeAdded |-> << >>,
              gDebuggerSocket |-> [p \in DebugPorts |-> NULL], gConnectedDebugSocket |-> NULL,
              gSLPTimeouts |-> << >>]))
  /\ ui = [at |-> "out", iter |-> 0]
  /\ cpu = [at |-> "running", iter |-> 0]

-----------------------------------------------------------------------------
\* The clients: debuggers and scripts.
Scripts == {s \in Sockets : net.sock[s].port = "rpc" /\ (net.sock[s].state = "connected" \/ net.sock[s].pending)}

ClientConnects(s) ==
  /\ net.sock[s].port = "rpc" => Cardinality(Scripts) < MaxScripts
  /\ net.sock[s].state = "listening" /\ ~net.sock[s].pending
  /\ net' = [net EXCEPT !.sock[s].pending = TRUE]
  /\ UNCHANGED <<ui, cpu>>

\* What a packet wants is in its header, and either port takes any: "ask" has its answer at once.
ClientAsks(s) ==
  /\ net.sock[s].state = "connected" /\ ~net.sock[s].closed
  /\ net.sock[s].inbox = << >> /\ net.sock[s].owed = 0
  /\ \E k \in {"ask", "wait"} :
       /\ k = "wait" /\ net.sock[s].port \in DebugPorts => "crossed" \in SocketFaults
       /\ net' = [net EXCEPT !.sock[s].inbox = <<k>>]
  /\ UNCHANGED <<ui, cpu>>

ClientCloses(s) ==
  /\ net.sock[s].state = "connected" /\ ~net.sock[s].closed
  /\ net' = [net EXCEPT !.sock[s].closed = TRUE]
  /\ UNCHANGED <<ui, cpu>>

-----------------------------------------------------------------------------
\* The UI thread: CSocket::IdleAll, then RPC::Idle.
IdleAll ==
  /\ ui.at = "out"
  /\ net' = DeletePending(AddPending(net)) /\ ui' = [at |-> "idling", iter |-> 1]
  /\ UNCHANGED cpu

At(s) == ui.at = "idling" /\ ui.iter <= Len(net.gSockets) /\ net.gSockets[ui.iter] = s

\* What a packet does to the session it does with the CPU thread stopped; Debug::EventCallback
\* stops it when the sockets have changed, to tell the program of the debugger ('gdbS').
Stopped == cpu.at = "running"

Stopping(s) == ui' = IF net.sock[s].port \in DebugPorts THEN [ui EXCEPT !.at = "stopping"] ELSE ui

StopGained ==
  /\ ui.at = "stopping" /\ Stopped /\ ui' = [ui EXCEPT !.at = "idling"]
  /\ UNCHANGED <<net, cpu>>

Accepted(s) ==
  LET n == [net EXCEPT !.sock[s].state = "connected", !.sock[s].pending = FALSE] IN
  Opened(IF net.sock[s].port = "rpc" THEN RPCConnected(n) ELSE DebugConnected(n, s))

AcceptConnection(s) ==
  /\ At(s) /\ ~net.sock[s].fDeleted /\ net.sock[s].state = "listening" /\ net.sock[s].pending
  /\ \/ net' \in Accepted(s) /\ Stopping(s)
     \/ "accept" \in SocketFaults /\ net' = CloseSocket(net, s) /\ UNCHANGED ui
  /\ UNCHANGED cpu

\* Read finds that the other side has closed the connection.
FoundClosed(s) ==
  /\ At(s) /\ ~net.sock[s].fDeleted /\ net.sock[s].state = "connected"
  /\ net.sock[s].closed /\ net.sock[s].inbox = << >>
  /\ net.sock[s].port = "rpc" /\ cpu.at = "signalling" => "race" \in SocketFaults
  /\ net' \in Opened(CloseSocket(net, s)) /\ Stopping(s)
  /\ UNCHANGED cpu

DeferCurrentPacket(n, s) == [n EXCEPT !.sock[s].owed = @ + 1, !.gSLPTimeouts = Append(@, s)]

HandleNewPacket(s) ==
  /\ At(s) /\ ~net.sock[s].fDeleted /\ net.sock[s].inbox # << >> /\ Stopped
  /\ LET n == [net EXCEPT !.sock[s].inbox = << >>] IN
     \/ net.sock[s].inbox = <<"wait">> /\ net' = DeferCurrentPacket(n, s)
     \/ /\ net.sock[s].inbox # <<"wait">>
        /\ \E failed \in Fails(n, s, "reply") : net' \in Opened(Write(n, s, failed))
     \/ "stop" \in SocketFaults /\ net' = n      \* and the client hears nothing
  /\ UNCHANGED <<ui, cpu>>

\* No data (for half a second, when there was some): on to the next socket.
NextSocket ==
  /\ ui.at = "idling" /\ ui.iter <= Len(net.gSockets)
  /\ LET s == net.gSockets[ui.iter] IN
     \/ net.sock[s].fDeleted
     \/ net.sock[s].inbox = << >> /\ ~net.sock[s].closed /\ ~net.sock[s].pending
  /\ ui' = [ui EXCEPT !.iter = @ + 1]
  /\ UNCHANGED <<net, cpu>>

IdleAllEnds ==
  /\ ui.at = "idling" /\ ui.iter > Len(net.gSockets)
  /\ cpu.at # "signalling"       \* gMutex
  /\ net' = DeletePending(AddPending(net)) /\ ui' = [at |-> "rpc", iter |-> 0]
  /\ UNCHANGED cpu

\* RPC::Idle: a waiter whose time is over is answered and erased; any other stays.
RPCTimeout ==
  /\ ui.at = "rpc"
  /\ \E i \in 1 .. Len(net.gSLPTimeouts) :
       LET s == net.gSLPTimeouts[i] IN
       \E failed \in Fails(net, s, "deferred") :
         LET n == Write(Answered(net, s), s, failed) IN
         net' = [n EXCEPT !.gSLPTimeouts = IF i <= Len(@) THEN RemoveAt(@, i) ELSE @]
  /\ UNCHANGED <<ui, cpu>>

RPCIdleEnds ==
  /\ ui.at = "rpc" /\ ui' = [at |-> "out", iter |-> 0]
  /\ UNCHANGED <<net, cpu>>

-----------------------------------------------------------------------------
\* The CPU thread: Debug::EnterDebugger sends a state packet.
EnterDebugger ==
  /\ cpu.at = "running" /\ ui.at # "down" /\ net.gConnectedDebugSocket # NULL
  /\ cpu' = [cpu EXCEPT !.at = "entering"]
  /\ UNCHANGED <<net, ui>>

\* When that fails, the callback makes a stopper for the very thread it runs on; nothing is sent,
\* and nothing fails, when the UI thread has found the connection closed and closed it meanwhile.
SendState ==
  /\ cpu.at = "entering"
  /\ \/ net.gConnectedDebugSocket = NULL /\ cpu' = [cpu EXCEPT !.at = "running"] /\ UNCHANGED net
     \/ /\ net.gConnectedDebugSocket # NULL
        /\ \E failed \in Fails(net, net.gConnectedDebugSocket, "entry") :
             /\ net' \in Opened(Write(net, net.gConnectedDebugSocket, failed))
             /\ cpu' = [cpu EXCEPT !.at = IF failed THEN "waiting for itself" ELSE "running"]
  /\ UNCHANGED ui

\* RPC::SignalWaiters, under gMutex.
SignalWaiters ==
  /\ cpu.at = "running" /\ ui.at \notin {"rpc", "down"} /\ net.gSLPTimeouts # << >>
  /\ cpu' = [cpu EXCEPT !.at = "signalling", !.iter = 1]
  /\ UNCHANGED <<net, ui>>

Signal ==
  /\ cpu.at = "signalling" /\ cpu.iter <= Len(net.gSLPTimeouts)
  /\ LET s == net.gSLPTimeouts[cpu.iter] IN
     \E failed \in Fails(net, s, "deferred") : net' = Write(Answered(net, s), s, failed)
  /\ cpu' = [cpu EXCEPT !.iter = @ + 1]
  /\ UNCHANGED ui

Cleared(n) == [n EXCEPT !.gSLPTimeouts = << >>]

Signalled ==
  /\ cpu.at = "signalling" /\ cpu.iter > Len(net.gSLPTimeouts)
  /\ net' = Cleared(net) /\ cpu' = [cpu EXCEPT !.at = "running", !.iter = 0]
  /\ UNCHANGED ui

\* EmApplication::Shutdown, with the session gone: signal hostSignalQuit (nobody waits twice),
\* close what is there.  CSocket::Shutdown finds no connected debugger and nobody who waits: the
\* callbacks of the scripts' sockets have nothing to do but to delete their socket.
SignalAll(n) ==
  Cleared([n EXCEPT !.sock = [s \in Sockets |-> IF Contains(n.gSLPTimeouts, s) THEN Answered(n, s).sock[s]
                                                 ELSE @[s]]])
Closed(n) == ShutAll(n, {s \in Sockets : Contains(n.gSockets, s) /\ ~n.sock[s].fDeleted})

Shutdown ==
  /\ ui.at = "out" /\ cpu.at = "running" /\ ui' = [at |-> "down", iter |-> 0]
  /\ LET debug == DeleteListeningSockets(SignalAll(net))
         alone == IF debug.gConnectedDebugSocket = NULL THEN debug
                  ELSE CloseSocket(debug, debug.gConnectedDebugSocket) IN
     net' = DeletePending(Closed(AddPending(alone)))
  /\ UNCHANGED cpu

SocketsNext ==
  \/ \E s \in Sockets : ClientConnects(s) \/ ClientAsks(s) \/ ClientCloses(s)
  \/ \E s \in Sockets : AcceptConnection(s) \/ FoundClosed(s) \/ HandleNewPacket(s)
  \/ StopGained \/ IdleAll \/ NextSocket \/ IdleAllEnds \/ RPCTimeout \/ RPCIdleEnds
  \/ EnterDebugger \/ SendState \/ SignalWaiters \/ Signal \/ Signalled \/ Shutdown

SocketsSpec == SocketsInit /\ [][SocketsNext]_socketVars

-----------------------------------------------------------------------------
\* A debugger can connect on both ports unless one is connected, and a script always can: the
\* listeners are there again after every connection that ended, none is there twice, and no
\* global refers to a socket of another kind or to a deleted one.  After Shutdown all are gone.
SomebodyListens ==
  IF ui.at = "down"
  THEN \A s \in Sockets : net.sock[s] = Free
  ELSE /\ Cardinality({s \in Sockets : net.sock[s].state = "listening" /\ net.sock[s].port = "rpc"}) = 1
       /\ IF net.gConnectedDebugSocket = NULL
          THEN \A p \in DebugPorts :
                 \E s \in Sockets : /\ net.gDebuggerSocket[p] = s /\ net.sock[s].port = p
                                    /\ net.sock[s].state = "listening"
          ELSE /\ \A s \in Sockets : net.sock[s].state = "listening" => net.sock[s].port = "rpc"
               /\ net.sock[net.gConnectedDebugSocket].state = "connected"

\* "A socket just disconnected.  If we had anything on that socket waiting for us to signal it,
\* forget about it": whoever waits for a signal, and only he, has an entry of his own on a
\* connected socket, so that nobody is answered twice, or in place of somebody else.
Waiting(s) == Cardinality({i \in cpu.iter .. Len(net.gSLPTimeouts) : i > 0 /\ net.gSLPTimeouts[i] = s})

WaitersTracked ==
  /\ \A s \in Sockets : net.sock[s].owed = Waiting(s)
  /\ \A i \in 1 .. Len(net.gSLPTimeouts) : net.sock[net.gSLPTimeouts[i]].state = "connected"
  /\ cpu.iter <= Len(net.gSLPTimeouts) + 1

\* EnterDebugger (DebugMgr.cpp:1190) fails when the packet cannot be sent, and returns: the CPU
\* thread does not wait in SuspendThread for itself to stop.
NobodyWaitsForItself == cpu.at # "waiting for itself"
=============================================================================

------------------------- MODULE FileTransferServer -------------------------
(***************************************************************************)
(* server/file_transfer_server.cpp: start and stop of a server, whose      *)
(* threads use the quota manager it owns.  The messaging server underneath *)
(* is external: it refuses to start twice and to stop when it is not       *)
(* started, and may fail otherwise.  current_state is atomic, but tested   *)
(* and set in separate steps.                                              *)
(***************************************************************************)
EXTENDS QuotaManager

CONSTANTS
  Port,           \* the port the server is started on
  NetworkFaults   \* start_server and stop_server may fail

ASSUME ServerAssumption ==
  Port \in Nat \ {0} /\ NetworkFaults \in BOOLEAN

VARIABLES
  state,       \* current_state
  listenPort,  \* listen_port
  up,          \* the messaging server is started
  turns        \* history: no start or stop began while another was in progress

serverVars == <<state, listenPort, up, turns>>
allVars    == <<vars, serverVars>>

ServerInit ==
  Init /\ state = "stopped" /\ listenPort = 0 /\ up = FALSE /\ turns = TRUE

Lifecycle == {"start", "stop"}
Underway(u) == call[u].name \in Lifecycle

\* A call from any other state returns an error and changes nothing.
Begins(t, name, from, where) ==
  /\ state = from /\ Enter(t, name, where, None, "idle")
  /\ turns' = (turns /\ \A u \in Threads : ~Underway(u))
  /\ UNCHANGED <<total, usage, triggered, disk, told, state, listenPort, up>>

ManagerStays == UNCHANGED <<total, usage, triggered, disk, calls, told, turns>>
-----------------------------------------------------------------------------
(* start *)
Start(t) == Begins(t, "start", "stopped", "begin")

StartBegins(t) ==
  /\ At(t, "begin") /\ Goto(t, "listen")
  /\ state' = "starting" /\ listenPort' = Port /\ UNCHANGED up /\ ManagerStays

StartServer(t) ==
  /\ At(t, "listen") /\ UNCHANGED <<state, listenPort>> /\ ManagerStays
  /\ \/ ~up /\ up' = TRUE /\ Goto(t, "started")
     \/ (up \/ NetworkFaults) /\ UNCHANGED up /\ Goto(t, "unstarted")

\* A failed start leaves the port it tried.
StartEnds(t) ==
  /\ call[t].at \in {"started", "unstarted"} /\ Return(t)
  /\ state' = IF At(t, "started") THEN "running" ELSE "stopped"
  /\ UNCHANGED <<listenPort, up>> /\ ManagerStays

-----------------------------------------------------------------------------
(* stop, which the destructor calls on a running server *)
Stop(t) == Begins(t, "stop", "running", "halt")

StopBegins(t) ==
  /\ At(t, "halt") /\ Goto(t, "close")
  /\ state' = "stopping" /\ UNCHANGED <<listenPort, up>> /\ ManagerStays

StopServer(t) ==
  /\ At(t, "close") /\ UNCHANGED <<state, listenPort>> /\ ManagerStays
  /\ \/ up /\ up' = FALSE /\ Goto(t, "closed")
     \/ (~up \/ NetworkFaults) /\ UNCHANGED up /\ Goto(t, "unclosed")

StopFailsStopped(t) ==   \* mutated form: a server that could not be stopped counts as stopped
  /\ At(t, "unclosed") /\ Return(t)
  /\ state' = "stopped" /\ UNCHANGED <<listenPort, up>> /\ ManagerStays

StopFails(t) ==
  /\ At(t, "unclosed") /\ Return(t)
  /\ state' = "running" /\ UNCHANGED <<listenPort, up>> /\ ManagerStays

StopEnds(t) ==
  /\ At(t, "closed") /\ Goto(t, "forget")
  /\ state' = "stopped" /\ UNCHANGED <<listenPort, up>> /\ ManagerStays

ForgetPort(t) ==
  /\ At(t, "forget") /\ Return(t)
  /\ listenPort' = 0 /\ UNCHANGED <<state, up>> /\ ManagerStays

-----------------------------------------------------------------------------
ServerStep(t) ==
  \/ Start(t) \/ StartBegins(t) \/ StartServer(t) \/ StartEnds(t)
  \/ Stop(t) \/ StopBegins(t) \/ StopServer(t) \/ StopFails(t) \/ StopEnds(t) \/ ForgetPort(t)

ServerNext == (Next /\ UNCHANGED serverVars) \/ \E t \in Threads : ServerStep(t)

ServerSpec == ServerInit /\ [][ServerNext]_allVars
-----------------------------------------------------------------------------
(* is_running and port tell the truth between calls: the server says it    *)
(* runs exactly while the messaging server is started, on the port it was  *)
(* given, whichever start or stop failed on the way.  It speaks of callers *)
(* that start and stop in turns: the state is tested before it is set.     *)
RunningIsListening ==
  turns /\ (\A t \in Threads : ~Underway(t)) =>
    /\ state = IF up THEN "running" ELSE "stopped"
    /\ up => listenPort = Port
=============================================================================

----------------------------- MODULE Transport -----------------------------
(***************************************************************************)
(* transport/quic_transport.cpp and transport/tcp_transport.cpp: a         *)
(* connection to one server at a time, used by several threads of the      *)
(* application, with the tickets of SessionStore and, for QUIC, the        *)
(* network paths of ConnectionMigration.                                   *)
(*                                                                         *)
(* The network client under a transport is a library: it is started and    *)
(* stopped, comes up or not, hands over what arrives and tells when the    *)
(* peer went away.                                                         *)
(***************************************************************************)
EXTENDS SessionStore, ConnectionMigration

CONSTANTS
  Confs,        \* [kind : {"tcp", "quic"}, file : the tickets are in a file, calls : the calls that are
                \*  made, by : the threads that make them, settings : those of the migrations]
  Threads,      \* the application's threads
  MaxCalls,     \* bound: so many calls are made
  MaxMessages   \* bound: so many messages arrive

ASSUME TransportAssumption ==
  MaxCalls \in Nat /\ MaxMessages \in Nat /\ Threads = Movers \ {Monitor}

VARIABLES
  conf,      \* rigid
  tstate,    \* current_state
  client,    \* the network client: down, starting, up
  hears,     \* the receive callback is installed
  remote,    \* remote_ep, or "none"
  local,     \* local_ep, or Unknown
  used0,     \* used_0rtt_
  acc0,      \* is_0rtt_accepted_
  queue,     \* receive_queue
  sent,      \* stats.packets_sent
  op,        \* thread -> the call it is in
  calls,     \* how many were made
  heard,     \* history: how many messages the callback was given
  got        \* history: the messages that receive returned, in order

transportVars == <<conf, tstate, client, hears, remote, local, used0, acc0, queue, sent, op, calls, heard, got>>
vars == <<storeVars, migrationVars, transportVars>>

NoServer == "none"
Idle == [pc |-> "idle", s |-> NoServer, n |-> 0, early |-> FALSE, data |-> FALSE, p |-> NoPath]
OpAt(t, pc)  == op[t].pc = pc
Goes(t, pc)  == op' = [op EXCEPT ![t].pc = pc]
Returns(t)   == op' = [op EXCEPT ![t] = Idle]
Quic         == conf.kind = "quic"

\* is_connected: TCP asks nobody
IsConnected == tstate = "connected" /\ (Quic => client = "up")
Open        == tstate \in {"connected", "connecting"}

Init ==
  /\ StoreInit /\ MigrationInit
  /\ conf \in Confs /\ mset \in conf.settings /\ tstate = "disconnected" /\ client = "down" /\ hears = FALSE
  /\ remote = NoServer /\ local = Unknown /\ used0 = FALSE /\ acc0 = FALSE
  /\ queue = <<>> /\ sent = 0 /\ op = [t \in Threads |-> Idle] /\ calls = 0 /\ heard = 0 /\ got = <<>>

Called(t, call) ==
  /\ t \in conf.by /\ OpAt(t, "idle") /\ calls < MaxCalls /\ calls' = calls + 1 /\ call \in conf.calls

-----------------------------------------------------------------------------
(* connect and connect_with_0rtt look at the state and set it in two steps *)
Connect(t, s) ==
  /\ Called(t, "connect") /\ ~Open
  /\ op' = [op EXCEPT ![t] = [Idle EXCEPT !.pc = "begin", !.s = s]]
  /\ UNCHANGED <<storeVars, migrationVars, conf, tstate, client, hears, remote, local, used0, acc0, queue, sent, heard, got>>

\* without a ticket that allows it the call is connect, and the data is sent after it
ConnectWith0rtt(t, s) ==
  /\ Called(t, "early") /\ Quic /\ ~Open
  /\ op' = [op EXCEPT ![t] = [Idle EXCEPT !.pc = IF TicketFor(s) # 0 THEN "begin" ELSE "recheck", !.s = s,
                                          !.early = (TicketFor(s) # 0), !.data = TRUE]]
  /\ Retrieve(conf.file, s)
  /\ UNCHANGED <<migrationVars, conf, tstate, client, hears, remote, local, used0, acc0, queue, sent, heard, got>>

Recheck(t) ==
  /\ OpAt(t, "recheck") /\ IF Open THEN Returns(t) ELSE Goes(t, "begin")
  /\ UNCHANGED <<storeVars, migrationVars, conf, tstate, client, hears, remote, local, used0, acc0, queue, sent, calls, heard, got>>

\* build_quic_config: the ticket is asked for again
Begin(t) ==
  LET s == op[t].s
  IN /\ OpAt(t, "begin") /\ tstate' = "connecting" /\ acc0' = FALSE
     /\ IF Quic THEN Retrieve(conf.file, s) /\ hears' = TRUE /\ used0' = (op[t].early \/ TicketFor(s) # 0)
        ELSE UNCHANGED <<storeVars, hears, used0>>
     /\ op' = [op EXCEPT ![t].pc = "start", ![t].n = IF Quic THEN TicketFor(s) ELSE 0]
     /\ UNCHANGED <<migrationVars, conf, client, remote, local, queue, sent, calls, heard, got>>

\* the network client takes what it is given, or fails to
Sends == sent' \in {sent, sent + 1}

\* start_client, which refuses a client that runs; early data follows at once, taken or not
Start(t) ==
  /\ OpAt(t, "start")
  /\ \/ /\ client = "down" /\ client' = "starting" /\ Goes(t, IF Quic THEN "wait" ELSE "conclude")
        /\ IF op[t].early THEN Sends ELSE UNCHANGED sent
        /\ UNCHANGED tstate
     \/ tstate' = "error" /\ Returns(t) /\ UNCHANGED <<client, sent>>
  /\ UNCHANGED <<storeVars, migrationVars, conf, hears, remote, local, used0, acc0, queue, calls, heard, got>>

SeesUp(t) ==
  /\ OpAt(t, "wait") /\ client = "up" /\ Goes(t, "conclude")
  /\ UNCHANGED <<storeVars, migrationVars, conf, tstate, client, hears, remote, local, used0, acc0, queue, sent, calls, heard, got>>

ConnectTimesOut(t) ==
  /\ OpAt(t, "wait") /\ client # "up" /\ Returns(t)
  /\ tstate' = "error" /\ client' = "down"
  /\ UNCHANGED <<storeVars, migrationVars, conf, hears, remote, local, used0, acc0, queue, sent, calls, heard, got>>

\* TCP installs its callback only here
Conclude(t) ==
  /\ OpAt(t, "conclude") /\ hears' = TRUE
  /\ remote' = op[t].s /\ tstate' = "connected"
  /\ IF op[t].early \/ op[t].n # 0 THEN Goes(t, "judge") ELSE IF op[t].data THEN Goes(t, "send") ELSE Returns(t)
  /\ UNCHANGED <<storeVars, migrationVars, conf, client, local, used0, acc0, queue, sent, calls, heard, got>>

\* early data counts as accepted when the handshake is complete by now, and is sent again if not
Judge(t) ==
  /\ OpAt(t, "judge") /\ acc0' \in BOOLEAN
  /\ IF op[t].data /\ (op[t].early => ~acc0') THEN Goes(t, "send") ELSE Returns(t)
  /\ IF acc0' THEN UNCHANGED storeVars ELSE On0rttRejected(conf.file, op[t].s, op[t].n)
  /\ UNCHANGED <<migrationVars, conf, tstate, client, hears, remote, local, used0, queue, sent, calls, heard, got>>

\* what could not be sent is only logged
SendData(t) ==
  /\ OpAt(t, "send") /\ Returns(t) /\ IF IsConnected THEN Sends ELSE UNCHANGED sent
  /\ UNCHANGED <<storeVars, migrationVars, conf, tstate, client, hears, remote, local, used0, acc0, queue, calls, heard, got>>

\* send and send_on_stream
Send(t) ==
  /\ Called(t, "send") /\ IsConnected /\ Sends /\ UNCHANGED op
  /\ UNCHANGED <<storeVars, migrationVars, conf, tstate, client, hears, remote, local, used0, acc0, queue, heard, got>>

-----------------------------------------------------------------------------
(* disconnect *)
Disconnect(t) ==
  /\ Called(t, "disconnect") /\ tstate # "disconnected"
  /\ tstate' = "disconnecting" /\ op' = [op EXCEPT ![t].pc = "stop"]
  /\ UNCHANGED <<storeVars, migrationVars, conf, client, hears, remote, local, used0, acc0, queue, sent, heard, got>>

Stop(t) ==
  /\ OpAt(t, "stop")
  /\ \/ client' = "down" /\ Goes(t, "reset") /\ UNCHANGED tstate
     \/ tstate' = "error" /\ Returns(t) /\ UNCHANGED client
  /\ UNCHANGED <<storeVars, migrationVars, conf, hears, remote, local, used0, acc0, queue, sent, calls, heard, got>>

\* what was received and not fetched stays in the queue
ResetConnection(t) ==
  /\ OpAt(t, "reset") /\ Returns(t)
  /\ local' = Unknown /\ remote' = NoServer /\ used0' = FALSE /\ acc0' = FALSE /\ tstate' = "disconnected"
  /\ UNCHANGED <<storeVars, migrationVars, conf, client, hears, queue, sent, calls, heard, got>>

-----------------------------------------------------------------------------
(* receive: the queue is looked at and waited for under receive_mutex *)
Receive(t) ==
  /\ Called(t, "receive") /\ IsConnected /\ op' = [op EXCEPT ![t].pc = "recv"]
  /\ UNCHANGED <<storeVars, migrationVars, conf, tstate, client, hears, remote, local, used0, acc0, queue, sent, heard, got>>

Fetches(t) == got' = Append(got, Head(queue)) /\ queue' = Tail(queue) /\ Returns(t)

ReceiveNow(t) ==
  /\ OpAt(t, "recv")
  /\ IF queue # <<>> THEN Fetches(t) ELSE Goes(t, "await") /\ UNCHANGED <<queue, got>>
  /\ UNCHANGED <<storeVars, migrationVars, conf, tstate, client, hears, remote, local, used0, acc0, sent, calls, heard>>

\* data that came with the end of the connection stays in the queue
AwaitTaking(t) ==   \* mutated form: the message is taken although the call fails
  /\ OpAt(t, "await") /\ (queue # <<>> \/ tstate # "connected")
  /\ IF tstate = "connected" THEN Fetches(t)
     ELSE Returns(t) /\ queue' = (IF queue = <<>> THEN queue ELSE Tail(queue)) /\ UNCHANGED got
  /\ UNCHANGED <<storeVars, migrationVars, conf, tstate, client, hears, remote, local, used0, acc0, sent, calls, heard>>
Await(t) ==
  /\ OpAt(t, "await") /\ (queue # <<>> \/ tstate # "connected")
  /\ IF tstate = "connected" THEN Fetches(t) ELSE Returns(t) /\ UNCHANGED <<queue, got>>
  /\ UNCHANGED <<storeVars, migrationVars, conf, tstate, client, hears, remote, local, used0, acc0, sent, calls, heard>>

ReceiveTimesOut(t) ==
  /\ OpAt(t, "await") /\ Returns(t)
  /\ UNCHANGED <<storeVars, migrationVars, conf, tstate, client, hears, remote, local, used0, acc0, queue, sent, calls, heard, got>>

-----------------------------------------------------------------------------
(* migrate_to holds migration_mutex until the migration ends *)
MigrateTo(t, p) ==
  /\ Called(t, "migrate") /\ Quic /\ IsConnected
  /\ op' = [op EXCEPT ![t] = [Idle EXCEPT !.pc = "lock", !.p = p]]
  /\ UNCHANGED <<storeVars, migrationVars, conf, tstate, client, hears, remote, local, used0, acc0, queue, sent, heard, got>>

Migrates(t) ==
  /\ OpAt(t, "lock") /\ mm = "free" /\ mm' = t /\ Goes(t, "moving")
  /\ MigrateToPath(t, op[t].p)
  /\ UNCHANGED <<storeVars, mset, up, changes, cur, prev, known, watching, conf, tstate, client, hears, remote,
                 local, used0, acc0, queue, sent, calls, heard, got>>

\* the local end is said to be the path asked for, also when a previous path was fallen back to
Migrated(t) ==
  /\ OpAt(t, "moving") /\ MoverAt(t, "back") /\ mm' = "free" /\ Returns(t)
  /\ local' = IF mig[t].res = "moved" THEN op[t].p ELSE local
  /\ mig' = [mig EXCEPT ![t] = NoMove]
  /\ UNCHANGED <<storeVars, mset, up, changes, mstate, cur, prev, known, watching, conf, tstate, client, hears,
                 remote, used0, acc0, queue, sent, calls, heard, got>>

\* start_network_monitoring
StartNetworkMonitoring(t) ==
  /\ Called(t, "watch") /\ Quic /\ mm = "free" /\ UNCHANGED op
  /\ cur' = IF IsConnected /\ remote # NoServer THEN local ELSE cur
  /\ StartMonitoring
  /\ UNCHANGED <<storeVars, mset, up, changes, prev, mm, conf, tstate, client, hears, remote, local, used0, acc0,
                 queue, sent, heard, got>>

\* stop_network_monitoring holds the mutex while it joins the monitor, if there is one
StopNetworkMonitoring(t) ==
  /\ Called(t, "watch") /\ Quic /\ mm = "free"
  /\ \/ watching /\ mm' = t /\ op' = [op EXCEPT ![t].pc = "join"] /\ UNCHANGED mstate
     \/ ~watching /\ mstate' = "idle" /\ UNCHANGED <<mm, op>>
  /\ watching' = FALSE
  /\ UNCHANGED <<storeVars, mset, up, changes, cur, prev, known, mig, conf, tstate, client, hears, remote,
                 local, used0, acc0, queue, sent, heard, got>>
Joins(t) ==
  /\ OpAt(t, "join") /\ MoverAt(Monitor, "off") /\ mm' = "free" /\ mstate' = "idle" /\ Returns(t)
  /\ UNCHANGED <<storeVars, mset, up, changes, cur, prev, known, watching, mig, conf, tstate, client, hears,
                 remote, local, used0, acc0, queue, sent, calls, heard, got>>

-----------------------------------------------------------------------------
(* The network client: a library *)
ComesUp ==
  /\ client = "starting" /\ client' = "up"
  /\ UNCHANGED <<storeVars, migrationVars, conf, tstate, hears, remote, local, used0, acc0, queue, op, sent, calls, heard, got>>

\* the peer goes away; only QUIC has a callback for it
PeerLeaves ==
  /\ client = "up" /\ client' = "down"
  /\ tstate' = IF Quic THEN "disconnected" ELSE tstate
  /\ UNCHANGED <<storeVars, migrationVars, conf, hears, remote, local, used0, acc0, queue, op, sent, calls, heard, got>>

\* the receive callback; what arrives before it is installed is lost
Arrives ==
  /\ client = "up" /\ hears /\ heard < MaxMessages /\ "receive" \in conf.calls
  /\ heard' = heard + 1 /\ queue' = Append(queue, heard + 1)
  /\ UNCHANGED <<storeVars, migrationVars, conf, tstate, client, hears, remote, local, used0, acc0, op, sent, calls, got>>

\* the process ends and starts again with the tickets of the file
Restart ==
  /\ "early" \in conf.calls /\ conf.file /\ (EndsWell(TRUE) \/ Crashes)
  /\ tstate' = "disconnected" /\ client' = "down" /\ hears' = FALSE /\ remote' = NoServer /\ local' = Unknown
  /\ used0' = FALSE /\ acc0' = FALSE /\ queue' = <<>> /\ sent' = 0 /\ op' = [t \in Threads |-> Idle]
  /\ heard' = 0 /\ got' = <<>>
  /\ UNCHANGED <<migrationVars, conf, calls>>

-----------------------------------------------------------------------------
Application(t) ==
  \/ \E s \in Servers : Connect(t, s) \/ ConnectWith0rtt(t, s)
  \/ Disconnect(t) \/ Send(t) \/ Receive(t)
  \/ \E p \in Names : MigrateTo(t, p)
  \/ StartNetworkMonitoring(t) \/ StopNetworkMonitoring(t)

Step(t) ==
  \/ Recheck(t) \/ Begin(t) \/ Start(t) \/ SeesUp(t) \/ ConnectTimesOut(t) \/ Conclude(t) \/ Judge(t) \/ SendData(t)
  \/ Stop(t) \/ ResetConnection(t) \/ ReceiveNow(t) \/ Await(t) \/ ReceiveTimesOut(t)
  \/ Migrates(t) \/ Migrated(t) \/ Joins(t)
Moving(t)  == MoveStep(t) /\ UNCHANGED <<storeVars, transportVars>>
Watching   == (MonitorStep \/ MoveStep(Monitor)) /\ UNCHANGED <<storeVars, transportVars>>
Network    == ComesUp \/ PeerLeaves \/ Arrives
Paths      == "migrate" \in conf.calls /\ (InterfaceChanges \/ Cancel) /\ UNCHANGED <<storeVars, transportVars>>
Tickets    == "early" \in conf.calls /\ (StoreCall(conf.file) \/ ClockTicks) /\ UNCHANGED <<migrationVars, transportVars>>

Next ==
  \/ \E t \in Threads : Application(t) \/ Step(t) \/ Moving(t)
  \/ Watching \/ Network \/ Paths \/ Tickets \/ Restart

(* Every thread that can move does: connect and receive end by their own   *)
(* timeouts and the library's calls return.                                *)
Fairness ==
  /\ \A t \in Threads : WF_vars(Step(t)) /\ WF_vars(Moving(t))
  /\ WF_vars(Watching)

Spec == Init /\ [][Next]_vars /\ Fairness

-----------------------------------------------------------------------------
(* A ticket that a server rejected is given up (on_0rtt_rejected): it is   *)
(* not in the store again, whatever was saved and loaded since, unless the *)
(* process ended, or loaded the file, before the removal was saved.        *)
RejectedGivenUp ==
  forgotten \/ \A s \in DOMAIN tickets : tickets[s].n \notin rejected

(* receive gives the messages in the order the callback was given them,    *)
(* each to one caller and none left out, also over a call that fails as    *)
(* the connection ends and over the connections of one transport.          *)
DeliveredInOrder == got \o queue = [i \in 1..heard |-> i]

\* migrate_to or stop_network_monitoring holds the mutex that the events it waits for need
WaitsForItself == mset.forward /\ mm # "free"

(* Every call returns, also a receive whose connection ends and a migration *)
(* that falls back from path to path while other threads migrate too, as    *)
(* long as no call holds migration_mutex while events of a migration are    *)
(* delivered through the callback that set_migration_manager installed.     *)
TransportCallsReturn ==
  \A t \in Threads : []<>(WaitsForItself \/ (OpAt(t, "idle") /\ MoverAt(t, "off")))
=============================================================================

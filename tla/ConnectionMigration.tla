------------------------ MODULE ConnectionMigration ------------------------
(***************************************************************************)
(* transport/connection_migration.cpp: the manager that moves a connection *)
(* to another network path, on request and, from a monitor thread, when    *)
(* the interfaces change.  Migrations of several threads are not kept      *)
(* apart.  A path is told by its local interface; the remote end is one.   *)
(*                                                                         *)
(* Every event goes through a callback.  When it is the one of a QUIC      *)
(* transport, delivering it takes the transport's migration_mutex.         *)
(***************************************************************************)
EXTENDS Naturals, Sequences, FiniteSets, SequencesExt

CONSTANTS
  Movers,       \* the threads that migrate, the monitor among them
  Monitor,
  Interfaces,   \* the interfaces in the order of their priority, a sequence
  Settings,     \* migration_config: probing, fallback, keep, auto, max; forward: whose callback it is
  MaxChanges    \* bound: so often an interface goes up or down

Unknown == "unknown"   \* the path of a connection whose local address is not known
NoPath  == "none"
Names   == {Interfaces[i] : i \in DOMAIN Interfaces}

MigrationConfig ==
  [probing : BOOLEAN, fallback : BOOLEAN, keep : BOOLEAN, auto : BOOLEAN, max : Nat, forward : BOOLEAN]

ASSUME MigrationAssumption ==
  /\ Monitor \in Movers /\ MaxChanges \in Nat /\ {Unknown, NoPath} \cap Names = {}
  /\ Settings \subseteq MigrationConfig

VARIABLES
  mset,        \* rigid: the configuration
  up,          \* the interfaces that are up
  changes,     \* how often that changed
  mstate,      \* current_state
  cur,         \* current_path_
  prev,        \* previous_paths_, the latest first
  known,       \* last_known_interfaces
  watching,    \* monitoring
  mig,         \* mover -> where it is in a migration
  mm           \* who holds the transport's migration_mutex

migrationVars == <<mset, up, changes, mstate, cur, prev, known, watching, mig, mm>>

NoMove == [pc |-> "off", to |-> NoPath, todo |-> <<>>, res |-> "none"]
MoverAt(m, pc) == mig[m].pc = pc

MigrationInit ==
  /\ mset \in Settings
  /\ up = Names /\ changes = 0 /\ mstate = "idle" /\ cur = NoPath /\ prev = <<>>
  /\ known = {} /\ watching = FALSE /\ mig = [m \in Movers |-> NoMove] /\ mm = "free"

\* emit_event
CanEmit == mset.forward => mm = "free"

Moves(m, pc) == mig' = [mig EXCEPT ![m].pc = pc]
\* the migration returns to its caller: the monitor looks at the next interface
Ends(m, res) == mig' = [mig EXCEPT ![m].pc = IF m = Monitor THEN "pick" ELSE "back", ![m].res = res]

-----------------------------------------------------------------------------
(* migrate_to_path *)
Starting(m, p) == [mig[m] EXCEPT !.pc = "announce", !.to = p, !.res = "none"]

MigrateToPath(m, p) ==
  /\ mstate' = "migrating" /\ mig' = [mig EXCEPT ![m] = Starting(m, p)]

Announce(m) ==
  /\ MoverAt(m, "announce") /\ CanEmit
  /\ mstate' = IF mset.probing THEN "probing" ELSE "validating"
  /\ Moves(m, IF mset.probing THEN "probe" ELSE "validate")
  /\ UNCHANGED <<mset, up, changes, cur, prev, known, watching, mm>>

\* probe_path: the interface is there and up
Probe(m) ==
  /\ MoverAt(m, "probe") /\ CanEmit
  /\ IF mig[m].to \in up THEN mstate' = "validating" /\ Moves(m, "validate")
     ELSE mstate' = "failed" /\ Ends(m, "failed")
  /\ UNCHANGED <<mset, up, changes, cur, prev, known, watching, mm>>

\* validate_path looks again
Validate(m) ==
  /\ MoverAt(m, "validate") /\ CanEmit
  /\ IF mig[m].to \in up THEN Moves(m, "keep") /\ UNCHANGED mstate
     ELSE /\ mstate' = "failed"
          /\ IF mset.fallback /\ prev # <<>> THEN Moves(m, "fallback") ELSE Ends(m, "failed")
  /\ UNCHANGED <<mset, up, changes, cur, prev, known, watching, mm>>

\* add_previous_path
Remembered(p) ==
  LET all == <<p>> \o SelectSeq(prev, LAMBDA q : q # p)
  IN SubSeq(all, 1, IF Len(all) > mset.max THEN mset.max ELSE Len(all))

KeepOld(m) ==
  /\ MoverAt(m, "keep") /\ Moves(m, "switch")
  /\ prev' = IF cur # NoPath /\ mset.keep THEN Remembered(cur) ELSE prev
  /\ UNCHANGED <<mset, up, changes, mstate, cur, known, watching, mm>>

Switch(m) ==
  /\ MoverAt(m, "switch") /\ Moves(m, "finish")
  /\ cur' = mig[m].to /\ mstate' = "completed"
  /\ UNCHANGED <<mset, up, changes, prev, known, watching, mm>>

Finish(m) ==
  /\ MoverAt(m, "finish") /\ CanEmit /\ Ends(m, "moved") /\ mstate' = "idle"
  /\ UNCHANGED <<mset, up, changes, cur, prev, known, watching, mm>>

-----------------------------------------------------------------------------
(* fallback_to_previous *)
Fallback(m) ==
  /\ MoverAt(m, "fallback") /\ (prev # <<>> => CanEmit)
  /\ IF prev = <<>> THEN Ends(m, "failed")
     ELSE mig' = [mig EXCEPT ![m].pc = "try", ![m].todo = prev]
  /\ UNCHANGED <<mset, up, changes, mstate, cur, prev, known, watching, mm>>

\* a previous path is probed before the connection is moved to it
TryPrevious(m) ==
  /\ MoverAt(m, "try") /\ CanEmit
  /\ IF mig[m].todo = <<>> THEN Ends(m, "failed") /\ UNCHANGED mstate
     ELSE IF Head(mig[m].todo) \in up THEN MigrateToPath(m, Head(mig[m].todo))
     ELSE mig' = [mig EXCEPT ![m].todo = Tail(@)] /\ UNCHANGED mstate
  /\ UNCHANGED <<mset, up, changes, cur, prev, known, watching, mm>>

\* cancel_migration changes the state that is reported and stops nothing
Cancel ==
  /\ mstate \in {"migrating", "probing", "validating"}
  /\ mstate' = "idle"
  /\ UNCHANGED <<mset, up, changes, cur, prev, known, watching, mig, mm>>

-----------------------------------------------------------------------------
(* The monitor.  get_available_interfaces lists the interfaces by priority,*)
(* also those that are down.                                               *)
StartMonitoring ==
  IF watching THEN UNCHANGED <<watching, mstate, known, mig>>
  ELSE /\ watching' = TRUE /\ mstate' = "detecting" /\ known' = up
       /\ mig' = [mig EXCEPT ![Monitor] = [NoMove EXCEPT !.pc = "look"]]

LookOn ==   \* mutated form: the loop does not ask whether it is to stop
  /\ MoverAt(Monitor, "look") /\ (up # known => CanEmit)
  /\ Moves(Monitor, IF up = known THEN "sleep" ELSE "pick") /\ known' = up
  /\ UNCHANGED <<mset, up, changes, mstate, cur, prev, watching, mm>>
Look ==
  /\ MoverAt(Monitor, "look") /\ (watching /\ up # known => CanEmit)
  /\ IF ~watching THEN Moves(Monitor, "off") /\ UNCHANGED known
     ELSE IF up = known THEN Moves(Monitor, "sleep") /\ UNCHANGED known
     ELSE /\ known' = up
          /\ mig' = [mig EXCEPT ![Monitor] =
                       [NoMove EXCEPT !.pc = IF mset.auto /\ cur # NoPath THEN "pick" ELSE "sleep",
                                      !.todo = SelectSeq(Interfaces, LAMBDA i : i \in up)]]
  /\ UNCHANGED <<mset, up, changes, mstate, cur, prev, watching, mm>>

\* the next interface that was up and is not the current path's, until a migration succeeds
Pick ==
  /\ MoverAt(Monitor, "pick")
  /\ LET m == mig[Monitor]
     IN IF m.res = "moved" \/ m.todo = <<>> THEN Moves(Monitor, "sleep") /\ UNCHANGED mstate
        ELSE IF Head(m.todo) = cur THEN mig' = [mig EXCEPT ![Monitor].todo = Tail(@)] /\ UNCHANGED mstate
        ELSE /\ mstate' = "migrating"
             /\ mig' = [mig EXCEPT ![Monitor] = [Starting(Monitor, Head(m.todo)) EXCEPT !.todo = Tail(m.todo)]]
  /\ UNCHANGED <<mset, up, changes, cur, prev, known, watching, mm>>

Sleep ==
  /\ MoverAt(Monitor, "sleep")
  /\ mig' = [mig EXCEPT ![Monitor] = [NoMove EXCEPT !.pc = "look"]]
  /\ UNCHANGED <<mset, up, changes, mstate, cur, prev, known, watching, mm>>

InterfaceChanges ==
  /\ changes < MaxChanges /\ changes' = changes + 1
  /\ \E i \in Names : up' = (up \cup {i}) \ (up \cap {i})
  /\ UNCHANGED <<mset, mstate, cur, prev, known, watching, mig, mm>>

MoveStep(m) ==
  \/ Announce(m) \/ Probe(m) \/ Validate(m) \/ KeepOld(m) \/ Switch(m) \/ Finish(m)
  \/ Fallback(m) \/ TryPrevious(m)
MonitorStep == Look \/ Pick \/ Sleep
=============================================================================

---------------------------- MODULE TransferPool ----------------------------
(***************************************************************************)
(* adapters/thread_pool_adapter.cpp: one interface over three pools.       *)
(*                                                                         *)
(* thread_system_transfer_adapter wraps a task with a promise of its own;  *)
(* network_pool_transfer_adapter leaves the future to the pool below;      *)
(* async_transfer_pool gives every task a thread.  Each keeps, beside the  *)
(* futures, a count of the tasks of every stage, which it raises before a  *)
(* task is handed over and lowers when the task has run, at a different    *)
(* moment of its wrapper.  A pool below may refuse a task; nobody looks.   *)
(*                                                                         *)
(* An adapter is taken to outlive its tasks, as the comment at line 197    *)
(* says: nothing in it sees to that.                                       *)
(***************************************************************************)
EXTENDS Integers, FiniteSets

CONSTANTS
  Adapters,   \* the adapters that are built
  Tasks,      \* each is submitted at most once
  Stages,
  NoStage,    \* the stage of a task that was submitted to none
  Workers     \* threads of the pool below

ASSUME PoolAssumption ==
  /\ Adapters \subseteq {"thread_system", "network", "async"}
  /\ IsFiniteSet(Tasks) /\ NoStage \notin Stages /\ Workers \in Nat \ {0}

VARIABLES
  adapter,  \* the adapter of this build
  counts,   \* stage_tracker: stage -> tasks
  active,   \* active_tasks of async_transfer_pool
  task,     \* task -> where it is, its stage, whether it is delayed, and how it ended
  future    \* task -> none, pending or ready

poolVars == <<adapter, counts, active, task, future>>

NewTask == [at |-> "new", stage |-> NoStage, delayed |-> FALSE]

PoolInit ==
  /\ adapter \in Adapters
  /\ counts = [s \in Stages |-> 0] /\ active = 0
  /\ task = [k \in Tasks |-> NewTask]
  /\ future = [k \in Tasks |-> "none"]

Is(k, where) == task[k].at = where
Becomes(k, where) == task' = [task EXCEPT ![k].at = where]

\* stage_tracker, each call under its mutex
Increment(s) == counts' = IF s = NoStage THEN counts ELSE [counts EXCEPT ![s] = @ + 1]
Decrement(s) == counts' = IF s = NoStage THEN counts ELSE [counts EXCEPT ![s] = IF @ > 0 THEN @ - 1 ELSE @]

-----------------------------------------------------------------------------
(* Handing a task over. *)

\* submit_to_stage, and submit and submit_delayed, which count nothing here
Submit(k, s, delayed) ==
  /\ Is(k, "new") /\ (delayed => s = NoStage)
  /\ Increment(s)
  /\ task' = [task EXCEPT ![k] = [at |-> "counted", stage |-> s, delayed |-> delayed]]
  /\ UNCHANGED <<adapter, active, future>>

\* The caller gets its future.
Accepted(k) == Becomes(k, "queued") /\ future' = [future EXCEPT ![k] = "pending"]

\* The task is dropped, and with it its promise; what was counted stays counted.
Refused(k) == Becomes(k, "refused") /\ future' = [future EXCEPT ![k] = "ready"]

\* pool->enqueue, whose result is not looked at
EnqueueJob(k) ==
  /\ adapter = "thread_system" /\ Is(k, "counted")
  /\ Accepted(k) \/ Refused(k)
  /\ UNCHANGED <<adapter, counts, active>>

\* the submit of the pool below
SubmitToPool(k) ==
  /\ adapter = "network" /\ Is(k, "counted")
  /\ Accepted(k) \/ Refused(k)
  /\ UNCHANGED <<adapter, counts, active>>

\* async_transfer_pool counts all its tasks too,
Activate(k) ==
  /\ adapter = "async" /\ Is(k, "counted")
  /\ active' = active + 1
  /\ Becomes(k, "activated")
  /\ UNCHANGED <<adapter, counts, future>>

\* before it starts a thread, which may fail
StartThread(k) ==
  /\ Is(k, "activated")
  /\ Accepted(k) \/ Refused(k)
  /\ UNCHANGED <<adapter, counts, active>>

-----------------------------------------------------------------------------
(* Running it. *)

Busy == {k \in Tasks : task[k].at \in {"asleep", "running", "threw", "returned", "settled", "uncounted", "inactive"}}

\* A worker takes any queued task; std::async has one for each.  A delay is slept through by the worker, but for
\* the network's pool, which knows of delays itself.
Fetch(k) ==
  /\ Is(k, "queued")
  /\ adapter # "async" => Cardinality(Busy) < Workers
  /\ Becomes(k, IF task[k].delayed /\ adapter # "network" THEN "asleep" ELSE "running")
  /\ UNCHANGED <<adapter, counts, active, future>>

Wakes(k) ==
  /\ Is(k, "asleep")
  /\ Becomes(k, "running")
  /\ UNCHANGED <<adapter, counts, active, future>>

\* The function returns, or throws into the wrapper's catch.
Runs(k) ==
  /\ Is(k, "running")
  /\ Becomes(k, "returned") \/ Becomes(k, "threw")
  /\ UNCHANGED <<adapter, counts, active, future>>

Over(k) == Is(k, "returned") \/ Is(k, "threw")

Settle(k, where) == Becomes(k, where) /\ future' = [future EXCEPT ![k] = "ready"]

\* thread_system: set_value or set_exception first,
SetPromise(k) ==
  /\ adapter = "thread_system" /\ Over(k)
  /\ Settle(k, "settled")
  /\ UNCHANGED <<adapter, counts, active>>

\* and then the count
Uncount(k) ==
  /\ Is(k, "settled")
  /\ Decrement(task[k].stage)
  /\ Becomes(k, "done")
  /\ UNCHANGED <<adapter, active, future>>

\* mutated form: the catch throws on without it
NetworkUncountReturned(k) ==
  /\ adapter = "network" /\ Over(k)
  /\ IF Is(k, "returned") THEN Decrement(task[k].stage) ELSE UNCHANGED counts
  /\ Becomes(k, "uncounted")
  /\ UNCHANGED <<adapter, active, future>>

\* network: the count first, in the catch and after it,
NetworkUncount(k) ==
  /\ adapter = "network" /\ Over(k)
  /\ Decrement(task[k].stage)
  /\ Becomes(k, "uncounted")
  /\ UNCHANGED <<adapter, active, future>>

\* async: both counts, one after the other,
Deactivate(k) ==
  /\ adapter = "async" /\ Over(k)
  /\ active' = active - 1
  /\ Becomes(k, "inactive")
  /\ UNCHANGED <<adapter, counts, future>>

AsyncUncount(k) ==
  /\ Is(k, "inactive")
  /\ Decrement(task[k].stage)
  /\ Becomes(k, "uncounted")
  /\ UNCHANGED <<adapter, active, future>>

\* and then the future that the wrapper's end makes ready
WrapperEnds(k) ==
  /\ Is(k, "uncounted")
  /\ Settle(k, "done")
  /\ UNCHANGED <<adapter, counts, active>>

PoolNext ==
  \E k \in Tasks :
    \/ \E s \in Stages \cup {NoStage}, delayed \in BOOLEAN : Submit(k, s, delayed)
    \/ EnqueueJob(k) \/ SubmitToPool(k) \/ Activate(k) \/ StartThread(k)
    \/ Fetch(k) \/ Wakes(k) \/ Runs(k)
    \/ SetPromise(k) \/ Uncount(k) \/ NetworkUncount(k)
    \/ Deactivate(k) \/ AsyncUncount(k) \/ WrapperEnds(k)

PoolSpec == PoolInit /\ [][PoolNext]_poolVars

-----------------------------------------------------------------------------
(* What pending_tasks(stage) says agrees with the futures, at every moment *)
(* and for the three orders in which the wrappers bring them up to date:   *)
(* it counts every task of the stage whose function has not ended, and,    *)
(* except for tasks a pool refused, whose count is never lowered, none     *)
(* whose future is ready.  thread_system makes the future ready first, so  *)
(* there a task between the two is still counted.  active_tasks of         *)
(* async_transfer_pool is such a count over all tasks.                     *)
Of(s) == {k \in Tasks : task[k].stage = s}
Unfinished == {k \in Tasks : task[k].at \in {"queued", "asleep", "running"}}
Unready == {k \in Tasks : task[k].at # "new" /\ future[k] # "ready"}
Leaked  == {k \in Tasks : task[k].at = "refused"}
Lagging == {k \in Tasks : task[k].at = "settled"}

PendingIsUnready ==
  /\ \A s \in Stages :
       /\ Cardinality(Of(s) \cap Unfinished) <= counts[s]
       /\ counts[s] <= Cardinality(Of(s) \cap (Unready \cup Leaked \cup Lagging))
  /\ adapter = "async" =>
       /\ Cardinality(Unfinished) <= active
       /\ active <= Cardinality(Unready \cup Leaked)
=============================================================================

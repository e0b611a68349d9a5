--------------------------- MODULE StorageManager ---------------------------
(***************************************************************************)
(* server/storage_manager.cpp: one manager over a primary and a secondary  *)
(* backend, each a local directory or a cloud.  The manager holds no lock  *)
(* while it works, so every call of a backend is a step; a local store     *)
(* truncates the file in one step and writes it in the next.               *)
(*                                                                         *)
(* Data are values, an age counts the periods since an object was written, *)
(* storage classes are the cloud's.  exists and the statistics only read   *)
(* and count.  The futures of the _async calls are threads like any other. *)
(***************************************************************************)
EXTENDS Naturals, FiniteSets, Sequences, Functions

CONSTANTS
  Threads, Keys, Data,
  Present,      \* what every key holds at first: data or None
  Inputs,       \* the data store is called with
  Size,         \* data -> size class: 0 fits the hot tier, 1 the warm tier, 2 neither
  Configs,      \* configurations, each with the calls made in it and the bounds they are followed to
  MoveTargets,  \* the tiers change_tier is called with
  MaxAge,       \* bound: ages beyond it are not told apart
  None, Torn    \* Torn: the bytes of a file that was truncated and not yet written

Backends == {"primary", "secondary"}
Tiers    == {"hot", "warm", "cold", "archive"}
Kinds    == {"local", "s3", "azure_blob", "gcs"}

UserCalls == {"store", "retrieve", "remove", "change_tier", "copy", "shutdown"}

\* attached: a policy is attached; dry: its dry run; maxCalls, maxFaults: bounds on the calls made
\* (initialize aside) and on the requests that fail
ConfigType ==
  [kind : [Backends -> Kinds], replicate : BOOLEAN, fallback : BOOLEAN, hybrid : BOOLEAN,
   attached : BOOLEAN, dry : BOOLEAN, calls : SUBSET UserCalls, maxCalls : Nat, maxFaults : Nat]

ASSUME ManagerAssumption ==
  /\ Present \in Data \cup {None} /\ Inputs \subseteq Data
  /\ Size \in [Data -> 0..2] /\ Configs \subseteq ConfigType /\ MoveTargets \subseteq Tiers
  /\ MaxAge \in Nat
  /\ {None, Torn} \cap (Data \cup Keys) = {} /\ None # Torn

VARIABLES
  config,       \* rigid: the configuration of this behaviour
  objects,      \* backend -> key -> what is stored under it
  initialized, connected,
  call,         \* thread -> the call it is in, with its locals
  calls, faults,  \* how many were made, how many failed
  truth,        \* history: key -> the data the callers may take it to have
  sound         \* history: where they may take it to be, as pairs of a backend and a key

managerVars == <<config, objects, initialized, connected, call, calls, faults, truth, sound>>

-----------------------------------------------------------------------------
Classes == {"STANDARD", "STANDARD_IA", "GLACIER", "DEEP_ARCHIVE"}
ClassOf == [hot |-> "STANDARD", warm |-> "STANDARD_IA", cold |-> "GLACIER", archive |-> "DEEP_ARCHIVE"]

\* an object as a backend stores it, in a class or, in a directory and when stored without one, in none
Objects == [data : Data \cup {Torn}, class : Classes \cup {None}, age : 0..MaxAge]

ASSUME NoneAssumption == None \notin Backends \cup Tiers \cup Classes \cup Objects

\* get_metadata of a cloud: an object without a storage class counts as hot
TierOfClass ==
  [STANDARD |-> "hot", STANDARD_IA |-> "warm", ONEZONE_IA |-> "warm",
   GLACIER |-> "cold", GLACIER_IR |-> "cold", DEEP_ARCHIVE |-> "archive"]
TierOf(class) == IF class \in DOMAIN TierOfClass THEN TierOfClass[class] ELSE "hot"

Local(b)     == config.kind[b] = "local"
Has(b, k)    == objects[b][k] # None
\* the clouds refuse every request unless connected; a directory only needs to be there
Answers(b)   == Local(b) \/ connected[b]

SizeOf(data) == IF data = Torn THEN 0 ELSE Size[data]

\* what list tells of an object: no backend maps its storage class there
Listed(b, k) ==
  [key |-> k, size |-> SizeOf(objects[b][k].data), age |-> objects[b][k].age, tier |-> "hot"]

\* what get_metadata tells of it: a local file has no tier
Metadata(b, k) ==
  IF Local(b) THEN Listed(b, k) ELSE [Listed(b, k) EXCEPT !.tier = TierOf(objects[b][k].class)]

-----------------------------------------------------------------------------
(* Calls: what is called (op), where it is (pc), in which backend (at),    *)
(* and whether it succeeded (ok).  Two fields are history: failed, the     *)
(* requests that failed, and clash, the backends in which the change of    *)
(* another call may have come between its steps, or which a retrieve had   *)
(* its answer from when they were not known to be sound.                   *)
Mutators == {"store", "remove", "change_tier", "copy", "execute", "execute_pending"}

NoCall == [op |-> "none", pc |-> "idle", key |-> None, data |-> None, class |-> None,
           over |-> FALSE, at |-> "primary", dst |-> "primary", ok |-> FALSE,
           failed |-> {}, clash |-> {}]

At(t, pc) == call[t].pc = pc

\* a move stores what it retrieved in another class
Move(c)     == c.class # None
Busy(t, k)  == \E u \in Threads \ {t} : call[u].op \in Mutators /\ call[u].key = k

(* Where the steps of a call d may disturb a call c for the same key: in a *)
(* directory always, since a file is truncated before it is written; in a  *)
(* cloud only if one of them changes the data, as a move does that read    *)
(* them where they were not known to be sound.                             *)
Stale(c) ==
  c.pc \in {"open", "write", "returned"} /\ (c.dst \in c.clash \/ <<c.dst, c.key>> \notin sound)

Clash(c, d) ==
  IF c.key # d.key \/ c.key = None \/ d.op \notin Mutators THEN {}
  ELSE {b \in Backends : Local(b) \/ \E x \in {c, d} : x.op \in Mutators /\ (~Move(x) \/ Stale(x))}

\* t enters the call c
Enter(t, c) ==
  /\ call' = [u \in Threads |->
       IF u = t THEN [c EXCEPT !.clash = UNION {Clash(c, call[v]) : v \in Threads \ {t}}]
       ELSE [call[u] EXCEPT !.clash = @ \cup Clash(call[u], c)]]
  /\ UNCHANGED <<truth, sound>>

Begin(t, c) ==
  /\ c.op \in config.calls
  /\ At(t, "idle") /\ calls < config.maxCalls /\ calls' = calls + 1
  /\ initialized
  /\ Enter(t, c)
  /\ UNCHANGED <<config, objects, initialized, connected, faults>>

\* a request to backend b succeeds or fails
Attempt(b, ok) ==
  /\ ok => Answers(b)
  /\ (~ok /\ Answers(b)) => faults < config.maxFaults
  /\ faults' = IF ~ok /\ Answers(b) THEN faults + 1 ELSE faults

After(c, request, ok) == IF ok THEN c ELSE [c EXCEPT !.failed = @ \cup {<<request, c.at>>}]

-----------------------------------------------------------------------------
Init ==
  /\ config \in Configs
  /\ objects = [b \in Backends |-> [k \in Keys |->
       IF Present = None \/ (b = "secondary" /\ ~config.replicate) THEN None
       ELSE [data |-> Present, class |-> None, age |-> 0]]]
  /\ truth = [k \in Keys |-> Present]
  /\ initialized = FALSE /\ connected = [b \in Backends |-> FALSE]
  /\ call = [t \in Threads |-> NoCall]
  /\ calls = 0 /\ faults = 0
  /\ sound = (IF config.replicate \/ Present = None THEN Backends ELSE {"primary"}) \X Keys

(* initialize: the backends are connected before the flag is set, and a    *)
(* secondary that cannot be connected does not matter.                     *)
Connect(t) ==
  /\ At(t, "idle") /\ ~initialized
  /\ \E ok \in BOOLEAN :
       /\ ok \/ faults < config.maxFaults
       /\ faults' = IF ok THEN faults ELSE faults + 1
       /\ connected' = [b \in Backends |-> b = "primary" \/ ok]
  /\ call' = [call EXCEPT ![t] = [NoCall EXCEPT !.op = "initialize", !.pc = "connected"]]
  /\ UNCHANGED <<config, objects, initialized, calls, truth, sound>>

SetInitialized(t) ==
  /\ At(t, "connected")
  /\ initialized' = TRUE
  /\ call' = [call EXCEPT ![t] = NoCall]
  /\ UNCHANGED <<config, objects, connected, calls, faults, truth, sound>>

(* shutdown: the calls in progress are not waited for.                     *)
Disconnect(t) ==
  /\ "shutdown" \in config.calls
  /\ At(t, "idle") /\ calls < config.maxCalls /\ initialized
  /\ calls' = calls + 1
  /\ connected' = [b \in Backends |-> FALSE]
  /\ call' = [call EXCEPT ![t] = [NoCall EXCEPT !.op = "shutdown", !.pc = "disconnected"]]
  /\ UNCHANGED <<config, objects, initialized, faults, truth, sound>>

SetShutDown(t) ==
  /\ At(t, "disconnected")
  /\ initialized' = FALSE
  /\ call' = [call EXCEPT ![t] = NoCall]
  /\ UNCHANGED <<config, objects, connected, calls, faults, truth, sound>>

-----------------------------------------------------------------------------
(* The calls of the manager.                                               *)

\* store, store_file
Store(t, k, d, over) ==
  Begin(t, [NoCall EXCEPT !.op = "store", !.pc = "open", !.key = k, !.data = d, !.over = over])

\* retrieve, retrieve_file
Retrieve(t, k) ==
  Begin(t, [NoCall EXCEPT !.op = "retrieve", !.pc = "get", !.key = k])

RemoveObject(t, k) ==
  Begin(t, [NoCall EXCEPT !.op = "remove", !.pc = "remove", !.key = k])

\* from op on, a move is a retrieve whose result is stored over the object
Moving(op, k, tier) ==
  [NoCall EXCEPT !.op = op, !.pc = "get", !.key = k, !.class = ClassOf[tier], !.over = TRUE]

ChangeTier(t, k, tier) == Begin(t, Moving("change_tier", k, tier))

\* the backends are found by their kinds, the primary first
Chosen(kind) ==
  IF config.kind["primary"] = kind THEN {"primary"}
  ELSE IF config.kind["secondary"] = kind THEN {"secondary"} ELSE {}

CopyBetweenBackends(t, k, source, destination) ==
  \E src \in Chosen(source), dst \in Chosen(destination) :
    Begin(t, [NoCall EXCEPT !.op = "copy", !.pc = "get", !.key = k,
                            !.at = src, !.dst = dst, !.over = TRUE])

-----------------------------------------------------------------------------
(* The steps they take in the backends.                                    *)

Returned(c, ok) == [c EXCEPT !.pc = "returned", !.ok = ok]

\* the primary's answer is the caller's; a failure of the replica is reported to on_error only
AfterPutUnreplicated(c, ok) ==   \* mutated form: only store_file replicates what it stored
  Returned(c, ok)
AfterPut(c, ok) ==
  IF c.op # "copy" /\ c.at = "primary" /\ ok /\ config.replicate
  THEN [c EXCEPT !.at = "secondary", !.pc = "open"]
  ELSE Returned(c, ok \/ (c.op # "copy" /\ c.at = "secondary"))

Written(c) == [data |-> c.data, class |-> IF Local(c.at) THEN None ELSE c.class, age |-> 0]

\* cloud_storage_backend::store does not look at overwrite; a request that failed may have had its effect
PutToCloud(t) ==
  LET c == call[t] IN
  /\ At(t, "open") /\ ~Local(c.at)
  /\ \E ok, done \in BOOLEAN :
       /\ Attempt(c.at, ok) /\ (ok => done)
       /\ done => connected[c.at]
       /\ objects' = IF done THEN [objects EXCEPT ![c.at][c.key] = Written(c)] ELSE objects
       /\ call' = [call EXCEPT ![t] = AfterPut(After(c, "put", ok), ok)]
  /\ UNCHANGED <<config, initialized, connected, calls, truth, sound>>

\* local_storage_backend::store: an existing file is refused or truncated
Refused(c) == Has(c.at, c.key) /\ ~c.over

OpenFile(t) ==
  LET c == call[t] IN
  /\ At(t, "open") /\ Local(c.at) /\ ~Refused(c)
  /\ \E ok \in BOOLEAN :
       /\ Attempt(c.at, ok)
       /\ objects' = IF ok THEN [objects EXCEPT ![c.at][c.key] = [data |-> Torn, class |-> None, age |-> 0]]
                     ELSE objects
       /\ call' = [call EXCEPT ![t] =
            IF ok THEN [c EXCEPT !.pc = "write"] ELSE AfterPut(After(c, "put", ok), FALSE)]
  /\ UNCHANGED <<config, initialized, connected, calls, truth, sound>>

RefuseFile(t) ==
  LET c == call[t] IN
  /\ At(t, "open") /\ Local(c.at) /\ Refused(c)
  /\ call' = [call EXCEPT ![t] = AfterPut(After(c, "put", c.at = "primary"), FALSE)]
  /\ UNCHANGED <<config, objects, initialized, connected, calls, faults, truth, sound>>

\* a file removed since it was opened stays removed; a write that fails in close() is not noticed
WriteFile(t) ==
  LET c == call[t] IN
  /\ At(t, "write")
  /\ \E ok, done \in BOOLEAN :
       /\ Attempt(c.at, done) /\ (done => ok)
       /\ objects' = IF done /\ Has(c.at, c.key) THEN [objects EXCEPT ![c.at][c.key] = Written(c)]
                     ELSE objects
       /\ call' = [call EXCEPT ![t] = AfterPut(After(c, "put", done), ok)]
  /\ UNCHANGED <<config, initialized, connected, calls, truth, sound>>

\* change_tier stores what it retrieved (from dst), unless the manager was shut down meanwhile
AfterGet(c, data) ==
  CASE c.op = "retrieve"          -> Returned([c EXCEPT !.data = data], TRUE)
    [] c.op = "copy"              -> [c EXCEPT !.data = data, !.at = c.dst, !.pc = "open"]
    [] Move(c) /\ initialized     -> [c EXCEPT !.data = data, !.dst = c.at, !.at = "primary", !.pc = "open"]
    [] Move(c) /\ ~initialized    -> Returned(c, FALSE)

AfterMiss(c) ==
  IF c.op # "copy" /\ c.at = "primary" /\ config.fallback
  THEN [c EXCEPT !.at = "secondary"] ELSE Returned(c, FALSE)

\* what a retrieve answers is worth what its backend was known to hold
Judged(c) ==
  IF c.op = "retrieve" /\ c.pc = "returned" /\ <<c.at, c.key>> \notin sound
  THEN [c EXCEPT !.clash = @ \cup {c.at}] ELSE c

Get(t) ==
  LET c == call[t] IN
  /\ At(t, "get")
  /\ \E ok \in BOOLEAN :
       /\ Attempt(c.at, ok)
       /\ LET d == IF ok /\ Has(c.at, c.key) THEN AfterGet(c, objects[c.at][c.key].data)
                   ELSE AfterMiss(After(c, "get", ok))
          IN call' = [u \in Threads |-> IF u = t THEN Judged(d)
               ELSE IF Move(d) /\ Stale(d) THEN [call[u] EXCEPT !.clash = @ \cup Clash(call[u], d)]
               ELSE call[u]]
  /\ UNCHANGED <<config, objects, initialized, connected, calls, truth, sound>>

\* a directory reports a missing file, a cloud deletes it all the same; the secondary's answer is ignored
AfterUnlinkOnce(c, ok) ==   \* mutated form: the replica is only removed if the primary was not
  IF c.at = "primary" /\ ~ok THEN [c EXCEPT !.at = "secondary", !.ok = FALSE] ELSE Returned(c, ok)
AfterUnlink(c, ok) ==
  IF c.at = "primary"
  THEN [c EXCEPT !.at = "secondary", !.ok = ok /\ (Has(c.at, c.key) \/ ~Local(c.at))]
  ELSE Returned(c, c.ok)

Unlink(t) ==
  LET c == call[t] IN
  /\ At(t, "remove")
  /\ \E ok, done \in BOOLEAN :
       /\ Attempt(c.at, ok) /\ (ok => done)
       /\ (done /\ ~ok) => ~Local(c.at) /\ connected[c.at]
       /\ objects' = IF done THEN [objects EXCEPT ![c.at][c.key] = None] ELSE objects
       /\ call' = [call EXCEPT ![t] = AfterUnlink(After(c, "remove", ok), ok)]
  /\ UNCHANGED <<config, initialized, connected, calls, truth, sound>>

-----------------------------------------------------------------------------
(* What holds when the call c returns, given its result and the requests   *)
(* that failed in it, noticed or not: the data of the key (Lesson) and the *)
(* backends that hold it (Holders).  A call that clashed leaves nothing to *)
(* conclude for the backends it clashed in.                                *)
Removal(c)   == ~Move(c) /\ c.op \in {"remove", "execute", "execute_pending"}
Failed(c, r) == {b \in Backends : <<r, b>> \in c.failed}
Kept(c)      == {b \in Backends : <<b, c.key>> \in sound}
Targets      == IF config.replicate THEN Backends ELSE {"primary"}

Lesson(c) ==
  CASE c.op = "store" /\ c.ok                            -> c.data
    [] c.op = "copy" /\ c.ok /\ c.dst = "primary"        -> c.data
    [] Removal(c) /\ "primary" \notin Failed(c, "remove") -> None
    [] OTHER                                             -> truth[c.key]

Holders(c) ==
  CASE Removal(c)        -> IF "primary" \in Failed(c, "remove") THEN {} ELSE Backends \ Failed(c, "remove")
    [] c.op = "store" /\ c.ok -> Targets \ Failed(c, "put")
    [] Move(c) /\ c.ok   -> (Kept(c) \ Targets) \cup (IF ~Stale(c) THEN Targets \ Failed(c, "put") ELSE {})
    [] c.op = "copy" /\ c.ok ->
         (IF c.dst = "primary" \/ "primary" \in Kept(c) THEN Backends ELSE Kept(c) \ {c.dst})
           \ Failed(c, "put")
    [] OTHER             -> Kept(c) \ Failed(c, "put")

Learn(c) ==
  IF c.op \notin Mutators THEN UNCHANGED <<truth, sound>> ELSE
  /\ truth' = [truth EXCEPT ![c.key] = Lesson(c)]
  /\ sound' = {p \in sound : p[2] # c.key} \cup ((Holders(c) \ c.clash) \X {c.key})

Return(t) ==
  LET c == call[t] IN
  /\ At(t, "returned") /\ c.op \in {"store", "retrieve", "remove", "change_tier", "copy"}
  /\ Learn(c)
  /\ call' = [call EXCEPT ![t] = NoCall]
  /\ UNCHANGED <<config, objects, initialized, connected, calls, faults>>

BackendStep(t) ==
  \/ PutToCloud(t) \/ OpenFile(t) \/ RefuseFile(t) \/ WriteFile(t)
  \/ Get(t) \/ Unlink(t)

ManagerStep(t) ==
  \/ Connect(t) \/ SetInitialized(t) \/ Disconnect(t) \/ SetShutDown(t)
  \/ \E k \in Keys :
       \/ \E d \in Inputs, over \in BOOLEAN : Store(t, k, d, over)
       \/ Retrieve(t, k)
       \/ RemoveObject(t, k)
       \/ \E tier \in MoveTargets : ChangeTier(t, k, tier)
       \/ \E from, to \in Range(config.kind) : from # to /\ CopyBetweenBackends(t, k, from, to)
  \/ BackendStep(t) \/ Return(t)

-----------------------------------------------------------------------------

(* A retrieve that takes its answer from a backend that holds the truth    *)
(* returns it, and reports a missing object only if it was removed: a      *)
(* fallback, a move between tiers or a copy does not bring older data      *)
(* back, and a move of an object in a cloud is not seen by its readers.    *)
ReadsCurrent ==
  \A t \in Threads : LET c == call[t] IN
    c.op = "retrieve" /\ c.pc = "returned" /\ c.at \notin c.clash =>
      /\ c.ok => c.data = truth[c.key]
      /\ ~c.ok /\ c.failed = {} => truth[c.key] = None

(* Where a key is known to be sound between the changes, it is: after a    *)
(* store in which no request failed both backends hold its data, after a   *)
(* removal none does, moves and copies keep it, and what fails in one      *)
(* backend harms that backend only.                                        *)
HoldersHold ==
  \A b \in Backends, k \in Keys :
    <<b, k>> \in sound /\ ~(\E t \in Threads : call[t].op \in Mutators /\ call[t].key = k) =>
      IF Has(b, k) THEN objects[b][k].data = truth[k] ELSE truth[k] = None
=============================================================================

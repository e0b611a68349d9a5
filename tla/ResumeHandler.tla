---------------------------- MODULE ResumeHandler ----------------------------
(***************************************************************************)
(* core/resume_handler.cpp: which chunks of which transfer have arrived,   *)
(* kept in a cache under mutex_ and in one JSON file per transfer.         *)
(*                                                                         *)
(* The critical sections are single steps; what the code does outside them *)
(* are steps of their own: load_state reads the file with no lock held and *)
(* installs the result later; a mark that reaches the checkpoint interval  *)
(* unlocks and then calls save_state with a reference into the cache;      *)
(* save_state truncates the file before it writes it.                      *)
(*                                                                         *)
(* A state is the set of chunks its bitmap marks, and whether              *)
(* last_activity lies within state_ttl.  The transfer's other fields are   *)
(* constant, and transferred_bytes plays no part in what follows.          *)
(***************************************************************************)
EXTENDS Naturals, FiniteSets, Sequences, BitmapCodec

CONSTANTS
  Threads,
  Ids,
  TotalChunks,         \* total_chunks of every transfer
  CheckpointInterval,  \* config_.checkpoint_interval
  Batches,             \* index lists callers pass to mark_chunks_received
  Saved,               \* states callers pass to save_state
  IOFaults,            \* opening, writing or removing a state file may fail
  Restarts,            \* the process may die and be started again
  Removals,            \* delete_state and cleanup_expired_states are called
  None

Indexes == 0..(TotalChunks - 1)
States  == [marked : SUBSET Indexes, fresh : BOOLEAN]
Files   == [hex : Seq(0..255), fresh : BOOLEAN]
Torn    == [torn |-> TRUE]    \* a truncated or half-written state file

ASSUME ConstantsAssumption ==
  /\ TotalChunks \in Nat /\ CheckpointInterval \in Nat \ {0}
  /\ Batches \subseteq Seq(0..TotalChunks)
  /\ Saved \subseteq States
  /\ {IOFaults, Restarts, Removals} \subseteq BOOLEAN
  /\ None \notin States \cup Threads \cup Ids /\ None \notin Files

VARIABLES
  cache,   \* cache_: id -> state, or None
  file,    \* the state file of each id: a state, Torn, or None
  since,   \* chunks_since_checkpoint_, shared by all transfers
  lock,    \* the thread inside save_state, between truncating and writing
  call,    \* the call each thread is in
  created, \* history: the ids whose first save_state took place
  ever,    \* history: every chunk a caller marked, or saved as marked
  acked,   \* history: the chunks the handler owes an answer for (see AckedKept)
  disturbed \* history: a file operation failed, a state was deleted or the process restarted

vars == <<cache, file, since, lock, call, created, ever, acked, disturbed>>
history == <<created, ever, acked, disturbed>>

IdleCall == [op |-> "none", at |-> "idle", id |-> None, arg |-> <<>>, val |-> None, dangling |-> FALSE]

Idle(t) == call[t].at = "idle"
Quiescent == \A t \in Threads : Idle(t)

Init ==
  /\ cache = [id \in Ids |-> None]
  /\ file  = [id \in Ids |-> None]
  /\ since = 0
  /\ lock  = None
  /\ call  = [t \in Threads |-> IdleCall]
  /\ created = {}
  /\ ever  = [id \in Ids |-> {}]
  /\ acked = [id \in Ids |-> {}]
  /\ disturbed = FALSE

Return(t) == call' = [call EXCEPT ![t] = IdleCall]

-----------------------------------------------------------------------------
\* serialize_state_to_json and deserialize_state_from_json
Serialize(state) == [hex |-> BitmapToHex(state.marked, TotalChunks), fresh |-> state.fresh]
DeserializeMissing(text) ==   \* mutated form: the bitmap read as the missing chunks
  [marked |-> Indexes \ HexToBitmap(text.hex, TotalChunks), fresh |-> text.fresh]
Deserialize(text) == [marked |-> HexToBitmap(text.hex, TotalChunks), fresh |-> text.fresh]

(* The queries of the API. *)
HasState(id) == cache[id] # None \/ file[id] # None
IsChunkReceived(id, i) == cache[id] # None /\ i \in cache[id].marked
GetMissingChunks(state) == Indexes \ state.marked

-----------------------------------------------------------------------------
(* save_state. *)

\* A caller saves a state: of a new transfer, or over the one there is, at any time.
SaveState(t, id, state) ==
  /\ Idle(t)
  /\ call' = [call EXCEPT ![t] = [op |-> "save", at |-> "save", id |-> id, arg |-> <<>>,
                                  val |-> state, dangling |-> FALSE]]
  /\ ever' = [ever EXCEPT ![id] = @ \cup state.marked]
  /\ UNCHANGED <<cache, file, since, lock, created, acked, disturbed>>

(* What save_state is given: the caller's state, or the cache entry that    *)
(* mark_chunk(s)_received holds a reference to, as it is now.  When the     *)
(* entry was erased meanwhile the reference dangles and what is read is     *)
(* undefined; the old bytes are the likely outcome.                         *)
Foreign(t) == call[t].op = "save" \/ call[t].dangling
GivenCopy(t) == call[t].val   \* mutated form: a copy taken before the unlock
Given(t) == IF Foreign(t) THEN call[t].val ELSE cache[call[t].id]

\* Lock, update the cache, open (truncate) the file.
SaveBegin(t) ==
  LET id == call[t].id IN
  /\ call[t].at = "save" /\ lock = None
  /\ cache' = [cache EXCEPT ![id] = Given(t)]
  /\ \/ /\ file' = [file EXCEPT ![id] = Torn]
        /\ lock' = t
        /\ call' = [call EXCEPT ![t].at = "write", ![t].val = Given(t)]
        /\ UNCHANGED disturbed
     \/ /\ IOFaults
        /\ Return(t)
        /\ disturbed' = TRUE
        /\ UNCHANGED <<file, lock>>
  /\ created' = created \cup {id}
  /\ acked' = IF Foreign(t) THEN [acked EXCEPT ![id] = call[t].val.marked] ELSE acked
  /\ UNCHANGED <<since, ever>>

\* Write the JSON text and unlock.
SaveWrite(t) ==
  /\ call[t].at = "write"
  /\ \/ file' = [file EXCEPT ![call[t].id] = Serialize(call[t].val)] /\ UNCHANGED disturbed
     \/ IOFaults /\ disturbed' = TRUE /\ UNCHANGED file
  /\ lock' = None
  /\ Return(t)
  /\ UNCHANGED <<cache, since, created, ever, acked>>

-----------------------------------------------------------------------------
(* The three operations that change a cached state. *)

\* The indexes mark_chunks_received sets: those before the first one out of range.
Valid(arg) == {arg[k] : k \in {j \in DOMAIN arg : \A i \in 1..j : arg[i] < TotalChunks}}
AllValid(arg) == \A k \in DOMAIN arg : arg[k] < TotalChunks

\* Bitmap, last_activity and the histories.
Marked(id, new, fresh) ==
  /\ cache' = [cache EXCEPT ![id].marked = @ \cup new, ![id].fresh = @ \/ fresh]
  /\ ever'  = [ever EXCEPT ![id] = @ \cup new]
  /\ acked' = [acked EXCEPT ![id] = @ \cup new]

\* Unlock, then save_state(state) with the reference.
ThenSave(t, op, id, arg) ==
  call' = [call EXCEPT ![t] = [op |-> op, at |-> "save", id |-> id, arg |-> arg,
                               val |-> cache'[id], dangling |-> FALSE]]

\* Mutated form of ApplyMark: the checkpoint comes one chunk late.
ApplyMarkLate(t, id, arg) ==
  IF ~AllValid(arg)
  THEN Return(t) /\ UNCHANGED <<cache, since, ever, acked, disturbed>>
  ELSE /\ UNCHANGED disturbed
       /\ Marked(id, Valid(arg), TRUE)
       /\ IF since + 1 > CheckpointInterval
          THEN since' = 0 /\ ThenSave(t, "mark", id, arg)
          ELSE since' = since + 1 /\ Return(t)

\* mark_chunk_received on a cached state.
ApplyMark(t, id, arg) ==
  IF ~AllValid(arg)
  THEN Return(t) /\ UNCHANGED <<cache, since, ever, acked, disturbed>>
  ELSE /\ UNCHANGED disturbed
       /\ Marked(id, Valid(arg), TRUE)
       /\ IF since + 1 >= CheckpointInterval
          THEN since' = 0 /\ ThenSave(t, "mark", id, arg)
          ELSE since' = since + 1 /\ Return(t)

\* mark_chunks_received on a cached state.
ApplyBatch(t, id, arg) ==
  /\ Marked(id, Valid(arg), AllValid(arg))
  /\ IF AllValid(arg) THEN ThenSave(t, "batch", id, arg) /\ UNCHANGED disturbed ELSE Return(t) /\ disturbed' = TRUE
  /\ UNCHANGED since

\* update_transferred_bytes on a cached state.
ApplyBytes(t, id) ==
  /\ cache' = [cache EXCEPT ![id].fresh = TRUE]
  /\ Return(t)
  /\ UNCHANGED <<since, ever, acked, disturbed>>

\* cleanup_expired_states judges a state it has loaded.
ApplyCleanup(t, id, state) ==
  IF state.fresh THEN Return(t)
  ELSE call' = [call EXCEPT ![t] = [op |-> "cleanup", at |-> "expire", id |-> id, arg |-> <<>>,
                                    val |-> None, dangling |-> FALSE]]

Apply(t, op, id, arg) ==
  \/ op = "mark"  /\ ApplyMark(t, id, arg)
  \/ op = "batch" /\ ApplyBatch(t, id, arg)
  \/ op = "bytes" /\ ApplyBytes(t, id)

\* A caller's call on a state that is cached runs in one critical section.
CallCached(t, op, id, arg) ==
  /\ Idle(t) /\ lock = None /\ cache[id] # None
  /\ Apply(t, op, id, arg)
  /\ UNCHANGED <<file, lock, created>>

CleanupCached(t, id) ==
  /\ Idle(t) /\ lock = None /\ cache[id] # None /\ file[id] # None
  /\ ApplyCleanup(t, id, cache[id])
  /\ UNCHANGED <<cache, file, since, lock, history>>

-----------------------------------------------------------------------------
(* load_state, and the calls that go through it when the cache misses. *)
CallUncached(t, op, id, arg) ==
  /\ Idle(t) /\ lock = None /\ cache[id] = None /\ id \in created
  /\ call' = [call EXCEPT ![t] = [op |-> op, at |-> "read", id |-> id, arg |-> arg,
                                  val |-> None, dangling |-> FALSE]]
  /\ UNCHANGED <<cache, file, since, lock, history>>

\* Read and parse the file, no lock held.
LoadRead(t) ==
  /\ call[t].at = "read"
  /\ IF file[call[t].id] \in {None, Torn}
     THEN Return(t)
     ELSE call' = [call EXCEPT ![t].at = "install", ![t].val = Deserialize(file[call[t].id])]
  /\ UNCHANGED <<cache, file, since, lock, history>>

\* Lock and overwrite the cache entry with what was read.
LoadInstall(t) ==
  LET id == call[t].id IN
  /\ call[t].at = "install" /\ lock = None
  /\ cache' = [cache EXCEPT ![id] = call[t].val]
  /\ \/ call[t].op = "load" /\ Return(t)
     \/ call[t].op = "cleanup" /\ ApplyCleanup(t, id, call[t].val)
     \/ /\ call[t].op \in {"mark", "batch", "bytes"}
        /\ call' = [call EXCEPT ![t].at = "apply", ![t].val = None]
  /\ acked' = [acked EXCEPT ![id] = call[t].val.marked]
  /\ UNCHANGED <<file, since, lock, created, ever, disturbed>>

\* Lock again and look the state up again.
ApplyLoaded(t) ==
  LET id == call[t].id IN
  /\ call[t].at = "apply" /\ lock = None
  /\ \/ cache[id] = None /\ Return(t) /\ UNCHANGED <<cache, since, ever, acked, disturbed>>
     \/ cache[id] # None /\ Apply(t, call[t].op, id, call[t].arg)
  /\ UNCHANGED <<file, lock, created>>

-----------------------------------------------------------------------------
\* The effect of delete_state: references other threads hold into the entry dangle.
Delete(t, id) ==
  /\ cache' = [cache EXCEPT ![id] = None]
  /\ \/ file' = [file EXCEPT ![id] = None]
     \/ IOFaults /\ UNCHANGED file
  /\ acked' = [acked EXCEPT ![id] = {}]
  /\ disturbed' = TRUE
  /\ call' = [u \in Threads |->
                IF u = t THEN IdleCall
                ELSE [call[u] EXCEPT !.dangling = @ \/ (call[u].at = "save" /\ call[u].id = id
                                                        /\ call[u].op # "save")]]
  /\ UNCHANGED <<since, lock, created, ever>>

DeleteState(t, id) ==
  /\ Idle(t) /\ lock = None /\ HasState(id)
  /\ Delete(t, id)

\* The second loop of cleanup_expired_states.
CleanupDelete(t) ==
  /\ call[t].at = "expire" /\ lock = None
  /\ Delete(t, call[t].id)

\* state_ttl passes without activity on a transfer.
Age(id) ==
  /\ cache' = [cache EXCEPT ![id] = IF @ = None THEN None ELSE [@ EXCEPT !.fresh = FALSE]]
  /\ file'  = [file EXCEPT ![id] = IF @ \in {None, Torn} THEN @ ELSE [@ EXCEPT !.fresh = FALSE]]
  /\ UNCHANGED <<since, lock, call, history>>

\* The process dies at any point and is started again on the same directory.
Restart ==
  /\ Restarts
  /\ cache' = [id \in Ids |-> None]
  /\ since' = 0
  /\ lock'  = None
  /\ call'  = [t \in Threads |-> IdleCall]
  /\ acked' = [id \in Ids |-> {}]
  /\ disturbed' = TRUE
  /\ UNCHANGED <<file, created, ever>>

Marks == {<<i>> : i \in 0..TotalChunks}

Next ==
  \/ \E t \in Threads :
       \/ \E id \in Ids :
            \/ \E state \in Saved : SaveState(t, id, state)
            \/ \E i \in Marks : CallCached(t, "mark", id, i) \/ CallUncached(t, "mark", id, i)
            \/ \E b \in Batches : CallCached(t, "batch", id, b) \/ CallUncached(t, "batch", id, b)
            \/ CallCached(t, "bytes", id, <<>>)
            \/ \E op \in {"bytes", "load"} : CallUncached(t, op, id, <<>>)
            \/ Removals /\ CallUncached(t, "cleanup", id, <<>>)
            \/ Removals /\ CleanupCached(t, id)
            \/ Removals /\ DeleteState(t, id)
       \/ SaveBegin(t)
       \/ SaveWrite(t)
       \/ LoadRead(t)
       \/ LoadInstall(t)
       \/ ApplyLoaded(t)
       \/ CleanupDelete(t)
  \/ \E id \in Ids : Age(id)
  \/ Restart

Spec == Init /\ [][Next]_vars

-----------------------------------------------------------------------------
CallType == [op : {"none", "save", "mark", "batch", "bytes", "load", "cleanup"},
             at : {"idle", "save", "write", "read", "install", "apply", "expire"},
             id : Ids \cup {None}, arg : {<<>>} \cup Marks \cup Batches,
             val : States \cup {None}, dangling : BOOLEAN]

\* Type invariant: in particular the checkpoint counter stays below its interval.
TypeOK ==
  /\ cache \in [Ids -> States \cup {None}]
  /\ file \in [Ids -> Files \cup {None, Torn}]
  /\ since \in 0..(CheckpointInterval - 1)
  /\ lock \in Threads \cup {None}
  /\ call \in [Threads -> CallType]
  /\ created \subseteq Ids
  /\ ever \in [Ids -> SUBSET Indexes]
  /\ acked \in [Ids -> SUBSET Indexes]
  /\ disturbed \in BOOLEAN

(* A chunk that the cache or a state file reports as received was marked by *)
(* a caller, or in a state a caller saved, so resuming never skips a chunk  *)
(* that did not arrive: through lost updates, torn files, stale reads,      *)
(* dangling references and restarts.                                        *)
RecordedWasMarked ==
  \A id \in Ids :
    /\ cache[id] # None => cache[id].marked \subseteq ever[id]
    /\ file[id] \notin {None, Torn} => Deserialize(file[id]).marked \subseteq ever[id]

(* What a caller marked received, saved or was told by a load_state is      *)
(* reported by is_chunk_received from then on, whatever other threads mark  *)
(* and save, whichever file operations fail, before a restart and after it: *)
(* until the state is deleted, another one is saved over it or the process  *)
(* ends.  Two things can still take a mark back: a load_state that was      *)
(* under way when it was made (MarksStay shows how), and the checkpoint of  *)
(* a mark whose state was deleted under it.                                 *)
AckedKept == \A id \in Ids : \A i \in acked[id] : IsChunkReceived(id, i)

(* Concurrent marks all stay: of a cached state no step takes a marked      *)
(* chunk away, except a caller's save_state of another state.  load_state   *)
(* does, when it installs a file it read before the chunk was marked.       *)
MarksStay ==
  [][\A id \in Ids : cache[id] # None /\ cache'[id] # None =>
       \/ cache[id].marked \subseteq cache'[id].marked
       \/ \E t \in Threads : Foreign(t) /\ SaveBegin(t)]_vars

(* Between calls the state file of the only transfer lacks fewer chunks     *)
(* than the checkpoint interval, whatever is marked and saved, as long as   *)
(* no file operation failed, nothing was deleted and the process lives.     *)
CheckpointBound ==
  Quiescent /\ ~disturbed => \A id \in Ids :
    created = {id} /\ cache[id] # None =>
      /\ file[id] \notin {None, Torn}
      /\ Cardinality(cache[id].marked \ Deserialize(file[id]).marked) < CheckpointInterval

(* What save_state writes is what load_state reads: the bitmap survives its *)
(* hex text, a last byte that is not full included.                         *)
SavedIsRead == \A id \in Ids : cache[id] # None => RoundTrip(cache[id].marked, TotalChunks)

=============================================================================

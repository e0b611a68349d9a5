----------------------------- MODULE KeyManager -----------------------------
(* key_manager over a key_storage_interface.  The storage has a lock of its *)
(* own, so a call that touches the storage and the metadata takes several   *)
(* steps: store_key and delete_key change the storage first, get_key reads  *)
(* it first, and rotate_key is get_key, setting the old key aside,          *)
(* generate_key and a last update of the metadata.  One thread changes keys *)
(* (the owner), any thread reads them.                                      *)
EXTENDS KeyDerivation, Sequences

CONSTANTS
  Threads,
  Owner,        \* the thread that generates, derives, rotates and deletes
  Ids,          \* key identifiers
  Passwords,
  KdfConfigs,   \* the configurations given to the derivations
  Keeps,        \* values of key_rotation_policy::keep_versions, the first is Keep
  Keep,
  MaxUses,      \* key_rotation_policy::max_uses
  ByHand,       \* rotate_key is also called when needs_rotation says no
  Faults,       \* random numbers, the storage, OpenSSL's Argon2 may fail
  MaxKeys,      \* bound: random numbers drawn for keys and salts
  MaxKeyCalls,  \* bound: calls of the key manager
  None

ASSUME KeyManagerAssumption ==
  /\ Owner \in Threads /\ Keep \in Keeps /\ Keeps \subseteq Nat
  /\ {MaxUses, MaxKeys} \subseteq Nat /\ {ByHand, Faults} \subseteq BOOLEAN

RandomKey(n) == Stretch("random", NoPassword, n, 0, 0)
Numbers      == 0..(MaxKeys - 1)

\* The keys there may be, the parameters they were derived with, and their metadata.
Keys ==
  {RandomKey(n) : n \in Numbers}
    \cup {derive_key(config, password, n, native) :
             config \in KdfConfigs, password \in Passwords, n \in Numbers, native \in BOOLEAN}
Derivations == {NoParams} \cup {key_derivation_params(config, n) : config \in KdfConfigs, n \in Numbers}
Positions   == [epoch : Nat, since : Nat]
Metadata    == [version : Nat, params : Derivations, uses : Nat, of : Positions]
Handles     == [id : Ids, key : Keys, epoch : Nat, since : Nat]

\* The calls of several steps, with their locals.
StoreCalls    == [op : {"generate", "derive"}, step : {"metadata"}, id : Ids, key : Keys,
                  params : Derivations]
GetCalls      == [op : {"get"}, step : {"metadata"}, id : Ids, handle : Handles]
DeleteCalls   == [op : {"delete"}, step : {"erase"}, id : Ids]
RotateCalls   == [op : {"rotate"}, step : {"aside", "generate", "metadata", "version"}, id : Ids,
                  key : Keys, version : Nat]
RederiveCalls == [op : {"rederive"}, step : {"derive", "return"}, id : Ids, password : Passwords,
                  params : Derivations, of : Positions, key : Keys \cup {None}]
CallRecords   == StoreCalls \cup GetCalls \cup DeleteCalls \cup RotateCalls \cup RederiveCalls

ASSUME NoneIsNothing == None \notin Keys \cup CallRecords

VARIABLES
  stored,    \* storage: the key bytes of each id, or None
  meta,      \* metadata_cache: a record or None
  versions,  \* key_versions: the keys set aside, oldest first
  keep,      \* rotation_policy.keep_versions
  call,      \* the call each thread is in
  held,      \* the managed_key each thread got last, or None
  draws,     \* random numbers drawn so far
  keyCalls,  \* calls begun so far
  trail      \* history: rotations begun and keys given up, per id; the smallest keep

kmVars == <<stored, meta, versions, keep, call, held, draws, keyCalls, trail>>

Idle(t) == call[t] = None

(* key_metadata: what a new key starts with.  of is history: how often the  *)
(* id had been given up and rotated when this was written for its key.      *)
key_metadata(id, params) ==
  [version |-> 1, params |-> params, uses |-> 0,
   of |-> [epoch |-> trail.epoch[id], since |-> trail.pushes[id]]]

KeyManagerInit ==
  /\ stored = [id \in Ids |-> None] /\ meta = [id \in Ids |-> None]
  /\ versions = [id \in Ids |-> <<>>] /\ keep = Keep
  /\ call = [t \in Threads |-> None] /\ held = [t \in Threads |-> None]
  /\ draws = 0 /\ keyCalls = 0
  /\ trail = [pushes |-> [id \in Ids |-> 0], epoch |-> [id \in Ids |-> 0], least |-> Keep]

Begins(t) == Idle(t) /\ keyCalls < MaxKeyCalls /\ keyCalls' = keyCalls + 1

Return(t, result) ==
  /\ call' = [call EXCEPT ![t] = None]
  /\ held' = [held EXCEPT ![t] = IF result = None THEN @ ELSE result]

\* The owner has set a key of id aside and not yet written its successor.
SettingAside(id) ==
  /\ call[Owner] # None
  /\ call[Owner].op = "rotate" /\ call[Owner].id = id /\ call[Owner].step = "generate"

\* A key in a caller's hands; since: the rotations of its id begun before it was current.
Handle(id, key) ==
  [id |-> id, key |-> key, epoch |-> trail.epoch[id],
   since |-> trail.pushes[id] - (IF SettingAside(id) THEN 1 ELSE 0)]

(***************************************************************************)
(* generate_key and the two derivations, up to storage->store: a random    *)
(* key or a salt is drawn; either may fail and then nothing has happened.  *)
(***************************************************************************)
memory_key_storage_store(id, key) == stored' = [stored EXCEPT ![id] = key]

memory_key_storage_remove(id) == stored' = [stored EXCEPT ![id] = None]

GiveUp(id) == trail' = [trail EXCEPT !.epoch[id] = IF stored[id] = None THEN @ ELSE @ + 1]

generate_key(t, id) ==
  /\ t = Owner /\ Begins(t) /\ draws < MaxKeys /\ draws' = draws + 1
  /\ memory_key_storage_store(id, RandomKey(draws)) /\ GiveUp(id)
  /\ call' = [call EXCEPT ![t] = [op |-> "generate", step |-> "metadata", id |-> id,
                                  key |-> RandomKey(draws), params |-> NoParams]]
  /\ UNCHANGED <<meta, versions, keep, held>>

(* native: OpenSSL's Argon2 answered; only a fault makes it fail at times.  *)
Derive(t, id, config, password) ==
  /\ t = Owner /\ Begins(t) /\ draws < MaxKeys /\ draws' = draws + 1
  /\ ~Refused(password)
  /\ \E native \in (IF Faults THEN BOOLEAN ELSE {TRUE}) :
       LET bytes == derive_key(config, password, draws, native) IN
         /\ memory_key_storage_store(id, bytes) /\ GiveUp(id)
         /\ call' = [call EXCEPT ![t] = [op |-> "derive", step |-> "metadata", id |-> id, key |-> bytes,
                       params |-> key_derivation_params(config, draws)]]
  /\ UNCHANGED <<meta, versions, keep, held>>

derive_key_from_password(t, id, config, password) ==
  config.kdf = "argon2id" /\ Derive(t, id, config, password)

derive_key_pbkdf2(t, id, config, password) ==
  config.kdf = "pbkdf2" /\ Derive(t, id, config, password)

\* The metadata half of store_key.
store_key_metadata(t) ==
  /\ ~Idle(t) /\ call[t].op \in {"generate", "derive"} /\ call[t].step = "metadata"
  /\ meta' = [meta EXCEPT ![call[t].id] = key_metadata(call[t].id, call[t].params)]
  /\ Return(t, Handle(call[t].id, call[t].key))
  /\ UNCHANGED <<stored, versions, keep, draws, keyCalls, trail>>

(***************************************************************************)
(* get_key: the bytes are copied out of the storage, the metadata later;   *)
(* both must exist.  The counters it advances are those of its copy.       *)
(***************************************************************************)
retrieve(t, id) ==
  /\ Begins(t) /\ stored[id] # None
  /\ call' = [call EXCEPT ![t] = [op |-> "get", step |-> "metadata", id |-> id,
                                  handle |-> Handle(id, stored[id])]]
  /\ UNCHANGED <<stored, meta, versions, keep, held, draws, trail>>

get_key_metadata(t) ==
  /\ ~Idle(t) /\ call[t].op = "get"
  /\ Return(t, IF meta[call[t].id] = None THEN None ELSE call[t].handle)
  /\ UNCHANGED <<stored, meta, versions, keep, draws, keyCalls, trail>>

(***************************************************************************)
(* delete_key                                                              *)
(***************************************************************************)
delete_key_bytes(t, id) ==
  /\ t = Owner /\ Begins(t) /\ stored[id] # None
  /\ memory_key_storage_remove(id) /\ GiveUp(id)
  /\ call' = [call EXCEPT ![t] = [op |-> "delete", step |-> "erase", id |-> id]]
  /\ UNCHANGED <<meta, versions, keep, held, draws>>

delete_key_erase(t) ==
  /\ ~Idle(t) /\ call[t].op = "delete"
  /\ meta' = [meta EXCEPT ![call[t].id] = None]
  /\ versions' = [versions EXCEPT ![call[t].id] = <<>>]
  /\ Return(t, None)
  /\ UNCHANGED <<stored, keep, draws, keyCalls, trail>>

(***************************************************************************)
(* rotate_key                                                              *)
(***************************************************************************)
\* The age and the expiry of a key are a matter of the clock: they may have passed or not.
needs_rotation(id, aged) == meta[id] # None /\ (meta[id].uses >= MaxUses \/ aged)

\* get_key; only the owner changes what it reads.
rotate_key_get(t, id) ==
  /\ t = Owner /\ Begins(t) /\ stored[id] # None /\ meta[id] # None
  /\ ByHand \/ \E aged \in BOOLEAN : needs_rotation(id, aged)
  /\ call' = [call EXCEPT ![t] = [op |-> "rotate", step |-> "aside", id |-> id,
                                  key |-> stored[id], version |-> meta[id].version]]
  /\ UNCHANGED <<stored, meta, versions, keep, held, draws, trail>>

\* Mutant: one version too few is kept.
KeptOneLess(s) == IF Len(s) >= keep THEN SubSeq(s, Len(s) - keep + 2, Len(s)) ELSE s

\* The old key joins the versions; the oldest leave until keep_versions remain.
Kept(s) == IF Len(s) > keep THEN SubSeq(s, Len(s) - keep + 1, Len(s)) ELSE s

rotate_key_aside(t) ==
  LET c == call[t] IN
  /\ ~Idle(t) /\ c.op = "rotate" /\ c.step = "aside"
  /\ versions' = [versions EXCEPT ![c.id] = Kept(Append(@, [key |-> c.key, version |-> c.version]))]
  /\ trail' = [trail EXCEPT !.pushes[c.id] = @ + 1]
  /\ call' = [call EXCEPT ![t].step = "generate"]
  /\ UNCHANGED <<stored, meta, keep, held, draws, keyCalls>>

rotate_key_generate(t) ==
  LET c == call[t] IN
  /\ ~Idle(t) /\ c.op = "rotate" /\ c.step = "generate"
  /\ \/ /\ draws < MaxKeys /\ draws' = draws + 1
        /\ memory_key_storage_store(c.id, RandomKey(draws))
        /\ call' = [call EXCEPT ![t] = [c EXCEPT !.step = "metadata", !.key = RandomKey(draws)]]
        /\ UNCHANGED held
     \/ (Faults \/ draws = MaxKeys) /\ Return(t, None) /\ UNCHANGED <<stored, draws>>
  /\ UNCHANGED <<meta, versions, keep, keyCalls, trail>>

\* Mutant: the metadata of the key that goes are kept, with the successor's version.
rotate_key_metadata_kept(t) ==
  LET c == call[t] IN
  /\ ~Idle(t) /\ c.op = "rotate"
  /\ \/ /\ c.step = "metadata"
        /\ meta' = [meta EXCEPT ![c.id] = key_metadata(c.id, meta[c.id].params)]
        /\ call' = [call EXCEPT ![t].step = "version"] /\ UNCHANGED held
     \/ /\ c.step = "version"
        /\ meta' = [meta EXCEPT ![c.id].version = c.version + 1]
        /\ Return(t, Handle(c.id, c.key))
  /\ UNCHANGED <<stored, versions, keep, draws, keyCalls, trail>>

\* generate_key's store_key writes version 1; rotate_key writes the successor's version over it.
rotate_key_metadata(t) ==
  LET c == call[t] IN
  /\ ~Idle(t) /\ c.op = "rotate"
  /\ \/ /\ c.step = "metadata"
        /\ meta' = [meta EXCEPT ![c.id] = key_metadata(c.id, NoParams)]
        /\ call' = [call EXCEPT ![t].step = "version"] /\ UNCHANGED held
     \/ /\ c.step = "version"
        /\ meta' = [meta EXCEPT ![c.id] = [key_metadata(c.id, NoParams) EXCEPT !.version = c.version + 1]]
        /\ Return(t, Handle(c.id, c.key))
  /\ UNCHANGED <<stored, versions, keep, draws, keyCalls, trail>>

(***************************************************************************)
(* rederive_key: the parameters are looked up under the lock and used      *)
(* through a reference after it is released; when they were written or     *)
(* erased in the meantime nothing is known of the result (key None).       *)
(***************************************************************************)
rederive_key_find(t, id, password) ==
  /\ Begins(t) /\ meta[id] # None /\ meta[id].params # NoParams /\ ~Refused(password)
  /\ call' = [call EXCEPT ![t] = [op |-> "rederive", step |-> "derive", id |-> id,
                                  password |-> password, params |-> meta[id].params, of |-> meta[id].of, key |-> None]]
  /\ UNCHANGED <<stored, meta, versions, keep, held, draws, trail>>

rederive_key(t) ==
  LET c == call[t] IN
  /\ ~Idle(t) /\ c.op = "rederive" /\ c.step = "derive"
  /\ \E native \in (IF Faults THEN BOOLEAN ELSE {TRUE}) :
       call' = [call EXCEPT ![t].step = "return", ![t].key =
                  IF meta[c.id] # None /\ meta[c.id].params = c.params
                  THEN derive_key_with_params(c.params, c.password, native) ELSE None]
  /\ UNCHANGED <<stored, meta, versions, keep, held, draws, keyCalls, trail>>

rederive_key_return(t) ==
  /\ ~Idle(t) /\ call[t].op = "rederive" /\ call[t].step = "return"
  /\ Return(t, None)
  /\ UNCHANGED <<stored, meta, versions, keep, draws, keyCalls, trail>>

\* The keys set aside, for opening what was sealed before.
get_key_versions(id) == {versions[id][i].key : i \in DOMAIN versions[id]}

(***************************************************************************)
(* record_usage and set_rotation_policy                                    *)
(***************************************************************************)
record_usage(t, id) ==
  /\ Begins(t) /\ meta[id] # None /\ meta[id].uses < MaxUses
  /\ meta' = [meta EXCEPT ![id].uses = @ + 1]
  /\ UNCHANGED <<stored, versions, keep, call, held, draws, trail>>

set_rotation_policy(t, n) ==
  /\ Begins(t) /\ keep' = n
  /\ trail' = [trail EXCEPT !.least = IF n < @ THEN n ELSE @]
  /\ UNCHANGED <<stored, meta, versions, call, held, draws>>

KeyStep(t) ==
  \/ \E id \in Ids : \/ generate_key(t, id) \/ retrieve(t, id) \/ delete_key_bytes(t, id)
                     \/ rotate_key_get(t, id) \/ record_usage(t, id)
                     \/ \E password \in Passwords : rederive_key_find(t, id, password)
                     \/ \E config \in KdfConfigs, password \in Passwords :
                          \/ derive_key_from_password(t, id, config, password)
                          \/ derive_key_pbkdf2(t, id, config, password)
  \/ store_key_metadata(t) \/ get_key_metadata(t) \/ delete_key_erase(t)
  \/ rotate_key_aside(t) \/ rotate_key_generate(t) \/ rotate_key_metadata(t)
  \/ rederive_key(t) \/ rederive_key_return(t)
  \/ \E n \in Keeps \ {keep} : set_rotation_policy(t, n)
=============================================================================

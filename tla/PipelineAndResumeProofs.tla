---------------------- MODULE PipelineAndResumeProofs ----------------------
(***************************************************************************)
(* What a server keeps of the chunks it receives: what resume_handler      *)
(* remembers of them, and what server_pipeline makes of them.              *)
(*                                                                         *)
(* Resuming never skips a chunk that did not arrive: for every number of   *)
(* threads, transfers and chunks, every checkpoint interval, and whatever  *)
(* fails or is killed, what the cache or a state file reports as received  *)
(* was marked by a caller; and what was marked stays marked, while no      *)
(* state is deleted and the process lives.                                 *)
(*                                                                         *)
(* RecordedWasMarked is not inductive as it stands.  The states on their   *)
(* way between cache and file, in the hands of a thread (ValuesMarked),    *)
(* have to satisfy it too; a thread about to save must have a state to     *)
(* save (SaversHaveState); and a readable file must be the text of some    *)
(* bitmap (FilesMarked), from which BitmapSurvives recovers it.            *)
(*                                                                         *)
(* What the pipeline delivers, for any number of clients, workers and      *)
(* chunks and any sequence of starts and stops: uploads that are intact,   *)
(* downloads that can be restored, and nothing lost before a stop.         *)
(*                                                                         *)
(* The properties speak of what a callback was given.  They are carried    *)
(* by what is true of the chunk in every job on the way there (Fits), the  *)
(* flags and the layers of a chunk being in step at each stage.            *)
(***************************************************************************)
EXTENDS ResumeHandler, ServerPipeline, Integers, SequenceTheorems, FiniteSetTheorems, TLAPS

(***************************************************************************)
(* The bitmap of a state file survives its text, for every number of       *)
(* chunks.  No induction is needed: position i lies in byte i \div 8, a    *)
(* byte is the sum of eight weights, and each weight can be read off it.   *)
(***************************************************************************)

\* A position is eight times its byte plus its place in the byte.
LEMMA BytePosition ==
  ASSUME NEW i \in Nat
  PROVE  /\ i \div 8 \in Nat /\ i % 8 \in 0..7
         /\ i = 8 * (i \div 8) + (i % 8)
  OBVIOUS

\* A byte that holds position i is one of those bitmap_to_hex_string writes.
LEMMA ByteIsWritten ==
  ASSUME NEW n \in Nat, NEW i \in 0..(n - 1)
  PROVE  (i \div 8) + 1 \in 1..((n + 7) \div 8)
  OBVIOUS

\* Each of the eight bits can be read off the sum of their weights.
LEMMA ReadOff ==
  ASSUME NEW a \in {0, 128}, NEW b \in {0, 64}, NEW c \in {0, 32}, NEW d \in {0, 16},
         NEW e \in {0, 8}, NEW f \in {0, 4}, NEW g \in {0, 2}, NEW h \in {0, 1}
  PROVE  LET s == a + b + c + d + e + f + g + h IN
         /\ (s \div 128) % 2 = 1 <=> a = 128
         /\ (s \div 64) % 2 = 1 <=> b = 64
         /\ (s \div 32) % 2 = 1 <=> c = 32
         /\ (s \div 16) % 2 = 1 <=> d = 16
         /\ (s \div 8) % 2 = 1 <=> e = 8
         /\ (s \div 4) % 2 = 1 <=> f = 4
         /\ (s \div 2) % 2 = 1 <=> g = 2
         /\ (s \div 1) % 2 = 1 <=> h = 1
  OBVIOUS

\* What hex_string_to_bitmap tests of a byte is membership of the position.
LEMMA ByteHoldsBit ==
  ASSUME NEW bits, NEW i \in Nat
  PROVE  (ByteAt(bits, i \div 8) \div Weight[(i % 8) + 1]) % 2 = 1 <=> i \in bits
<1> DEFINE k == i \div 8
<1>1. k \in Nat /\ i % 8 \in 0..7 /\ i = 8 * k + (i % 8)
  BY BytePosition
<1> DEFINE a == Bit(bits, 8*k, 128)
           b == Bit(bits, 8*k + 1, 64)
           c == Bit(bits, 8*k + 2, 32)
           d == Bit(bits, 8*k + 3, 16)
           e == Bit(bits, 8*k + 4, 8)
           f == Bit(bits, 8*k + 5, 4)
           g == Bit(bits, 8*k + 6, 2)
           h == Bit(bits, 8*k + 7, 1)
<1>2. /\ a \in {0, 128} /\ (a = 128 <=> 8*k \in bits)
      /\ b \in {0, 64} /\ (b = 64 <=> 8*k + 1 \in bits)
      /\ c \in {0, 32} /\ (c = 32 <=> 8*k + 2 \in bits)
      /\ d \in {0, 16} /\ (d = 16 <=> 8*k + 3 \in bits)
      /\ e \in {0, 8} /\ (e = 8 <=> 8*k + 4 \in bits)
      /\ f \in {0, 4} /\ (f = 4 <=> 8*k + 5 \in bits)
      /\ g \in {0, 2} /\ (g = 2 <=> 8*k + 6 \in bits)
      /\ h \in {0, 1} /\ (h = 1 <=> 8*k + 7 \in bits)
      /\ ByteAt(bits, k) = a + b + c + d + e + f + g + h
  BY DEF Bit, ByteAt
<1> HIDE DEF k, a, b, c, d, e, f, g, h
<1>3. (i % 8) + 1 \in 1..8 /\ ByteAt(bits, i \div 8) = ByteAt(bits, k)
  BY <1>1 DEF k
<1>4. /\ Weight[1] = 128 /\ Weight[2] = 64 /\ Weight[3] = 32 /\ Weight[4] = 16
      /\ Weight[5] = 8 /\ Weight[6] = 4 /\ Weight[7] = 2 /\ Weight[8] = 1
  BY DEF Weight
<1>5. CASE i % 8 = 0 BY <1>1, <1>2, <1>3, <1>4, <1>5, ReadOff
<1>6. CASE i % 8 = 1 BY <1>1, <1>2, <1>3, <1>4, <1>6, ReadOff
<1>7. CASE i % 8 = 2 BY <1>1, <1>2, <1>3, <1>4, <1>7, ReadOff
<1>8. CASE i % 8 = 3 BY <1>1, <1>2, <1>3, <1>4, <1>8, ReadOff
<1>9. CASE i % 8 = 4 BY <1>1, <1>2, <1>3, <1>4, <1>9, ReadOff
<1>10. CASE i % 8 = 5 BY <1>1, <1>2, <1>3, <1>4, <1>10, ReadOff
<1>11. CASE i % 8 = 6 BY <1>1, <1>2, <1>3, <1>4, <1>11, ReadOff
<1>12. CASE i % 8 = 7 BY <1>1, <1>2, <1>3, <1>4, <1>12, ReadOff
<1>13. QED BY <1>1, <1>5, <1>6, <1>7, <1>8, <1>9, <1>10, <1>11, <1>12

(* hex_string_to_bitmap undoes bitmap_to_hex_string: every bitmap of every  *)
(* length is read back as it was written.                                   *)
THEOREM BitmapSurvives ==
  ASSUME NEW n \in Nat, NEW bits \in SUBSET (0..(n - 1))
  PROVE  RoundTrip(bits, n)
<1> DEFINE hex == BitmapToHex(bits, n)
<1>1. Len(hex) = (n + 7) \div 8 /\ \A j \in 1..((n + 7) \div 8) : hex[j] = ByteAt(bits, j - 1)
  BY DEF BitmapToHex
<1>2. ASSUME NEW i \in 0..(n - 1)
      PROVE  i \in HexToBitmap(hex, n) <=> i \in bits
  <2>1. i \in Nat /\ i \div 8 \in Nat /\ (i \div 8) + 1 \in 1..((n + 7) \div 8)
    BY ByteIsWritten, BytePosition
  <2>2. i \div 8 < Len(hex) /\ hex[(i \div 8) + 1] = ByteAt(bits, i \div 8)
    BY <1>1, <2>1
  <2> HIDE DEF hex
  <2>3. (ByteAt(bits, i \div 8) \div Weight[(i % 8) + 1]) % 2 = 1 <=> i \in bits
    BY <2>1, ByteHoldsBit, Zenon
  <2>4. QED BY <2>2, <2>3, Zenon DEF HexToBitmap
<1>3. HexToBitmap(hex, n) \subseteq 0..(n - 1)
  BY DEF HexToBitmap
<1>4. QED BY <1>2, <1>3 DEF RoundTrip

-----------------------------------------------------------------------------

\* A readable state file is the text of a state whose chunks were all marked.
FilesMarked ==
  \A id \in Ids : file[id] \notin {None, Torn} =>
    \E m \in SUBSET (ever[id] \cap Indexes) : file[id].hex = BitmapToHex(m, TotalChunks)

\* The cached states hold marked chunks only.
CacheMarked == \A id \in Ids : cache[id] # None => cache[id].marked \subseteq ever[id]

\* So do the states that threads have read, or are about to write.
ValuesMarked ==
  \A t \in Threads : call[t].val # None =>
    /\ call[t].id \in Ids
    /\ call[t].val.marked \subseteq ever[call[t].id]

\* A thread that saves or installs a state has one.
SaversHaveState ==
  \A t \in Threads :
    /\ call[t].at # "idle" => call[t].id \in Ids
    /\ call[t].at \in {"save", "write", "install"} => call[t].val # None
    /\ call[t].at = "save" /\ call[t].op # "save" /\ ~call[t].dangling => cache[call[t].id] # None

IInv == TypeOK /\ FilesMarked /\ CacheMarked /\ ValuesMarked /\ SaversHaveState

-----------------------------------------------------------------------------
\* A byte of the text is a number below 256.
LEMMA ByteType ==
  ASSUME NEW bits, NEW k \in Nat
  PROVE  ByteAt(bits, k) \in 0..255
<1>1. \A j \in Nat, w \in {1, 2, 4, 8, 16, 32, 64, 128} : Bit(bits, j, w) \in {0, w}
  BY DEF Bit
<1>2. QED BY <1>1 DEF ByteAt

\* serialize_state_to_json writes a well-formed file.
LEMMA SerializeType ==
  ASSUME NEW s \in States
  PROVE  Serialize(s) \in Files
<1>1. (TotalChunks + 7) \div 8 \in Nat
  BY ConstantsAssumption
<1>2. \A k \in 1..((TotalChunks + 7) \div 8) : ByteAt(s.marked, k - 1) \in 0..255
  BY <1>1, ByteType
<1>3. BitmapToHex(s.marked, TotalChunks) \in Seq(0..255)
  <2> DEFINE L == (TotalChunks + 7) \div 8
             hex == [k \in 1..L |-> ByteAt(s.marked, k - 1)]
  <2>1. hex \in [1..L -> 0..255] /\ L \in Nat BY <1>1, <1>2
  <2>2. hex \in Seq(0..255)
    <3> HIDE DEF hex, L
    <3> QED BY <2>1, SeqDef
  <2>3. QED BY <2>2 DEF BitmapToHex
<1>4. QED BY <1>3 DEF Serialize, Files, States

\* What deserialize_state_from_json returns is a state.
LEMMA DeserializeType ==
  ASSUME NEW f \in Files
  PROVE  Deserialize(f) \in States
<1>1. HexToBitmap(f.hex, TotalChunks) \subseteq Indexes
  BY DEF HexToBitmap, Indexes
<1>2. QED BY <1>1 DEF Deserialize, States, Files

\* The indexes mark_chunks_received sets are in range.
LEMMA ValidInRange ==
  ASSUME NEW arg \in {<<>>} \cup Marks \cup Batches
  PROVE  Valid(arg) \subseteq Indexes
<1>1. arg \in Seq(0..TotalChunks)
  <2>1. CASE arg = <<>> BY <2>1
  <2>2. CASE arg \in Marks
    <3>1. PICK i \in 0..TotalChunks : arg = <<i>> BY <2>2 DEF Marks
    <3>2. QED BY <3>1
  <2>3. CASE arg \in Batches BY <2>3, ConstantsAssumption
  <2>4. QED BY <2>1, <2>2, <2>3
<1>2. QED BY <1>1, ConstantsAssumption DEF Valid, Indexes

-----------------------------------------------------------------------------
\* Nothing is cached or stored, and every thread is idle.
LEMMA InitIInv == Init => IInv
<1> SUFFICES ASSUME Init PROVE IInv OBVIOUS
<1> USE DEF Init
<1>1. IdleCall \in CallType
  BY DEF IdleCall, CallType
<1>2. TypeOK
  <2>1. /\ cache \in [Ids -> States \cup {None}]
        /\ file \in [Ids -> Files \cup {None, Torn}]
    OBVIOUS
  <2>2. since \in 0..(CheckpointInterval - 1)
    BY ConstantsAssumption
  <2>3. call \in [Threads -> CallType]
    BY <1>1
  <2>4. /\ ever \in [Ids -> SUBSET Indexes]
        /\ acked \in [Ids -> SUBSET Indexes]
    OBVIOUS
  <2>5. lock \in Threads \cup {None} /\ created \subseteq Ids /\ disturbed \in BOOLEAN
    OBVIOUS
  <2>6. QED BY <2>1, <2>2, <2>3, <2>4, <2>5 DEF TypeOK
<1>3. FilesMarked /\ CacheMarked
  BY DEF FilesMarked, CacheMarked
<1>4. ValuesMarked /\ SaversHaveState
  BY DEF ValuesMarked, SaversHaveState, IdleCall
<1>5. QED BY <1>2, <1>3, <1>4 DEF IInv

\* Files that do not change stay marked while the histories grow.
LEMMA FilesStay ==
  ASSUME FilesMarked, file' = file, \A id \in Ids : ever[id] \subseteq ever'[id]
  PROVE  FilesMarked'
<1> SUFFICES ASSUME NEW id \in Ids, file[id] \notin {None, Torn}
             PROVE  \E m \in SUBSET (ever'[id] \cap Indexes) :
                      file[id].hex = BitmapToHex(m, TotalChunks)
  BY DEF FilesMarked
<1>1. PICK m \in SUBSET (ever[id] \cap Indexes) : file[id].hex = BitmapToHex(m, TotalChunks)
  BY DEF FilesMarked
<1>2. m \in SUBSET (ever'[id] \cap Indexes) OBVIOUS
<1>3. QED BY <1>1, <1>2

\* What a readable file holds: a state of marked chunks.
LEMMA FileHoldsMarked ==
  ASSUME IInv, NEW id \in Ids, file[id] \notin {None, Torn}
  PROVE  Deserialize(file[id]) \in States /\ Deserialize(file[id]).marked \subseteq ever[id]
<1>1. PICK m \in SUBSET (ever[id] \cap Indexes) : file[id].hex = BitmapToHex(m, TotalChunks)
  BY DEF IInv, FilesMarked
<1>2. RoundTrip(m, TotalChunks)
  BY BitmapSurvives, ConstantsAssumption DEF Indexes
<1>3. Deserialize(file[id]).marked = m
  BY <1>1, <1>2 DEF Deserialize, RoundTrip
<1>4. file[id] \in Files
  BY DEF IInv, TypeOK
<1>5. QED BY <1>3, <1>4, DeserializeType

\* A record of the call a thread is in, as the calls build it.
LEMMA CallRecord ==
  ASSUME NEW op \in {"none", "save", "mark", "batch", "bytes", "load", "cleanup"},
         NEW at \in {"idle", "save", "write", "read", "install", "apply", "expire"},
         NEW id \in Ids \cup {None}, NEW arg \in {<<>>} \cup Marks \cup Batches,
         NEW val \in States \cup {None}, NEW d \in BOOLEAN
  PROVE  [op |-> op, at |-> at, id |-> id, arg |-> arg, val |-> val, dangling |-> d] \in CallType
  BY DEF CallType

\* A state is not None.
LEMMA StateIsSome == ASSUME NEW s \in States PROVE s # None
  BY ConstantsAssumption

(* A step that gives one thread a new call, and forgets no history and no   *)
(* cached state, keeps what is known of the calls.                          *)
LEMMA CallStep ==
  ASSUME IInv, NEW t \in Threads, NEW new \in CallType,
         call' = [call EXCEPT ![t] = new],
         \A id \in Ids : ever[id] \subseteq ever'[id] /\ (cache[id] # None => cache'[id] # None),
         new.at # "idle" \/ new.val # None => new.id \in Ids,
         new.val # None => new.val.marked \subseteq ever'[new.id],
         new.at \in {"save", "write", "install"} => new.val # None,
         new.at = "save" /\ new.op # "save" /\ ~new.dangling => cache'[new.id] # None
  PROVE  call' \in [Threads -> CallType] /\ ValuesMarked' /\ SaversHaveState'
<1>1. call \in [Threads -> CallType] /\ ValuesMarked /\ SaversHaveState
  BY DEF IInv, TypeOK
<1>2. call' \in [Threads -> CallType] /\ call'[t] = new
  BY <1>1
<1>3. ASSUME NEW u \in Threads, u # t PROVE call'[u] = call[u]
  BY <1>1, <1>3
<1>4. ValuesMarked'
  <2> SUFFICES ASSUME NEW u \in Threads, call'[u].val # None
               PROVE  call'[u].id \in Ids /\ call'[u].val.marked \subseteq ever'[call'[u].id]
    BY DEF ValuesMarked
  <2>1. CASE u = t BY <2>1, <1>2
  <2>2. CASE u # t BY <2>2, <1>1, <1>3 DEF ValuesMarked
  <2>3. QED BY <2>1, <2>2
<1>5. SaversHaveState'
  <2> SUFFICES ASSUME NEW u \in Threads
               PROVE  /\ call'[u].at # "idle" => call'[u].id \in Ids
                      /\ call'[u].at \in {"save", "write", "install"} => call'[u].val # None
                      /\ call'[u].at = "save" /\ call'[u].op # "save" /\ ~call'[u].dangling
                           => cache'[call'[u].id] # None
    BY DEF SaversHaveState
  <2>1. CASE u = t BY <2>1, <1>2
  <2>2. CASE u # t BY <2>2, <1>1, <1>3 DEF SaversHaveState
  <2>3. QED BY <2>1, <2>2
<1>6. QED BY <1>2, <1>4, <1>5

\* The call a thread returns to.
LEMMA IdleIsCall ==
  IdleCall \in CallType /\ IdleCall.at = "idle" /\ IdleCall.val = None
  BY CallRecord DEF IdleCall

\* A thread that returns, with the cache and the histories kept or growing.
LEMMA ReturnStep ==
  ASSUME IInv, NEW t \in Threads, Return(t),
         \A id \in Ids : ever[id] \subseteq ever'[id] /\ (cache[id] # None => cache'[id] # None)
  PROVE  call' \in [Threads -> CallType] /\ ValuesMarked' /\ SaversHaveState'
  BY IdleIsCall, CallStep DEF Return

-----------------------------------------------------------------------------
\* save_state is entered with a state of the caller's.
LEMMA SaveStateIInv ==
  ASSUME IInv, NEW t \in Threads, NEW id \in Ids, NEW state \in Saved, SaveState(t, id, state)
  PROVE  IInv'
<1> DEFINE new == [op |-> "save", at |-> "save", id |-> id, arg |-> <<>>, val |-> state,
                   dangling |-> FALSE]
<1>1. state \in States /\ state.marked \in SUBSET Indexes /\ state # None
  BY ConstantsAssumption, StateIsSome DEF States
<1>2. /\ new \in CallType /\ new.val = state /\ new.at = "save" /\ new.op = "save" /\ new.id = id
  BY <1>1, CallRecord
<1>3. /\ call' = [call EXCEPT ![t] = new] /\ ever' = [ever EXCEPT ![id] = @ \cup state.marked]
      /\ UNCHANGED <<cache, file, since, lock, created, acked, disturbed>>
  BY DEF SaveState
<1>4. /\ ever' \in [Ids -> SUBSET Indexes] /\ state.marked \subseteq ever'[id]
      /\ \A i \in Ids : ever[i] \subseteq ever'[i] /\ (cache[i] # None => cache'[i] # None)
  BY <1>1, <1>3 DEF IInv, TypeOK
<1> HIDE DEF new
<1>5. call' \in [Threads -> CallType] /\ ValuesMarked' /\ SaversHaveState'
  BY <1>1, <1>2, <1>3, <1>4, CallStep
<1>6. FilesMarked'
  BY <1>3, <1>4, FilesStay DEF IInv
<1>7. CacheMarked'
  BY <1>3, <1>4 DEF IInv, CacheMarked
<1>8. QED BY <1>3, <1>4, <1>5, <1>6, <1>7 DEF IInv, TypeOK

\* What save_state is given is a state of marked chunks.
LEMMA GivenMarked ==
  ASSUME IInv, NEW t \in Threads, call[t].at = "save"
  PROVE  /\ call[t].id \in Ids /\ Given(t) \in States
         /\ Given(t).marked \subseteq ever[call[t].id]
<1>1. call[t] \in CallType /\ call[t].id \in Ids /\ call[t].val \in States
  BY DEF IInv, TypeOK, SaversHaveState, CallType
<1>2. CASE call[t].op = "save" \/ call[t].dangling
  BY <1>1, <1>2, StateIsSome DEF IInv, ValuesMarked, Given, Foreign
<1>3. CASE ~(call[t].op = "save" \/ call[t].dangling)
  <2>1. cache[call[t].id] # None /\ cache[call[t].id] \in States
    BY <1>1, <1>3 DEF IInv, TypeOK, SaversHaveState
  <2>2. QED BY <1>1, <1>3, <2>1 DEF IInv, CacheMarked, Given, Foreign
<1>4. QED BY <1>1, <1>2, <1>3

\* save_state updates the cache and truncates the file, or fails to open it.
LEMMA SaveBeginIInv ==
  ASSUME IInv, NEW t \in Threads, SaveBegin(t)
  PROVE  IInv'
<1> DEFINE id == call[t].id
           g  == Given(t)
<1>1. id \in Ids /\ g \in States /\ g.marked \subseteq ever[id] /\ g # None
  BY GivenMarked, StateIsSome DEF SaveBegin
<1> HIDE DEF g
<1>2. /\ cache' = [cache EXCEPT ![id] = g] /\ created' = created \cup {id}
      /\ UNCHANGED <<since, ever>>
  BY DEF SaveBegin, g
<1>8. acked' \in [Ids -> SUBSET Indexes]
  <2>1. Foreign(t) => call[t].val \in States
    BY GivenMarked DEF SaveBegin, Given
  <2>2. acked' = IF Foreign(t) THEN [acked EXCEPT ![id] = call[t].val.marked] ELSE acked
    BY DEF SaveBegin
  <2>3. QED BY <2>1, <2>2 DEF IInv, TypeOK, States
<1>3. cache' \in [Ids -> States \cup {None}] /\ CacheMarked'
  BY <1>1, <1>2 DEF IInv, TypeOK, CacheMarked
<1>4. \A i \in Ids : ever[i] \subseteq ever'[i] /\ (cache[i] # None => cache'[i] # None)
  BY <1>1, <1>2 DEF IInv, TypeOK
<1>5. CASE /\ file' = [file EXCEPT ![id] = Torn]
           /\ lock' = t
           /\ call' = [call EXCEPT ![t].at = "write", ![t].val = g]
           /\ UNCHANGED disturbed
  <2> DEFINE new == [call[t] EXCEPT !.at = "write", !.val = g]
  <2>1. /\ new \in CallType /\ call' = [call EXCEPT ![t] = new]
        /\ new.at = "write" /\ new.val = g /\ new.id = id
    BY <1>1, <1>5 DEF IInv, TypeOK, CallType
  <2> HIDE DEF new
  <2>2. call' \in [Threads -> CallType] /\ ValuesMarked' /\ SaversHaveState'
    BY <1>1, <1>2, <1>4, <2>1, CallStep
  <2>3. FilesMarked'
    BY <1>1, <1>2, <1>5 DEF IInv, TypeOK, FilesMarked
  <2>4. QED BY <1>1, <1>2, <1>3, <1>5, <1>8, <2>2, <2>3 DEF IInv, TypeOK
<1>6. CASE Return(t) /\ disturbed' = TRUE /\ UNCHANGED <<file, lock>>
  <2>1. call' \in [Threads -> CallType] /\ ValuesMarked' /\ SaversHaveState'
    BY <1>4, <1>6, ReturnStep
  <2>2. FilesMarked'
    BY <1>4, <1>6, FilesStay DEF IInv
  <2>3. QED BY <1>1, <1>2, <1>3, <1>6, <1>8, <2>1, <2>2 DEF IInv, TypeOK
<1>7. QED BY <1>5, <1>6 DEF SaveBegin, g

\* save_state writes the text of a state of marked chunks.
LEMMA SaveWriteIInv ==
  ASSUME IInv, NEW t \in Threads, SaveWrite(t)
  PROVE  IInv'
<1> DEFINE id == call[t].id
           v  == call[t].val
<1>1. id \in Ids /\ v \in States /\ v.marked \subseteq ever[id]
  BY DEF IInv, TypeOK, SaversHaveState, ValuesMarked, SaveWrite, CallType
<1>2. UNCHANGED <<cache, since, created, ever, acked>> /\ lock' = None /\ Return(t)
  BY DEF SaveWrite
<1>3. call' \in [Threads -> CallType] /\ ValuesMarked' /\ SaversHaveState'
  BY <1>2, ReturnStep
<1>4. CacheMarked'
  BY <1>2 DEF IInv, CacheMarked
<1>5. CASE file' = [file EXCEPT ![id] = Serialize(v)] /\ UNCHANGED disturbed
  <2>1. Serialize(v) \in Files
    BY <1>1, SerializeType
  <2>2. v.marked \in SUBSET (ever[id] \cap Indexes) /\ Serialize(v).hex = BitmapToHex(v.marked, TotalChunks)
    BY <1>1 DEF States, Serialize
  <2>3. FilesMarked'
    <3> SUFFICES ASSUME NEW i \in Ids, file'[i] \notin {None, Torn}
                 PROVE  \E m \in SUBSET (ever[i] \cap Indexes) :
                          file'[i].hex = BitmapToHex(m, TotalChunks)
      BY <1>2 DEF FilesMarked
    <3>1. CASE i = id BY <1>1, <1>5, <2>2, <3>1 DEF IInv, TypeOK
    <3>2. CASE i # id
      <4>1. file'[i] = file[i] BY <1>5, <3>2 DEF IInv, TypeOK
      <4>2. QED BY <4>1 DEF IInv, FilesMarked
    <3>3. QED BY <3>1, <3>2
  <2>4. QED BY <1>1, <1>2, <1>3, <1>4, <1>5, <2>1, <2>3 DEF IInv, TypeOK
<1>6. CASE disturbed' = TRUE /\ UNCHANGED file
  <2>1. FilesMarked'
    BY <1>2, <1>6, FilesStay DEF IInv
  <2>2. QED BY <1>2, <1>3, <1>4, <1>6, <2>1 DEF IInv, TypeOK
<1>7. QED BY <1>5, <1>6 DEF SaveWrite

-----------------------------------------------------------------------------
(* Marking: the chunks enter the bitmap and the histories together. *)
LEMMA MarkedStep ==
  ASSUME IInv, NEW id \in Ids, cache[id] # None, NEW new \in SUBSET Indexes, NEW fr \in BOOLEAN,
         Marked(id, new, fr)
  PROVE  /\ cache' \in [Ids -> States \cup {None}] /\ CacheMarked'
         /\ ever' \in [Ids -> SUBSET Indexes] /\ acked' \in [Ids -> SUBSET Indexes]
         /\ \A i \in Ids : ever[i] \subseteq ever'[i] /\ (cache[i] # None => cache'[i] # None)
         /\ cache'[id] \in States /\ cache'[id].marked \subseteq ever'[id]
<1>1. /\ cache \in [Ids -> States \cup {None}] /\ cache[id] \in States
      /\ ever \in [Ids -> SUBSET Indexes] /\ acked \in [Ids -> SUBSET Indexes]
      /\ cache[id].marked \subseteq ever[id]
  BY DEF IInv, TypeOK, CacheMarked
<1> DEFINE s == [cache[id] EXCEPT !.marked = @ \cup new, !.fresh = @ \/ fr]
<1>2. s \in States /\ s.marked = cache[id].marked \cup new
  <2>1. cache[id].fresh \/ fr \in BOOLEAN OBVIOUS
  <2>2. QED BY <1>1, <2>1 DEF States
<1>3. cache' = [cache EXCEPT ![id] = s]
  BY <1>1 DEF Marked
<1>4. s # None BY <1>2, StateIsSome
<1> HIDE DEF s
<1>5. /\ ever' = [ever EXCEPT ![id] = @ \cup new]
      /\ acked' = [acked EXCEPT ![id] = @ \cup new]
  BY DEF Marked
<1>6. ever' \in [Ids -> SUBSET Indexes] /\ acked' \in [Ids -> SUBSET Indexes]
  BY <1>1, <1>5
<1>7. cache' \in [Ids -> States \cup {None}] /\ cache'[id] = s /\ ever'[id] = ever[id] \cup new
  BY <1>1, <1>2, <1>3, <1>5
<1>8. \A i \in Ids : ever[i] \subseteq ever'[i] /\ (cache[i] # None => cache'[i] # None)
  BY <1>1, <1>3, <1>4, <1>5
<1>9. CacheMarked'
  <2> SUFFICES ASSUME NEW i \in Ids, cache'[i] # None PROVE cache'[i].marked \subseteq ever'[i]
    BY DEF CacheMarked
  <2>1. CASE i = id BY <1>1, <1>2, <1>7, <2>1
  <2>2. CASE i # id BY <1>1, <1>3, <1>5, <2>2 DEF IInv, CacheMarked
  <2>3. QED BY <2>1, <2>2
<1>10. QED BY <1>1, <1>2, <1>6, <1>7, <1>8, <1>9

\* The call of save_state with a reference into the cache.
LEMMA ThenSaveStep ==
  ASSUME IInv, NEW t \in Threads, NEW op \in {"mark", "batch"}, NEW id \in Ids,
         NEW arg \in {<<>>} \cup Marks \cup Batches, ThenSave(t, op, id, arg),
         \A i \in Ids : ever[i] \subseteq ever'[i] /\ (cache[i] # None => cache'[i] # None),
         cache'[id] \in States, cache'[id].marked \subseteq ever'[id]
  PROVE  call' \in [Threads -> CallType] /\ ValuesMarked' /\ SaversHaveState'
<1> DEFINE v == cache'[id]
           new == [op |-> op, at |-> "save", id |-> id, arg |-> arg, val |-> v, dangling |-> FALSE]
<1>1. v \in States /\ v # None
  BY StateIsSome
<1>2. call' = [call EXCEPT ![t] = new]
  BY DEF ThenSave
<1>3. v.marked \subseteq ever'[id] /\ cache'[id] # None
  BY <1>1
<1> HIDE DEF v
<1>4. new \in CallType
  BY <1>1, CallRecord
<1>5. new.val = v /\ new.id = id /\ new.at = "save" OBVIOUS
<1> HIDE DEF new
<1>6. QED BY <1>1, <1>2, <1>3, <1>4, <1>5, CallStep

\* The checkpoint counter stays below its interval.
LEMMA CounterStep ==
  ASSUME since \in 0..(CheckpointInterval - 1)
  PROVE  /\ 0 \in 0..(CheckpointInterval - 1)
         /\ ~(since + 1 >= CheckpointInterval) => since + 1 \in 0..(CheckpointInterval - 1)
  BY ConstantsAssumption

\* The critical sections of mark_chunk(s)_received and update_transferred_bytes.
LEMMA ApplyIInv ==
  ASSUME IInv, NEW t \in Threads, NEW op, NEW id \in Ids,
         NEW arg \in {<<>>} \cup Marks \cup Batches,
         cache[id] # None, Apply(t, op, id, arg), UNCHANGED <<file, lock, created>>
  PROVE  IInv'
<1>1. Valid(arg) \in SUBSET Indexes /\ AllValid(arg) \in BOOLEAN /\ TRUE \in BOOLEAN
  BY ValidInRange DEF AllValid
<1>2. CASE op = "mark" /\ ApplyMark(t, id, arg)
  <2>1. CASE ~AllValid(arg)
    <3>1. Return(t) /\ UNCHANGED <<cache, since, ever, acked, disturbed>>
      BY <1>2, <2>1 DEF ApplyMark
    <3>2. call' \in [Threads -> CallType] /\ ValuesMarked' /\ SaversHaveState'
      BY <3>1, ReturnStep
    <3>3. FilesMarked' /\ CacheMarked'
      BY <3>1, FilesStay DEF IInv, CacheMarked
    <3>4. QED BY <3>1, <3>2, <3>3 DEF IInv, TypeOK
  <2>2. CASE AllValid(arg)
    <3>1. /\ Marked(id, Valid(arg), TRUE) /\ UNCHANGED disturbed
          /\ \/ since' = 0 /\ ThenSave(t, "mark", id, arg)
             \/ ~(since + 1 >= CheckpointInterval) /\ since' = since + 1 /\ Return(t)
      BY <1>2, <2>2 DEF ApplyMark
    <3>2. /\ cache' \in [Ids -> States \cup {None}] /\ CacheMarked'
          /\ ever' \in [Ids -> SUBSET Indexes] /\ acked' \in [Ids -> SUBSET Indexes]
          /\ \A i \in Ids : ever[i] \subseteq ever'[i] /\ (cache[i] # None => cache'[i] # None)
          /\ cache'[id] \in States /\ cache'[id].marked \subseteq ever'[id]
      BY <1>1, <3>1, MarkedStep
    <3>3. call' \in [Threads -> CallType] /\ ValuesMarked' /\ SaversHaveState'
      BY <3>1, <3>2, ThenSaveStep, ReturnStep
    <3>4. since' \in 0..(CheckpointInterval - 1)
      BY <3>1, CounterStep DEF IInv, TypeOK
    <3>5. FilesMarked'
      BY <3>2, FilesStay DEF IInv
    <3>6. QED BY <3>1, <3>2, <3>3, <3>4, <3>5 DEF IInv, TypeOK
  <2>3. QED BY <2>1, <2>2
<1>3. CASE op = "batch" /\ ApplyBatch(t, id, arg)
  <2>1. /\ Marked(id, Valid(arg), AllValid(arg)) /\ UNCHANGED since
        /\ \/ ThenSave(t, "batch", id, arg) /\ UNCHANGED disturbed
           \/ Return(t) /\ disturbed' = TRUE
    BY <1>3 DEF ApplyBatch
  <2>2. /\ cache' \in [Ids -> States \cup {None}] /\ CacheMarked'
        /\ ever' \in [Ids -> SUBSET Indexes] /\ acked' \in [Ids -> SUBSET Indexes]
        /\ \A i \in Ids : ever[i] \subseteq ever'[i] /\ (cache[i] # None => cache'[i] # None)
        /\ cache'[id] \in States /\ cache'[id].marked \subseteq ever'[id]
    BY <1>1, <2>1, MarkedStep
  <2>3. call' \in [Threads -> CallType] /\ ValuesMarked' /\ SaversHaveState'
    BY <2>1, <2>2, ThenSaveStep, ReturnStep
  <2>4. FilesMarked'
    BY <2>2, FilesStay DEF IInv
  <2>5. disturbed' \in BOOLEAN
    BY <2>1 DEF IInv, TypeOK
  <2>6. QED BY <2>1, <2>2, <2>3, <2>4, <2>5 DEF IInv, TypeOK
<1>4. CASE op = "bytes" /\ ApplyBytes(t, id)
  <2> DEFINE s == [cache[id] EXCEPT !.fresh = TRUE]
  <2>1. cache[id] \in States /\ s \in States /\ s.marked = cache[id].marked /\ s # None
    <3>1. cache[id] \in States BY DEF IInv, TypeOK
    <3>2. s \in States /\ s.marked = cache[id].marked BY <3>1 DEF States
    <3>3. QED BY <3>1, <3>2, StateIsSome
  <2>2. cache' = [cache EXCEPT ![id] = s] /\ Return(t) /\ UNCHANGED <<since, ever, acked, disturbed>>
    BY <1>4 DEF ApplyBytes, IInv, TypeOK
  <2> HIDE DEF s
  <2>3. /\ cache' \in [Ids -> States \cup {None}] /\ CacheMarked'
        /\ \A i \in Ids : ever[i] \subseteq ever'[i] /\ (cache[i] # None => cache'[i] # None)
    BY <2>1, <2>2 DEF IInv, TypeOK, CacheMarked
  <2>4. call' \in [Threads -> CallType] /\ ValuesMarked' /\ SaversHaveState'
    BY <2>2, <2>3, ReturnStep
  <2>5. FilesMarked'
    BY <2>3, FilesStay DEF IInv
  <2>6. QED BY <2>2, <2>3, <2>4, <2>5 DEF IInv, TypeOK
<1>5. QED BY <1>2, <1>3, <1>4 DEF Apply

\* A thread that moves on in a call without touching the states.
LEMMA QuietStep ==
  ASSUME IInv, UNCHANGED <<cache, file, since, lock, history>>,
         call' \in [Threads -> CallType] /\ ValuesMarked' /\ SaversHaveState'
  PROVE  IInv'
<1>1. FilesMarked' /\ CacheMarked'
  BY FilesStay DEF IInv, CacheMarked, history
<1>2. QED BY <1>1 DEF IInv, TypeOK, history

\* cleanup_expired_states judges a state, cached or loaded.
LEMMA ApplyCleanupStep ==
  ASSUME IInv, NEW t \in Threads, NEW id \in Ids, NEW state, ApplyCleanup(t, id, state),
         \A i \in Ids : ever[i] \subseteq ever'[i] /\ (cache[i] # None => cache'[i] # None)
  PROVE  call' \in [Threads -> CallType] /\ ValuesMarked' /\ SaversHaveState'
<1> DEFINE new == [op |-> "cleanup", at |-> "expire", id |-> id, arg |-> <<>>, val |-> None,
                   dangling |-> FALSE]
<1>1. new \in CallType /\ new.val = None /\ new.id = id /\ new.at = "expire"
  BY CallRecord
<1>2. Return(t) \/ call' = [call EXCEPT ![t] = new]
  BY DEF ApplyCleanup
<1> HIDE DEF new
<1>3. QED BY <1>1, <1>2, CallStep, ReturnStep

\* cleanup_expired_states looks at a cached state.
LEMMA CleanupCachedIInv ==
  ASSUME IInv, NEW t \in Threads, NEW id \in Ids, CleanupCached(t, id)
  PROVE  IInv'
<1>1. ApplyCleanup(t, id, cache[id]) /\ UNCHANGED <<cache, file, since, lock, history>>
  BY DEF CleanupCached
<1>2. QED BY <1>1, ApplyCleanupStep, QuietStep DEF history

\* A call whose state is not cached goes to load_state.
LEMMA CallUncachedIInv ==
  ASSUME IInv, NEW t \in Threads, NEW op \in {"mark", "batch", "bytes", "load", "cleanup"},
         NEW id \in Ids, NEW arg \in {<<>>} \cup Marks \cup Batches, CallUncached(t, op, id, arg)
  PROVE  IInv'
<1> DEFINE new == [op |-> op, at |-> "read", id |-> id, arg |-> arg, val |-> None,
                   dangling |-> FALSE]
<1>1. new \in CallType /\ new.val = None /\ new.id = id /\ new.at = "read"
  BY CallRecord
<1>2. call' = [call EXCEPT ![t] = new] /\ UNCHANGED <<cache, file, since, lock, history>>
  BY DEF CallUncached
<1> HIDE DEF new
<1>3. QED BY <1>1, <1>2, CallStep, QuietStep DEF history

\* load_state reads a file: what it holds was marked.
LEMMA LoadReadIInv ==
  ASSUME IInv, NEW t \in Threads, LoadRead(t)
  PROVE  IInv'
<1> DEFINE id == call[t].id
<1>1. call[t] \in CallType /\ id \in Ids
  BY DEF IInv, TypeOK, SaversHaveState, LoadRead
<1>2. UNCHANGED <<cache, file, since, lock, history>> /\ call[t].at = "read"
  BY DEF LoadRead
<1>3. CASE file[id] \in {None, Torn}
  BY <1>2, <1>3, ReturnStep, QuietStep DEF LoadRead, history
<1>4. CASE file[id] \notin {None, Torn}
  <2> DEFINE v == Deserialize(file[id])
             new == [call[t] EXCEPT !.at = "install", !.val = v]
  <2>1. v \in States /\ v # None /\ v.marked \subseteq ever[id]
    BY <1>1, <1>4, FileHoldsMarked, StateIsSome
  <2>2. call' = [call EXCEPT ![t] = new]
    BY <1>4 DEF LoadRead, IInv, TypeOK
  <2> HIDE DEF v
  <2>3. new \in CallType /\ new.val = v /\ new.id = id /\ new.at = "install"
    BY <1>1, <2>1 DEF CallType
  <2> HIDE DEF new
  <2>4. call' \in [Threads -> CallType] /\ ValuesMarked' /\ SaversHaveState'
    BY <1>1, <1>2, <2>1, <2>2, <2>3, CallStep DEF history
  <2>5. QED BY <1>2, <2>4, QuietStep
<1>5. QED BY <1>3, <1>4

\* load_state installs what it read, possibly over a newer entry: still marked.
LEMMA LoadInstallIInv ==
  ASSUME IInv, NEW t \in Threads, LoadInstall(t)
  PROVE  IInv'
<1> DEFINE id == call[t].id
           v  == call[t].val
<1>1. /\ call[t] \in CallType /\ id \in Ids /\ v \in States /\ v # None
      /\ v.marked \subseteq ever[id]
  BY DEF IInv, TypeOK, SaversHaveState, ValuesMarked, LoadInstall, CallType
<1>2. cache' = [cache EXCEPT ![id] = v] /\ UNCHANGED <<file, since, lock, created, ever, disturbed>>
      /\ acked' = [acked EXCEPT ![id] = v.marked]
  BY DEF LoadInstall
<1>7. acked' \in [Ids -> SUBSET Indexes]
  BY <1>1, <1>2 DEF IInv, TypeOK, States
<1>3. /\ cache' \in [Ids -> States \cup {None}] /\ CacheMarked'
      /\ \A i \in Ids : ever[i] \subseteq ever'[i] /\ (cache[i] # None => cache'[i] # None)
  BY <1>1, <1>2 DEF IInv, TypeOK, CacheMarked
<1>4. call' \in [Threads -> CallType] /\ ValuesMarked' /\ SaversHaveState'
  <2>1. CASE Return(t) BY <1>3, <2>1, ReturnStep
  <2>2. CASE ApplyCleanup(t, id, v) BY <1>1, <1>3, <2>2, ApplyCleanupStep
  <2>3. CASE call' = [call EXCEPT ![t].at = "apply", ![t].val = None]
    <3> DEFINE new == [call[t] EXCEPT !.at = "apply", !.val = None]
    <3>1. new \in CallType /\ new.val = None /\ new.id = id /\ new.at = "apply"
      BY <1>1 DEF CallType
    <3>2. call' = [call EXCEPT ![t] = new]
      BY <2>3 DEF IInv, TypeOK
    <3> HIDE DEF new
    <3>3. QED BY <1>1, <1>3, <3>1, <3>2, CallStep
  <2>4. QED BY <2>1, <2>2, <2>3 DEF LoadInstall
<1>5. FilesMarked'
  BY <1>2, <1>3, FilesStay DEF IInv
<1>6. QED BY <1>2, <1>3, <1>4, <1>5, <1>7 DEF IInv, TypeOK

\* A call that loaded its state looks it up again.
LEMMA ApplyLoadedIInv ==
  ASSUME IInv, NEW t \in Threads, ApplyLoaded(t)
  PROVE  IInv'
<1> DEFINE id == call[t].id
<1>1. id \in Ids /\ call[t].arg \in {<<>>} \cup Marks \cup Batches
  BY DEF IInv, TypeOK, SaversHaveState, ApplyLoaded, CallType
<1>2. CASE cache[id] = None /\ Return(t) /\ UNCHANGED <<cache, since, ever, acked, disturbed>>
  BY <1>2, ReturnStep, QuietStep DEF ApplyLoaded, history
<1>3. CASE cache[id] # None /\ Apply(t, call[t].op, id, call[t].arg)
  BY <1>1, <1>3, ApplyIInv DEF ApplyLoaded
<1>4. QED BY <1>2, <1>3 DEF ApplyLoaded

\* delete_state: references into the entry dangle from now on.
LEMMA DeleteIInv ==
  ASSUME IInv, NEW t \in Threads, NEW id \in Ids, Delete(t, id)
  PROVE  IInv'
<1> DEFINE D(u) == call[u].dangling \/ (call[u].at = "save" /\ call[u].id = id /\ call[u].op # "save")
<1>1. call \in [Threads -> CallType]
  BY DEF IInv, TypeOK
<1>2. /\ cache' = [cache EXCEPT ![id] = None] /\ acked' = [acked EXCEPT ![id] = {}]
      /\ disturbed' = TRUE /\ UNCHANGED <<since, lock, created, ever>>
  BY DEF Delete
<1>3. call' = [u \in Threads |-> IF u = t THEN IdleCall ELSE [call[u] EXCEPT !.dangling = D(u)]]
  BY <1>1 DEF Delete, CallType
<1>4. \A u \in Threads : D(u) \in BOOLEAN
  BY <1>1 DEF CallType
<1> HIDE DEF D
<1>5. \A u \in Threads :
        \/ call'[u] = IdleCall
        \/ /\ call'[u] \in CallType /\ call'[u].dangling = D(u)
           /\ call'[u].op = call[u].op /\ call'[u].at = call[u].at
           /\ call'[u].id = call[u].id /\ call'[u].val = call[u].val
  BY <1>1, <1>3, <1>4 DEF CallType
<1>6. call' \in [Threads -> CallType]
  BY <1>3, <1>5, IdleIsCall
<1>7. ValuesMarked'
  BY <1>2, <1>5, IdleIsCall DEF IInv, ValuesMarked
<1>8. SaversHaveState'
  <2> SUFFICES ASSUME NEW u \in Threads, call'[u] # IdleCall
               PROVE  /\ call'[u].at # "idle" => call'[u].id \in Ids
                      /\ call'[u].at \in {"save", "write", "install"} => call'[u].val # None
                      /\ call'[u].at = "save" /\ call'[u].op # "save" /\ ~call'[u].dangling
                           => cache'[call'[u].id] # None
    BY IdleIsCall DEF SaversHaveState
  <2>1. /\ call'[u].dangling = D(u) /\ call'[u].op = call[u].op /\ call'[u].at = call[u].at
        /\ call'[u].id = call[u].id /\ call'[u].val = call[u].val
    BY <1>5
  <2>2. ASSUME call[u].at = "save", call[u].op # "save", ~D(u)
        PROVE  cache'[call[u].id] # None
    <3>1. call[u].id \in Ids /\ call[u].id # id /\ ~call[u].dangling
      BY <2>2 DEF D, IInv, SaversHaveState
    <3>2. QED BY <1>2, <2>2, <3>1 DEF IInv, TypeOK, SaversHaveState
  <2>3. QED BY <2>1, <2>2 DEF IInv, SaversHaveState
<1>9. cache' \in [Ids -> States \cup {None}] /\ CacheMarked' /\ acked' \in [Ids -> SUBSET Indexes]
  BY <1>2 DEF IInv, TypeOK, CacheMarked
<1>10. file' \in [Ids -> Files \cup {None, Torn}] /\ FilesMarked'
  <2>1. CASE file' = [file EXCEPT ![id] = None]
    BY <1>2, <2>1 DEF IInv, TypeOK, FilesMarked
  <2>2. CASE UNCHANGED file
    BY <1>2, <2>2, FilesStay DEF IInv, TypeOK
  <2>3. QED BY <2>1, <2>2 DEF Delete
<1>11. QED BY <1>2, <1>6, <1>7, <1>8, <1>9, <1>10 DEF IInv, TypeOK

\* state_ttl passes: neither bitmaps nor texts change.
LEMMA AgeIInv ==
  ASSUME IInv, NEW id \in Ids, Age(id)
  PROVE  IInv'
<1> DEFINE s == [cache[id] EXCEPT !.fresh = FALSE]
           x == [file[id] EXCEPT !.fresh = FALSE]
<1>1. cache' = [cache EXCEPT ![id] = IF cache[id] = None THEN None ELSE s]
      /\ file' = [file EXCEPT ![id] = IF file[id] \in {None, Torn} THEN file[id] ELSE x]
      /\ UNCHANGED <<since, lock, call, created, ever, acked, disturbed>>
  BY DEF Age, history, IInv, TypeOK
<1>2. cache[id] # None => s \in States /\ s.marked = cache[id].marked /\ s # None
  <2>1. cache[id] # None => cache[id] \in States BY DEF IInv, TypeOK
  <2>2. cache[id] # None => s \in States /\ s.marked = cache[id].marked BY <2>1 DEF States
  <2>3. QED BY <2>2, StateIsSome
<1>3. file[id] \notin {None, Torn} => x \in Files /\ x.hex = file[id].hex
  <2>1. file[id] \notin {None, Torn} => file[id] \in Files BY DEF IInv, TypeOK
  <2>2. QED BY <2>1 DEF Files
<1> HIDE DEF s, x
<1>4. /\ cache' \in [Ids -> States \cup {None}] /\ CacheMarked'
      /\ \A i \in Ids : cache[i] # None => cache'[i] # None
  BY <1>1, <1>2 DEF IInv, TypeOK, CacheMarked
<1>5. file' \in [Ids -> Files \cup {None, Torn}]
  BY <1>1, <1>3 DEF IInv, TypeOK
<1>6. FilesMarked'
  <2> SUFFICES ASSUME NEW i \in Ids, file'[i] \notin {None, Torn}
               PROVE  \E m \in SUBSET (ever[i] \cap Indexes) :
                        file'[i].hex = BitmapToHex(m, TotalChunks)
    BY <1>1 DEF FilesMarked
  <2>1. CASE i = id
    <3>1. file[id] \notin {None, Torn} /\ file'[i] = x
      BY <1>1, <2>1 DEF IInv, TypeOK
    <3>2. QED BY <1>3, <2>1, <3>1 DEF IInv, FilesMarked
  <2>2. CASE i # id
    <3>1. file'[i] = file[i] BY <1>1, <2>2 DEF IInv, TypeOK
    <3>2. QED BY <3>1 DEF IInv, FilesMarked
  <2>3. QED BY <2>1, <2>2
<1>7. ValuesMarked' /\ SaversHaveState'
  BY <1>1, <1>4 DEF IInv, ValuesMarked, SaversHaveState
<1>8. QED BY <1>1, <1>4, <1>5, <1>6, <1>7 DEF IInv, TypeOK

\* The process dies: the files stay, everything else starts anew.
LEMMA RestartIInv ==
  ASSUME IInv, Restart
  PROVE  IInv'
<1>1. /\ cache' = [id \in Ids |-> None] /\ since' = 0 /\ lock' = None /\ disturbed' = TRUE
      /\ call' = [t \in Threads |-> IdleCall] /\ acked' = [id \in Ids |-> {}]
      /\ UNCHANGED <<file, created, ever>>
  BY DEF Restart
<1>2. TypeOK'
  BY <1>1, IdleIsCall, ConstantsAssumption DEF IInv, TypeOK
<1>3. FilesMarked' /\ CacheMarked'
  BY <1>1, FilesStay DEF IInv, CacheMarked
<1>4. ValuesMarked' /\ SaversHaveState'
  BY <1>1, IdleIsCall DEF ValuesMarked, SaversHaveState
<1>5. QED BY <1>2, <1>3, <1>4 DEF IInv

\* Every step keeps the inductive invariant.
LEMMA NextIInv ==
  ASSUME IInv, [Next]_vars
  PROVE  IInv'
<1>1. ASSUME NEW t \in Threads, NEW id \in Ids, NEW op, NEW arg \in {<<>>} \cup Marks \cup Batches,
             CallCached(t, op, id, arg)
      PROVE  IInv'
  BY <1>1, ApplyIInv DEF CallCached
<1>2. ASSUME NEW t \in Threads, NEW id \in Ids, DeleteState(t, id) PROVE IInv'
  BY <1>2, DeleteIInv DEF DeleteState
<1>3. ASSUME NEW t \in Threads, CleanupDelete(t) PROVE IInv'
  <2>1. call[t].id \in Ids BY <1>3 DEF CleanupDelete, IInv, SaversHaveState
  <2>2. QED BY <1>3, <2>1, DeleteIInv DEF CleanupDelete
<1>4. CASE UNCHANGED vars
  <2>1. ValuesMarked' /\ SaversHaveState' /\ call' \in [Threads -> CallType]
    BY <1>4 DEF vars, IInv, TypeOK, ValuesMarked, SaversHaveState
  <2>2. QED BY <1>4, <2>1, QuietStep DEF vars, history
<1>5. CASE Next
  <2>1. CASE \E t \in Threads, id \in Ids :
               \/ \E i \in Marks : CallCached(t, "mark", id, i) \/ CallUncached(t, "mark", id, i)
               \/ \E b \in Batches : CallCached(t, "batch", id, b) \/ CallUncached(t, "batch", id, b)
               \/ CallCached(t, "bytes", id, <<>>)
               \/ \E op \in {"bytes", "load"} : CallUncached(t, op, id, <<>>)
               \/ CallUncached(t, "cleanup", id, <<>>)
    BY <2>1, <1>1, CallUncachedIInv
  <2>2. CASE \E t \in Threads, id \in Ids :
               (\E state \in Saved : SaveState(t, id, state)) \/ CleanupCached(t, id) \/ DeleteState(t, id)
    BY <2>2, <1>2, SaveStateIInv, CleanupCachedIInv
  <2>3. CASE \E t \in Threads : \/ SaveBegin(t) \/ SaveWrite(t) \/ LoadRead(t)
                               \/ LoadInstall(t) \/ ApplyLoaded(t) \/ CleanupDelete(t)
    BY <2>3, <1>3, SaveBeginIInv, SaveWriteIInv, LoadReadIInv, LoadInstallIInv, ApplyLoadedIInv
  <2>4. CASE (\E id \in Ids : Age(id)) \/ Restart
    BY <2>4, AgeIInv, RestartIInv
  <2>5. QED BY <1>5, <2>1, <2>2, <2>3, <2>4, Zenon DEF Next
<1>6. QED BY <1>4, <1>5

-----------------------------------------------------------------------------
\* The inductive invariant holds of every behaviour.
LEMMA IInvHolds == Spec => []IInv
  BY InitIInv, NextIInv, PTL DEF Spec

(* The types of resume_handler's state, and that the counter since the last *)
(* checkpoint never reaches the interval outside mark_chunk_received.       *)
THEOREM TypesHold == Spec => []TypeOK
<1>1. IInv => TypeOK BY DEF IInv
<1>2. QED BY <1>1, IInvHolds, PTL

(* Whatever the cache or a readable state file reports as received was      *)
(* marked by a caller, or in a state a caller saved, through failures,      *)
(* restarts, stale reads and deletes (save_state, load_state,               *)
(* mark_chunk(s)_received).                                                 *)
THEOREM RecordedIsMarked == Spec => []RecordedWasMarked
<1>1. IInv => RecordedWasMarked
  BY FileHoldsMarked DEF IInv, CacheMarked, RecordedWasMarked
<1>2. QED BY <1>1, IInvHolds, PTL

(* The bitmap of every cached state survives serialize_state_to_json and    *)
(* deserialize_state_from_json.                                             *)
THEOREM SavedStatesAreRead == Spec => []SavedIsRead
<1>1. IInv => SavedIsRead
  BY BitmapSurvives, ConstantsAssumption DEF IInv, TypeOK, States, Indexes, SavedIsRead
<1>2. QED BY <1>1, IInvHolds, PTL
-----------------------------------------------------------------------------
(* What the handler owes an answer for.  A checkpoint keeps it because it   *)
(* puts back the entry it refers to as it is by then, not a copy of it.     *)

\* What is acknowledged is in the cache.
Acknowledged ==
  \A id \in Ids : /\ cache[id] = None => acked[id] = {}
                  /\ cache[id] # None => acked[id] \subseteq cache[id].marked

\* Undisturbed, the ids saved once are the cached ones, no call loads and no reference dangles.
Calm ==
  ~disturbed => /\ \A id \in Ids : cache[id] # None <=> id \in created
                /\ \A t \in Threads : call[t].at \in {"idle", "save", "write", "expire"} /\ ~call[t].dangling

AInv == IInv /\ Acknowledged /\ Calm

\* An entry is replaced together with what is acknowledged of it.
LEMMA EntryStep ==
  ASSUME IInv, Acknowledged, NEW id \in Ids, NEW s, s # None, NEW A,
         cache' = [cache EXCEPT ![id] = s], acked' = [acked EXCEPT ![id] = A], A \subseteq s.marked
  PROVE  Acknowledged'
<1>1. cache'[id] = s /\ acked'[id] = A
  BY DEF IInv, TypeOK
<1>2. \A i \in Ids : i # id => cache'[i] = cache[i] /\ acked'[i] = acked[i]
  BY DEF IInv, TypeOK
<1>3. QED BY <1>1, <1>2 DEF Acknowledged

\* The operations on a cached state.
LEMMA ApplyKeeps ==
  ASSUME IInv, Acknowledged, NEW t \in Threads, NEW op, NEW id \in Ids,
         NEW arg \in {<<>>} \cup Marks \cup Batches,
         cache[id] # None, Apply(t, op, id, arg), UNCHANGED <<file, lock, created>>
  PROVE  /\ Acknowledged' /\ \A i \in Ids : cache'[i] # None <=> cache[i] # None
         /\ Return(t) \/ \E o \in {"mark", "batch"} : ThenSave(t, o, id, arg)
         /\ disturbed => disturbed'
<1>1. cache[id] \in States
  BY DEF IInv, TypeOK
<1>2. ASSUME NEW s \in States, NEW A, A \subseteq s.marked,
             cache' = [cache EXCEPT ![id] = s], acked' = [acked EXCEPT ![id] = A]
      PROVE  Acknowledged' /\ \A i \in Ids : cache'[i] # None <=> cache[i] # None
  <2>1. s # None BY StateIsSome
  <2>2. QED BY <1>2, <2>1, EntryStep DEF IInv, TypeOK
<1>3. ASSUME NEW fr \in BOOLEAN, Marked(id, Valid(arg), fr)
      PROVE  Acknowledged' /\ \A i \in Ids : cache'[i] # None <=> cache[i] # None
  <2> DEFINE s == [cache[id] EXCEPT !.marked = @ \cup Valid(arg), !.fresh = @ \/ fr]
  <2>1. s.marked = cache[id].marked \cup Valid(arg) /\ s \in States
    <3>1. Valid(arg) \subseteq Indexes BY ValidInRange
    <3>2. cache[id].fresh \/ fr \in BOOLEAN OBVIOUS
    <3>3. QED BY <1>1, <3>1, <3>2 DEF States
  <2>2. cache' = [cache EXCEPT ![id] = s] /\ acked' = [acked EXCEPT ![id] = acked[id] \cup Valid(arg)]
    BY <1>3 DEF Marked, IInv, TypeOK
  <2> HIDE DEF s
  <2>3. acked[id] \cup Valid(arg) \subseteq s.marked
    BY <2>1 DEF Acknowledged
  <2>4. QED BY <1>2, <2>1, <2>2, <2>3
<1>4. Return(t) \/ \E o \in {"mark", "batch"} : ThenSave(t, o, id, arg)
  BY DEF Apply, ApplyMark, ApplyBatch, ApplyBytes
<1>5. disturbed => disturbed'
  BY DEF Apply, ApplyMark, ApplyBatch, ApplyBytes
<1>6. CASE op = "mark" /\ ApplyMark(t, id, arg)
  <2>1. CASE ~AllValid(arg)
    <3>1. UNCHANGED <<cache, acked>> BY <1>6, <2>1 DEF ApplyMark
    <3>2. QED BY <1>4, <1>5, <3>1 DEF Acknowledged
  <2>2. CASE AllValid(arg)
    BY <1>3, <1>4, <1>5, <1>6, <2>2 DEF ApplyMark
  <2>3. QED BY <2>1, <2>2
<1>7. CASE op = "batch" /\ ApplyBatch(t, id, arg)
  <2>1. AllValid(arg) \in BOOLEAN BY DEF AllValid
  <2>2. QED BY <1>3, <1>4, <1>5, <1>7, <2>1 DEF ApplyBatch
<1>8. CASE op = "bytes" /\ ApplyBytes(t, id)
  <2> DEFINE s == [cache[id] EXCEPT !.fresh = TRUE]
  <2>1. s \in States /\ s.marked = cache[id].marked
    BY <1>1 DEF States
  <2>2. cache' = [cache EXCEPT ![id] = s] /\ acked' = [acked EXCEPT ![id] = acked[id]]
    BY <1>8 DEF ApplyBytes, IInv, TypeOK
  <2> HIDE DEF s
  <2>3. acked[id] \subseteq s.marked
    BY <2>1 DEF Acknowledged
  <2>4. QED BY <1>2, <1>4, <1>5, <2>1, <2>2, <2>3
<1>9. QED BY <1>6, <1>7, <1>8 DEF Apply

\* save_state with a caller's state, or with a reference.
LEMMA SaveBeginKeeps ==
  ASSUME IInv, Acknowledged, NEW t \in Threads, SaveBegin(t)
  PROVE  Acknowledged'
<1> DEFINE id == call[t].id
           g  == Given(t)
<1>1. id \in Ids /\ g \in States /\ g # None
  BY GivenMarked, StateIsSome DEF SaveBegin
<1>2. cache' = [cache EXCEPT ![id] = g]
  BY DEF SaveBegin
<1>3. CASE Foreign(t)
  <2>1. acked' = [acked EXCEPT ![id] = g.marked]
    BY <1>3 DEF SaveBegin, Given
  <2> HIDE DEF g
  <2>2. QED BY <1>1, <1>2, <2>1, EntryStep
<1>4. CASE ~Foreign(t)
  <2>1. acked' = [acked EXCEPT ![id] = acked[id]]
    BY <1>4 DEF SaveBegin, IInv, TypeOK
  <2>2. g = cache[id]
    BY <1>4 DEF Given
  <2>3. acked[id] \subseteq g.marked
    BY <1>1, <2>2 DEF Acknowledged
  <2> HIDE DEF g
  <2>4. QED BY <1>1, <1>2, <2>1, <2>3, EntryStep
<1>5. QED BY <1>3, <1>4

\* load_state: what it installs is what it answers for from now on.
LEMMA LoadInstallKeeps ==
  ASSUME IInv, Acknowledged, NEW t \in Threads, LoadInstall(t)
  PROVE  Acknowledged'
<1> DEFINE v == call[t].val
<1>1. call[t].id \in Ids /\ v # None
  BY DEF IInv, SaversHaveState, LoadInstall
<1>2. cache' = [cache EXCEPT ![call[t].id] = v] /\ acked' = [acked EXCEPT ![call[t].id] = v.marked]
  BY DEF LoadInstall
<1> HIDE DEF v
<1>3. QED BY <1>1, <1>2, EntryStep

\* Time passes: no bitmap changes.
LEMMA AgeKeeps ==
  ASSUME IInv, Acknowledged, NEW id \in Ids, Age(id)
  PROVE  Acknowledged' /\ \A i \in Ids : cache'[i] # None <=> cache[i] # None
<1> DEFINE s == [cache[id] EXCEPT !.fresh = FALSE]
<1>1. UNCHANGED acked /\ cache' = [cache EXCEPT ![id] = IF cache[id] = None THEN None ELSE s]
  BY DEF Age, history, IInv, TypeOK
<1>2. cache[id] # None => s # None /\ s.marked = cache[id].marked
  <2>1. cache[id] # None => cache[id] \in States BY DEF IInv, TypeOK
  <2>2. cache[id] # None => s \in States /\ s.marked = cache[id].marked BY <2>1 DEF States
  <2>3. QED BY <2>2, StateIsSome
<1> HIDE DEF s
<1>3. QED BY <1>1, <1>2 DEF Acknowledged, IInv, TypeOK

\* A thread goes on without loading; the ids saved once stay the cached ones.
LEMMA CalmStep ==
  ASSUME IInv, Calm, disturbed => disturbed', NEW t \in Threads, NEW new,
         call' = [call EXCEPT ![t] = new],
         ~disturbed' => /\ new.at \in {"idle", "save", "write", "expire"} /\ ~new.dangling
                        /\ \A id \in Ids : cache'[id] # None <=> id \in created'
  PROVE  Calm'
<1>1. call'[t] = new /\ \A u \in Threads : u # t => call'[u] = call[u]
  BY DEF IInv, TypeOK
<1>2. QED BY <1>1 DEF Calm

LEMMA CalmReturn ==
  ASSUME IInv, Calm, disturbed => disturbed', NEW t \in Threads, Return(t),
         ~disturbed' => \A id \in Ids : cache'[id] # None <=> id \in created'
  PROVE  Calm'
<1>1. IdleCall.at = "idle" /\ ~IdleCall.dangling
  BY DEF IdleCall
<1>2. QED BY <1>1, CalmStep DEF Return

\* The steps of a thread that leave the cache alone or act on a cached state.
LEMMA ThreadCalm ==
  ASSUME IInv, Acknowledged, Calm, NEW t \in Threads,
         \/ \E id \in Ids, op \in {"mark", "batch", "bytes"}, arg \in {<<>>} \cup Marks \cup Batches :
              cache[id] # None /\ Apply(t, op, id, arg) /\ UNCHANGED <<file, lock, created>>
         \/ \E id \in Ids, state \in Saved : SaveState(t, id, state)
         \/ \E id \in Ids : CleanupCached(t, id)
         \/ SaveWrite(t)
  PROVE  Calm'
<1>1. ASSUME NEW id \in Ids, NEW op \in {"mark", "batch", "bytes"}, NEW arg \in {<<>>} \cup Marks \cup Batches,
             cache[id] # None, Apply(t, op, id, arg), UNCHANGED <<file, lock, created>>
      PROVE  Calm'
  <2>1. /\ \A i \in Ids : cache'[i] # None <=> cache[i] # None
        /\ Return(t) \/ \E o \in {"mark", "batch"} : ThenSave(t, o, id, arg)
        /\ disturbed => disturbed'
    BY <1>1, ApplyKeeps
  <2>2. ~disturbed' => \A i \in Ids : cache'[i] # None <=> i \in created'
    BY <1>1, <2>1 DEF Calm
  <2>3. ASSUME NEW o, ThenSave(t, o, id, arg) PROVE Calm'
    <3> DEFINE new == [op |-> o, at |-> "save", id |-> id, arg |-> arg, val |-> cache'[id], dangling |-> FALSE]
    <3>1. call' = [call EXCEPT ![t] = new] /\ new.at = "save" /\ ~new.dangling
      BY <2>3 DEF ThenSave
    <3> HIDE DEF new
    <3>2. QED BY <2>1, <2>2, <3>1, CalmStep
  <2>4. QED BY <2>1, <2>2, <2>3, CalmReturn
<1>2. ASSUME NEW id \in Ids, NEW state \in Saved, SaveState(t, id, state) PROVE Calm'
  <2> DEFINE new == [op |-> "save", at |-> "save", id |-> id, arg |-> <<>>, val |-> state, dangling |-> FALSE]
  <2>1. call' = [call EXCEPT ![t] = new] /\ new.at = "save" /\ ~new.dangling /\ UNCHANGED <<cache, created, disturbed>>
    BY <1>2 DEF SaveState
  <2> HIDE DEF new
  <2>2. QED BY <2>1, CalmStep DEF Calm
<1>3. ASSUME NEW id \in Ids, CleanupCached(t, id) PROVE Calm'
  <2> DEFINE new == [op |-> "cleanup", at |-> "expire", id |-> id, arg |-> <<>>, val |-> None, dangling |-> FALSE]
  <2>1. /\ Return(t) \/ call' = [call EXCEPT ![t] = new]
        /\ new.at = "expire" /\ ~new.dangling /\ UNCHANGED <<cache, created, disturbed>>
    BY <1>3 DEF CleanupCached, ApplyCleanup, history
  <2> HIDE DEF new
  <2>2. QED BY <2>1, CalmStep, CalmReturn DEF Calm
<1>4. CASE SaveWrite(t)
  <2>1. Return(t) /\ UNCHANGED <<cache, created>> /\ (disturbed => disturbed')
    BY <1>4 DEF SaveWrite
  <2>2. QED BY <2>1, CalmReturn DEF Calm
<1>5. QED BY <1>1, <1>2, <1>3, <1>4

LEMMA SaveBeginCalm ==
  ASSUME IInv, Calm, NEW t \in Threads, SaveBegin(t)
  PROVE  Calm'
<1> DEFINE id == call[t].id
           g  == Given(t)
<1>1. id \in Ids /\ g # None
  BY GivenMarked, StateIsSome DEF SaveBegin
<1> HIDE DEF g
<1>2. cache' = [cache EXCEPT ![id] = g] /\ created' = created \cup {id} /\ (disturbed => disturbed')
  BY DEF SaveBegin, g
<1>3. ~disturbed' => \A i \in Ids : cache'[i] # None <=> i \in created'
  BY <1>1, <1>2 DEF Calm, IInv, TypeOK
<1>4. CASE call' = [call EXCEPT ![t].at = "write", ![t].val = g]
  <2> DEFINE new == [call[t] EXCEPT !.at = "write", !.val = g]
  <2>1. call' = [call EXCEPT ![t] = new] /\ new.at = "write" /\ new.dangling = call[t].dangling
    BY <1>4 DEF IInv, TypeOK, CallType
  <2> HIDE DEF new
  <2>2. ~disturbed' => ~new.dangling BY <1>2, <2>1 DEF Calm
  <2>3. QED BY <1>2, <1>3, <2>1, <2>2, CalmStep
<1>5. CASE Return(t)
  BY <1>2, <1>3, <1>5, CalmReturn
<1>6. QED BY <1>4, <1>5 DEF SaveBegin, g

LEMMA NextAInv ==
  ASSUME AInv, [Next]_vars
  PROVE  AInv'
<1>1. IInv /\ IInv' /\ Acknowledged /\ Calm
  BY NextIInv DEF AInv
<1> SUFFICES Acknowledged' /\ Calm'
  BY <1>1 DEF AInv
<1>2. CASE UNCHANGED vars
  BY <1>1, <1>2 DEF vars, Acknowledged, Calm
<1>3. UNCHANGED <<cache, acked>> => Acknowledged'
  BY <1>1 DEF Acknowledged
<1>4. disturbed' => Calm'
  BY DEF Calm
<1>5. CASE Next
  <2>1. ASSUME NEW t \in Threads, NEW id \in Ids, NEW op \in {"mark", "batch", "bytes"},
               NEW arg \in {<<>>} \cup Marks \cup Batches,
               cache[id] # None, Apply(t, op, id, arg), UNCHANGED <<file, lock, created>>
        PROVE  Acknowledged' /\ Calm'
    BY <1>1, <2>1, ApplyKeeps, ThreadCalm
  <2>2. ASSUME NEW t \in Threads, NEW id \in Ids, NEW op \in {"mark", "batch", "bytes"},
               NEW arg \in {<<>>} \cup Marks \cup Batches, CallCached(t, op, id, arg)
        PROVE  Acknowledged' /\ Calm'
    BY <2>1, <2>2 DEF CallCached
  <2>3. ASSUME NEW t \in Threads, NEW id \in Ids, NEW op, NEW arg, CallUncached(t, op, id, arg)
        PROVE  Acknowledged' /\ Calm'
    <3>1. UNCHANGED <<cache, acked, disturbed>> /\ cache[id] = None /\ id \in created
      BY <2>3 DEF CallUncached, history
    <3>2. disturbed BY <1>1, <3>1 DEF Calm
    <3>3. QED BY <1>3, <1>4, <3>1, <3>2
  <2>4. ASSUME NEW t \in Threads, NEW id \in Ids,
               (\E state \in Saved : SaveState(t, id, state)) \/ CleanupCached(t, id)
        PROVE  Acknowledged' /\ Calm'
    <3>1. UNCHANGED <<cache, acked>> BY <2>4 DEF SaveState, CleanupCached, history
    <3>2. QED BY <1>1, <1>3, <2>4, <3>1, ThreadCalm
  <2>5. ASSUME NEW t \in Threads, NEW id \in Ids, Delete(t, id) PROVE Acknowledged' /\ Calm'
    <3>1. /\ cache' = [cache EXCEPT ![id] = None] /\ acked' = [acked EXCEPT ![id] = {}]
          /\ disturbed'
      BY <2>5 DEF Delete
    <3>2. Acknowledged' BY <1>1, <3>1 DEF Acknowledged, IInv, TypeOK
    <3>3. QED BY <1>4, <3>1, <3>2
  <2>6. ASSUME NEW t \in Threads, SaveBegin(t) PROVE Acknowledged' /\ Calm'
    BY <1>1, <2>6, SaveBeginKeeps, SaveBeginCalm
  <2>7. ASSUME NEW t \in Threads, SaveWrite(t) PROVE Acknowledged' /\ Calm'
    <3>1. UNCHANGED <<cache, acked>> BY <2>7 DEF SaveWrite
    <3>2. QED BY <1>1, <1>3, <2>7, <3>1, ThreadCalm
  <2>8. ASSUME NEW t \in Threads, LoadRead(t) PROVE Acknowledged' /\ Calm'
    <3>1. UNCHANGED <<cache, acked, disturbed>> /\ call[t].at = "read" BY <2>8 DEF LoadRead, history
    <3>2. disturbed BY <1>1, <3>1 DEF Calm
    <3>3. QED BY <1>3, <1>4, <3>1, <3>2
  <2>9. ASSUME NEW t \in Threads, LoadInstall(t) PROVE Acknowledged' /\ Calm'
    <3>1. UNCHANGED disturbed /\ call[t].at = "install" BY <2>9 DEF LoadInstall
    <3>2. disturbed BY <1>1, <3>1 DEF Calm
    <3>3. QED BY <1>1, <1>4, <2>9, <3>1, <3>2, LoadInstallKeeps
  <2>10. ASSUME NEW t \in Threads, ApplyLoaded(t) PROVE Acknowledged' /\ Calm'
    <3>1. call[t].at = "apply" BY <2>10 DEF ApplyLoaded
    <3>2. disturbed BY <1>1, <3>1 DEF Calm
    <3>3. call[t].id \in Ids /\ call[t].arg \in {<<>>} \cup Marks \cup Batches
      BY <1>1, <3>1 DEF IInv, TypeOK, CallType, SaversHaveState
    <3>4. CASE UNCHANGED <<cache, acked, disturbed>>
      BY <1>3, <1>4, <3>2, <3>4
    <3>5. CASE cache[call[t].id] # None /\ Apply(t, call[t].op, call[t].id, call[t].arg)
      <4>1. call[t].op \in {"mark", "batch", "bytes"} BY <3>5 DEF Apply
      <4>2. QED BY <2>1, <2>10, <3>3, <3>5, <4>1 DEF ApplyLoaded
    <3>6. QED BY <2>10, <3>4, <3>5 DEF ApplyLoaded
  <2>11. ASSUME NEW t \in Threads, CleanupDelete(t) PROVE Acknowledged' /\ Calm'
    <3>1. call[t].id \in Ids BY <1>1, <2>11 DEF CleanupDelete, IInv, SaversHaveState
    <3>2. QED BY <2>5, <2>11, <3>1 DEF CleanupDelete
  <2>12. ASSUME NEW id \in Ids, Age(id) PROVE Acknowledged' /\ Calm'
    <3>1. Acknowledged' /\ \A i \in Ids : cache'[i] # None <=> cache[i] # None
      BY <1>1, <2>12, AgeKeeps
    <3>2. UNCHANGED <<call, created, disturbed>> BY <2>12 DEF Age, history
    <3>3. QED BY <1>1, <3>1, <3>2 DEF Calm
  <2>13. CASE Restart
    <3>1. disturbed' /\ cache' = [id \in Ids |-> None] /\ acked' = [id \in Ids |-> {}]
      BY <2>13 DEF Restart
    <3>2. QED BY <1>4, <3>1 DEF Acknowledged
  <2>14. CASE \E t \in Threads, id \in Ids :
               \/ \E i \in Marks : CallCached(t, "mark", id, i) \/ CallUncached(t, "mark", id, i)
               \/ \E b \in Batches : CallCached(t, "batch", id, b) \/ CallUncached(t, "batch", id, b)
               \/ CallCached(t, "bytes", id, <<>>)
               \/ \E op \in {"bytes", "load"} : CallUncached(t, op, id, <<>>)
               \/ CallUncached(t, "cleanup", id, <<>>)
    BY <2>2, <2>3, <2>14
  <2>15. CASE \E t \in Threads, id \in Ids :
               (\E state \in Saved : SaveState(t, id, state)) \/ CleanupCached(t, id) \/ DeleteState(t, id)
    BY <2>4, <2>5, <2>15 DEF DeleteState
  <2>16. CASE \E t \in Threads : \/ SaveBegin(t) \/ SaveWrite(t) \/ LoadRead(t)
                                \/ LoadInstall(t) \/ ApplyLoaded(t) \/ CleanupDelete(t)
    BY <2>6, <2>7, <2>8, <2>9, <2>10, <2>11, <2>16
  <2>17. CASE \E id \in Ids : Age(id)
    BY <2>12, <2>17
  <2>18. QED BY <1>5, <2>13, <2>14, <2>15, <2>16, <2>17, Zenon DEF Next
<1>6. QED BY <1>2, <1>5

LEMMA InitAInv == Init => AInv
<1> SUFFICES ASSUME Init PROVE AInv OBVIOUS
<1>1. IInv BY InitIInv
<1>2. Acknowledged BY DEF Init, Acknowledged
<1>3. Calm BY DEF Init, Calm, IdleCall
<1>4. QED BY <1>1, <1>2, <1>3 DEF AInv

(* A chunk marked received, saved or loaded as received stays received,     *)
(* through concurrent marks, batches and checkpoints of any number of       *)
(* threads, whatever file operations fail, before and after restarts, until *)
(* its state is deleted, saved over or loaded again by a call under way     *)
(* since before (mark_chunk(s)_received, save_state, load_state).           *)
THEOREM AcknowledgedAreKept == Spec => []AckedKept
<1>1. AInv => AckedKept
  BY DEF AInv, Acknowledged, AckedKept, IsChunkReceived
<1>2. QED BY InitAInv, NextAInv, <1>1, PTL DEF Spec
-----------------------------------------------------------------------------
(* Checkpoints: while nobody saves, the file lacks at most as many chunks   *)
(* as were counted since the last one.                                      *)

\* Who holds mutex_ in save_state writes what the cache still has.
Saving ==
  \A t \in Threads :
    /\ call[t].at = "write" <=> lock = t
    /\ lock = t => /\ call[t].id \in created /\ cache[call[t].id] # None
                   /\ cache[call[t].id].marked = call[t].val.marked

NobodySaves == \A t \in Threads : call[t].at \notin {"save", "write"}

Unsaved(id) == cache[id].marked \ Deserialize(file[id]).marked

Checkpointed ==
  ~disturbed /\ NobodySaves => \A id \in Ids :
    created = {id} => file[id] \notin {None, Torn} /\ Cardinality(Unsaved(id)) <= since

PInv == AInv /\ Saving /\ Checkpointed

\* Marking at most one chunk more leaves at most one more unsaved.
LEMMA OneMore ==
  ASSUME NEW A \in SUBSET Indexes, NEW B, NEW i
  PROVE  /\ Cardinality(A \ B) \in Nat /\ Cardinality((A \cup {i}) \ B) \in Nat
         /\ Cardinality((A \cup {i}) \ B) <= Cardinality(A \ B) + 1
<1>1. IsFiniteSet(Indexes)
  <2>1. 0 \in Int /\ TotalChunks - 1 \in Int BY ConstantsAssumption
  <2>2. QED BY <2>1, FS_Interval DEF Indexes
<1>2. IsFiniteSet(A \ B) BY <1>1, FS_Subset
<1>3. IsFiniteSet((A \ B) \cup {i}) BY <1>2, FS_AddElement
<1>4. /\ Cardinality((A \ B) \cup {i}) <= Cardinality(A \ B) + 1
      /\ Cardinality(A \ B) \in Nat /\ Cardinality((A \ B) \cup {i}) \in Nat
  <2> DEFINE D == A \ B
  <2>1. IsFiniteSet(D) /\ Cardinality(D) \in Nat BY <1>2, FS_CardinalityType
  <2> HIDE DEF D
  <2>2. Cardinality(D \cup {i}) = IF i \in D THEN Cardinality(D) ELSE Cardinality(D) + 1
    BY <2>1, FS_AddElement
  <2>3. Cardinality(D \cup {i}) <= Cardinality(D) + 1 /\ Cardinality(D \cup {i}) \in Nat
    BY <2>1, <2>2
  <2>4. QED BY <2>1, <2>3 DEF D
<1>5. (A \cup {i}) \ B \subseteq (A \ B) \cup {i} OBVIOUS
<1>6. /\ Cardinality((A \cup {i}) \ B) <= Cardinality((A \ B) \cup {i})
      /\ IsFiniteSet((A \cup {i}) \ B)
  BY <1>3, <1>5, FS_Subset
<1>7. Cardinality((A \cup {i}) \ B) \in Nat BY <1>6, FS_CardinalityType
<1>8. QED BY <1>4, <1>6, <1>7

\* A readable file is neither missing nor torn.
LEMMA FileIsSome == \A f \in Files : f \notin {None, Torn}
<1> SUFFICES ASSUME NEW f \in Files PROVE f # None /\ f # Torn OBVIOUS
<1>1. DOMAIN f = {"hex", "fresh"} /\ DOMAIN Torn = {"torn"} BY DEF Files, Torn
<1>2. f # Torn BY <1>1
<1>3. QED BY <1>2, ConstantsAssumption

\* What is serialized is read back.
LEMMA SerializedIsRead ==
  ASSUME NEW s \in States
  PROVE  Deserialize(Serialize(s)).marked = s.marked /\ Serialize(s) \notin {None, Torn}
<1>1. s.marked \in SUBSET (0..(TotalChunks - 1)) BY DEF States, Indexes
<1>2. RoundTrip(s.marked, TotalChunks) BY <1>1, BitmapSurvives, ConstantsAssumption
<1>3. Serialize(s).hex = BitmapToHex(s.marked, TotalChunks) BY DEF Serialize
<1>4. Deserialize(Serialize(s)).marked = s.marked BY <1>2, <1>3 DEF Deserialize, RoundTrip
<1>5. QED BY <1>4, SerializeType, FileIsSome

\* A step of a thread that changes neither the state nor who saves.
LEMMA CheckpointedStays ==
  ASSUME AInv, Checkpointed, UNCHANGED <<cache, file, since, created>>,
         ~disturbed' => ~disturbed /\ (NobodySaves' => NobodySaves)
  PROVE  Checkpointed'
BY DEF Checkpointed, Unsaved

\* The calls on a cached state, made by an idle thread or one that loaded it.
LEMMA ApplyChecks ==
  ASSUME AInv, Saving, Checkpointed, NEW t \in Threads, NEW op, NEW id \in Ids,
         NEW arg \in {<<>>} \cup Marks \cup Batches, op = "mark" => arg \in Marks,
         call[t].at \notin {"save", "write"}, lock = None,
         cache[id] # None, Apply(t, op, id, arg), UNCHANGED <<file, lock, created>>
  PROVE  Saving' /\ Checkpointed'
<1>0. IInv /\ TypeOK /\ SaversHaveState /\ cache[id] \in States
  BY DEF AInv, IInv, TypeOK
<1>1. \A u \in Threads : call[u].at # "write" /\ lock # u
  BY <1>0, ConstantsAssumption DEF Saving
<1>2. Return(t) \/ \E o \in {"mark", "batch"} : ThenSave(t, o, id, arg)
  BY DEF Apply, ApplyMark, ApplyBatch, ApplyBytes
<1>3. \A u \in Threads : u # t => call'[u] = call[u]
  BY <1>0, <1>2 DEF Return, ThenSave, TypeOK
<1>4. call'[t].at \in {"idle", "save"}
  BY <1>0, <1>2 DEF Return, ThenSave, TypeOK, IdleCall
<1>5. Saving'
  BY <1>1, <1>3, <1>4 DEF Saving
<1>6. SUFFICES ASSUME ~disturbed', NobodySaves', created' = {id}
               PROVE  file[id] \notin {None, Torn} /\ Cardinality(Unsaved(id)') <= since'
  <2>1. SUFFICES ASSUME ~disturbed', NobodySaves', NEW i \in Ids, created' = {i}
                 PROVE  file'[i] \notin {None, Torn} /\ Cardinality(Unsaved(i)') <= since'
    BY <1>5 DEF Checkpointed
  <2>2. ~disturbed
    BY <2>1 DEF Apply, ApplyMark, ApplyBatch, ApplyBytes
  <2>3. id = i
    BY <2>1, <2>2 DEF AInv, Calm
  <2>4. QED BY <1>6, <2>1, <2>3
<1>7. ~disturbed /\ NobodySaves
  <2>1. ~disturbed BY <1>6 DEF Apply, ApplyMark, ApplyBatch, ApplyBytes
  <2>2. QED BY <1>3, <1>6, <2>1 DEF NobodySaves
<1>8. file[id] \notin {None, Torn} /\ Cardinality(Unsaved(id)) <= since
  BY <1>6, <1>7 DEF Checkpointed
<1>9. Return(t)
  <2>1. ASSUME NEW o, ThenSave(t, o, id, arg) PROVE FALSE
    BY <1>0, <1>6, <2>1 DEF ThenSave, TypeOK, NobodySaves
  <2>2. QED BY <1>2, <2>1
<1>10. ASSUME cache'[id].marked = cache[id].marked, since' = since
       PROVE  Cardinality(Unsaved(id)') <= since'
  BY <1>8, <1>10 DEF Unsaved
<1>11. CASE op = "mark" /\ ApplyMark(t, id, arg)
  <2>1. CASE ~AllValid(arg)
    BY <1>8, <1>10, <1>11, <2>1 DEF ApplyMark
  <2>2. CASE AllValid(arg)
    <3>1. /\ since' = since + 1
          /\ cache' = [cache EXCEPT ![id].marked = @ \cup Valid(arg), ![id].fresh = @ \/ TRUE]
      <4>1. Marked(id, Valid(arg), TRUE) BY <1>11, <2>2 DEF ApplyMark
      <4>2. since + 1 >= CheckpointInterval => ThenSave(t, "mark", id, arg)
        BY <1>11, <2>2 DEF ApplyMark
      <4>3. ~ThenSave(t, "mark", id, arg)
        BY <1>0, <1>6 DEF ThenSave, TypeOK, NobodySaves
      <4>4. QED BY <1>11, <2>2, <4>1, <4>2, <4>3 DEF ApplyMark, Marked
    <3>2. cache'[id].marked = cache[id].marked \cup Valid(arg)
      BY <1>0, <3>1 DEF TypeOK, States
    <3>3. PICK i \in 0..TotalChunks : Valid(arg) \subseteq {i}
      <4>1. PICK i \in 0..TotalChunks : arg = <<i>> BY <1>11 DEF Marks
      <4>2. Valid(arg) \subseteq {i} BY <4>1 DEF Valid
      <4>3. QED BY <4>2
    <3>4. Valid(arg) = {} \/ Valid(arg) = {i} BY <3>3
    <3>5. cache[id].marked \in SUBSET Indexes BY <1>0 DEF States
    <3>6. /\ Cardinality(Unsaved(id)) \in Nat /\ Cardinality(Unsaved(id)') \in Nat
          /\ Cardinality(Unsaved(id)') <= Cardinality(Unsaved(id)) + 1
      <4>1. CASE Valid(arg) = {}
        <5>1. Unsaved(id)' = Unsaved(id) BY <3>2, <4>1 DEF Unsaved
        <5>2. Cardinality(Unsaved(id)) \in Nat BY <3>5, OneMore DEF Unsaved
        <5>3. QED BY <5>1, <5>2
      <4>2. CASE Valid(arg) = {i}
        <5>1. Unsaved(id)' = (cache[id].marked \cup {i}) \ Deserialize(file[id]).marked
          BY <3>2, <4>2 DEF Unsaved
        <5>2. QED BY <3>5, <5>1, OneMore DEF Unsaved
      <4>3. QED BY <3>4, <4>1, <4>2
    <3>7. since \in Nat BY <1>0, ConstantsAssumption DEF TypeOK
    <3>8. QED BY <1>8, <3>1, <3>6, <3>7
  <2>3. QED BY <2>1, <2>2
<1>12. CASE op = "batch" /\ ApplyBatch(t, id, arg)
  <2>1. ~ThenSave(t, "batch", id, arg)
    BY <1>0, <1>6 DEF ThenSave, TypeOK, NobodySaves
  <2>2. disturbed' BY <1>12, <2>1 DEF ApplyBatch
  <2>3. QED BY <1>6, <1>7, <2>2
<1>13. CASE op = "bytes" /\ ApplyBytes(t, id)
  <2>1. cache' = [cache EXCEPT ![id].fresh = TRUE] /\ since' = since BY <1>13 DEF ApplyBytes
  <2>2. cache'[id].marked = cache[id].marked BY <1>0, <2>1 DEF TypeOK, States
  <2>3. QED BY <1>8, <1>10, <2>1, <2>2
<1>14. QED BY <1>11, <1>12, <1>13 DEF Apply

\* save_state: the file lacks nothing once it is written.
LEMMA SaveChecks ==
  ASSUME AInv, Saving, Checkpointed, NEW t \in Threads, SaveBegin(t) \/ SaveWrite(t)
  PROVE  Saving' /\ Checkpointed'
<1>0. IInv /\ TypeOK BY DEF AInv, IInv
<1> DEFINE id == call[t].id
<1>1. CASE SaveBegin(t)
  <2> DEFINE g == Given(t)
  <2>1. id \in Ids /\ g \in States /\ g # None /\ lock = None /\ call[t].at = "save"
    BY <1>0, <1>1, GivenMarked, StateIsSome DEF SaveBegin
  <2>2. \A u \in Threads : call[u].at # "write" /\ lock # u
    BY <1>0, <2>1, ConstantsAssumption DEF Saving
  <2> HIDE DEF g
  <2>3. cache' = [cache EXCEPT ![id] = g] /\ created' = created \cup {id}
    BY <1>1 DEF SaveBegin, g
  <2>4. CASE lock' = t /\ call' = [call EXCEPT ![t].at = "write", ![t].val = g]
    <3>1. call'[t].at = "write" /\ call'[t].val = g /\ call'[t].id = id
      BY <1>0, <2>4 DEF TypeOK, CallType
    <3>2. \A u \in Threads : u # t => call'[u] = call[u]
      BY <1>0, <2>4 DEF TypeOK
    <3>3. cache'[id] = g BY <1>0, <2>1, <2>3 DEF TypeOK
    <3>4. Saving'
      <4>1. id \in created' /\ cache'[id] # None BY <2>1, <2>3, <3>3
      <4>2. \A u \in Threads : u # t => call'[u].at # "write" /\ lock' # u
        BY <2>2, <2>4, <3>2
      <4>3. QED BY <2>4, <3>1, <3>3, <4>1, <4>2 DEF Saving
    <3>5. ~NobodySaves' BY <3>1 DEF NobodySaves
    <3>6. QED BY <3>4, <3>5 DEF Checkpointed
  <2>5. CASE Return(t) /\ disturbed' = TRUE /\ UNCHANGED lock
    <3>1. call'[t] = IdleCall /\ \A u \in Threads : u # t => call'[u] = call[u]
      BY <1>0, <2>5 DEF Return, TypeOK
    <3>2. Saving'
      BY <2>2, <2>5, <3>1 DEF Saving, IdleCall
    <3>3. disturbed' BY <2>5
    <3>4. QED BY <3>2, <3>3 DEF Checkpointed
  <2>6. QED BY <1>1, <2>4, <2>5 DEF SaveBegin, g
<1>2. CASE SaveWrite(t)
  <2>1. /\ lock = t /\ lock' = None /\ Return(t) /\ UNCHANGED <<cache, since, created>>
        /\ id \in created /\ cache[id] # None /\ cache[id].marked = call[t].val.marked
    BY <1>2 DEF SaveWrite, Saving
  <2>2. call'[t] = IdleCall /\ \A u \in Threads : u # t => call'[u] = call[u]
    BY <1>0, <2>1 DEF Return, TypeOK
  <2>3. \A u \in Threads : call'[u].at # "write" /\ lock' # u
    BY <2>1, <2>2, ConstantsAssumption DEF Saving, IdleCall
  <2>4. Saving' BY <2>3 DEF Saving
  <2>5. SUFFICES ASSUME ~disturbed', NEW i \in Ids, created' = {i}
                 PROVE  file'[i] \notin {None, Torn} /\ Cardinality(Unsaved(i)') <= since'
    BY <2>4 DEF Checkpointed
  <2>6. i = id BY <2>1, <2>5
  <2>7. file' = [file EXCEPT ![id] = Serialize(call[t].val)]
    BY <1>2, <2>5 DEF SaveWrite
  <2>8. call[t].val \in States
    BY <1>0, <1>2 DEF IInv, TypeOK, CallType, SaversHaveState, SaveWrite
  <2>9. file'[i] = Serialize(call[t].val) /\ file'[i] \notin {None, Torn}
    BY <1>0, <2>6, <2>7, <2>8, SerializedIsRead DEF TypeOK
  <2>10. Unsaved(i)' = {}
    BY <2>1, <2>6, <2>8, <2>9, SerializedIsRead DEF Unsaved
  <2>11. since' \in Nat BY <1>0, <2>1, ConstantsAssumption DEF TypeOK
  <2>12. QED BY <2>9, <2>10, <2>11, FS_EmptySet
<1>3. QED BY <1>1, <1>2

\* Time passes.
LEMMA AgeChecks ==
  ASSUME AInv, Saving, Checkpointed, NEW id \in Ids, Age(id)
  PROVE  Saving' /\ Checkpointed'
<1> DEFINE s == [cache[id] EXCEPT !.fresh = FALSE]
           x == [file[id] EXCEPT !.fresh = FALSE]
<1>0. IInv /\ TypeOK BY DEF AInv, IInv
<1>1. /\ UNCHANGED <<since, lock, call, created, disturbed>>
      /\ cache' = [cache EXCEPT ![id] = IF cache[id] = None THEN None ELSE s]
      /\ file' = [file EXCEPT ![id] = IF file[id] \in {None, Torn} THEN file[id] ELSE x]
  BY <1>0 DEF Age, history, TypeOK
<1>2. cache[id] # None => s \in States /\ s.marked = cache[id].marked
  <2>1. cache[id] # None => cache[id] \in States BY <1>0 DEF TypeOK
  <2>2. QED BY <2>1 DEF States
<1>3. file[id] \notin {None, Torn} => x \in Files /\ x.hex = file[id].hex
  <2>1. file[id] \notin {None, Torn} => file[id] \in Files BY <1>0 DEF TypeOK
  <2>2. QED BY <2>1 DEF Files
<1>4. x \in Files => x \notin {None, Torn}
  <2>1. \A f \in Files : f \notin {None, Torn} BY FileIsSome
  <2>2. QED BY <2>1
<1> HIDE DEF s, x
<1>5. \A i \in Ids : cache[i] # None => cache'[i] # None /\ cache'[i].marked = cache[i].marked
  BY <1>0, <1>1, <1>2, StateIsSome DEF TypeOK
<1>6. \A i \in Ids : file[i] \notin {None, Torn} => file'[i] \notin {None, Torn} /\ file'[i].hex = file[i].hex
  BY <1>0, <1>1, <1>3, <1>4 DEF TypeOK
<1>7. Saving'
  <2>1. \A t \in Threads : lock = t => call[t].id \in Ids
    BY <1>0 DEF Saving, IInv, SaversHaveState
  <2>2. QED BY <1>1, <1>5, <2>1 DEF Saving
<1>8. Checkpointed'
  <2>1. SUFFICES ASSUME ~disturbed, NobodySaves, NEW i \in Ids, created = {i}
                 PROVE  file'[i] \notin {None, Torn} /\ Cardinality(Unsaved(i)') <= since
    BY <1>1 DEF Checkpointed, NobodySaves
  <2>2. file[i] \notin {None, Torn} /\ Cardinality(Unsaved(i)) <= since
    BY <2>1 DEF Checkpointed
  <2>3. cache[i] # None BY <2>1 DEF AInv, Calm
  <2>4. Unsaved(i)' = Unsaved(i)
    BY <1>5, <1>6, <2>2, <2>3 DEF Unsaved, Deserialize
  <2>5. QED BY <1>6, <2>2, <2>4
<1>9. QED BY <1>7, <1>8

\* A thread that is not saving goes on without touching what is saved.
LEMMA SavingStays ==
  ASSUME IInv, Saving, NEW t \in Threads, NEW new, call' = [call EXCEPT ![t] = new],
         call[t].at # "write", new.at # "write", UNCHANGED <<lock, created>>,
         \A id \in Ids : lock # None => cache'[id] = cache[id]
  PROVE  Saving'
<1>1. call \in [Threads -> CallType] /\ SaversHaveState BY DEF IInv, TypeOK
<1>2. call'[t] = new /\ \A u \in Threads : u # t => call'[u] = call[u] BY <1>1
<1>3. lock # t BY DEF Saving
<1>4. ASSUME NEW u \in Threads, lock = u
      PROVE  /\ u # t /\ call[u].id \in Ids /\ call[u].at = "write"
             /\ cache'[call[u].id] = cache[call[u].id]
  <2>1. u # t /\ call[u].at = "write" BY <1>3, <1>4 DEF Saving
  <2>2. call[u].id \in Ids BY <1>1, <2>1 DEF SaversHaveState
  <2>3. QED BY <1>4, <2>1, <2>2, ConstantsAssumption
<1>5. QED BY <1>2, <1>3, <1>4 DEF Saving

LEMMA NextPInv ==
  ASSUME PInv, [Next]_vars
  PROVE  PInv'
<1>0. AInv /\ Saving /\ Checkpointed /\ IInv /\ TypeOK /\ AInv'
  BY NextAInv DEF PInv, AInv, IInv
<1> SUFFICES Saving' /\ Checkpointed' BY <1>0 DEF PInv
<1>1. CASE UNCHANGED vars
  BY <1>0, <1>1 DEF vars, Saving, Checkpointed, NobodySaves, Unsaved
<1>2. ASSUME NEW t \in Threads, NEW id \in Ids, NEW op, NEW arg \in {<<>>} \cup Marks \cup Batches,
             op = "mark" => arg \in Marks, CallCached(t, op, id, arg)
      PROVE  Saving' /\ Checkpointed'
  BY <1>0, <1>2, ApplyChecks DEF CallCached, Idle
<1>3. ASSUME NEW t \in Threads, NEW new, call' = [call EXCEPT ![t] = new],
             new.at \notin {"write"}, call[t].at \notin {"save", "write"}, disturbed' = disturbed,
             UNCHANGED <<cache, file, since, lock, created>>
      PROVE  Saving' /\ Checkpointed'
  <2>1. Saving' BY <1>0, <1>3, SavingStays
  <2>2. \A u \in Threads : u # t => call'[u] = call[u] BY <1>0, <1>3 DEF TypeOK
  <2>3. NobodySaves' => NobodySaves BY <1>3, <2>2 DEF NobodySaves
  <2>4. Checkpointed' BY <1>0, <1>3, <2>3, CheckpointedStays
  <2>5. QED BY <2>1, <2>4
<1>4. ASSUME NEW t \in Threads, NEW id \in Ids, NEW state \in Saved, SaveState(t, id, state)
      PROVE  Saving' /\ Checkpointed'
  <2> DEFINE new == [op |-> "save", at |-> "save", id |-> id, arg |-> <<>>,
                     val |-> state, dangling |-> FALSE]
  <2>1. /\ call' = [call EXCEPT ![t] = new] /\ new.at = "save" /\ call[t].at = "idle"
        /\ UNCHANGED <<cache, file, since, lock, created, disturbed>>
    BY <1>4 DEF SaveState, Idle
  <2> HIDE DEF new
  <2>2. QED BY <1>3, <2>1
<1>5. ASSUME NEW t \in Threads, NEW id \in Ids, CleanupCached(t, id) PROVE Saving' /\ Checkpointed'
  <2> DEFINE new == [op |-> "cleanup", at |-> "expire", id |-> id, arg |-> <<>>,
                     val |-> None, dangling |-> FALSE]
  <2>1. /\ call' = [call EXCEPT ![t] = new] \/ call' = [call EXCEPT ![t] = IdleCall]
        /\ new.at = "expire" /\ IdleCall.at = "idle" /\ call[t].at = "idle"
        /\ UNCHANGED <<cache, file, since, lock, created, disturbed>>
    BY <1>5 DEF CleanupCached, ApplyCleanup, Return, Idle, history, IdleCall
  <2> HIDE DEF new
  <2>2. QED BY <1>3, <2>1
<1>6. ASSUME NEW t \in Threads, NEW id \in Ids, NEW op, NEW arg, CallUncached(t, op, id, arg)
      PROVE  Saving' /\ Checkpointed'
  <2> DEFINE new == [op |-> op, at |-> "read", id |-> id, arg |-> arg,
                     val |-> None, dangling |-> FALSE]
  <2>1. /\ call' = [call EXCEPT ![t] = new] /\ new.at = "read" /\ call[t].at = "idle"
        /\ UNCHANGED <<cache, file, since, lock, created, disturbed>>
    BY <1>6 DEF CallUncached, Idle, history
  <2> HIDE DEF new
  <2>2. QED BY <1>3, <2>1
<1>7. ASSUME NEW t \in Threads, SaveBegin(t) \/ SaveWrite(t) PROVE Saving' /\ Checkpointed'
  BY <1>0, <1>7, SaveChecks
<1>8. ASSUME NEW t \in Threads, LoadRead(t) PROVE Saving' /\ Checkpointed'
  <2> DEFINE new == [call[t] EXCEPT !.at = "install", !.val = Deserialize(file[call[t].id])]
  <2>1. /\ call' = [call EXCEPT ![t] = new] \/ call' = [call EXCEPT ![t] = IdleCall]
        /\ new.at = "install" /\ IdleCall.at = "idle" /\ call[t].at = "read"
        /\ UNCHANGED <<cache, file, since, lock, created, disturbed>>
    BY <1>0, <1>8 DEF LoadRead, Return, TypeOK, CallType, history, IdleCall
  <2> HIDE DEF new
  <2>2. QED BY <1>3, <2>1
<1>9. ASSUME NEW t \in Threads, LoadInstall(t) PROVE Saving' /\ Checkpointed'
  <2>1. disturbed /\ disturbed' /\ lock = None /\ UNCHANGED <<lock, created>> /\ call[t].at = "install"
    BY <1>0, <1>9 DEF LoadInstall, AInv, Calm, history
  <2> DEFINE goes == [call[t] EXCEPT !.at = "apply", !.val = None]
             over == [op |-> "cleanup", at |-> "expire", id |-> call[t].id, arg |-> <<>>,
                      val |-> None, dangling |-> FALSE]
  <2>2. /\ \/ call' = [call EXCEPT ![t] = goes] \/ call' = [call EXCEPT ![t] = IdleCall]
           \/ call' = [call EXCEPT ![t] = over]
        /\ goes.at = "apply" /\ over.at = "expire" /\ IdleCall.at = "idle"
    BY <1>0, <1>9 DEF LoadInstall, ApplyCleanup, Return, TypeOK, CallType, IdleCall
  <2> HIDE DEF goes, over
  <2>3. Saving' BY <1>0, <2>1, <2>2, SavingStays
  <2>4. QED BY <2>1, <2>3 DEF Checkpointed
<1>10. ASSUME NEW t \in Threads, ApplyLoaded(t) PROVE Saving' /\ Checkpointed'
  <2>1. disturbed /\ lock = None /\ UNCHANGED <<file, lock, created>> /\ call[t].at = "apply"
    BY <1>0, <1>10 DEF ApplyLoaded, AInv, Calm
  <2>2. disturbed'
    BY <1>10, <2>1 DEF ApplyLoaded, Apply, ApplyMark, ApplyBatch, ApplyBytes
  <2>3. PICK new : call' = [call EXCEPT ![t] = new] /\ new.at # "write"
    <3>1. IdleCall.at = "idle" BY DEF IdleCall
    <3>2. ASSUME NEW o, ThenSave(t, o, call[t].id, call[t].arg)
          PROVE  \E new : call' = [call EXCEPT ![t] = new] /\ new.at # "write"
      <4> DEFINE new == [op |-> o, at |-> "save", id |-> call[t].id, arg |-> call[t].arg,
                         val |-> cache'[call[t].id], dangling |-> FALSE]
      <4>1. call' = [call EXCEPT ![t] = new] /\ new.at = "save" BY <3>2 DEF ThenSave
      <4> HIDE DEF new
      <4>2. QED BY <4>1
    <3>3. QED BY <1>10, <3>1, <3>2 DEF ApplyLoaded, Apply, ApplyMark, ApplyBatch, ApplyBytes, Return
  <2>4. Saving' BY <1>0, <2>1, <2>3, SavingStays
  <2>5. QED BY <2>2, <2>4 DEF Checkpointed
<1>11. ASSUME NEW t \in Threads, NEW id, Delete(t, id), lock = None PROVE Saving' /\ Checkpointed'
  <2>1. \A u \in Threads : call'[u].at # "write" /\ lock' # u
    <3>1. \A u \in Threads : call[u].at # "write" /\ lock # u
      BY <1>0, <1>11, ConstantsAssumption DEF Saving
    <3>2. \A u \in Threads : call'[u] = IdleCall \/ call'[u].at = call[u].at
      BY <1>0, <1>11 DEF Delete, TypeOK, CallType
    <3>3. UNCHANGED lock BY <1>11 DEF Delete
    <3>4. QED BY <3>1, <3>2, <3>3 DEF IdleCall
  <2>2. disturbed' BY <1>11 DEF Delete
  <2>3. QED BY <2>1, <2>2 DEF Saving, Checkpointed
<1>12. ASSUME NEW id \in Ids, Age(id) PROVE Saving' /\ Checkpointed'
  BY <1>0, <1>12, AgeChecks
<1>13. CASE Restart
  BY <1>13, ConstantsAssumption DEF Restart, Saving, Checkpointed, IdleCall
<1>14. CASE Next
  <2>1. CASE \E t \in Threads, id \in Ids :
               \/ \E i \in Marks : CallCached(t, "mark", id, i) \/ CallUncached(t, "mark", id, i)
               \/ \E b \in Batches : CallCached(t, "batch", id, b) \/ CallUncached(t, "batch", id, b)
               \/ CallCached(t, "bytes", id, <<>>)
               \/ \E op \in {"bytes", "load"} : CallUncached(t, op, id, <<>>)
               \/ CallUncached(t, "cleanup", id, <<>>)
    BY <1>2, <1>6, <2>1
  <2>2. CASE \E t \in Threads, id \in Ids :
               (\E state \in Saved : SaveState(t, id, state)) \/ CleanupCached(t, id) \/ DeleteState(t, id)
    BY <1>4, <1>5, <1>11, <2>2 DEF DeleteState
  <2>3. CASE \E t \in Threads : \/ SaveBegin(t) \/ SaveWrite(t) \/ LoadRead(t)
                               \/ LoadInstall(t) \/ ApplyLoaded(t) \/ CleanupDelete(t)
    BY <1>7, <1>8, <1>9, <1>10, <1>11, <2>3 DEF CleanupDelete
  <2>4. CASE \E id \in Ids : Age(id)
    BY <1>12, <2>4
  <2>5. QED BY <1>13, <1>14, <2>1, <2>2, <2>3, <2>4, Zenon DEF Next
<1>15. QED BY <1>1, <1>14

LEMMA InitPInv == Init => PInv
<1> SUFFICES ASSUME Init PROVE PInv OBVIOUS
<1>1. AInv BY InitAInv
<1>2. Saving BY ConstantsAssumption DEF Init, Saving, IdleCall
<1>3. Checkpointed BY DEF Init, Checkpointed
<1>4. QED BY <1>1, <1>2, <1>3 DEF PInv

(* Between calls the state file of the only transfer lacks fewer chunks     *)
(* than the checkpoint interval, for any threads, chunks and interval, as   *)
(* long as nothing failed (mark_chunk(s)_received, save_state).             *)
THEOREM CheckpointsBound == Spec => []CheckpointBound
<1>1. PInv => CheckpointBound
  <2> SUFFICES ASSUME PInv, Quiescent, ~disturbed, NEW id \in Ids, created = {id}, cache[id] # None
               PROVE  /\ file[id] \notin {None, Torn}
                      /\ Cardinality(cache[id].marked \ Deserialize(file[id]).marked) < CheckpointInterval
    BY DEF CheckpointBound
  <2>1. NobodySaves BY DEF Quiescent, Idle, NobodySaves
  <2>2. file[id] \notin {None, Torn} /\ Cardinality(Unsaved(id)) <= since
    BY <2>1 DEF PInv, Checkpointed
  <2>3. cache[id] \in States /\ since \in 0..(CheckpointInterval - 1)
    BY DEF PInv, AInv, IInv, TypeOK
  <2>4. Cardinality(Unsaved(id)) \in Nat
    BY <2>3, OneMore DEF Unsaved, States
  <2>5. QED BY <2>2, <2>3, <2>4, ConstantsAssumption DEF Unsaved
<1>2. QED BY <1>1, InitPInv, NextPInv, PTL DEF Spec

(***************************************************************************)
(* The pipeline.                                                           *)
(***************************************************************************)
UploadStages   == {"decompress", "decrypt", "verify", "write"}
DownloadStages == {"read", "encrypt", "compress", "send"}

\* A chunk as read_job made it, with or without encryption, before and after compression.
Bare(c)      == c.layers = <<>> /\ ~c.enc /\ ~c.meta
Encrypted(c) == c.layers = <<"E">> /\ c.enc /\ c.meta /\ EngineKeyed
FromFile(c)  == c.body = c.sum /\ c.body # "damaged"
Packed(c)    == \/ ~c.comp /\ (Bare(c) \/ Encrypted(c))
                \/ c.comp /\ c.layers = <<"C">> /\ ~c.enc /\ ~c.meta
                \/ c.comp /\ c.layers = <<"E", "C">> /\ c.enc /\ c.meta /\ EngineKeyed

\* What is true of the chunk that a job of the stage is given.
Fits(stage, c) ==
  /\ stage = "write" => c.layers = <<>> /\ c.body = c.sum
  /\ stage = "read" => Bare(c) /\ ~c.comp
  /\ stage = "encrypt" => Bare(c) /\ ~c.comp /\ FromFile(c)
  /\ stage = "compress" => (Bare(c) \/ Encrypted(c)) /\ ~c.comp /\ FromFile(c)
  /\ stage = "send" => Packed(c) /\ FromFile(c)

Jobs == {j \in [stage : Stages, item : Items, chunk : Chunks] :
           /\ j.stage \in UploadStages <=> j.item \in Uploads
           /\ Fits(j.stage, j.chunk)}

CallTypes == [op : {"none", "set", "clear", "start", "stop", "join", "upload", "try_upload", "download"},
              item : Items \cup {Nothing}, wait : BOOLEAN]

\* The calls of clients carry chunks of their direction.
CallsFit ==
  \A c \in Clients : /\ calling[c].op \in {"upload", "try_upload"} => calling[c].item \in Uploads
                     /\ calling[c].op = "download" => calling[c].item \in Downloads

Types ==
  /\ cipher \in {"off", "keyless", "keyed"}
  /\ queue \in Seq(Jobs)
  /\ work \in [Workers -> Jobs \cup {Nothing}]
  /\ calling \in [Clients -> CallTypes]
  /\ given \in [Items -> Chunks \cup {Nothing}]

DInv == Types /\ CallsFit /\ UploadedIntact /\ DownloadRestorable

-----------------------------------------------------------------------------
(* The few layers there are.                                               *)
LEMMA LayerFacts ==
  /\ <<>> # <<"E">> /\ <<>> # <<"C">> /\ <<>> # <<"E", "C">>
  /\ <<"E">> # <<"C">> /\ <<"E">> # <<"E", "C">> /\ <<"C">> # <<"E", "C">>
  /\ Append(<<>>, "E") = <<"E">> /\ Append(<<>>, "C") = <<"C">>
  /\ Append(<<"E">>, "C") = <<"E", "C">>
  /\ SubSeq(<<"C">>, 1, Len(<<"C">>) - 1) = <<>>
  /\ SubSeq(<<"E">>, 1, Len(<<"E">>) - 1) = <<>>
  /\ SubSeq(<<"E", "C">>, 1, Len(<<"E", "C">>) - 1) = <<"E">>
<1>1. SubSeq(<<"E", "C">>, 1, Len(<<"E", "C">>) - 1) = <<"E">>
  <2>1. Len(<<"E", "C">>) - 1 = 1 OBVIOUS
  <2>2. <<"E", "C">> \in Seq({"E", "C"}) /\ <<"E">> \in Seq({"E", "C"}) OBVIOUS
  <2>3. \A i \in 1..1 : <<"E", "C">>[i] \in {"E", "C"} OBVIOUS
  <2>4. /\ SubSeq(<<"E", "C">>, 1, 1) \in Seq({"E", "C"})
        /\ Len(SubSeq(<<"E", "C">>, 1, 1)) = 1
        /\ SubSeq(<<"E", "C">>, 1, 1)[1] = "E"
    BY <2>3, SubSeqProperties
  <2>5. Len(<<"E">>) = 1 /\ <<"E">>[1] = "E" OBVIOUS
  <2>6. \A i \in 1..1 : SubSeq(<<"E", "C">>, 1, 1)[i] = <<"E">>[i] BY <2>4, <2>5
  <2>7. SubSeq(<<"E", "C">>, 1, 1) = <<"E">> BY <2>2, <2>4, <2>5, <2>6, SeqEqual
  <2>8. QED BY <2>1, <2>7
<1>2. Append(<<"E">>, "C") = <<"E", "C">>
  <2>1. <<"E", "C">> \in Seq({"E", "C"}) /\ <<"E">> \in Seq({"E", "C"}) OBVIOUS
  <2>2. /\ Append(<<"E">>, "C") \in Seq({"E", "C"}) /\ Len(Append(<<"E">>, "C")) = 2
        /\ Append(<<"E">>, "C")[1] = "E" /\ Append(<<"E">>, "C")[2] = "C"
    BY <2>1, AppendProperties
  <2>3. Len(<<"E", "C">>) = 2 /\ <<"E", "C">>[1] = "E" /\ <<"E", "C">>[2] = "C" OBVIOUS
  <2>4. \A i \in 1..2 : Append(<<"E">>, "C")[i] = <<"E", "C">>[i] BY <2>2, <2>3
  <2>5. QED BY <2>1, <2>2, <2>3, <2>4, SeqEqual
<1>3. QED BY <1>1, <1>2

LEMMA HasFacts ==
  /\ ~Has("C", <<>>) /\ ~Has("C", <<"E">>) /\ Has("C", <<"C">>) /\ Has("C", <<"E", "C">>)
  /\ ~Has("E", <<>>) /\ Has("E", <<"E">>) /\ ~Has("E", <<"C">>) /\ Has("E", <<"E", "C">>)
<1>1. DOMAIN <<"E">> = {1} /\ DOMAIN <<"C">> = {1} /\ DOMAIN <<"E", "C">> = {1, 2} /\ DOMAIN <<>> = {}
  OBVIOUS
<1>2. QED BY <1>1 DEF Has

\* The last layer of a chunk.
LEMMA TopFacts ==
  ASSUME NEW c \in Chunks
  PROVE  /\ c.layers = <<"C">> => Top(c) = "C"
         /\ c.layers = <<"E", "C">> => Top(c) = "C"
         /\ c.layers = <<"E">> => Top(c) = "E"
BY DEF Top

-----------------------------------------------------------------------------
(* What every job makes of a chunk that fits it.                           *)
LEMMA StripType ==
  ASSUME NEW c \in Chunks, c.layers # <<>>, Top(c) \in {"E", "C"}
  PROVE  /\ Strip(c) \in Chunks
         /\ c.layers = <<"E">> => Strip(c) = [c EXCEPT !.layers = <<>>]
         /\ c.layers = <<"C">> => Strip(c) = [c EXCEPT !.layers = <<>>]
         /\ c.layers = <<"E", "C">> => Strip(c) = [c EXCEPT !.layers = <<"E">>]
<1>1. c.layers \in {<<"E">>, <<"C">>, <<"E", "C">>} BY DEF Chunks, Layers
<1>2. Strip(c) = [c EXCEPT !.layers = SubSeq(c.layers, 1, Len(c.layers) - 1)] BY DEF Strip, Chunks
<1>3. CASE c.layers = <<"E">> BY <1>2, <1>3, LayerFacts DEF Chunks, Layers
<1>4. CASE c.layers = <<"C">> BY <1>2, <1>4, LayerFacts DEF Chunks, Layers
<1>5. CASE c.layers = <<"E", "C">> BY <1>2, <1>5, LayerFacts DEF Chunks, Layers
<1>6. QED BY <1>1, <1>3, <1>4, <1>5

\* A result has a place to go to and, if that is a stage, fits it.
Sound(stage, r) ==
  /\ r.to \in Stages \cup {"delivered", "reported"} /\ r.chunk \in Chunks
  /\ r.to \in Stages => Fits(r.to, r.chunk) /\ (r.to \in UploadStages <=> stage \in UploadStages)
  /\ r.to = "delivered" => IF stage \in UploadStages THEN Fits("write", r.chunk) ELSE Fits("send", r.chunk)

LEMMA UploadJobsSound ==
  ASSUME NEW c \in Chunks, NEW stage \in UploadStages, Fits(stage, c), NEW r \in DoWork(stage, c)
  PROVE  Sound(stage, r)
<1> USE DEF Result
<1>1. CASE stage = "decompress"
  <2>1. r \in DecompressJob(c) BY <1>1 DEF DoWork
  <2>2. CASE r = Result(AfterDecompress(c), c)
    BY <1>1, <2>2 DEF AfterDecompress, Sound, Fits, Stages, UploadStages
  <2>3. CASE r = Result("reported", c)
    BY <2>3 DEF Sound, Stages
  <2>4. CASE Has("C", c.layers) /\ Top(c) = "C" /\ r = Result(AfterDecompress(c), [Strip(c) EXCEPT !.comp = FALSE])
    <3>1. [Strip(c) EXCEPT !.comp = FALSE] \in Chunks BY <2>4, StripType, HasFacts DEF Chunks
    <3>2. QED BY <1>1, <2>4, <3>1 DEF AfterDecompress, Sound, Fits, Stages, UploadStages
  <2>5. QED BY <2>1, <2>2, <2>3, <2>4 DEF DecompressJob, Decompressed
<1>2. CASE stage = "decrypt"
  <2>1. r \in DecryptJob(c) BY <1>2 DEF DoWork
  <2>2. CASE r = Result("verify", c)
    BY <1>2, <2>2 DEF Sound, Fits, Stages, UploadStages
  <2>3. CASE r = Result("reported", c)
    BY <2>3 DEF Sound, Stages
  <2>4. CASE c.layers = <<"E">> /\ r = Result("verify", [Strip(c) EXCEPT !.enc = FALSE, !.meta = FALSE])
    <3>1. [Strip(c) EXCEPT !.enc = FALSE, !.meta = FALSE] \in Chunks
      BY <2>4, StripType, TopFacts, LayerFacts DEF Chunks
    <3>2. QED BY <1>2, <2>4, <3>1 DEF Sound, Fits, Stages, UploadStages
  <2>5. QED BY <2>1, <2>2, <2>3, <2>4 DEF DecryptJob
<1>3. CASE stage = "verify"
  <2>1. r \in VerifyJob(c) BY <1>3 DEF DoWork
  <2>2. QED BY <1>3, <2>1 DEF VerifyJob, Sound, Fits, Stages, UploadStages
<1>4. CASE stage = "write"
  <2>1. r \in WriteJob(c) BY <1>4 DEF DoWork
  <2>2. QED BY <1>4, <2>1 DEF WriteJob, Sound, Fits, Stages, UploadStages
<1>5. QED BY <1>1, <1>2, <1>3, <1>4 DEF UploadStages

LEMMA DownloadJobsSound ==
  ASSUME NEW c \in Chunks, NEW stage \in DownloadStages, Fits(stage, c), NEW r \in DoWork(stage, c)
  PROVE  Sound(stage, r)
<1> USE DEF Result
<1>1. CASE stage = "read"
  <2>1. r \in ReadJob(c) BY <1>1 DEF DoWork
  <2>2. CASE r = Result("reported", c)
    BY <2>2 DEF Sound, Stages
  <2>3. CASE \E b \in {"whole", "short"} :
               r = Result(IF EncryptionEnabled THEN "encrypt" ELSE "compress", [c EXCEPT !.body = b, !.sum = b])
    <3>1. PICK b \in {"whole", "short"} :
            r = Result(IF EncryptionEnabled THEN "encrypt" ELSE "compress", [c EXCEPT !.body = b, !.sum = b])
      BY <2>3
    <3>2. r.chunk \in Chunks /\ Bare(r.chunk) /\ ~r.chunk.comp /\ FromFile(r.chunk)
      BY <1>1, <3>1 DEF Fits, Bare, FromFile, Chunks, Bodies
    <3>3. r.to \in {"encrypt", "compress"} BY <3>1
    <3>4. QED BY <1>1, <3>2, <3>3 DEF Sound, Fits, Stages, UploadStages
  <2>4. QED BY <2>1, <2>2, <2>3 DEF ReadJob
<1>2. CASE stage = "encrypt"
  <2>1. r \in EncryptJob(c) BY <1>2 DEF DoWork
  <2>2. CASE r = Result("reported", c)
    BY <2>2 DEF Sound, Stages
  <2>3. CASE r = Result("compress", c)
    BY <1>2, <2>3 DEF Sound, Fits, Stages, UploadStages
  <2>4. CASE EngineKeyed /\ r = Result("compress", [Wrap("E", c) EXCEPT !.enc = TRUE, !.meta = TRUE])
    <3>1. [Wrap("E", c) EXCEPT !.enc = TRUE, !.meta = TRUE]
             = [c EXCEPT !.layers = <<"E">>, !.enc = TRUE, !.meta = TRUE]
      BY <1>2, LayerFacts DEF Wrap, Fits, Bare, Chunks
    <3>2. QED BY <1>2, <2>4, <3>1 DEF Sound, Fits, Bare, Encrypted, FromFile, Stages, UploadStages, Chunks, Layers
  <2>5. QED BY <2>1, <2>2, <2>3, <2>4 DEF EncryptJob
<1>3. CASE stage = "compress"
  <2>1. r \in CompressJob(c) BY <1>3 DEF DoWork
  <2>2. CASE r = Result("send", c)
    BY <1>3, <2>2 DEF Sound, Fits, Packed, Stages, UploadStages
  <2>3. CASE r = Result("send", [Wrap("C", c) EXCEPT !.comp = TRUE])
    <3>1. CASE Bare(c)
      <4>1. [Wrap("C", c) EXCEPT !.comp = TRUE] = [c EXCEPT !.layers = <<"C">>, !.comp = TRUE]
        BY <3>1, LayerFacts DEF Wrap, Bare, Chunks
      <4>2. QED BY <1>3, <2>3, <3>1, <4>1 DEF Sound, Fits, Bare, Packed, FromFile, Stages, UploadStages, Chunks, Layers
    <3>2. CASE Encrypted(c)
      <4>1. [Wrap("C", c) EXCEPT !.comp = TRUE] = [c EXCEPT !.layers = <<"E", "C">>, !.comp = TRUE]
        BY <3>2, LayerFacts DEF Wrap, Encrypted, Chunks
      <4>2. QED BY <1>3, <2>3, <3>2, <4>1 DEF Sound, Fits, Encrypted, Packed, FromFile, Stages, UploadStages, Chunks, Layers
    <3>3. QED BY <1>3, <3>1, <3>2 DEF Fits
  <2>4. QED BY <2>1, <2>2, <2>3 DEF CompressJob, Compressed
<1>4. CASE stage = "send"
  <2>1. r \in SendJob(c) BY <1>4 DEF DoWork
  <2>2. QED BY <1>4, <2>1 DEF SendJob, Sound, Fits, Stages, UploadStages
<1>5. QED BY <1>1, <1>2, <1>3, <1>4 DEF DownloadStages

-----------------------------------------------------------------------------
(* The upload chain undoes what the download chain did.                    *)
LEMMA PackedIsUndone ==
  ASSUME NEW c \in Chunks, cipher \in {"off", "keyless", "keyed"}, Packed(c), FromFile(c)
  PROVE  Undone(c)
<1> USE DEF Result
<1> DEFINE after == IF ~c.comp THEN c ELSE [Strip(c) EXCEPT !.comp = FALSE]
<1>1. after \in Chunks /\ after.body = c.body /\ after.sum = c.sum /\ (Bare(after) \/ Encrypted(after))
  BY StripType, TopFacts, LayerFacts DEF Packed, Bare, Encrypted, Chunks
<1>2. DecompressJob(c) = {Result(AfterDecompress(c), after)}
  BY HasFacts, TopFacts, LayerFacts DEF DecompressJob, Decompressed, Packed, FromFile, Bare, Encrypted
<1>3. AfterDecompress(c) = IF Encrypted(after) THEN "decrypt" ELSE "verify"
  BY StripType, TopFacts, LayerFacts
  DEF AfterDecompress, EncryptionEnabled, EngineKeyed, Packed, Bare, Encrypted, Chunks
<1>4. CASE Encrypted(after)
  <2> DEFINE plain == [Strip(after) EXCEPT !.enc = FALSE, !.meta = FALSE]
  <2>1. DecryptJob(after) = {Result("verify", plain)}
    BY <1>1, <1>4 DEF DecryptJob, Encrypted, FromFile
  <2>2. plain.body = c.body /\ plain.layers = <<>> /\ plain.sum = c.sum
    BY <1>1, <1>4, StripType, TopFacts, LayerFacts DEF Encrypted, Chunks
  <2>3. VerifyJob(plain) = {Result("write", plain)} BY <2>2 DEF VerifyJob, FromFile
  <2>4. \A r \in DecompressJob(c) : r.to = "decrypt" /\ r.chunk = after BY <1>2, <1>3, <1>4
  <2>5. \A s \in DecryptJob(after) : s.to = "verify" /\ s.chunk = plain BY <2>1
  <2>6. \A v \in VerifyJob(plain) : v.to = "write" BY <2>3
  <2>7. QED BY <2>2, <2>4, <2>5, <2>6 DEF Undone
<1>5. CASE ~Encrypted(after)
  <2>1. after.layers = <<>> /\ after.body = after.sum BY <1>1, <1>5 DEF Bare, FromFile
  <2>2. VerifyJob(after) = {Result("write", after)} BY <2>1 DEF VerifyJob
  <2>3. \A r \in DecompressJob(c) : r.to = "verify" /\ r.chunk = after BY <1>2, <1>3, <1>5
  <2>4. \A v \in VerifyJob(after) : v.to = "write" BY <2>2
  <2>5. QED BY <1>1, <2>3, <2>4 DEF Undone
<1>6. QED BY <1>4, <1>5

-----------------------------------------------------------------------------
(* DInv holds in every reachable state.                                    *)
LEMMA InitDInv == PipelineInit => DInv
<1> SUFFICES ASSUME PipelineInit PROVE DInv OBVIOUS
<1> USE DEF PipelineInit
<1>1. Types
  BY PipelineAssumption, EmptySeq DEF Types, CallTypes, NoCall
<1>2. CallsFit /\ UploadedIntact /\ DownloadRestorable
  BY DEF CallsFit, NoCall, UploadedIntact, DownloadRestorable, Items
<1>3. QED BY <1>1, <1>2 DEF DInv

\* The chunks in jobs fit as long as the setting of encryption stays.
LEMMA SameJobs ==
  ASSUME cipher' = cipher
  PROVE  Jobs' = Jobs
BY DEF Jobs, Fits, Packed, Encrypted, Bare, FromFile, EngineKeyed

\* So does what was delivered.
LEMMA DeliveredStays ==
  ASSUME DInv, cipher' = cipher, given' = given
  PROVE  UploadedIntact' /\ DownloadRestorable'
<1>1. \A c : Undone(c)' = Undone(c)
  BY DEF Undone, DecompressJob, Decompressed, DecryptJob, VerifyJob, AfterDecompress, EncryptionEnabled, EngineKeyed
<1>2. QED BY <1>1 DEF DInv, UploadedIntact, DownloadRestorable

LEMMA ArrivingType == Arriving \subseteq Chunks
<1>1. SUFFICES ASSUME NEW chunk \in Arriving PROVE chunk \in Chunks OBVIOUS
<1>2. PICK b \in {"whole", "damaged"}, ls \in Layers :
        chunk = [body |-> b, layers |-> ls, comp |-> Has("C", ls), enc |-> Has("E", ls),
                 meta |-> Has("E", ls), sum |-> "whole"]
  BY DEF Arriving
<1>3. Has("C", ls) \in BOOLEAN /\ Has("E", ls) \in BOOLEAN BY DEF Has
<1>4. QED BY <1>2, <1>3 DEF Chunks, Bodies

\* A client that calls or returns leaves the other calls alone.
LEMMA CallReplaced ==
  ASSUME Types, CallsFit, NEW c \in Clients, NEW r \in CallTypes, calling' = [calling EXCEPT ![c] = r],
         r.op \in {"upload", "try_upload"} => r.item \in Uploads, r.op = "download" => r.item \in Downloads
  PROVE  calling' \in [Clients -> CallTypes] /\ CallsFit'
<1>1. calling' \in [Clients -> CallTypes] BY DEF Types
<1>2. \A d \in Clients : calling'[d] = IF d = c THEN r ELSE calling[d] BY DEF Types
<1>3. QED BY <1>1, <1>2 DEF CallsFit

LEMMA SubmissionCalled ==
  ASSUME Types, CallsFit, NEW c \in Clients, NEW op \in {"upload", "try_upload", "download"}, NEW i \in Items,
         SubmitCheck(c, i, op), IF op = "download" THEN i \in Downloads ELSE i \in Uploads
  PROVE  calling' \in [Clients -> CallTypes] /\ CallsFit'
<1> DEFINE r == [[calling[c] EXCEPT !.op = op] EXCEPT !.item = i]
<1>1. calling[c] \in CallTypes BY DEF Types
<1>2. [calling[c] EXCEPT !.op = op] \in CallTypes /\ [calling[c] EXCEPT !.op = op].op = op BY <1>1 DEF CallTypes
<1>3. r \in CallTypes /\ r.op = op /\ r.item = i BY <1>2 DEF CallTypes
<1>4. calling' = [calling EXCEPT ![c] = r] BY DEF SubmitCheck, Types
<1> HIDE DEF r
<1>5. QED BY <1>3, <1>4, CallReplaced

\* A client enters, goes on with or leaves start, stop or a submission.
LEMMA ClientsKeepDInv ==
  ASSUME DInv, NEW c \in Clients, ClientStep(c), cipher' = cipher
  PROVE  DInv'
<1>1. UploadedIntact' /\ DownloadRestorable'
  <2>1. given' = given
    BY DEF ClientStep, StartCheck, StopCheck, SubmitCheck, SubmitUploadChunk, SubmitEnqueue, TrySubmitRefused,
           SubmitDownloadRequest, Lifecycle, SetRunning, StartPool, StopPool, JoinWorkers
  <2>2. QED BY <2>1, DeliveredStays
<1>2. work' = work /\ given' = given
  BY DEF ClientStep, StartCheck, StopCheck, SubmitCheck, SubmitUploadChunk, SubmitEnqueue, TrySubmitRefused,
         SubmitDownloadRequest, Lifecycle, SetRunning, StartPool, StopPool, JoinWorkers
<1>3. calling' \in [Clients -> CallTypes] /\ CallsFit'
  <2>1. CASE \E i \in Uploads : SubmitCheck(c, i, "upload") \/ SubmitCheck(c, i, "try_upload")
    BY <2>1, SubmissionCalled DEF DInv, Items
  <2>2. CASE \E i \in Downloads : SubmitCheck(c, i, "download")
    BY <2>2, SubmissionCalled DEF DInv, Items
  <2> NoCall \in CallTypes BY DEF NoCall, CallTypes
  <2> DEFINE Entered(op, wait) == [op |-> op, item |-> Nothing, wait |-> wait]
  <2> \A op \in {"set", "clear", "start", "stop"}, wait \in BOOLEAN : Entered(op, wait) \in CallTypes
    BY DEF CallTypes
  <2>3. CASE SetRunning(c) \/ StartCheck(c) \/ \E wait \in StopModes : StopCheck(c, wait)
    <3>1. PICK op \in {"set", "clear", "start", "stop"}, wait \in BOOLEAN : Enter(c, op, wait)
      BY <2>3, PipelineAssumption DEF SetRunning, StartCheck, StopCheck, DInv, Types, CallTypes
    <3>2. QED BY <3>1, CallReplaced DEF Enter, DInv
  <2>4. CASE ReturnTo(c)
    BY <2>4, CallReplaced DEF ReturnTo, NoCall, DInv
  <2>5. CASE StopPool(c) /\ ~ReturnTo(c)
    <3>1. calling' = [calling EXCEPT ![c].op = "join"] BY <2>5 DEF StopPool
    <3>2. [calling[c] EXCEPT !.op = "join"] \in CallTypes BY DEF DInv, Types, CallTypes
    <3>3. calling' = [calling EXCEPT ![c] = [calling[c] EXCEPT !.op = "join"]] BY <3>1
    <3>4. [calling[c] EXCEPT !.op = "join"].op = "join" BY DEF DInv, Types, CallTypes
    <3>5. QED BY <3>2, <3>3, <3>4, CallReplaced DEF DInv
  <2>6. QED
    BY <2>1, <2>2, <2>3, <2>4, <2>5
    DEF ClientStep, Lifecycle, SubmitUploadChunk, SubmitEnqueue, TrySubmitRefused, SubmitDownloadRequest,
        StartPool, JoinWorkers
<1>4. queue' \in Seq(Jobs)
  <2> USE DEF DInv, Types
  <2>1. CASE SubmitUploadChunk(c)
    <3>1. PICK chunk \in Arriving : SubmitEnqueue(c, "decompress", chunk) BY <2>1 DEF SubmitUploadChunk
    <3>2. chunk \in Chunks BY ArrivingType
    <3>3. calling[c].item \in Uploads BY <2>1 DEF SubmitUploadChunk, CallsFit
    <3>4. Job("decompress", calling[c].item, chunk) \in Jobs
      BY <3>2, <3>3 DEF Jobs, Job, Fits, Stages, UploadStages, Items
    <3>5. QED BY <3>1, <3>4, AppendProperties DEF SubmitEnqueue
  <2>2. CASE SubmitDownloadRequest(c)
    <3>1. calling[c].item \in Downloads /\ calling[c].item \notin Uploads
      BY <2>2, PipelineAssumption DEF SubmitDownloadRequest, CallsFit
    <3>2. Job("read", calling[c].item, Blank) \in Jobs
      BY <3>1 DEF Jobs, Job, Fits, Bare, Blank, Chunks, Bodies, Layers, Stages, UploadStages, Items
    <3>3. QED BY <2>2, <3>2, AppendProperties DEF SubmitDownloadRequest, SubmitEnqueue
  <2>3. CASE StopPool(c)
    BY <2>3, EmptySeq DEF StopPool, Discard
  <2>4. QED BY <2>1, <2>2, <2>3
            DEF ClientStep, StartCheck, StopCheck, SubmitCheck, TrySubmitRefused, Lifecycle, SetRunning, StartPool,
                JoinWorkers
<1>5. QED BY <1>1, <1>2, <1>3, <1>4, SameJobs DEF DInv, Types

\* A worker takes a job, or makes of its chunk what fits the next one.
LEMMA WorkersKeepDInv ==
  ASSUME DInv, NEW w \in Workers, WorkerStep(w), cipher' = cipher
  PROVE  DInv'
<1> USE DEF DInv, Types
<1>1. calling' = calling /\ CallsFit' BY DEF WorkerStep, Take, Finish, CallsFit
<1>2. CASE Take(w)
  <2>1. Head(queue) \in Jobs /\ queue' \in Seq(Jobs) BY <1>2, HeadTailProperties DEF Take
  <2>2. work' \in [Workers -> Jobs \cup {Nothing}] /\ given' = given BY <1>2, <2>1 DEF Take
  <2>3. QED BY <1>1, <2>1, <2>2, SameJobs, DeliveredStays
<1>3. CASE Finish(w)
  <2> DEFINE j == work[w]
  <2>1. j \in Jobs BY <1>3 DEF Finish
  <2>2. PICK r \in DoWork(j.stage, j.chunk) :
          \/ r.to \in Stages /\ queue' = Append(queue, Job(r.to, j.item, r.chunk)) /\ given' = given
          \/ r.to \in Stages /\ queue' = queue /\ given' = given
          \/ /\ r.to \notin Stages /\ queue' = queue
             /\ given' = [given EXCEPT ![j.item] = IF r.to = "delivered" THEN r.chunk ELSE @]
    BY <1>3 DEF Finish
  <2>3. Sound(j.stage, r)
    BY <2>1, <2>2, UploadJobsSound, DownloadJobsSound DEF Jobs, Stages, UploadStages, DownloadStages
  <2>4. r.to \in Stages => Job(r.to, j.item, r.chunk) \in Jobs
    BY <2>1, <2>3 DEF Jobs, Job, Sound
  <2>5. queue' \in Seq(Jobs) BY <2>2, <2>4, AppendProperties
  <2>6. work' \in [Workers -> Jobs \cup {Nothing}] BY <1>3 DEF Finish
  <2>7. given' \in [Items -> Chunks \cup {Nothing}] BY <2>1, <2>2, <2>3 DEF Sound, Jobs
  <2>8. UploadedIntact' /\ DownloadRestorable'
    <3>1. CASE given' = given BY <3>1, DeliveredStays
    <3>2. CASE r.to = "delivered" /\ given' = [given EXCEPT ![j.item] = r.chunk]
      <4>1. CASE j.item \in Uploads
        <5>1. Fits("write", r.chunk) BY <2>1, <2>3, <3>2, <4>1 DEF Sound, Jobs
        <5>2. UploadedIntact' BY <3>2, <5>1, <4>1 DEF UploadedIntact, Fits, Items
        <5>3. \A i \in Downloads : given'[i] = given[i] BY <3>2, <4>1, PipelineAssumption DEF Items
        <5>4. \A c : Undone(c)' = Undone(c)
          BY DEF Undone, DecompressJob, Decompressed, DecryptJob, VerifyJob, AfterDecompress, EncryptionEnabled, EngineKeyed
        <5>5. QED BY <5>2, <5>3, <5>4 DEF DownloadRestorable
      <4>2. CASE j.item \notin Uploads
        <5>1. Fits("send", r.chunk) /\ r.chunk \in Chunks BY <2>1, <2>3, <3>2, <4>2 DEF Sound, Jobs
        <5>2. Undone(r.chunk) BY <5>1, PackedIsUndone DEF Fits
        <5>3. \A c : Undone(c)' = Undone(c)
          BY DEF Undone, DecompressJob, Decompressed, DecryptJob, VerifyJob, AfterDecompress, EncryptionEnabled, EngineKeyed
        <5>4. \A i \in Items : given'[i] = IF i = j.item THEN r.chunk ELSE given[i] BY <3>2
        <5>5. DownloadRestorable' BY <5>2, <5>3, <5>4 DEF DownloadRestorable, Items
        <5>6. UploadedIntact' BY <4>2, <5>4 DEF UploadedIntact, Items
        <5>7. QED BY <5>5, <5>6
      <4>3. QED BY <4>1, <4>2
    <3>3. QED BY <2>1, <2>2, <3>1, <3>2 DEF Jobs
  <2>9. QED BY <1>1, <2>5, <2>6, <2>7, <2>8, SameJobs
<1>4. QED BY <1>2, <1>3 DEF WorkerStep

LEMMA NextKeepsDInv == DInv /\ [PipelineNext]_pipelineVars => DInv'
<1> SUFFICES ASSUME DInv, [PipelineNext]_pipelineVars PROVE DInv' OBVIOUS
<1>1. CASE PipelineNext BY <1>1, ClientsKeepDInv, WorkersKeepDInv DEF PipelineNext
<1>2. CASE UNCHANGED pipelineVars
  <2>1. cipher' = cipher /\ given' = given BY <1>2 DEF pipelineVars
  <2>2. QED BY <1>2, <2>1, SameJobs, DeliveredStays DEF pipelineVars, DInv, Types, CallsFit
<1>3. QED BY <1>1, <1>2

LEMMA AlwaysDInv == PipelineSpec => []DInv
BY InitDInv, NextKeepsDInv, PTL DEF PipelineSpec

(* Whatever a peer sent and whatever happened to it on the way, what the   *)
(* upload callback is told of is the bytes the peer's checksum is of       *)
(* (verify_job and the order of the stages).                               *)
THEOREM UploadsAreIntact == PipelineSpec => []UploadedIntact
<1>1. DInv => UploadedIntact BY DEF DInv
<1>2. QED BY <1>1, AlwaysDInv, PTL

(* Whatever the download callback is given, the upload chain turns it back *)
(* into the bytes that read_job read.                                      *)
THEOREM DownloadsAreRestorable == PipelineSpec => []DownloadRestorable
<1>1. DInv => DownloadRestorable BY DEF DInv
<1>2. QED BY <1>1, AlwaysDInv, PTL

-----------------------------------------------------------------------------
(* Before the first stop the pool accepts every job, a chunk is in one     *)
(* place at a time, and what was accepted is in a job or has ended.        *)
InQueue(i) == \E k \in DOMAIN queue : queue[k].item = i
InWork(i)  == \E w \in Workers : work[w] # Nothing /\ work[w].item = i

PoolOpen  == /\ pool \in {"new", "started"}
             /\ \A c \in Clients : calling[c].op \notin {"stop", "join"}
NotBegun  == ~running => accepted = {} /\ \A c \in Clients : calling[c].item = Nothing
Undropped == ends \in [Items -> Seq({"delivered", "reported"})] /\ accepted \subseteq Items

\* A chunk that is being submitted is nowhere else.
Submitted == \A c \in Clients : calling[c].item # Nothing =>
               /\ calling[c].item \notin accepted /\ ends[calling[c].item] = <<>>
               /\ \A d \in Clients \ {c} : calling[d].item # calling[c].item

Held == /\ \A k \in DOMAIN queue : queue[k].item \in accepted /\ ends[queue[k].item] = <<>>
        /\ \A w \in Workers : work[w] # Nothing => work[w].item \in accepted /\ ends[work[w].item] = <<>>

OnePlace == /\ \A k, l \in DOMAIN queue : queue[k].item = queue[l].item => k = l
            /\ \A w, v \in Workers : work[w] # Nothing /\ work[v] # Nothing /\ work[w].item = work[v].item => w = v
            /\ \A k \in DOMAIN queue : ~InWork(queue[k].item)

Found == \A i \in accepted : ends[i] = <<>> => InQueue(i) \/ InWork(i)

LInv == PoolOpen /\ NotBegun /\ Undropped /\ Submitted /\ Held /\ OnePlace /\ Found
KInv == ~halted => LInv

LEMMA InitKInv == PipelineInit => KInv
<1> SUFFICES ASSUME PipelineInit PROVE LInv BY DEF KInv
<1> USE DEF PipelineInit
<1>1. PoolOpen /\ NotBegun BY DEF PoolOpen, NotBegun, NoCall
<1>2. Undropped /\ Submitted BY EmptySeq DEF Undropped, Submitted, NoCall
<1>3. Held /\ OnePlace /\ Found BY DEF Held, OnePlace, Found, InWork
<1>4. QED BY <1>1, <1>2, <1>3 DEF LInv

\* A call that carries no chunk begins, goes on or ends.
LEMMA CallKeepsLInv ==
  ASSUME LInv, Types, NEW c \in Clients, NEW r \in CallTypes, calling' = [calling EXCEPT ![c] = r],
         r.item = Nothing, r.op \notin {"stop", "join"},
         pool' \in {"new", "started"}, running => running',
         UNCHANGED <<queue, work, ends, accepted>>
  PROVE  LInv'
<1>1. \A d \in Clients : calling'[d] = IF d = c THEN r ELSE calling[d] BY DEF Types
<1>2. PoolOpen' /\ NotBegun' BY <1>1 DEF LInv, PoolOpen, NotBegun
<1>3. Undropped' /\ Held' /\ OnePlace' /\ Found'
  BY DEF LInv, Undropped, Held, OnePlace, Found, InQueue, InWork
<1>4. Submitted' BY <1>1 DEF LInv, Submitted
<1>5. QED BY <1>2, <1>3, <1>4 DEF LInv

LEMMA SubmissionKeepsLInv ==
  ASSUME LInv, Types, NEW c \in Clients, NEW i \in Items, NEW op \in {"upload", "try_upload", "download"},
         SubmitCheck(c, i, op)
  PROVE  LInv'
<1> USE DEF SubmitCheck
<1>1. \A d \in Clients : /\ calling'[d].item = IF d = c THEN i ELSE calling[d].item
                         /\ calling'[d].op = IF d = c THEN op ELSE calling[d].op
  BY DEF Types, CallTypes
<1>2. PoolOpen' /\ NotBegun' BY <1>1 DEF LInv, PoolOpen, NotBegun
<1>3. Undropped' /\ Held' /\ OnePlace' /\ Found'
  BY DEF LInv, Undropped, Held, OnePlace, Found, InQueue, InWork
<1>4. Submitted'
  <2>1. accepted' = accepted /\ ends' = ends OBVIOUS
  <2>2. i \notin accepted /\ ends[i] = <<>> /\ \A d \in Clients : calling[d].item # i BY DEF Fresh
  <2> HIDE DEF SubmitCheck
  <2>3. QED BY <1>1, <2>1, <2>2 DEF LInv, Submitted
<1>5. QED BY <1>2, <1>3, <1>4 DEF LInv

LEMMA EnqueueKeepsLInv ==
  ASSUME LInv, Types, NEW c \in Clients, NEW i \in Items, calling[c].item = i, NEW stage \in Stages, NEW chunk \in Chunks,
         SubmitEnqueue(c, stage, chunk)
  PROVE  LInv'
<1> DEFINE job == Job(stage, i, chunk)
<1>1. /\ queue' = Append(queue, job) /\ accepted' = accepted \cup {i}
      /\ calling' = [calling EXCEPT ![c] = NoCall] /\ UNCHANGED <<running, pool, work, ends>>
  BY DEF SubmitEnqueue, Open, LInv, PoolOpen, ReturnTo
<1>2. i \notin accepted /\ ends[i] = <<>> /\ \A d \in Clients \ {c} : calling[d].item # i
  BY PipelineAssumption DEF LInv, Submitted
<1>3. \A d \in Clients : calling'[d] = IF d = c THEN NoCall ELSE calling[d] BY <1>1 DEF Types
<1>4. /\ DOMAIN queue' = DOMAIN queue \cup {Len(queue) + 1} /\ Len(queue) + 1 \notin DOMAIN queue
      /\ \A k \in DOMAIN queue : queue'[k] = queue[k]
      /\ queue'[Len(queue) + 1].item = i
  <2>1. job.item = i BY DEF Job
  <2> HIDE DEF job
  <2>2. queue \in Seq(Jobs \cup {job}) BY DEF Types
  <2>3. QED BY <1>1, <2>1, <2>2, AppendProperties, LenProperties
<1>5. PoolOpen' BY <1>1, <1>3 DEF LInv, PoolOpen, NoCall
<1>6. NotBegun'
  <2>1. i # Nothing BY PipelineAssumption
  <2>2. running BY <2>1 DEF LInv, NotBegun
  <2>3. QED BY <1>1, <2>2 DEF NotBegun
<1>7. Undropped' BY <1>1 DEF LInv, Undropped
<1>8. Submitted' BY <1>1, <1>2, <1>3 DEF LInv, Submitted, NoCall
<1>9. Held' BY <1>1, <1>2, <1>4 DEF LInv, Held
<1>10. OnePlace'
  <2>1. \A k \in DOMAIN queue : queue[k].item # i BY <1>2 DEF LInv, Held
  <2>2. ~InWork(i) BY <1>2 DEF LInv, Held, InWork
  <2>3. \A k, l \in DOMAIN queue' : queue'[k].item = queue'[l].item => k = l
    BY <1>4, <2>1 DEF LInv, OnePlace
  <2>4. \A k \in DOMAIN queue' : ~InWork(queue'[k].item) BY <1>4, <2>2 DEF LInv, OnePlace
  <2>5. QED BY <1>1, <2>3, <2>4 DEF LInv, OnePlace, InWork
<1>11. Found'
  <2>1. \A x : InWork(x)' = InWork(x) BY <1>1 DEF InWork
  <2>2. \A x : InQueue(x) => InQueue(x)' BY <1>4 DEF InQueue
  <2>3. InQueue(i)' BY <1>4 DEF InQueue
  <2>4. QED BY <1>1, <2>1, <2>2, <2>3 DEF LInv, Found
<1>12. QED BY <1>5, <1>6, <1>7, <1>8, <1>9, <1>10, <1>11 DEF LInv

\* A client's step before a stop, unless it is the one that begins to stop.
LEMMA ClientsKeepLInv ==
  ASSUME DInv, LInv, NEW c \in Clients, ClientStep(c), ~halted'
  PROVE  LInv'
<1> NoCall \in CallTypes /\ NoCall.item = Nothing /\ NoCall.op = "none" BY DEF NoCall, CallTypes
<1> DEFINE Entered(op, wait) == [op |-> op, item |-> Nothing, wait |-> wait]
<1> \A op \in {"set", "clear", "start"}, wait \in BOOLEAN : Entered(op, wait) \in CallTypes
  BY DEF CallTypes
<1> \A op, wait : Entered(op, wait).item = Nothing /\ Entered(op, wait).op = op OBVIOUS
<1>1. Types /\ CallsFit /\ PoolOpen BY DEF DInv, LInv
<1>2. CASE StartCheck(c) \/ \E wait \in StopModes : StopCheck(c, wait)
  <2>1. PICK op \in {"set", "clear"}, wait \in BOOLEAN : Enter(c, op, wait)
    BY <1>2, PipelineAssumption DEF StartCheck, StopCheck
  <2>2. UNCHANGED <<running, pool, queue, work, ends, accepted>> BY <1>2 DEF StartCheck, StopCheck
  <2>3. QED BY <1>1, <2>1, <2>2, CallKeepsLInv DEF Enter, PoolOpen
<1>3. CASE SetRunning(c)
  <2>1. running' = TRUE /\ Enter(c, "start", FALSE) BY <1>3 DEF SetRunning
  <2>2. QED BY <1>1, <1>3, <2>1, CallKeepsLInv DEF Enter, SetRunning, PoolOpen
<1>4. CASE StartPool(c)
  <2>1. pool' \in {"new", "started"} /\ running' = running /\ ReturnTo(c) BY <1>1, <1>4 DEF StartPool, PoolOpen
  <2>2. QED BY <1>1, <1>4, <2>1, CallKeepsLInv DEF StartPool, ReturnTo
<1>5. CASE StopPool(c) \/ JoinWorkers(c)
  BY <1>1, <1>5 DEF StopPool, JoinWorkers, PoolOpen
<1>6. CASE TrySubmitRefused(c)
  BY <1>1, <1>6, CallKeepsLInv DEF TrySubmitRefused, ReturnTo, PoolOpen
<1>7. CASE \/ \E i \in Uploads : SubmitCheck(c, i, "upload") \/ SubmitCheck(c, i, "try_upload")
           \/ \E i \in Downloads : SubmitCheck(c, i, "download")
  BY <1>1, <1>7, SubmissionKeepsLInv DEF Items
<1>8. CASE SubmitUploadChunk(c)
  <2>1. PICK chunk \in Arriving : SubmitEnqueue(c, "decompress", chunk) BY <1>8 DEF SubmitUploadChunk
  <2>2. chunk \in Chunks BY ArrivingType
  <2>3. calling[c].item \in Items BY <1>1, <1>8 DEF SubmitUploadChunk, CallsFit, Items
  <2>4. "decompress" \in Stages BY DEF Stages
  <2>5. QED BY <1>1, <2>1, <2>2, <2>3, <2>4, EnqueueKeepsLInv
<1>9. CASE SubmitDownloadRequest(c)
  <2>1. Blank \in Chunks BY DEF Blank, Chunks, Bodies, Layers
  <2>2. calling[c].item \in Items BY <1>1, <1>9 DEF SubmitDownloadRequest, CallsFit, Items
  <2>3. QED BY <1>1, <1>9, <2>1, <2>2, EnqueueKeepsLInv DEF SubmitDownloadRequest, Stages
<1>10. QED
  BY <1>2, <1>3, <1>4, <1>5, <1>6, <1>7, <1>8, <1>9 DEF ClientStep, Lifecycle

LEMMA TakeKeepsLInv ==
  ASSUME LInv, Types, NEW w \in Workers, Take(w)
  PROVE  LInv'
<1>1. Len(queue) \in Nat \ {0} /\ queue # <<>> /\ DOMAIN queue = 1..Len(queue) /\ Head(queue) = queue[1]
      /\ queue[1] \in Jobs
  BY HeadTailProperties, EmptySeq, LenProperties, ElementOfSeq DEF Take, Types
<1>2. queue[1].item \in accepted /\ running
  BY <1>1 DEF LInv, Held, NotBegun
<1>3. /\ queue' = Tail(queue) /\ work' = [work EXCEPT ![w] = queue[1]]
      /\ UNCHANGED <<running, pool, calling, accepted, ends>>
  BY <1>1, <1>2 DEF Take
<1>4. /\ DOMAIN queue' = 1..(Len(queue) - 1)
      /\ \A k \in DOMAIN queue' : k + 1 \in DOMAIN queue /\ k + 1 # 1 /\ queue'[k] = queue[k + 1]
  <2>1. Tail(queue) \in Seq(Jobs) /\ Len(Tail(queue)) = Len(queue) - 1
        /\ \A k \in 1..Len(Tail(queue)) : Tail(queue)[k] = queue[k + 1]
    BY <1>1, HeadTailProperties DEF Types
  <2>2. DOMAIN Tail(queue) = 1..Len(Tail(queue)) BY <2>1, LenProperties
  <2>3. QED BY <1>1, <1>3, <2>1, <2>2
<1>5. \A v \in Workers : work'[v] = IF v = w THEN queue[1] ELSE work[v] BY <1>3 DEF Types
<1>6. work[w] = Nothing /\ queue[1] # Nothing
  <2>1. \A j \in Jobs : j # Nothing BY NothingIsNoJob DEF Jobs
  <2>2. QED BY <1>1, <2>1 DEF Take
<1>7. PoolOpen' /\ NotBegun' /\ Undropped' /\ Submitted'
  BY <1>3 DEF LInv, PoolOpen, NotBegun, Undropped, Submitted
<1>8. Held'
  <2>1. \A k \in DOMAIN queue' : queue'[k].item \in accepted /\ ends[queue'[k].item] = <<>>
    BY <1>4 DEF LInv, Held
  <2>2. \A v \in Workers : work'[v] # Nothing => work'[v].item \in accepted /\ ends[work'[v].item] = <<>>
    BY <1>1, <1>5 DEF LInv, Held
  <2>3. QED BY <1>3, <2>1, <2>2 DEF Held
<1>9. OnePlace'
  <2>1. \A k, l \in DOMAIN queue' : queue'[k].item = queue'[l].item => k = l
    <3>1. \A k, l \in DOMAIN queue' : queue[k + 1].item = queue[l + 1].item => k + 1 = l + 1
      BY <1>4 DEF LInv, OnePlace
    <3>2. QED BY <1>4, <3>1
  <2>2. \A k \in DOMAIN queue' : queue'[k].item # queue[1].item
    BY <1>1, <1>4 DEF LInv, OnePlace
  <2>3. \A v \in Workers : work[v] # Nothing => work[v].item # queue[1].item
    BY <1>1 DEF LInv, OnePlace, InWork
  <2>4. \A v, u \in Workers : work'[v] # Nothing /\ work'[u] # Nothing /\ work'[v].item = work'[u].item => v = u
    BY <1>5, <2>3 DEF LInv, OnePlace
  <2>5. \A k \in DOMAIN queue' : ~\E v \in Workers : work'[v] # Nothing /\ work'[v].item = queue'[k].item
    BY <1>4, <1>5, <2>2 DEF LInv, OnePlace, InWork
  <2>6. QED BY <2>1, <2>4, <2>5 DEF OnePlace, InWork
<1>10. Found'
  <2>1. SUFFICES ASSUME NEW i \in accepted, ends[i] = <<>> PROVE InQueue(i)' \/ InWork(i)'
    BY <1>3 DEF Found
  <2>2. CASE InWork(i) BY <1>5, <1>6, <2>2 DEF InWork
  <2>3. CASE i = queue[1].item BY <1>5, <1>6, <2>3 DEF InWork
  <2>4. CASE \E k \in DOMAIN queue : k # 1 /\ queue[k].item = i
    <3>1. PICK k \in DOMAIN queue : k # 1 /\ queue[k].item = i BY <2>4
    <3>2. k - 1 \in 1..(Len(queue) - 1) /\ (k - 1) + 1 = k BY <1>1, <3>1
    <3>3. QED BY <1>4, <3>1, <3>2 DEF InQueue
  <2>5. QED BY <2>1, <2>2, <2>3, <2>4 DEF LInv, Found, InQueue
<1>11. QED BY <1>7, <1>8, <1>9, <1>10 DEF LInv

LEMMA FinishKeepsLInv ==
  ASSUME LInv, Types, NEW w \in Workers, Finish(w)
  PROVE  LInv'
<1>1. work[w] # Nothing /\ work[w] \in Jobs BY DEF Finish, Types
<1>2. PICK i \in Items : work[w].item = i BY <1>1 DEF Jobs
<1>3. i \in accepted /\ ends[i] = <<>> BY <1>1, <1>2 DEF LInv, Held
<1>4. UNCHANGED <<running, pool, calling, accepted>> /\ work' = [work EXCEPT ![w] = Nothing] BY DEF Finish
<1>5. \A v \in Workers : work'[v] = IF v = w THEN Nothing ELSE work[v] BY <1>4 DEF Types
<1>6. PoolOpen' /\ NotBegun' BY <1>4 DEF LInv, PoolOpen, NotBegun
<1>7. PICK r \in DoWork(work[w].stage, work[w].chunk) :
        \/ r.to \in Stages /\ queue' = Append(queue, Job(r.to, i, r.chunk)) /\ ends' = ends
        \/ r.to \notin Stages /\ queue' = queue /\ ends' = [ends EXCEPT ![i] = Append(@, r.to)]
  BY <1>2 DEF Finish, LInv, PoolOpen, Open, End
<1>8. \A k \in DOMAIN queue : queue[k].item # i BY <1>1, <1>2 DEF LInv, OnePlace, InWork
<1>9. \A v \in Workers \ {w} : work[v] # Nothing => work[v].item # i BY <1>1, <1>2 DEF LInv, OnePlace
<1>10. CASE r.to \in Stages
  <2> DEFINE job == Job(r.to, i, r.chunk)
  <2>1. queue' = Append(queue, job) /\ ends' = ends BY <1>7, <1>10
  <2>2. /\ DOMAIN queue' = DOMAIN queue \cup {Len(queue) + 1} /\ Len(queue) + 1 \notin DOMAIN queue
        /\ \A k \in DOMAIN queue : queue'[k] = queue[k]
        /\ queue'[Len(queue) + 1].item = i
    <3>1. job.item = i BY DEF Job
    <3> HIDE DEF job
    <3>2. queue \in Seq(Jobs \cup {job}) BY DEF Types
    <3>3. QED BY <2>1, <3>1, <3>2, AppendProperties, LenProperties
  <2>3. Undropped' /\ Submitted' BY <1>4, <2>1 DEF LInv, Undropped, Submitted
  <2>4. Held'
    <3>1. \A k \in DOMAIN queue' : queue'[k].item \in accepted /\ ends[queue'[k].item] = <<>>
      BY <1>3, <2>2 DEF LInv, Held
    <3>2. \A v \in Workers : work'[v] # Nothing => work'[v].item \in accepted /\ ends[work'[v].item] = <<>>
      BY <1>5 DEF LInv, Held
    <3>3. QED BY <1>4, <2>1, <3>1, <3>2 DEF Held
  <2>5. OnePlace'
    <3>1. \A k, l \in DOMAIN queue' : queue'[k].item = queue'[l].item => k = l
      BY <1>8, <2>2 DEF LInv, OnePlace
    <3>2. \A v, u \in Workers : work'[v] # Nothing /\ work'[u] # Nothing /\ work'[v].item = work'[u].item => v = u
      BY <1>5 DEF LInv, OnePlace
    <3>3. \A k \in DOMAIN queue' : ~\E v \in Workers : work'[v] # Nothing /\ work'[v].item = queue'[k].item
      BY <1>5, <1>9, <2>2 DEF LInv, OnePlace, InWork
    <3>4. QED BY <3>1, <3>2, <3>3 DEF OnePlace, InWork
  <2>6. Found'
    <3>1. \A x : InQueue(x) => \E k \in DOMAIN queue' : queue'[k].item = x BY <2>2 DEF InQueue
    <3>2. \E k \in DOMAIN queue' : queue'[k].item = i BY <2>2
    <3>3. \A x : x # i /\ InWork(x) => \E v \in Workers : work'[v] # Nothing /\ work'[v].item = x
      BY <1>2, <1>5 DEF InWork
    <3>4. QED BY <1>4, <2>1, <3>1, <3>2, <3>3 DEF LInv, Found, InQueue, InWork
  <2>7. QED BY <1>6, <2>3, <2>4, <2>5, <2>6 DEF LInv
<1>11. CASE r.to \notin Stages
  <2>1. queue' = queue /\ ends' = [ends EXCEPT ![i] = Append(@, r.to)] BY <1>7, <1>11
  <2>2. r.to \in {"delivered", "reported"}
    <3>1. Sound(work[w].stage, r)
      BY <1>1, <1>7, UploadJobsSound, DownloadJobsSound DEF Jobs, Stages, UploadStages, DownloadStages
    <3>2. QED BY <1>11, <3>1 DEF Sound
  <2>3. \A x \in Items : ends'[x] = IF x = i THEN Append(<<>>, r.to) ELSE ends[x]
    BY <1>3, <2>1 DEF LInv, Undropped
  <2>4. Append(<<>>, r.to) \in Seq({"delivered", "reported"}) /\ Append(<<>>, r.to) # <<>>
    <3>1. <<>> \in Seq({"delivered", "reported"}) BY EmptySeq
    <3>2. QED BY <2>2, <3>1, AppendProperties, EmptySeq
  <2>5. Undropped'
    BY <1>4, <2>1, <2>3, <2>4 DEF LInv, Undropped
  <2>6. Submitted'
    <3>1. \A d \in Clients : calling[d].item # Nothing => calling[d].item \in Items /\ calling[d].item # i
      BY <1>3 DEF LInv, Submitted, Types, CallTypes
    <3>2. QED BY <1>4, <2>3, <3>1 DEF LInv, Submitted
  <2>7. Held'
    <3>1. \A k \in DOMAIN queue : queue[k].item \in Items /\ queue[k].item # i
      BY <1>8 DEF LInv, Held, Undropped
    <3>2. \A k \in DOMAIN queue' : queue'[k].item \in accepted' /\ ends'[queue'[k].item] = <<>>
      BY <1>4, <2>1, <2>3, <3>1 DEF LInv, Held
    <3>3. \A v \in Workers \ {w} : work[v] # Nothing => work[v].item \in Items /\ work[v].item # i
      BY <1>9 DEF LInv, Held, Undropped
    <3>4. \A v \in Workers : work'[v] # Nothing => work'[v].item \in accepted' /\ ends'[work'[v].item] = <<>>
      BY <1>4, <1>5, <2>3, <3>3 DEF LInv, Held
    <3>5. QED BY <3>2, <3>4 DEF Held
  <2>8. OnePlace' BY <1>5, <2>1 DEF LInv, OnePlace, InWork
  <2>9. Found'
    <3>1. \A x : x # i /\ InWork(x) => \E v \in Workers : work'[v] # Nothing /\ work'[v].item = x
      BY <1>2, <1>5 DEF InWork
    <3>2. ends'[i] # <<>> BY <2>3, <2>4
    <3>3. \A x \in accepted : x # i => ends'[x] = ends[x] BY <2>3 DEF LInv, Undropped
    <3>4. QED BY <1>4, <2>1, <3>1, <3>2, <3>3 DEF LInv, Found, InQueue, InWork
  <2>10. QED BY <1>6, <2>5, <2>6, <2>7, <2>8, <2>9 DEF LInv
<1>12. QED BY <1>10, <1>11

LEMMA NextKeepsKInv == DInv /\ KInv /\ [PipelineNext]_pipelineVars => KInv'
<1> SUFFICES ASSUME DInv, KInv, [PipelineNext]_pipelineVars, ~halted' PROVE LInv' BY DEF KInv
<1>1. LInv /\ Types
  <2>1. ~halted
    BY DEF PipelineNext, pipelineVars, ClientStep, StartCheck, StopCheck, SubmitCheck, SubmitUploadChunk, SubmitEnqueue,
           TrySubmitRefused, SubmitDownloadRequest, Lifecycle, SetRunning, StartPool, StopPool, JoinWorkers,
           WorkerStep, Take, Finish
  <2>2. QED BY <2>1 DEF KInv, DInv
<1>2. CASE PipelineNext BY <1>1, <1>2, ClientsKeepLInv, TakeKeepsLInv, FinishKeepsLInv DEF PipelineNext, WorkerStep
<1>3. CASE UNCHANGED pipelineVars
  BY <1>1, <1>3 DEF pipelineVars, LInv, PoolOpen, NotBegun, Undropped, Submitted, Held, OnePlace, Found, InQueue, InWork
<1>4. QED BY <1>2, <1>3

(* As long as the pipeline has not been stopped, an accepted chunk is in a *)
(* job or has ended in a callback: between a worker's last read of the     *)
(* flag and its enqueue of the next stage nothing can make it vanish       *)
(* (do_work of the jobs in pipeline_jobs.cpp).                             *)
THEOREM NothingIsLostWhileRunning == PipelineSpec => []NoneLostWhileRunning
<1>1. Types /\ KInv => NoneLostWhileRunning
  <2> SUFFICES ASSUME Types, LInv, NEW i \in accepted
               PROVE  ~Dropped(i) /\ (ends[i] = <<>> <=> \E s \in Stages : i \in InStage(s))
    BY DEF KInv, NoneLostWhileRunning
  <2>1. i \in Items /\ ends[i] \in Seq({"delivered", "reported"}) BY DEF LInv, Undropped
  <2>2. ~Dropped(i) BY <2>1, ElementOfSeq, LenProperties DEF Dropped
  <2>3. ASSUME ends[i] = <<>> PROVE \E s \in Stages : i \in InStage(s)
    <3>1. CASE InQueue(i)
      <4>1. PICK k \in DOMAIN queue : queue[k].item = i BY <3>1 DEF InQueue
      <4>2. queue[k] \in Jobs BY <4>1, ElementOfSeq, LenProperties DEF Types
      <4>3. QED BY <2>1, <4>1, <4>2 DEF InStage, Jobs
    <3>2. CASE InWork(i)
      <4>1. PICK w \in Workers : work[w] # Nothing /\ work[w].item = i BY <3>2 DEF InWork
      <4>2. work[w] \in Jobs BY <4>1 DEF Types
      <4>3. QED BY <2>1, <4>1, <4>2 DEF InStage, Jobs
    <3>3. QED BY <2>3, <3>1, <3>2 DEF LInv, Found
  <2>4. ASSUME NEW s \in Stages, i \in InStage(s) PROVE ends[i] = <<>>
    BY <2>4 DEF InStage, LInv, Held
  <2>5. QED BY <2>2, <2>3, <2>4
<1>2. DInv => Types BY DEF DInv
<1>3. QED BY <1>1, <1>2, AlwaysDInv, InitKInv, NextKeepsKInv, PTL DEF PipelineSpec

=============================================================================

--------------------------- MODULE ChunkAssembler ---------------------------
(***************************************************************************)
(* core/chunk_assembler.cpp: the receiver's reassembly of files.           *)
(*                                                                         *)
(* An assembler keeps a map contexts_ from transfer ids to heap-allocated  *)
(* assembly contexts, guarded by the shared mutex contexts_mutex_; every   *)
(* context has a mutex of its own.  process_chunk looks its context up     *)
(* under the shared lock, releases it and goes on with the bare pointer,   *)
(* so a finalize or cancel_session may free the context in between: the    *)
(* lookup and the use are two steps here.  finalize keeps contexts_mutex_  *)
(* from its first to its last step, but the context's mutex only while it  *)
(* checks the count and closes the file.                                   *)
(*                                                                         *)
(* Data.  A file is a function from slots (chunk positions) to what is     *)
(* stored there; the piece [id, index] stands for the bytes of chunk       *)
(* `index' of the sender's file for transfer `id'.  A chunk carries its    *)
(* index and, separately, the slot its chunk_offset points at; `intact'    *)
(* says whether its bytes match its CRC32.                                 *)
(*                                                                         *)
(* A context's mutex is only ever held over straight-line code (inside     *)
(* contexts_mutex_, or alone), so its critical sections are single steps.  *)
(*                                                                         *)
(* `spoiled' is a history variable: a file went through one of the three   *)
(* things the code does not guard against (an offset that disagrees with   *)
(* its index, a chunk stored through a pointer that outlived its session,  *)
(* a close that loses buffered bytes).  No guard reads it.                 *)
(***************************************************************************)
EXTENDS Naturals, FiniteSets

CONSTANTS
  Threads,    \* threads that call the assembler
  Ids,        \* transfer ids
  Names,      \* output file names
  Ctxs,       \* addresses a context (and its temp file) can have
  MaxChunks,  \* largest total_chunks of a session
  Chunks,     \* the chunks that can arrive
  IOFaults,   \* open, write, close, read and rename may fail
  Crashes,    \* the process may die without running destructors
  None, Zero, Absent, Garbage

Slots   == 0..MaxChunks
Piece   == [id : Ids, index : Slots]
Content == [Slots -> Piece \cup {Zero, Absent, Garbage}]
Hashes  == {"none", "given"}   \* expected_hash empty or the sender's SHA-256

ASSUME ConstantsAssumption ==
  /\ MaxChunks \in Nat
  /\ Chunks \subseteq [id : Ids, index : Slots, slot : Slots, intact : BOOLEAN]
  /\ {IOFaults, Crashes} \subseteq BOOLEAN
  /\ Absent \notin Piece
  /\ None \notin Ctxs \cup Threads \cup Ids \cup Names

VARIABLES
  contexts,   \* contexts_: id -> address, or None
  heap,       \* the assembly_context stored at an address
  temp,       \* the temp file of the context at an address
  final,      \* the output directory: the file under each name
  lock,       \* the thread holding contexts_mutex_ exclusively between steps
  call        \* the call each thread is in, with its locals

vars == <<contexts, heap, temp, final, lock, call>>

NoData   == [s \in Slots |-> Absent]
NoTemp   == [exists |-> FALSE, data |-> NoData]
NoFinal  == [exists |-> FALSE, id |-> None, total |-> 0, verified |-> FALSE, spoiled |-> FALSE,
             data |-> NoData]
FreeCtx  == [live |-> FALSE, name |-> None, total |-> 0, received |-> {}, count |-> 0,
             file |-> "closed", spoiled |-> FALSE]
IdleCall == [op |-> "idle", id |-> None, chunk |-> None, ctx |-> None, hash |-> "none"]

-----------------------------------------------------------------------------
(* What the sender's file for a transfer holds, and what SHA-256 compares. *)
SentFile(id, total) == [s \in Slots |-> IF s < total THEN [id |-> id, index |-> s] ELSE Absent]
SameLength(data, id, total) ==   \* mutated form: only the lengths are compared
  \A s \in Slots : (data[s] = Absent) <=> (s >= total)
VerifySha256(data, id, total) == data = SentFile(id, total)

\* A freshly opened temp file, pre-allocated to the file's size.
Preallocated(total) == [s \in Slots |-> IF s < total THEN Zero ELSE Absent]

\* seekp(slot) and write: bytes skipped over past the end read as zeroes.
WriteAt(data, slot, cell) ==
  [s \in Slots |-> IF s = slot THEN cell
                   ELSE IF s < slot /\ data[s] = Absent THEN Zero ELSE data[s]]

\* The read-only queries of the API.
HasSession(id)        == contexts[id] # None
AlmostComplete(id) ==   \* mutated form: one chunk short
  HasSession(id) /\ heap[contexts[id]].count + 1 >= heap[contexts[id]].total
IsComplete(id)        == HasSession(id) /\ heap[contexts[id]].count = heap[contexts[id]].total
GetMissingChunks(id)  == IF HasSession(id)
                         THEN {i \in Slots : i < heap[contexts[id]].total} \ heap[contexts[id]].received
                         ELSE {}

-----------------------------------------------------------------------------
Init ==
  /\ contexts = [id \in Ids |-> None]
  /\ heap  = [p \in Ctxs |-> FreeCtx]
  /\ temp  = [p \in Ctxs |-> NoTemp]
  /\ final = [n \in Names |-> NoFinal]
  /\ lock  = None
  /\ call  = [t \in Threads |-> IdleCall]

Idle(t) == call[t].op = "idle"

\* The call returns; a call that returns an error before it changed anything is a stutter.
Return(t) == call' = [call EXCEPT ![t] = IdleCall]

\* The context at p is destroyed and its entry leaves the map.
Erase(id, p) ==
  /\ contexts' = [contexts EXCEPT ![id] = None]
  /\ heap'     = [heap EXCEPT ![p] = FreeCtx]

(* start_session: one critical section.  A known id and a temp file that    *)
(* cannot be opened are refused without a trace.  The pre-allocation is not *)
(* checked, so a session may start on a stream that has already failed.     *)
StartSession(t, id, name, total) ==
  /\ Idle(t) /\ lock = None /\ contexts[id] = None
  /\ \E p \in Ctxs, file \in {"open", "bad"} :
        /\ ~heap[p].live /\ ~temp[p].exists
        /\ file = "bad" => IOFaults /\ total > 0
        /\ contexts' = [contexts EXCEPT ![id] = p]
        /\ heap' = [heap EXCEPT ![p] = [live |-> TRUE, name |-> name, total |-> total,
                                        received |-> {}, count |-> 0, file |-> file,
                                        spoiled |-> FALSE]]
        /\ temp' = [temp EXCEPT ![p] = [exists |-> TRUE, data |-> Preallocated(total)]]
  /\ UNCHANGED <<final, lock, call>>

(* process_chunk, first half: get_context under the shared lock. *)
LookupContext(t, c) ==
  /\ Idle(t) /\ lock = None /\ HasSession(c.id)
  /\ call' = [call EXCEPT ![t] = [op |-> "process", id |-> c.id, chunk |-> c,
                                  ctx |-> contexts[c.id], hash |-> "none"]]
  /\ UNCHANGED <<contexts, heap, temp, final, lock>>

\* The early returns of process_chunk: index out of range, duplicate, CRC32, failed stream.
\* mutated forms: a duplicate, a damaged chunk or a failed stream is not refused
RefusedButDuplicates(ctx, c) == c.index >= ctx.total \/ ~c.intact \/ ctx.file # "open"
RefusedButCorrupted(ctx, c)  == c.index >= ctx.total \/ c.index \in ctx.received \/ ctx.file # "open"
Refused(ctx, c) ==
  \/ c.index >= ctx.total
  \/ c.index \in ctx.received
  \/ ~c.intact
  \/ ctx.file # "open"

\* Writing the chunk and the tracking update that follows it.
Bytes(c) == IF c.intact THEN [id |-> c.id, index |-> c.index] ELSE Garbage
Misplaced(p, c) == c.slot # c.index \/ contexts[c.id] # p
Store(p, c) ==
  /\ temp' = [temp EXCEPT ![p].data = WriteAt(@, c.slot, Bytes(c))]
  /\ heap' = [heap EXCEPT ![p].received = @ \cup {c.index}, ![p].count = @ + 1,
                          ![p].spoiled = @ \/ Misplaced(p, c)]

\* A failed write leaves the stream failed, and the slot written in part or not at all.
FailedWrite(p, c) ==
  /\ IOFaults
  /\ \E cell \in {Garbage, temp[p].data[c.slot]} :
       temp' = [temp EXCEPT ![p].data = WriteAt(@, c.slot, cell)]
  /\ heap' = [heap EXCEPT ![p].file = "bad", ![p].spoiled = @ \/ Misplaced(p, c)]

(* process_chunk, second half: under the mutex of the context found. *)
ProcessChunk(t) ==
  LET c == call[t].chunk
      p == call[t].ctx
  IN
  /\ call[t].op = "process"
  /\ heap[p].live
  /\ \/ Refused(heap[p], c) /\ UNCHANGED <<heap, temp>>
     \/ ~Refused(heap[p], c) /\ (Store(p, c) \/ FailedWrite(p, c))
  /\ Return(t)
  /\ UNCHANGED <<contexts, final, lock>>

(* The same code on a context that was freed meanwhile and whose memory     *)
(* nobody reuses yet is undefined: it returns something, or kills the       *)
(* process (Crash).                                                         *)
ProcessChunkInFreedContext(t) ==
  /\ call[t].op = "process"
  /\ ~heap[call[t].ctx].live
  /\ Return(t)
  /\ UNCHANGED <<contexts, heap, temp, final, lock>>

\* close(): buffered data may fail to reach the disk, and nobody looks.
Close(p) ==
  \E lost \in SUBSET (IF IOFaults /\ heap[p].file # "closed" THEN heap[p].received ELSE {}) :
    /\ heap' = [heap EXCEPT ![p].file = "closed", ![p].spoiled = @ \/ lost # {}]
    /\ temp' = [temp EXCEPT ![p].data = [s \in Slots |-> IF s \in lost THEN Zero ELSE @[s]]]

(* finalize, first step: take contexts_mutex_, check the count, close. *)
FinalizeBeginUnlocking(t, id, hash) ==   \* mutated form: contexts_mutex_ is not kept
  /\ Idle(t) /\ lock = None
  /\ IsComplete(id)
  /\ Close(contexts[id])
  /\ call' = [call EXCEPT ![t] = [op |-> "verify", id |-> id, chunk |-> None,
                                  ctx |-> contexts[id], hash |-> hash]]
  /\ UNCHANGED <<contexts, final, lock>>
FinalizeBegin(t, id, hash) ==
  /\ Idle(t) /\ lock = None
  /\ IsComplete(id)
  /\ Close(contexts[id])
  /\ lock' = t
  /\ call' = [call EXCEPT ![t] = [op |-> "verify", id |-> id, chunk |-> None,
                                  ctx |-> contexts[id], hash |-> hash]]
  /\ UNCHANGED <<contexts, final>>

(* finalize, second step: SHA-256 of the temp file when a hash was given. *)
FinalizeVerify(t) ==
  LET p  == call[t].ctx
      id == call[t].id
      ok == VerifySha256(temp[p].data, id, heap[p].total)
  IN
  /\ call[t].op = "verify"
  /\ \/ /\ call[t].hash = "none" \/ ok
        /\ call' = [call EXCEPT ![t].op = "remove"]
        /\ UNCHANGED <<contexts, heap, temp, lock>>
     \/ /\ call[t].hash = "given" /\ (~ok \/ IOFaults)
        /\ temp' = [temp EXCEPT ![p] = NoTemp]
        /\ Erase(id, p)
        /\ lock' = None
        /\ Return(t)
  /\ UNCHANGED final

(* finalize, third step: remove the file already stored under the name. *)
FinalizeRemoveOld(t) ==
  /\ call[t].op = "remove"
  /\ final' = [final EXCEPT ![heap[call[t].ctx].name] = NoFinal]
  /\ call'  = [call EXCEPT ![t].op = "rename"]
  /\ UNCHANGED <<contexts, heap, temp, lock>>

(* finalize, last step: rename; on failure the session stays, file closed. *)
FinalizeRename(t) ==
  LET p  == call[t].ctx
      id == call[t].id
  IN
  /\ call[t].op = "rename"
  /\ \/ /\ final' = [final EXCEPT ![heap[p].name] =
                       [exists |-> TRUE, id |-> id, total |-> heap[p].total,
                        verified |-> call[t].hash = "given", spoiled |-> heap[p].spoiled,
                        data |-> temp[p].data]]
        /\ temp' = [temp EXCEPT ![p] = NoTemp]
        /\ Erase(id, p)
        /\ Return(t)
     \/ /\ IOFaults
        /\ Return(t)
        /\ UNCHANGED <<contexts, heap, temp, final>>
  /\ lock' = None

(* cancel_session: one critical section; unknown ids are ignored. *)
CancelSession(t, id) ==
  /\ Idle(t) /\ lock = None
  /\ HasSession(id)
  /\ temp' = [temp EXCEPT ![contexts[id]] = NoTemp]
  /\ Erase(id, contexts[id])
  /\ UNCHANGED <<final, lock, call>>

\* No call is in progress.
Quiescent == \A t \in Threads : Idle(t)

(* Destructor, then a new assembler on the same directory. *)
Destroy ==
  /\ Quiescent
  /\ temp' = [p \in Ctxs |-> IF heap[p].live THEN NoTemp ELSE temp[p]]
  /\ contexts' = [id \in Ids |-> None]
  /\ heap' = [p \in Ctxs |-> FreeCtx]
  /\ UNCHANGED <<final, lock, call>>

(* The process dies and is started again: memory is gone, the disk stays. *)
Crash ==
  /\ Crashes
  /\ contexts' = [id \in Ids |-> None]
  /\ heap' = [p \in Ctxs |-> FreeCtx]
  /\ lock' = None
  /\ call' = [t \in Threads |-> IdleCall]
  /\ UNCHANGED <<temp, final>>

ThreadStep(t) ==
  \/ ProcessChunk(t)
  \/ ProcessChunkInFreedContext(t)
  \/ FinalizeVerify(t)
  \/ FinalizeRemoveOld(t)
  \/ FinalizeRename(t)

Next ==
  \/ \E t \in Threads :
       \/ \E id \in Ids, name \in Names, total \in Slots : StartSession(t, id, name, total)
       \/ \E c \in Chunks : LookupContext(t, c)
       \/ \E id \in Ids, hash \in Hashes : FinalizeBegin(t, id, hash)
       \/ \E id \in Ids : CancelSession(t, id)
       \/ ThreadStep(t)
  \/ Destroy
  \/ Crash

Spec == Init /\ [][Next]_vars

-----------------------------------------------------------------------------
CtxType  == [live : BOOLEAN, name : Names \cup {None}, total : Slots,
             received : SUBSET Slots, count : Slots, file : {"open", "bad", "closed"}, spoiled : BOOLEAN]
CallType == [op : {"idle", "process", "verify", "remove", "rename"}, id : Ids \cup {None},
             chunk : Chunks \cup {None}, ctx : Ctxs \cup {None}, hash : Hashes]
TempType  == [exists : BOOLEAN, data : Content]
FinalType == [exists : BOOLEAN, id : Ids \cup {None}, total : Slots,
              verified : BOOLEAN, spoiled : BOOLEAN, data : Content]

\* Type invariant of the assembler's memory, its threads and the disk.
TypeOK ==
  /\ contexts \in [Ids -> Ctxs \cup {None}]
  /\ heap \in [Ctxs -> CtxType]
  /\ temp \in [Ctxs -> TempType]
  /\ final \in [Names -> FinalType]
  /\ lock \in Threads \cup {None}
  /\ call \in [Threads -> CallType]

(* is_complete (the counter) and get_missing_chunks (the bitmap) tell the   *)
(* same story of a session, however its chunks arrived: duplicated, by two  *)
(* threads at once, or through a pointer that outlived its own session.     *)
QueriesAgree ==
  \A id \in Ids : HasSession(id) => (IsComplete(id) <=> GetMissingChunks(id) = {})

(* A file that finalize published after checking its SHA-256 is the         *)
(* sender's file, bit for bit: nothing reaches the temp file between the    *)
(* verification and the rename, not even a process_chunk that holds a       *)
(* pointer to the context, and no write reaches it under its final name.    *)
VerifiedFileIntact ==
  \A n \in Names : final[n].exists /\ final[n].verified
                    => final[n].data = SentFile(final[n].id, final[n].total)

(* Published with a hash or without: a file is the sender's, unless it went *)
(* through a chunk with a wrong offset, a process_chunk that still had the  *)
(* context of a session that was over, or a close that lost bytes.  CRC32   *)
(* per chunk, the bitmap and the count are enough for the rest: duplicates, *)
(* damaged chunks, failed writes, chunks that race with finalize and        *)
(* cancel_session, failed renames, crashes.                                 *)
FinalFileIntact ==
  \A n \in Names : final[n].exists /\ ~final[n].spoiled
                    => final[n].data = SentFile(final[n].id, final[n].total)

(* From the close of the temp file to its rename, finalize works with the   *)
(* current context of its transfer, alive and closed, although it let go of *)
(* that context's mutex: no cancel_session, start_session or other finalize *)
(* gets at it, and no process_chunk that found it earlier writes to it.     *)
FinalizeKeepsContext ==
  \A t \in Threads : call[t].op \in {"verify", "remove", "rename"} =>
    /\ contexts[call[t].id] = call[t].ctx
    /\ heap[call[t].ctx].live /\ heap[call[t].ctx].file = "closed"
    /\ temp[call[t].ctx].exists

(* finalize removes a published file only when a complete, closed           *)
(* replacement for the same name is on disk.                                *)
RemovedOnlyForReplacement ==
  [][\A n \in Names : final[n].exists /\ ~final'[n].exists =>
       \E id \in Ids : /\ HasSession(id) /\ GetMissingChunks(id) = {}
                       /\ heap[contexts[id]].name = n
                       /\ heap[contexts[id]].file = "closed"
                       /\ temp[contexts[id]].exists]_vars
=============================================================================

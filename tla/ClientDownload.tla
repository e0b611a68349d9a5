---------------------------- MODULE ClientDownload ----------------------------
(***************************************************************************)
(* client/file_transfer_client.cpp: one download, from download_file on,   *)
(* with the network layer's calls (set_download_metadata,                  *)
(* process_download_chunk, finalize_download) and the user's (pause,       *)
(* resume, cancel, wait) coming from several threads.                      *)
(*                                                                         *)
(* What a call does while it holds the context's mutex is one step unless  *)
(* it meets the file system or another lock in between: the move of the    *)
(* temporary file is a step of its own, since cancel_download removes that *)
(* file without a lock, and so are the second locks that pause_transfer,   *)
(* resume_transfer and (called from process_download_chunk)                *)
(* finalize_download take.  Locking a std::mutex twice in one thread is    *)
(* undefined: the thread waits for itself, or the lock throws.             *)
(* Looking the context up under download_mutex and locking it are taken    *)
(* together: contexts are never erased, so the look-up commutes.           *)
(***************************************************************************)
EXTENDS ClientStates, Naturals, FiniteSets, Sequences

CONSTANTS
  TotalChunks,  \* chunks of the file, as the server announces them
  VerifyHash,   \* options.verify_hash, and the server sent a hash
  Overwrite,    \* a file was at local_path before, and options.overwrite
  IOFaults,     \* opening, writing or moving the temporary file may fail
  Duplicates,   \* the server may send a chunk twice
  RelockThrows, \* locking a mutex twice throws, rather than blocking for ever
  None

ASSUME ConstantsAssumption ==
  /\ TotalChunks \in Nat \ {0} /\ MaxCalls \in Nat
  /\ {VerifyHash, Overwrite, IOFaults, Duplicates, RelockThrows} \subseteq BOOLEAN
  /\ None \notin Threads

Indexes  == 1..TotalChunks
Old      == {0}     \* the bytes of the file that was there before

VARIABLES
  state, cancelled, total, received,   \* of the download_context
  ctxlock,  \* the thread that holds the context's mutex
  maplock,  \* the thread that holds download_mutex
  temp,     \* the chunks in the temporary file, or None
  local,    \* the chunks in the file at local_path, or None
  call,     \* thread -> where it is, and the chunk it processes
  sent,     \* history: what the server has sent, whether in order, and the calls made
  results   \* history: what complete_callback was told, with the file it found

vars == <<state, cancelled, total, received, ctxlock, maplock, temp, local, call, sent, results>>
context == <<state, cancelled, total, received>>
locks   == <<ctxlock, maplock>>
files   == <<temp, local>>

Idle == [at |-> "idle", chunk |-> 0]

\* The context as download_file leaves it.
Init ==
  /\ state = "initializing" /\ cancelled = FALSE /\ total = 0 /\ received = 0
  /\ ctxlock = None /\ maplock = None
  /\ temp = None /\ local = (IF Overwrite THEN Old ELSE None)
  /\ call = [t \in Threads |-> Idle]
  /\ sent = [chunks |-> {}, meta |-> FALSE, orderly |-> TRUE, calls |-> 0]
  /\ results = <<>>

At(t, where)   == call[t].at = where
Goto(t, where) == call' = [call EXCEPT ![t].at = where]
Return(t)      == call' = [call EXCEPT ![t] = Idle]

\* ctx->cv.notify_all()
NotifyAndReturn(t) ==
  call' = [u \in Threads |-> IF u = t THEN Idle
                             ELSE IF call[u].at = "waiting" THEN [call[u] EXCEPT !.at = "wait"]
                             ELSE call[u]]

-----------------------------------------------------------------------------
(* The calls.  The server announces the file first and then sends chunks;   *)
(* the threads that handle the messages may still overtake each other.      *)
Enter(t, where, i) ==
  /\ At(t, "idle")
  /\ call' = [call EXCEPT ![t] = [at |-> where, chunk |-> i]]
  /\ UNCHANGED <<context, locks, files, results>>

CallMetadata(t) == ~sent.meta /\ sent' = [sent EXCEPT !.meta = TRUE] /\ Enter(t, "metadata", 0)

CallChunk(t, i) ==
  /\ sent.meta /\ i \notin sent.chunks
  /\ sent' = [sent EXCEPT !.chunks = @ \cup {i}, !.orderly = @ /\ total > 0] /\ Enter(t, "chunk", i)

CallAgain(t, i) ==
  /\ Duplicates /\ i \in sent.chunks /\ sent.calls < MaxCalls
  /\ sent' = [sent EXCEPT !.calls = @ + 1, !.orderly = FALSE] /\ Enter(t, "chunk", i)

UserCalls == {"pause", "resume", "cancel_download", "cancel_transfer", "wait", "finalize"}
CallOther(t, where) ==
  /\ sent.calls < MaxCalls
  /\ sent' = [sent EXCEPT !.calls = @ + 1] /\ Enter(t, where, 0)

-----------------------------------------------------------------------------
\* set_download_metadata: whatever the state was, the transfer is on; the file is created anew.
SetDownloadMetadata(t) ==
  /\ At(t, "metadata") /\ ctxlock = None /\ maplock = None
  /\ total' = TotalChunks /\ state' = "transferring"
  /\ temp' = {} \/ (IOFaults /\ temp' = temp)
  /\ Return(t)
  /\ UNCHANGED <<cancelled, received, locks, local, sent, results>>

Opened == IF temp = None THEN {} ELSE temp

\* Early returns: cancelled, a damaged chunk, or a file error, before or after the file is opened.
ChunkRefused(t) ==
  /\ At(t, "chunk") /\ ctxlock = None /\ maplock = None
  /\ IF cancelled THEN UNCHANGED temp ELSE IOFaults /\ temp' \in {temp, Opened}
  /\ Return(t)
  /\ UNCHANGED <<context, locks, local, sent, results>>

Stored(t) == Opened \cup {call[t].chunk}

\* The chunk is written and counted; the last one finalizes, with the mutex held.
ChunkStored(t) ==
  /\ At(t, "chunk") /\ ctxlock = None /\ maplock = None /\ ~cancelled
  /\ temp' = Stored(t)
  /\ received' = received + 1
  /\ state' = "transferring"
  /\ IF received' >= total
     THEN ctxlock' = t /\ Goto(t, "finalize")
     ELSE Return(t) /\ UNCHANGED ctxlock
  /\ UNCHANGED <<cancelled, total, maplock, local, sent, results>>

-----------------------------------------------------------------------------
(* finalize_download *)
Tell(success) == results' = Append(results, [success |-> success, known |-> total > 0, local |-> local'])

FinalizeSkipsHash(t) ==   \* mutated form: the hash is not compared
  /\ At(t, "finalize") /\ ctxlock = None /\ maplock = None
  /\ state' = "completing" /\ ctxlock' = t /\ Goto(t, "move")
  /\ UNCHANGED <<cancelled, total, received, maplock, files, sent, results>>
\* Both locks are needed, one after the other; a caller that already holds the mutex waits for ever.
FinalizeVerify(t) ==
  /\ At(t, "finalize") /\ ctxlock = None /\ maplock = None
  /\ IF VerifyHash /\ total > 0 /\ temp # Indexes
     THEN /\ state' = "failed" /\ temp' = None
          /\ UNCHANGED <<local, ctxlock>>
          /\ Tell(FALSE)
          /\ Return(t)
     ELSE /\ state' = "completing" /\ ctxlock' = t
          /\ Goto(t, "move")
          /\ UNCHANGED <<files, results>>
  /\ UNCHANGED <<cancelled, total, received, maplock, sent>>

\* The exception unlocks the context on its way out of process_download_chunk.
FinalizeThrows(t) ==
  /\ RelockThrows /\ At(t, "finalize") /\ ctxlock = t /\ maplock = None
  /\ ctxlock' = None
  /\ Return(t)
  /\ UNCHANGED <<context, maplock, files, sent, results>>

\* Remove the old file, rename the temporary one.  Only success wakes the waiting threads.
FinalizeMove(t) ==
  /\ At(t, "move")
  /\ ctxlock' = None
  /\ \/ /\ temp # None
        /\ local' = temp /\ temp' = None
        /\ state' = "completed"
        /\ Tell(TRUE) /\ NotifyAndReturn(t)
     \/ /\ temp = None \/ IOFaults
        /\ local' = (IF Overwrite THEN None ELSE local) /\ UNCHANGED temp
        /\ state' = "failed"
        /\ Tell(FALSE) /\ Return(t)
  /\ UNCHANGED <<cancelled, total, received, maplock, sent>>

-----------------------------------------------------------------------------
(* The user's calls. *)

\* pause_transfer and resume_transfer lock the map and then, keeping it, the context.
LockMap(t) ==
  /\ call[t].at \in {"pause", "resume"} /\ maplock = None
  /\ maplock' = t
  /\ Goto(t, IF At(t, "pause") THEN "pausing" ELSE "resuming")
  /\ UNCHANGED <<context, ctxlock, files, sent, results>>

PauseTransfer(t) ==
  /\ At(t, "pausing") /\ ctxlock = None
  /\ state' = (IF IsValidTransition(state, "paused") THEN "paused" ELSE state)
  /\ maplock' = None
  /\ Return(t)
  /\ UNCHANGED <<cancelled, total, received, ctxlock, files, sent, results>>

ResumeTransfer(t) ==
  /\ At(t, "resuming") /\ ctxlock = None
  /\ maplock' = None
  /\ IF IsValidTransition(state, "transferring")
     THEN state' = "transferring" /\ NotifyAndReturn(t)
     ELSE Return(t) /\ UNCHANGED state
  /\ UNCHANGED <<cancelled, total, received, ctxlock, files, sent, results>>

\* cancel_transfer hands a download to cancel_download, which asks for no valid transition.
CancelDownload(t) ==
  /\ call[t].at \in {"cancel_download", "cancel_transfer"} /\ ctxlock = None /\ maplock = None
  /\ cancelled' = TRUE /\ state' = "cancelled"
  /\ call' = [u \in Threads |-> IF u = t THEN [call[t] EXCEPT !.at = IF @ = "cancel_download" THEN "remove"
                                                                                      ELSE "remove_unlock"]
                                ELSE IF call[u].at = "waiting" THEN [call[u] EXCEPT !.at = "wait"]
                                ELSE call[u]]
  /\ UNCHANGED <<total, received, locks, files, sent, results>>

\* The temporary file is removed after the locks were released.
CancelRemoves(t) ==
  /\ call[t].at \in {"remove", "remove_unlock"}
  /\ temp' = None
  /\ IF At(t, "remove") THEN Return(t) ELSE Goto(t, "unlock")
  /\ UNCHANGED <<context, locks, local, sent, results>>

(* cancel_transfer ran the destructor of its lock_guard by hand before it    *)
(* called cancel_download; at the end of the scope it runs once more, and    *)
(* releases download_mutex whoever holds it.                                *)
UnlockAgain(t) ==
  /\ At(t, "unlock")
  /\ maplock' = None
  /\ Return(t)
  /\ UNCHANGED <<context, ctxlock, files, sent, results>>

\* wait_for_transfer returns in a terminal state and sleeps on the cv otherwise.
WaitForTransfer(t) ==
  /\ At(t, "wait") /\ ctxlock = None /\ maplock = None
  /\ IF state \in Terminal THEN Return(t) ELSE Goto(t, "waiting")
  /\ UNCHANGED <<context, locks, files, sent, results>>

-----------------------------------------------------------------------------
Step(t) ==
  \/ SetDownloadMetadata(t) \/ ChunkRefused(t) \/ ChunkStored(t)
  \/ FinalizeVerify(t) \/ FinalizeThrows(t) \/ FinalizeMove(t)
  \/ LockMap(t) \/ PauseTransfer(t) \/ ResumeTransfer(t)
  \/ CancelDownload(t) \/ CancelRemoves(t) \/ UnlockAgain(t)
  \/ WaitForTransfer(t)

Call(t) ==
  \/ CallMetadata(t)
  \/ \E i \in Indexes : CallChunk(t, i) \/ CallAgain(t, i)
  \/ \E where \in UserCalls : CallOther(t, where)

Next == \E t \in Threads : Step(t) \/ Call(t)

Spec == Init /\ [][Next]_vars

-----------------------------------------------------------------------------

(* With verification on and the hash known, complete_callback reports       *)
(* success only when every chunk is in the file at local_path, whatever     *)
(* cancel_download removed and whatever arrived between the comparison of   *)
(* the hash and the move.                                                   *)
CompletedIntact ==
  VerifyHash => \A k \in DOMAIN results :
                  results[k].success /\ results[k].known => results[k].local = Indexes

=============================================================================

--------------------------- MODULE ClientTransfers ---------------------------
(***************************************************************************)
(* client/file_transfer_client.cpp: the connection, uploads, and batches   *)
(* of uploads or downloads, used by several threads.  What happens inside  *)
(* a download is in ClientDownload; here its state changes as the messages *)
(* of the server change it there.  Nothing sends the data of an upload:    *)
(* an upload stays in the state transferring until the user cancels it.    *)
(*                                                                         *)
(* A step of a batch operation is one transfer's: the batch's own mutex is *)
(* not held over them.                                                     *)
(***************************************************************************)
EXTENDS ClientStates, Naturals, Sequences, FiniteSets, FiniteSetsExt

CONSTANTS
  BatchSizes,     \* how many files a batch may have
  MaxConcurrent,  \* batch_options.max_concurrent, its values
  MaxTransfers    \* bound: so many transfers are started

ASSUME ClientAssumption ==
  /\ BatchSizes \subseteq Nat \ {0} /\ MaxConcurrent \subseteq Nat
  /\ MaxTransfers \in Nat /\ MaxCalls \in Nat

VARIABLES
  cstate,     \* current_state of the connection
  transfers,  \* the contexts by handle: dir, state, cancelled (of a download)
  batches,    \* the batch contexts by handle
  op,         \* thread -> the call it is in
  calls,      \* how many were made
  waits,      \* history: batch -> how many waits were begun
  gone        \* history: the batches whose cancel_batch returned

transfersVars == <<cstate, transfers, batches, op, calls, waits, gone>>

NoOp == [pc |-> "idle"]

TransfersInit ==
  /\ cstate \in {"disconnected", "connected"} /\ transfers = <<>> /\ batches = <<>>
  /\ op = [t \in Threads |-> NoOp] /\ calls = 0 /\ waits = <<>> /\ gone = {}

OpAt(t, pc)   == op[t].pc = pc
Returns(t)    == op' = [op EXCEPT ![t] = NoOp]
OpGoes(t, pc) == op' = [op EXCEPT ![t].pc = pc]
Called(t, o) ==
  /\ OpAt(t, "idle") /\ calls < MaxCalls /\ calls' = calls + 1 /\ op' = [op EXCEPT ![t] = o]

\* ctx->cv.notify_all() of a transfer, and the caller's own next place
NotifyAll(t, id, next) ==
  op' = [u \in Threads |-> IF u = t THEN next
                           ELSE IF op[u].pc = "asleep" /\ op[u].id = id THEN [op[u] EXCEPT !.pc = "wait"]
                           ELSE op[u]]

-----------------------------------------------------------------------------
(* connect and disconnect look at the state and change it later *)
Connect(t) ==
  /\ cstate \notin {"connected", "connecting"} /\ Called(t, [pc |-> "connecting"])
  /\ UNCHANGED <<cstate, transfers, batches, waits, gone>>
ConnectBegins(t) ==
  /\ OpAt(t, "connecting") /\ cstate' = "connecting" /\ OpGoes(t, "starting")
  /\ UNCHANGED <<transfers, batches, calls, waits, gone>>
ConnectEnds(t) ==
  /\ OpAt(t, "starting") /\ cstate' \in {"connected", "disconnected"} /\ Returns(t)
  /\ UNCHANGED <<transfers, batches, calls, waits, gone>>

Disconnect(t) ==
  /\ cstate = "connected" /\ Called(t, [pc |-> "stopping"])
  /\ UNCHANGED <<cstate, transfers, batches, waits, gone>>
DisconnectEnds(t) ==
  /\ OpAt(t, "stopping") /\ Returns(t) /\ (cstate' = "disconnected" \/ UNCHANGED cstate)
  /\ UNCHANGED <<transfers, batches, calls, waits, gone>>

-----------------------------------------------------------------------------
(* upload_file and download_file: the connection, then the file, are looked *)
(* at; the next handle is the new context's.                                *)
NewContext(dir) ==
  [dir |-> dir, state |-> IF dir = "up" THEN "transferring" ELSE "initializing", cancelled |-> FALSE]
CanStart == cstate = "connected" /\ Len(transfers) < MaxTransfers

UploadFile(t) ==
  /\ CanStart /\ Called(t, NoOp)
  /\ transfers' = Append(transfers, NewContext("up"))
  /\ UNCHANGED <<cstate, batches, waits, gone>>

(* upload_files and download_files: files are started one after the other  *)
(* while fewer than max_concurrent run.  The results of all files are there *)
(* from the start: a batch_file_result says success = false and names no    *)
(* file until one is recorded.                                              *)
NotStarted == [named |-> FALSE, success |-> FALSE]
Succeeded  == [named |-> TRUE, success |-> TRUE]
Failed     == [named |-> TRUE, success |-> FALSE]

NewBatch(dir, n) ==
  [dir |-> dir, ids |-> <<>>, completed |-> 0, failed |-> 0, running |-> 0,
   results |-> [i \in 1..n |-> NotStarted], cancelled |-> FALSE, paused |-> FALSE]

StartBatch(t, dir, n, max, continue) ==
  /\ cstate = "connected" /\ Len(transfers) + n <= MaxTransfers
  /\ Called(t, [pc |-> "fill", batch |-> NewBatch(dir, n), n |-> n, max |-> max, i |-> 1, continue |-> continue])
  /\ UNCHANGED <<cstate, transfers, batches, waits, gone>>

More(o) == o.i <= o.n /\ o.batch.running < o.max

StartOne(t) ==
  LET o == op[t]
  IN /\ OpAt(t, "fill") /\ More(o) /\ CanStart
     /\ transfers' = Append(transfers, NewContext(o.batch.dir))
     /\ op' = [op EXCEPT ![t].i = @ + 1,
                         ![t].batch = [o.batch EXCEPT !.ids = Append(@, Len(transfers) + 1), !.running = @ + 1]]
     /\ UNCHANGED <<cstate, batches, calls, waits, gone>>

\* the connection went away or the file cannot be read
WithoutFileCounted(o) ==   \* mutated form: the failure is recorded and not counted
  [o.batch EXCEPT !.ids = Append(@, 0), !.results[o.i] = Failed]
WithoutFile(o) ==
  [o.batch EXCEPT !.ids = Append(@, 0), !.failed = @ + 1, !.results[o.i] = Failed]

StartFails(t) ==
  LET o == op[t]
  IN /\ OpAt(t, "fill") /\ More(o)
     /\ IF o.continue THEN op' = [op EXCEPT ![t].i = @ + 1, ![t].batch = WithoutFile(o)]
        ELSE Returns(t)   \* the transfers already started go on, and no batch knows of them
     /\ UNCHANGED <<cstate, transfers, batches, calls, waits, gone>>

(* A file that was not started stays so.  The ones that failed to start    *)
(* are entered a second time, so that get_result's total_files is too high. *)
Queued(o) == [i \in 1..(o.n - o.batch.running) |-> 0]
StoreBatch(t) ==
  LET o == op[t]
  IN /\ OpAt(t, "fill") /\ ~More(o) /\ Returns(t)
     /\ batches' = Append(batches, [o.batch EXCEPT !.ids = @ \o Queued(o)])
     /\ waits' = Append(waits, 0)
     /\ UNCHANGED <<cstate, transfers, calls, gone>>

-----------------------------------------------------------------------------
(* One transfer: pause_transfer, resume_transfer, cancel_transfer *)
StateSet(id, s) == transfers' = [transfers EXCEPT ![id].state = s]
MayBecome(id, s) == IsValidTransition(transfers[id].state, s)

Proceeds(t, next) == op' = [op EXCEPT ![t] = next]

PauseOne(t, id, next) ==
  /\ Proceeds(t, next)
  /\ IF MayBecome(id, "paused") THEN StateSet(id, "paused") ELSE UNCHANGED transfers
ResumeAnyway(t, id, next) ==   \* mutated form: whatever the state was
  StateSet(id, "transferring") /\ NotifyAll(t, id, next)
ResumeOne(t, id, next) ==
  IF MayBecome(id, "transferring") THEN StateSet(id, "transferring") /\ NotifyAll(t, id, next)
  ELSE Proceeds(t, next) /\ UNCHANGED transfers
\* cancel_download asks for no valid transition
CancelSilently(t, id, next) ==   \* mutated form: nobody is notified
  Proceeds(t, next) /\ transfers' = [transfers EXCEPT ![id].state = "cancelled", ![id].cancelled = TRUE]
CancelOne(t, id, next) ==
  IF transfers[id].dir = "down"
  THEN transfers' = [transfers EXCEPT ![id].state = "cancelled", ![id].cancelled = TRUE] /\ NotifyAll(t, id, next)
  ELSE IF MayBecome(id, "cancelled") THEN StateSet(id, "cancelled") /\ NotifyAll(t, id, next)
  ELSE Proceeds(t, next) /\ UNCHANGED transfers

OneTransfer(t, id) ==
  /\ OpAt(t, "idle") /\ calls < MaxCalls /\ calls' = calls + 1
  /\ (PauseOne(t, id, NoOp) \/ ResumeOne(t, id, NoOp) \/ CancelOne(t, id, NoOp))
  /\ UNCHANGED <<cstate, batches, waits, gone>>

-----------------------------------------------------------------------------
(* pause_batch, resume_batch, cancel_batch: the flag, then each transfer,  *)
(* whose status is looked at first and then changed.                       *)
EachOf(t, what, b) ==
  /\ Called(t, [pc |-> what, b |-> b, i |-> 1, go |-> FALSE])
  /\ batches' = [batches EXCEPT ![b].paused = IF what = "pause" THEN TRUE ELSE IF what = "resume" THEN FALSE ELSE @,
                                ![b].cancelled = @ \/ what = "cancel"]
  /\ UNCHANGED <<cstate, transfers, waits, gone>>

Following(t) == [op[t] EXCEPT !.i = @ + 1]
IdNow(t)     == batches[op[t].b].ids[op[t].i]
Left(t)      == op[t].i <= Len(batches[op[t].b].ids)

Wanted(what, s) ==
  \/ what = "pause" /\ s = "transferring"
  \/ what = "resume" /\ s = "paused"
  \/ what = "cancel" /\ s \notin Terminal

LookAt(t) ==
  /\ op[t].pc \in {"pause", "resume", "cancel"} /\ Left(t) /\ ~op[t].go
  /\ Proceeds(t, IF IdNow(t) # 0 /\ Wanted(op[t].pc, transfers[IdNow(t)].state)
                 THEN [op[t] EXCEPT !.go = TRUE] ELSE Following(t))
  /\ UNCHANGED <<cstate, transfers, batches, calls, waits, gone>>

Change(t) ==
  LET next == [Following(t) EXCEPT !.go = FALSE]
  IN /\ op[t].pc \in {"pause", "resume", "cancel"} /\ op[t].go
     /\ \/ OpAt(t, "pause") /\ PauseOne(t, IdNow(t), next)
        \/ OpAt(t, "resume") /\ ResumeOne(t, IdNow(t), next)
        \/ OpAt(t, "cancel") /\ CancelOne(t, IdNow(t), next)
     /\ UNCHANGED <<cstate, batches, calls, waits, gone>>

EachDone(t) ==
  /\ op[t].pc \in {"pause", "resume", "cancel"} /\ ~Left(t) /\ Returns(t)
  /\ gone' = gone \cup (IF OpAt(t, "cancel") THEN {op[t].b} ELSE {})
  /\ UNCHANGED <<cstate, transfers, batches, calls, waits>>

-----------------------------------------------------------------------------
(* wait_for_batch waits for each transfer in turn, by wait_for_transfer,   *)
(* and counts what it got; a wait that timed out is counted as a failure.  *)
WaitForBatch(t, b, timed) ==
  /\ Called(t, [pc |-> "next", b |-> b, i |-> 1, id |-> 0, timed |-> timed])
  /\ waits' = [waits EXCEPT ![b] = @ + 1]
  /\ UNCHANGED <<cstate, transfers, batches, gone>>

WaitNext(t) ==
  /\ OpAt(t, "next")
  /\ op' = [op EXCEPT ![t] = IF ~Left(t) THEN NoOp
                             ELSE IF IdNow(t) = 0 THEN Following(t)
                             ELSE [op[t] EXCEPT !.pc = "wait", !.id = IdNow(t)]]
  /\ UNCHANGED <<cstate, transfers, batches, calls, waits, gone>>

\* in_progress_count is a size_t: it wraps below 0, which the model leaves at 0
WithResult(x, i, ok) ==
  [x EXCEPT !.completed = @ + (IF ok THEN 1 ELSE 0), !.failed = @ + (IF ok THEN 0 ELSE 1),
            !.running = IF @ > 0 THEN @ - 1 ELSE 0,
            !.results[i] = IF ok THEN Succeeded ELSE Failed]
Recorded(t, ok) == batches' = [batches EXCEPT ![op[t].b] = WithResult(@, op[t].i, ok)]

WaitForOne(t) ==
  /\ OpAt(t, "wait")
  /\ IF transfers[op[t].id].state \in Terminal
     THEN /\ Recorded(t, transfers[op[t].id].state = "completed")
          /\ op' = [op EXCEPT ![t] = [Following(t) EXCEPT !.pc = "next"]]
     ELSE OpGoes(t, "asleep") /\ UNCHANGED batches
  /\ UNCHANGED <<cstate, transfers, calls, waits, gone>>

WaitTimesOut(t) ==
  /\ OpAt(t, "asleep") /\ op[t].timed
  /\ \/ Recorded(t, FALSE) /\ op' = [op EXCEPT ![t] = [Following(t) EXCEPT !.pc = "next"]]
     \/ Returns(t) /\ UNCHANGED batches                    \* the deadline is met before the next wait
  /\ UNCHANGED <<cstate, transfers, calls, waits, gone>>

-----------------------------------------------------------------------------
(* A download, as the server's messages change it: its announcement and,   *)
(* unless it was cancelled, each chunk put it into the state transferring; *)
(* finalize_download ends it and wakes those who wait only on success.     *)
DownloadGoesOn(id) ==
  /\ transfers[id].dir = "down" /\ transfers[id].state \in {"initializing", "transferring", "paused"}
  /\ StateSet(id, "transferring") /\ UNCHANGED <<cstate, batches, op, calls, waits, gone>>
DownloadFails(id) ==
  /\ transfers[id].dir = "down" /\ transfers[id].state \in {"transferring", "paused"}
  /\ StateSet(id, "failed") /\ UNCHANGED <<cstate, batches, op, calls, waits, gone>>
DownloadCompletes(id) ==
  /\ transfers[id].dir = "down" /\ transfers[id].state \in {"transferring", "paused"}
  /\ StateSet(id, "completed")
  /\ op' = [u \in Threads |-> IF op[u].pc = "asleep" /\ op[u].id = id THEN [op[u] EXCEPT !.pc = "wait"] ELSE op[u]]
  /\ UNCHANGED <<cstate, batches, calls, waits, gone>>

-----------------------------------------------------------------------------
ByHandle(t) == \E id \in DOMAIN transfers : OneTransfer(t, id)
ByBatchHandle(t) ==
  \E b \in DOMAIN batches :
    \/ \E what \in {"pause", "resume", "cancel"} : EachOf(t, what, b)
    \/ \E timed \in BOOLEAN : WaitForBatch(t, b, timed)
User(t) ==
  \/ Connect(t) \/ Disconnect(t) \/ UploadFile(t)
  \/ \E dir \in {"up", "down"}, n \in BatchSizes, max \in MaxConcurrent, c \in BOOLEAN :
       StartBatch(t, dir, n, max, c)
  \/ ByHandle(t) \/ ByBatchHandle(t)

OpStep(t) ==
  \/ ConnectBegins(t) \/ ConnectEnds(t) \/ DisconnectEnds(t)
  \/ StartOne(t) \/ StartFails(t) \/ StoreBatch(t)
  \/ LookAt(t) \/ Change(t) \/ EachDone(t)
  \/ WaitNext(t) \/ WaitForOne(t) \/ WaitTimesOut(t)

Server == \E id \in DOMAIN transfers : DownloadGoesOn(id) \/ DownloadFails(id) \/ DownloadCompletes(id)

TransfersNext == (\E t \in Threads : User(t) \/ OpStep(t)) \/ Server

\* a thread that can go on does; nothing is assumed of the server
TransfersSpec == TransfersInit /\ [][TransfersNext]_transfersVars /\ \A t \in Threads : WF_transfersVars(OpStep(t))

-----------------------------------------------------------------------------
\* get_result and get_batch_individual_handles
GetResult(b) ==
  [total |-> Len(batches[b].ids), succeeded |-> batches[b].completed, failed |-> batches[b].failed,
   files |-> batches[b].results]
Handles(b)   == {batches[b].ids[i] : i \in DOMAIN batches[b].ids} \ {0}

(* A batch that is waited for once, whatever is paused, cancelled and      *)
(* failing meanwhile, counts each file once and as its result says:        *)
(* succeeded is the number of file_results with success, and failed that   *)
(* of the results that name their file and have no success.  A file that   *)
(* was never started, or that a wait cut short by its deadline did not     *)
(* come to, is listed with success = false and no name, and counted as     *)
(* neither.                                                                *)
CountsMatchResults ==
  \A b \in DOMAIN batches :
    LET x == GetResult(b)
        Good == {i \in DOMAIN x.files : x.files[i].success}
        Bad  == {i \in DOMAIN x.files : x.files[i].named /\ ~x.files[i].success}
    IN waits[b] <= 1 => x.succeeded = Cardinality(Good) /\ x.failed = Cardinality(Bad)

(* Once cancel_batch has returned no upload of the batch runs, and none    *)
(* runs again, whichever pause or resume of it was under way then.         *)
CancelledStays ==
  \A b \in gone : batches[b].dir = "up" => \A id \in Handles(b) : transfers[id].state = "cancelled"

(* wait_for_batch sleeps until it is notified: who waits for a batch of    *)
(* uploads does not sleep for ever once the batch is cancelled.            *)
CancelReleases ==
  \A t \in Threads : []<>~(OpAt(t, "asleep") /\ batches[op[t].b].dir = "up" /\ op[t].b \in gone)
=============================================================================

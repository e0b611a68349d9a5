---------------------------- MODULE ServerPipeline ----------------------------
(***************************************************************************)
(* server/server_pipeline.cpp and server/pipeline_jobs.cpp: chunks pass    *)
(* through a chain of jobs on one thread pool,                             *)
(*                                                                         *)
(*    upload    decompress -> [decrypt] -> verify -> write                 *)
(*    download  read -> [encrypt] -> compress -> send                      *)
(*                                                                         *)
(* A job is two steps of its worker: taking it from the queue, with the    *)
(* check of the running flag that every do_work starts with, and the rest, *)
(* which ends in a callback or in the enqueueing of the next job.          *)
(*                                                                         *)
(* The bytes of a chunk are a body under layers: <<"E", "C">> is a body    *)
(* that was encrypted and then compressed.  A checksum is the body it was  *)
(* computed from (CRC-32 is taken to tell the bodies apart).  The pool is  *)
(* kcenon::thread::thread_pool, seen as src/ uses it: enqueue is FIFO and  *)
(* refused once the pool is stopping; stop(false) runs what is queued,     *)
(* stop(true) discards it; both return when the workers are idle.          *)
(***************************************************************************)
EXTENDS Naturals, Sequences, FiniteSets

CONSTANTS
  Clients,      \* threads that call the pipeline
  Workers,      \* threads of the pool
  Uploads,      \* chunks to upload
  Downloads,    \* chunks to download
  Ciphers,      \* the settings of encryption to start from
  StopModes,    \* wait_for_completion values stop is called with
  StartFaults,  \* thread_pool::start may fail
  Nothing

Items == Uploads \cup Downloads

ASSUME PipelineAssumption ==
  /\ Uploads \cap Downloads = {}
  /\ Ciphers \subseteq {"off", "keyless", "keyed"}
  /\ StartFaults \in BOOLEAN /\ StopModes \subseteq BOOLEAN
  /\ Nothing \notin Items \cup Clients

Bodies == {"whole", "short", "damaged"}
Layers == {<<>>, <<"E">>, <<"C">>, <<"E", "C">>}
Stages == {"decompress", "decrypt", "verify", "write", "read", "encrypt", "compress", "send"}

\* pipeline_chunk: is_compressed, is_encrypted, enc_metadata, checksum
Chunks == [body : Bodies, layers : Layers, comp : BOOLEAN, enc : BOOLEAN, meta : BOOLEAN,
           sum : Bodies]

\* A worker without a job: Nothing is not one of the jobs (pipeline_job_base).
ASSUME NothingIsNoJob == Nothing \notin [stage : Stages, item : Items, chunk : Chunks]

VARIABLES
  cipher,     \* encryption: off, enabled with engines that hold no key, or with one
  running,    \* the atomic flag
  pool,       \* new | started | stopping | stopped
  queue,      \* the pool's jobs
  work,       \* worker -> the job it is executing, or Nothing
  calling,    \* client -> the call it is in
  processed,  \* statistics.chunks_processed
  accepted,   \* history: the chunks whose submission returned success
  ends,       \* history: how each chunk left the pipeline, in order
  given,      \* history: the chunk the final callback was given
  halted      \* history: running has been cleared

pipelineVars == <<cipher, running, pool, queue, work, calling, processed, accepted, ends, given, halted>>

NoCall == [op |-> "none", item |-> Nothing, wait |-> FALSE]
Blank  == [body |-> "whole", layers |-> <<>>, comp |-> FALSE, enc |-> FALSE, meta |-> FALSE,
           sum |-> "whole"]

EncryptionEnabled == cipher # "off"    \* config.enable_encryption
EngineKeyed       == cipher = "keyed"  \* has_key of the workers' engines

PipelineInit ==
  /\ cipher \in Ciphers
  /\ running = FALSE /\ pool = "new"
  /\ queue = <<>> /\ work = [w \in Workers |-> Nothing]
  /\ calling = [c \in Clients |-> NoCall]
  /\ processed = 0
  /\ accepted = {} /\ ends = [i \in Items |-> <<>>] /\ given = [i \in Items |-> Nothing]
  /\ halted = FALSE

-----------------------------------------------------------------------------
(* Chunks as a peer sends them: its own pipeline encrypted and compressed   *)
(* the body or not, and the way here may have damaged the bytes.            *)
Has(l, layers) == \E k \in DOMAIN layers : layers[k] = l
Arriving ==
  {[body |-> b, layers |-> ls, comp |-> Has("C", ls), enc |-> Has("E", ls), meta |-> Has("E", ls),
    sum |-> "whole"] : b \in {"whole", "damaged"}, ls \in Layers}

-----------------------------------------------------------------------------
(* What the jobs do to a chunk: the set of possible results, each the next *)
(* stage, or "delivered" or "reported" for the callback it ends with.      *)
Result(to, chunk) == [to |-> to, chunk |-> chunk]
Top(chunk)   == chunk.layers[Len(chunk.layers)]
Strip(chunk) == [chunk EXCEPT !.layers = SubSeq(@, 1, Len(@) - 1)]
Wrap(l, chunk) == [chunk EXCEPT !.layers = Append(@, l)]

AfterDecompress(chunk) == IF EncryptionEnabled /\ chunk.enc THEN "decrypt" ELSE "verify"

\* compression_engine: compress packs the bytes, decompress gives back what was packed.
Compressed(chunk)   == Wrap("C", chunk)
Decompressed(chunk) == Strip(chunk)

\* decompress_job: damaged bytes fail to decompress, or decompress to damaged ones.
DecompressJob(chunk) ==
  IF ~chunk.comp THEN {Result(AfterDecompress(chunk), chunk)}
  ELSE (IF Has("C", chunk.layers) /\ Top(chunk) = "C"
        THEN {Result(AfterDecompress(chunk), [Decompressed(chunk) EXCEPT !.comp = FALSE])} ELSE {})
       \cup (IF chunk.body = "damaged" \/ ~Has("C", chunk.layers) \/ Top(chunk) # "C"
             THEN {Result("reported", chunk)} ELSE {})

\* decrypt_job: without a key or without metadata the chunk passes as it is.
DecryptJob(chunk) ==
  IF ~(EngineKeyed /\ chunk.meta) THEN {Result("verify", chunk)}
  ELSE IF chunk.body # "damaged" /\ chunk.layers = <<"E">>
       THEN {Result("verify", [Strip(chunk) EXCEPT !.enc = FALSE, !.meta = FALSE])}
       ELSE {Result("reported", chunk)}

VerifyNothing(chunk) == {Result("write", chunk)}   \* mutated form: no comparison
VerifyJob(chunk) ==
  {Result(IF chunk.layers = <<>> /\ chunk.body = chunk.sum THEN "write" ELSE "reported", chunk)}

WriteJob(chunk) == {Result("delivered", chunk)}

\* read_job: the file cannot be opened, or ends early, or holds the whole chunk.
ReadJob(chunk) ==
  {Result("reported", chunk)}
  \cup {Result(IF EncryptionEnabled THEN "encrypt" ELSE "compress",
               [chunk EXCEPT !.body = b, !.sum = b]) : b \in {"whole", "short"}}

EncryptNoMeta(chunk) ==   \* mutated form: the metadata is not kept
  IF EngineKeyed THEN {Result("compress", [Wrap("E", chunk) EXCEPT !.enc = TRUE])}
  ELSE {Result("compress", chunk)}
EncryptJob(chunk) ==
  IF ~EngineKeyed THEN {Result("compress", chunk)}
  ELSE {Result("reported", chunk),
        Result("compress", [Wrap("E", chunk) EXCEPT !.enc = TRUE, !.meta = TRUE])}

\* compress_job: only when the data is compressible and becomes smaller.
CompressJob(chunk) ==
  {Result("send", chunk), Result("send", [Compressed(chunk) EXCEPT !.comp = TRUE])}

SendJob(chunk) == {Result("delivered", chunk)}

DoWork(stage, chunk) ==
  CASE stage = "decompress" -> DecompressJob(chunk)
    [] stage = "decrypt"    -> DecryptJob(chunk)
    [] stage = "verify"     -> VerifyJob(chunk)
    [] stage = "write"      -> WriteJob(chunk)
    [] stage = "read"       -> ReadJob(chunk)
    [] stage = "encrypt"    -> EncryptJob(chunk)
    [] stage = "compress"   -> CompressJob(chunk)
    [] stage = "send"       -> SendJob(chunk)

Job(stage, item, chunk) == [stage |-> stage, item |-> item, chunk |-> chunk]
OpenWithRoom == pool \in {"new", "started"} /\ queue = <<>>   \* mutated form: a queue of one job
Open == pool \in {"new", "started"}   \* thread_pool::enqueue succeeds
End(item, how) == ends' = [ends EXCEPT ![item] = Append(@, how)]

-----------------------------------------------------------------------------
(* start and stop. *)
ReturnTo(c) == calling' = [calling EXCEPT ![c] = NoCall]

Enter(c, op, wait) == calling' = [calling EXCEPT ![c] = [op |-> op, item |-> Nothing, wait |-> wait]]

\* start and stop read the flag and then write it: two callers may both pass.
StartCheck(c) ==
  /\ calling[c] = NoCall /\ ~running /\ pool \in {"new", "started"}
  /\ Enter(c, "set", FALSE)
  /\ UNCHANGED <<running, pool, queue, work, processed, accepted, ends, given, halted>>

StopCheck(c, wait) ==
  /\ calling[c] = NoCall /\ running
  /\ Enter(c, "clear", wait)
  /\ UNCHANGED <<running, pool, queue, work, processed, accepted, ends, given, halted>>

\* start sets the flag before it starts the pool, stop clears it before it waits.
SetRunning(c) ==
  /\ \/ calling[c].op = "set" /\ running' = TRUE /\ Enter(c, "start", FALSE) /\ UNCHANGED halted
     \/ calling[c].op = "clear" /\ running' = FALSE /\ Enter(c, "stop", calling[c].wait) /\ halted' = TRUE
  /\ UNCHANGED <<pool, queue, work, processed, accepted, ends, given>>

StartPool(c) ==
  /\ calling[c].op = "start"
  /\ \/ pool' = (IF pool = "new" THEN "started" ELSE pool) /\ UNCHANGED <<running, halted>>
     \/ StartFaults /\ running' = FALSE /\ halted' = TRUE /\ UNCHANGED pool
  /\ ReturnTo(c)
  /\ UNCHANGED <<queue, work, processed, accepted, ends, given>>

\* The jobs thread_pool::stop(true) clears: each chunk in them is gone.
Discard ==
  /\ queue' = <<>>
  /\ ends' = [i \in Items |-> IF \E k \in DOMAIN queue : queue[k].item = i
                              THEN Append(ends[i], "dropped") ELSE ends[i]]

StopPool(c) ==
  /\ calling[c].op = "stop"
  /\ IF pool \in {"stopping", "stopped"}   \* thread_pool::stop returns at once
     THEN ReturnTo(c) /\ UNCHANGED <<pool, queue, ends>>
     ELSE /\ pool' = "stopping"
          /\ calling' = [calling EXCEPT ![c].op = "join"]
          /\ IF calling[c].wait /\ pool = "started" THEN UNCHANGED <<queue, ends>> ELSE Discard
  /\ UNCHANGED <<running, work, processed, accepted, given, halted>>

JoinWorkers(c) ==
  /\ calling[c].op = "join"
  /\ queue = <<>> /\ \A w \in Workers : work[w] = Nothing
  /\ pool' = "stopped"
  /\ ReturnTo(c)
  /\ UNCHANGED <<running, queue, work, processed, accepted, ends, given, halted>>

-----------------------------------------------------------------------------
(* The three submissions: running is checked, then (after the receive       *)
(* limiter, which may hold the caller back) the first job is enqueued.      *)
Fresh(i) == i \notin accepted /\ ends[i] = <<>> /\ \A c \in Clients : calling[c].item # i

SubmitCheck(c, i, op) ==
  /\ calling[c] = NoCall /\ Fresh(i) /\ running
  /\ calling' = [calling EXCEPT ![c].op = op, ![c].item = i]
  /\ UNCHANGED <<running, pool, queue, work, processed, accepted, ends, given, halted>>

\* Success, or "Queue full - backpressure applied".
SubmitEnqueue(c, stage, chunk) ==
  /\ IF Open
     THEN queue' = Append(queue, Job(stage, calling[c].item, chunk))
          /\ accepted' = accepted \cup {calling[c].item}
     ELSE UNCHANGED <<queue, accepted>>
  /\ ReturnTo(c)
  /\ UNCHANGED <<running, pool, work, processed, ends, given, halted>>

SubmitUploadChunk(c) ==
  calling[c].op \in {"upload", "try_upload"}
  /\ \E chunk \in Arriving : SubmitEnqueue(c, "decompress", chunk)

\* try_submit_upload_chunk gives up when the limiter has no tokens.
TrySubmitRefused(c) ==
  /\ calling[c].op = "try_upload"
  /\ ReturnTo(c)
  /\ UNCHANGED <<running, pool, queue, work, processed, accepted, ends, given, halted>>

SubmitDownloadRequest(c) ==
  calling[c].op = "download" /\ SubmitEnqueue(c, "read", Blank)

-----------------------------------------------------------------------------
(* The workers. *)

TakeWhileRunning(w) ==   \* mutated form: workers leave the queue alone once stopped
  /\ pool = "started" /\ running /\ work[w] = Nothing /\ queue # <<>>
  /\ queue' = Tail(queue)
  /\ work' = [work EXCEPT ![w] = Head(queue)]
  /\ UNCHANGED <<running, pool, calling, processed, accepted, ends, given, halted>>

\* Take a job; a pipeline that is not running returns ok and forgets it.
Take(w) ==
  /\ pool \in {"started", "stopping"} /\ work[w] = Nothing /\ queue # <<>>
  /\ queue' = Tail(queue)
  /\ IF running
     THEN work' = [work EXCEPT ![w] = Head(queue)] /\ UNCHANGED ends
     ELSE UNCHANGED work /\ End(Head(queue).item, "dropped")
  /\ UNCHANGED <<running, pool, calling, processed, accepted, given, halted>>

\* verify_job counts what it lets through, send_job what it sends.
Counts(stage, to) == <<stage, to>> \in {<<"verify", "write">>, <<"send", "delivered">>}

\* The rest of do_work: a callback, or the next job unless the pool refuses it.
Finish(w) ==
  /\ work[w] # Nothing
  /\ \E r \in DoWork(work[w].stage, work[w].chunk) :
       /\ processed' = processed + (IF Counts(work[w].stage, r.to) THEN 1 ELSE 0)
       /\ \/ /\ r.to \in Stages /\ Open
             /\ queue' = Append(queue, Job(r.to, work[w].item, r.chunk))
             /\ UNCHANGED <<ends, given>>
          \/ /\ r.to \in Stages /\ ~Open
             /\ End(work[w].item, "dropped")
             /\ UNCHANGED <<queue, given>>
          \/ /\ r.to \notin Stages
             /\ End(work[w].item, r.to)
             /\ given' = [given EXCEPT ![work[w].item] =
                            IF r.to = "delivered" THEN r.chunk ELSE @]
             /\ UNCHANGED queue
  /\ work' = [work EXCEPT ![w] = Nothing]
  /\ UNCHANGED <<running, pool, calling, accepted, halted>>

-----------------------------------------------------------------------------
Lifecycle(c) == SetRunning(c) \/ StartPool(c) \/ StopPool(c) \/ JoinWorkers(c)

ClientStep(c) ==
  \/ StartCheck(c)
  \/ \E wait \in StopModes : StopCheck(c, wait)
  \/ \E i \in Uploads : SubmitCheck(c, i, "upload")
  \/ \E i \in Uploads : SubmitCheck(c, i, "try_upload")
  \/ \E i \in Downloads : SubmitCheck(c, i, "download")
  \/ SubmitUploadChunk(c)
  \/ TrySubmitRefused(c)
  \/ SubmitDownloadRequest(c)
  \/ Lifecycle(c)

WorkerStep(w) == Take(w) \/ Finish(w)

PipelineNext ==
  /\ \/ \E c \in Clients : ClientStep(c)
     \/ \E w \in Workers : WorkerStep(w)
  /\ UNCHANGED cipher

PipelineSpec == PipelineInit /\ [][PipelineNext]_pipelineVars

(* Every worker keeps working, and a client that has entered start or stop  *)
(* goes on; nothing obliges a client to call anything.                      *)
Fairness ==
  /\ \A w \in Workers : WF_pipelineVars(WorkerStep(w) /\ UNCHANGED cipher)
  /\ \A c \in Clients : WF_pipelineVars(Lifecycle(c) /\ UNCHANGED cipher)

FairSpec == PipelineSpec /\ Fairness

-----------------------------------------------------------------------------
Dropped(i) == \E k \in DOMAIN ends[i] : ends[i][k] = "dropped"
InStage(s) == {i \in Items : \/ \E k \in DOMAIN queue : queue[k].stage = s /\ queue[k].item = i
                            \/ \E w \in Workers : /\ work[w] # Nothing
                                                  /\ work[w].stage = s /\ work[w].item = i}

(* What on_upload_complete_cb is told of was decompressed, decrypted and    *)
(* checked: the bytes the peer computed the checksum from, whatever layers  *)
(* it applied and whatever happened to them on the way (verify_job).        *)
UploadedIntact ==
  \A i \in Uploads : given[i] # Nothing => given[i].layers = <<>> /\ given[i].body = given[i].sum

(* The upload chain turns the chunk back into the bytes read_job read.      *)
Undone(chunk) ==
  \A r \in DecompressJob(chunk) :
    \A s \in (IF r.to = "decrypt" THEN DecryptJob(r.chunk) ELSE {r}) :
      /\ s.to = "verify" /\ s.chunk.body = chunk.body
      /\ \A v \in VerifyJob(s.chunk) : v.to = "write"

(* What on_download_ready_cb is given can be undone: the upload chain of a  *)
(* peer with the same settings turns it back into the bytes read_job read,  *)
(* i.e. the two chains apply and remove their layers in matching order and  *)
(* with the flags and metadata that this needs.                             *)
DownloadRestorable == \A i \in Downloads : given[i] # Nothing => Undone(given[i])

(* Until the first stop no accepted chunk disappears: it is in a    *)
(* job or has ended in a callback (no enqueue between stages is refused).   *)
NoneLostWhileRunning ==
  ~halted => \A i \in accepted :
               /\ ~Dropped(i)
               /\ ends[i] = <<>> <=> \E s \in Stages : i \in InStage(s)

(* Every accepted chunk leaves the pipeline, stopped or not: nothing is     *)
(* stuck in the queue or behind a stop, since time and again all that were  *)
(* accepted so far have left.  (What is accepted before a start of the pool *)
(* that fails stays in the queue of a pool that never runs.)                *)
AcceptedLeaves == []<>(pool # "new" => \A i \in accepted : ends[i] # <<>>)

=============================================================================

# Verification of file_trans_system

TLA+ models of the file transfer library in `src/`, checked with TLC on small
instances and, for the parts where it pays, proved with TLAPS for every
instance. `PROJECT.json` lists components, runs, mutants, findings, hazards and
theorems, and maps every definition to the lines it models.

## The system

The library moves files between a client and a server in chunks.

| Part | State | Operations | Talks to |
|---|---|---|---|
| `core/chunk_assembler` | sessions by transfer id, each with a bitmap, a counter and an open temporary file | start_session, process_chunk, finalize, cancel_session | file system |
| `core/resume_handler` | cached transfer states, a checkpoint counter, one JSON file per transfer | save, load, delete, mark_chunk(s)_received, list, cleanup | file system |
| `core/bandwidth_limiter` | token bucket, limit, enabled flag | acquire, try_acquire, set_limit, enable, disable, reset | clock; used by pipeline and client |
| `server/server_pipeline`, `pipeline_jobs` | running flag, thread pool, stage counters | start, stop, submit_upload_chunk, submit_download_request, one job per stage | thread pool, engines, limiter, callbacks |
| `server/quota_manager` | cached usage, quota, thresholds, policy | check, record, refresh, cleanup, set_total_quota | storage directory, callbacks |
| `core/chunk_splitter` | the file and how far it has been read | split, next, calculate_metadata | file system |
| `server/file_transfer_server` | state, port, clients, statistics | start, stop, check_upload_allowed | quota manager, network library |
| `server/storage_manager` | a primary and a secondary backend, connected or not | initialize, shutdown, store, retrieve, remove, list, change_tier, copy_between_backends | file system, cloud |
| `server/storage_policy` | rules, retention, pending actions | evaluate, evaluate_all, execute, execute_pending, can_delete | storage manager |
| `client/file_transfer_client` | transfers by handle, batches, connection state | connect, upload, download, pause, resume, cancel, wait, batches | limiter, checksum, network library |
| `transport/quic_transport`, `tcp_transport` | connection state, end points, receive queue | connect, connect_with_0rtt, disconnect, send, receive, migrate_to | network client, session resumption, migration |
| `transport/connection_migration` | current and previous paths, known interfaces, a monitor thread | migrate_to_path, probe, validate, fall back, start/stop_monitoring | operating system, the transport's callback |
| `transport/session_resumption` | tickets by server, in memory and in a file | store, retrieve, remove, cleanup, save, load | file system |
| `encryption/key_manager` | keys, metadata, versions set aside | generate, derive, rederive, rotate, delete | key storage, OpenSSL |
| `encryption/aes_gcm_engine` | key, nonce counter, stream contexts | set_key, encrypt, decrypt, chunks, streams | OpenSSL |
| `cloud/*` | connection, credentials, access token; per stream a buffer, its parts and their threads | connect, upload, download, list, delete, copy, streams | HTTP client |
| `core/statistics_collector` | byte counter, samples, times | start, record, sample, rate, reset | clock |
| `adapters/thread_pool_adapter` | futures, a count of tasks for every stage | submit, submit_delayed, submit_to_stage, pending_tasks | one of three pools |
| `adapters/*`, the others | logger, metrics | log, report | external libraries |

What is hard in it:

* *Locks that do not cover an operation.* process_chunk uses a context it
  looked up under a lock it has released; load_state, refresh_usage and
  enable() read before they lock; check_thresholds decides from a copy.
* *Locks that are taken twice.* process_download_chunk calls
  finalize_download with the mutex finalize_download needs; a quota warning is
  delivered under the mutex that resetting the warnings needs.
* *Crashes and file errors* between truncating and writing a state file,
  between removing the old file and renaming the new one, between two chunks.
* *Order*: a chunk before the announcement of its file, chunks twice, a
  cancel between the hash comparison and the move, a stop while jobs are queued.
* *Steps without a lock between them*: a batch operation asks for a status and
  acts on it later; migrations of several threads interleave; a listing goes on
  over pages while objects come and go; a rotation sets the old key aside and
  then generates the new one.
* *Parts and retries*: parts of an upload end in any order, fail, or get no
  answer; a connection that is being made times out or loses its peer.
* *Limits*: a pool's queue that has none, the capacity of the token bucket, the quota,
  64-bit sums and differences.

What makes each part correct:

| Part | Correct when |
|---|---|
| assembler | a published file is the sender's file; counter and bitmap agree; finalize's context is its own until the file is in place |
| resume handler | no chunk counts as received that nobody marked; marks and checkpoints survive what they promise to survive |
| limiter | in every window at most a bucket and the rate; every acquire returns |
| statistics | the rate is of bytes that were transferred |
| pool adapters | the count of a stage agrees with its futures |
| pipeline | only sound chunks are delivered; sent chunks can be restored; none is lost; stop drains and returns |
| quota | what is accepted fits; the cached usage is the directory's; warnings and excesses are reported |
| storage | replicas agree after what reported no failure; a removed or replaced object does not come back; protected objects are not deleted; moves end in the tier last decided |
| downloads | success means a whole file |
| batches | results and counts agree; what was cancelled stays cancelled and nobody sleeps on it |
| transports | messages arrive in order and once; every call returns; a rejected ticket is not used again |
| encryption | what was sealed can be opened until its key is given up; nonces do not repeat; a stream vouches only for what was sealed |
| cloud | a confirmed object is what was written; a listing misses nothing that was there throughout; what is read is the object; every call returns |
| server | it says it runs exactly while it listens |

## Modules

A component's module holds its state, its actions, its properties and, next to
the definitions they stand for, the mutated forms used to test the properties
(each marked `mutated form`). `MC*` modules define constants for TLC.

### ChunkAssembler (`core/chunk_assembler.cpp`)

`contexts` is `contexts_`, `heap` the contexts by address, `temp` and `final`
the files, `lock` the exclusive holder of `contexts_mutex_` between two steps.
process_chunk is `LookupContext` (under the shared lock) and then
`ProcessChunk` with the bare pointer; finalize is `FinalizeBegin`, the hash
comparison, the removal of an old file and the rename. A file is a function
from chunk positions to pieces, so that wrong offsets, holes and lost writes
show. Nothing in the code keeps a process_chunk from the context it looked up
when finalize or cancel_session has freed it, so every overlap is in the model:
what such a call reads is `Garbage`, and if the memory serves another session by
then, it stores its chunk there. `spoiled` marks the files that went through
this, through a chunk whose offset disagrees with its index, or through a close
that lost bytes: the three things nothing but a SHA-256 notices. A context's own
mutex is held over straight-line code only, so a section under it is one step
and nobody waits for it for ever.

### ChunkSplitter (`core/chunk_splitter.cpp`)

Operators: the chunks `split` makes of a file of a given size, with offsets,
flags and sizes, and which of them are still readable when the file has become
shorter. `MCChunkAssembler` feeds the assembler with them, so that what is split
is what is assembled.

### BitmapCodec, ResumeHandler (`core/resume_handler.cpp`)

`BitmapCodec` has the two conversions between a bitmap and its hex text.
`ResumeHandler` has the cache, the state files and the shared checkpoint
counter. Sections under `mutex_` are single steps; reading a state file and
installing it, reaching the interval and saving, truncating and writing are
separate steps, and the process may die between any two. Histories record
what callers marked or saved as marked (`ever`), what the handler owes an answer
for (`acked`: marked, in a state a caller saved, or told by a load) and whether a
file operation failed, a state was deleted or the process restarted
(`disturbed`). A caller may save any state of `Saved` at any time, also over one
that is marked further; a mark is owed no longer once its state is deleted,
another one is saved over it, a load that was under way before installs what it
read, or the process ends.

### TokenBucket, BandwidthLimiter (`core/bandwidth_limiter.cpp`)

`TokenBucket` is the promise: a bucket that gains `limit` bytes at every tick.
`BandwidthLimiter` is the code: nothing is added until somebody looks, and
then everything that is pending, up to the capacity. The unit of time is the
microsecond calculate_wait_time rounds to. `Bucket` is the refinement mapping:
the abstract level is what a look would find. Tokens are integers; set_limit's
rescaling rounds towards zero.

### StatisticsCollector (`core/statistics_collector.cpp`)

Recording is three steps: the atomic counter (`Record`), the comparison of the
clock with the last sample, which no lock covers (`CheckInterval`), and the
sample under `rate_mutex` (`Sample`). start writes its times and then the first
sample, reset the counter and then the samples. Between any two of these the
other thread may do anything. `mixed` says that a reset set the counter back
under samples that are still there.

### TransferPool (`adapters/thread_pool_adapter.cpp`)

`adapter` is the pool of the build. A task is counted, handed over (or refused),
fetched, run, and then its wrapper brings the count and the future up to date,
in an order that differs: thread_system's promise first, the network's count
first, async's two counts and then the future. The pools below are external, and
an adapter is taken to outlive its tasks.

`MCBandwidthLimiter` checks the limiter, the collector and the pools, which share
nothing, in one run: `part` says which of them a behaviour is of, and the other
two stay as they begin.

### ServerPipeline (`server/server_pipeline.cpp`, `server/pipeline_jobs.cpp`)

Jobs of eight stages on one pool. A job is two steps of a worker: taking it
(with the check of the running flag) and the rest of do_work, which enqueues the
next stage or calls back. A chunk is a body under layers of encryption and
compression with the flags and the checksum the code keeps beside it. The pool
is an external library, modelled as src/ uses it: FIFO, refusing once it stops.
`cipher` is fixed in a behaviour: `off` without encryption, `keyless` with the
engines server_pipeline itself creates (no caller in src/ ever gives them a
key, so they refuse every chunk), `keyed` with the engines the jobs are written
for. A pipeline is not started again after a stop, since what the pool does then
is not to be seen in src/. An acquire of the limiter is taken to return (see
BandwidthLimiter).

### QuotaManager (`server/quota_manager.cpp`, check_upload_allowed)

`usage` is the cached `current_usage`, `disk` the directory, `total` the
atomic quota. check_thresholds works on a copy (`seen`); refresh is a scan and a
later assignment. Sizes are words of `Word` values, so that sums and
differences wrap. A percentage is kept as the quotient of two integers. In src/
nobody calls the record functions; the model's uploads call them in the order
their header describes: check, store, record. A scan sees the directory at one
moment. Changing the policy, the size limit or the callbacks while the manager
is in use is left out. Histories say whether uploads took turns and whether a
refresh overlapped a record; the properties about the quota and about the cached
usage are promises for the behaviours in which they did not collide.

### FileTransferServer (`server/file_transfer_server.cpp`)

Extends QuotaManager: a server's threads start and stop it and use the quota
manager it owns. `current_state` is tested in one step and set in a later one;
the messaging server underneath is a library that is up or not and whose calls
may fail. `turns` remembers whether starts and stops overlapped.

### ClientStates, ClientDownload (`client/file_transfer_client.cpp`)

`ClientStates` has the states of a transfer and the changes is_valid_transition
allows, which downloads and batches share. `ClientDownload`: one download context, the network's three calls and the user's five, from
several threads. `ctxlock` and `maplock` are the context's mutex and
download_mutex where they are held across steps. Locking a std::mutex twice is
undefined; `RelockThrows` chooses between waiting for ever and throwing.
cancel_transfer's second unlock of download_mutex is `UnlockAgain`. The network
may repeat and reorder messages; `sent.orderly` remembers whether it did.

### StorageManager, StoragePolicy (`server/storage_manager.cpp`, `server/storage_policy.cpp`)

`objects` is what each backend stores under each key: data, the cloud's storage
class and an age. The manager holds no lock while it works, so a call is a
thread that goes through the backends, one request per step; a local store
truncates the file in one step and writes it in the next (`Torn` in between).
Any request may fail, a cloud's also after it had its effect, and a write that
fails only when the file is closed is reported as a success, as in the code.
Reading a file is one step, although the code looks at its size and then reads it:
what could fall in between is a change of that file, which a retrieve counts as a
clash anyway.
`StoragePolicy` extends the manager: an evaluation reads metadata (from one
backend or from a list, which knows no tiers), evaluates object by object and
appends to `pending`; execute and execute_pending go on to the manager's own
steps. Data, sizes, ages and patterns are what the rules tell apart.

`config` is fixed in a behaviour: the kinds of the backends, replication,
fallback, hybrid listing, whether a policy is attached, and the bounds on calls
and failing requests. A secondary backend is always there (without one, the
manager is its primary). Attaching and detaching while in use, and the
access-pattern configuration and the automatic evaluation, which the source
stores and never uses, are left out.

Four histories carry the promises. `truth` is the data a key has, `sound` where
it is: both are brought up to date when a change returns, from its result and
from the requests that failed in it. A call promises nothing for a backend in
which its steps may have fallen between those of another call for the same key
(`Clash`): in a directory any two changes, in a cloud only those that change the
data. A move that carries data from where they were not known to be sound (`Stale`)
counts as one of these from the moment it read them, since its result overwrites
every replica. A retrieve is `Judged` when it is answered: one that
has its answer from a backend not known to be sound promises nothing either.
`due` is the tier the last evaluation asked for, `vetted` the
deletions decided since the object or the retention last changed.

### ClientTransfers (`client/file_transfer_client.cpp`)

The connection, single uploads, batches, and pause, resume, cancel and wait on a
transfer or on a whole batch. A batch operation goes over its transfers one step
at a time: first a transfer's status is read, later it is acted on. A waiting
thread is `asleep` until `NotifyAll` wakes it, so that a missing notification
shows. `WithResult` is what one result of a transfer adds to its batch. The list
of results begins, as in the code, with default-constructed entries, which have
no name and success = false: those of files that are never started, or that a
wait cut short does not come to, stay so and are counted neither as succeeded
nor as failed. Inside a
download nothing is modelled here (ClientDownload does that):
its state changes as the server's messages change it. `waits` counts how often
a batch was waited for, `gone` the batches whose cancel_batch has returned.

### CloudStream, CloudStorage (`cloud/*_storage.cpp`)

`CloudStream` has the upload streams of S3, GCS and Azure: a buffer (`buf`),
the parts handed to threads of their own (`pend`, by their numbers: running,
done or failed), the wait for a slot, the collection of results by write and by finalize, and the
request that puts the object together from parts or block ids. `bucket`,
`uploads` and `blocks` are the provider. A request has a fate: it succeeds, is
refused, gets no answer before or after its effect, is answered badly.
`CloudStorage` extends it with connect and disconnect, the calls that send one
request each, the download stream of Azure, paginated listings, GCS access
tokens and the credential providers (`cred`, `env`). A behaviour follows one
scenario of `MCScenarios`: a provider, credentials, the callers and the calls
they make. Of GCS's upload stream and of the download streams of S3 and GCS the
source has the interface and sends nothing. `since` remembers which objects
were there, unchanged, since a call began.

### SessionStore, ConnectionMigration, Transport (`transport/*`)

`SessionStore` has the tickets in memory and in the file, each call under the
store's mutex; `Saves`, `Loaded` and a crash tell the two apart.
`ConnectionMigration` has the migrations, each a walk through probing,
validation, switching and, when it fails, falling back from one previous path
to the next; the application's threads and the monitor are all movers, nothing
keeps them apart. `Transport` composes both with the connection: connect in its
steps (test, start of the client, wait, conclusion), 0-RTT, disconnect, send,
receive with its sleep, and what the network client does by itself: coming up,
delivering, losing the peer. `mm` is migration_mutex where it is held across
steps; `forward` says whether events go through the callback that
set_migration_manager installs, which takes it.

### KeyDerivation, KeyManager, AesGcmEngine, Encryption (`encryption/*`)

`KeyDerivation` takes a derived key as the record of everything that went into
it, with PBKDF2 as the fallback of Argon2id. `KeyManager` has the key storage
(its own lock), the metadata and the versions set aside (the manager's lock):
a rotation is reading the key, setting it aside, generating the new one and
updating the metadata, and each can fail. As the documents ask
(encryption-layer.md:395), one thread, the owner, changes keys; all read and
rederive them. `AesGcmEngine` is one engine used by several threads, and the
stream contexts it makes; a tag stands for key, nonce, associated data and
text, and is over an unset part where initialize, whose result create_*_stream
drops, failed before it came to it. encrypt writes its counter into a nonce of
any size, generate_counter_iv only into one of at least 12 bytes; both sizes are
checked. A derived key is derived again from the metadata of the moment the
lookup read, while the owner goes on. `Encryption` composes the two as the documents do.

## Runs

| Run | Instance | Shows |
|---|---|---|
| `ca_faults` | 2 threads, 2 split files with one name, 2 chunks, any overlap, file errors, crashes and wrong offsets | VerifiedFileIntact, FinalFileIntact (a file nothing spoiled is intact also without a hash), FinalizeKeepsContext (from close to rename), QueriesAgree (counter and bitmap), RemovedOnlyForReplacement |
| `rh_run` | 2 threads, 1 transfer of 3 chunks, saved states of several kinds, file errors, restarts, deletions | RecordedWasMarked, SavedIsRead, AckedKept (what was marked, saved or told stays), CheckpointBound (the file lags by less than an interval) |
| `rh_stale` | the same, only new states, no errors, no deletions, restarts | **violated**: MarksStay; two first calls after a restart take a mark back (see below) |
| `bl_rate` | 2 callers, 1 controller, limits 0, 2, 3; 2 threads and 5 recordings; 3 tasks, 2 stages, 2 workers, the three pools | RateRespected over every window, ImplementsTokenBucket; RateStands (no rate of bytes that were not transferred); PendingIsUnready (pending_tasks of a stage against its futures) |
| `sp_run` | 2 clients, 1 worker, 1 upload, 1 download, the three ciphers, both stops, failing starts | UploadedIntact, DownloadRestorable, NoneLostWhileRunning, AcceptedLeaves |
| `qm_run` | 2 threads, every call, quotas 0, 3, 4, 6, a messaging server that may fail | ExcessIsAnnounced, TurnsKeepQuota, TracksTheDisk, RunningIsListening |
| `st_run` | 2 threads, 1 object, backends local/s3, s3/local, s3/gcs with a failing request, s3/gcs replicated with two, and three arrangements under a policy | ReadsCurrent (reads return what their backend is known to hold), HoldersHold (replicas agree after changes in which nothing failed), ProtectedStays (a deletion carried out is one can_delete allows), TierFollows (executed moves end in the tier decided last) |
| `cd_safe` | 3 threads, 2 chunks, duplicates, errors, all user calls | CompletedIntact |
| `cb_run` | 2 threads, batches of 2 files, 1 or 2 at a time, at most 2 transfers | CountsMatchResults, CancelledStays, CancelReleases |
| `cl_run` | 2 callers, 3 keys, the scenarios of MCCloudStorage | CommittedIntact, ListingComplete, StreamReadIntact, CallsEnd |
| `tr_run` | 2 threads and the monitor, 2 interfaces, 1 server, TCP and QUIC | DeliveredInOrder, RejectedGivenUp, TransportCallsReturn |
| `en_run` | 2 threads, 1 key id, nonces of 8 and 12 bytes, 1 or 2 kept versions, failures everywhere | SealedStaysReadable, RederivedIsKept (a key derived again during rotations is one still kept), NoncesApart (12 bytes), OpenedIsSealed |

### Where code and promises part

What the models show besides; each is a hazard in PROJECT.json, a condition of
a property, or a case of the model that its properties except.

* Assembler: a process_chunk that overlaps finalize or cancel_session uses a
  context that may be freed, and stores its chunk in the file of whoever has the
  memory by then; nothing but the hash notices that, a chunk whose offset
  disagrees with its index, or what close() lost; a crash between the removal of
  an old file and the rename leaves neither.
* Resume handler: a state file is truncated before it is rewritten, so a crash
  loses the transfer (SRS.md:952 promises resumption); load_state reads the
  file without the lock and installs it whatever the cache has by then, so that a
  chunk marked in between is reported missing again (the finding of rh_stale,
  against SRS.md:974); save_state puts any caller's copy over newer marks; a save
  or load that overlaps delete_state brings the state back; the checkpoint counter is shared, so with two transfers one can go
  unsaved for longer than an interval.
* Limiter: an acquire of more than the capacity never returns
  (bandwidth-throttling.md:194); small acquires can starve a large one; enable()
  reads the limit before it takes the lock and can race set_limit(0).
* Statistics: two threads that record at once take two samples for one interval,
  and can keep them out of the order of their times, so that the rate is
  negative; start keeps the bytes of the last transfer, which the second sample
  then counts as transferred since the first.
* Pool adapters: a task the pool refuses stays in the count of its stage for ever;
  with thread_system a future is ready before its count is lowered;
  pending_tasks() of async_transfer_pool is the tasks that run
  (thread_pool_adapter.h:268 says it is always 0), and it does delay tasks (line
  266 says it does not); a delayed task of thread_system sleeps in its worker;
  nothing makes an adapter outlive its tasks, which the comment at
  thread_pool_adapter.cpp:197 relies on.
* Pipeline: stop(true) clears the running flag first, so the jobs it waits for
  do nothing (server_pipeline.h:209); queue_size bounds no queue; chunks
  accepted while a start fails stay in the queue.
* Quota manager: two uploads checked before either is recorded are both
  accepted, although SRS.md:836 has the check atomic with the acceptance; a
  refresh overwrites a concurrent record; the available space and the sum of
  check_quota wrap around; a warning callback that resets the triggers waits
  for itself.
* Server: two starts at once leave the messaging server up under the state
  `stopped`, to be neither started nor stopped; two stops at once leave it down
  and `running`; a start between stop's last two assignments runs with port 0; a
  failed start leaves the port set. A server without a storage directory has no
  quota manager and refuses every upload that is not empty
  (file_transfer_server.cpp:433).
* Storage manager: a change_tier that fails to read the primary stores the
  replica's data over it, however old; a removal whose secondary part fails
  lets the object come back; overwrite = false is ignored by the clouds, so a
  cloud primary takes data its local replica refuses; a change_tier during a
  local store can make the truncated file permanent.
* Storage policy: pending deletions are carried out without asking the
  retention again; execute leaves its action pending, so that it is executed
  twice; a list maps no storage class, so evaluate_all takes every object for
  hot; a deletion rule whose target is the tier the object is in does nothing;
  age_tiering_config::delete_after is never read; exclusions count in
  can_delete only; a move makes its object young again.
* Downloads: process_download_chunk calls finalize_download with the context's
  mutex held, which it locks again (file_transfer_client.cpp:843, 862), so the
  last chunk does not end the download as api-reference.md:666 shows; terminal
  states are left; a failed download wakes nobody.
* Client: an upload sends nothing and stays `transferring` until it is
  cancelled; files beyond max_concurrent are never started, although the comment
  at file_transfer_client.cpp:1532 says they will be; files that failed to start
  are also queued, so that total_files is too large; file_results lists files
  never started as failures, which failed does not count
  (file_transfer_client.cpp:1479, 1803); a second wait for a batch
  counts every file again and in_progress_count wraps; a wait that timed out
  counts a running file as failed; without continue_on_error the transfers
  already started are orphaned; auto-reconnect is configured and never done;
  cancel_transfer unlocks download_mutex twice; a late announcement or chunk
  revives a paused download.
* Transports: migrate_to waits for itself once set_migration_manager has
  installed its callback (quic_transport.cpp:869, 930), although
  quic_transport.h:240 describes it as migrating, and stop_network_monitoring
  waits for a monitor that emits an event; two connects can run at once, and one
  that concludes after a disconnect leaves the state connected over a client
  that is down; 0-RTT is taken for accepted when the handshake completes;
  messages left in receive_queue are delivered over the next connection; TCP
  loses what arrives before its callback is installed, ignores its timeout and
  stays connected after the peer left; cancel_migration stops nothing; after a
  fallback the local end point is that of the path asked for.
* Session resumption: a removed ticket comes back when the process dies, or
  loads, before it was saved; a full store evicts another server's ticket to
  make room for a newer ticket of a server it already knows; a short write of
  the file goes unnoticed.
* Encryption: without the one owner the documents ask for, concurrent rotations
  lose a key and concurrent store_keys mix bytes and metadata; a generation that
  fails after the old key was set aside is repeated with the old key set aside
  twice, which evicts an older one; readers can see new bytes with old metadata;
  a use recorded during a rotation is lost; rederive_key holds a reference into
  the metadata after it unlocked; stream contexts are handed out although they
  could not be initialized (aes_gcm_engine.cpp:222, 230), and what one that
  missed its associated data seals cannot be opened with its metadata; a nonce of
  less than 12 bytes has no counter in it, only encrypt's own; the parameters say Argon2id also when PBKDF2
  stood in; encrypt_chunk never sets the length of its nonce, so with iv_size
  other than 12 its output cannot be read; decrypt_chunk does not check the
  index; metadata and versions live in memory only.
* Cloud: an S3 stream used on after a failed write loses that part silently; an
  Azure finalize that is repeated lists its last block twice, and two Azure
  streams on one blob share block ids; a failed S3 completion can be neither
  repeated nor aborted; requests of S3 that get no answer, or have no endpoint,
  are reported as successes; Azure's small uploads and copies and GCS's
  resumable stream send nothing; exists of Azure takes any failure for no;
  credentials without a key sign nothing; refreshing an S3 profile reads the
  default one; the download stream of Azure does not compare ETags;
  max_concurrent_parts = 0 waits for ever.

### Bounds

Two threads are the fewest at which a step of one falls between two steps of
the other, and no module has an operation in which three parties must meet;
ClientDownload has a third, so that two calls can surround a cancel. Two chunks
distinguish first from last and allow duplicates and holes; ResumeHandler has
three, so that an interval of two is exceeded. ServerPipeline needs one worker,
since jobs share nothing but atomic counters and the queue: two jobs of a chunk
never run at once. The limiter's limits 2 and 3 do not divide each other, so
that rescaling rounds. The quota of 4 against files of 1, 2 and 3 bytes reaches
below, at and above it. `MaxCalls` bounds the calls of a behaviour in
ClientDownload and QuotaManager, `maxCalls` and `maxFaults` of a configuration
those in StorageManager: three calls and one failing request (a change, a second
one beside it or after its failure, a read) for the manager, two failing requests
where both backends are replicated clouds (a replica that missed a write, and the
read that falls back to it), four calls without
failures for a policy (a store, two evaluations, an execution). One key is
enough there, since no step of a call depends on another key. `MaxAge` 2 tells young, minimum and old,
`MaxPending` 2 lets two decisions on an object be out of order; `Window` the length of the observed window in
BandwidthLimiter (time itself is not bounded: the window is reopened).
StatisticsCollector's `MaxRecords` 5 over a window of 2 samples fills it more than
twice, `MaxClock` 4 makes an interval due and not due, and `CounterWord` 16 is
above every sum of bytes, so that a difference that wrapped shows. In
TransferPool three tasks on two workers leave one waiting, and two stages tell
the counts apart. Symmetry
is used over threads, and only for safety.

ClientTransfers needs batches of two, so that one file can fail or wait beside
another, and three calls: the batch, and two operations on it that overlap.
CloudStream's `MaxUnits` 5 makes two full parts of two units and a rest;
PageSize 2 of three keys makes a second page; each scenario bounds calls and
failed requests by `maxCalls` and `maxFaults`, and the interesting pairs (a
replacement during a read, two uploads of a blob, a deletion between pages, a
refresh of credentials before a request) are scenarios of their own. In
Transport three calls are a connect, what another thread does meanwhile, and a
disconnect or a second migration; two interfaces that change twice give a fall
back to a previous path and a loss of that one too; two issued tickets with a
lifetime of one tick give expiry and a replacement. In Encryption four calls are
a generation, a use, and two rotations beyond what `Keep` keeps; `CounterWrap` 2
of three sealed texts, of which one may be a stream (`MaxStreams`), lets the counter turn, and `Word` is small enough for
Argon2's costs to overflow it.

### Fairness

Liveness is checked under weak fairness of what the scheduler and the clock
guarantee: a thread inside a call goes on when it can, a pool worker takes and
runs jobs, a request of the HTTP client is answered or times out, the monitor of
the network paths goes on, time passes, a sleep ends. Calls are never required
to be made. No fairness of locks is assumed, with one exception that is not one
of locks: a caller of a cloud stream that may still do as it likes with it
eventually lets go of it (strong fairness, since it may be writing in between).

### Deadlock

It is checked where the system can always go on (assembler, resume handler).
The limiter can as well, but shares its run with the collector and the pools,
which stop at their bounds. In the other modules the system may legitimately be left with no call
to make (calls used up, pipeline stopped, manager shut down), and the cfg says
so; threads that wait for each other or for themselves are found by the liveness
properties.

## Proofs

`ChunkAssemblerProofs`, for any set of threads, transfers, names, contexts,
chunks and any `MaxChunks`:

* `TypeCorrect`: the type invariant. It is not inductive alone: `TInv` adds
  that a call in progress has the arguments its next step reads (`CallShape`)
  and that the counter is the cardinality of the bitmap (`Counted`), which is
  what bounds the counter.
* `CounterTellsTheBitmap`: is_complete and get_missing_chunks agree. From
  `Counted` and finite cardinalities.
* `VerifiedFilesAreIntact`: a published file whose hash was checked is the
  sender's file, without any discipline of the callers, with file errors and
  crashes. `FInv` says what finalize relies on between its steps: it holds
  contexts_mutex_, its context stays the session's, the file is closed and the
  count complete, so that a process_chunk with an older pointer is refused as
  a duplicate; and a hash that was checked still describes the temporary file.
* `OldFilesAreReplaced`: finalize removes an earlier file only when a closed and
  complete replacement lies in the temp directory. `Owned` adds that each session
  has a live context of its own and a temporary file that is there.
* `FinalizeOwnsItsContext`: from its close to its rename finalize works with the
  current, live, closed context of its transfer. It follows from the same two
  invariants: contexts_mutex_ keeps everybody else from the map, not from the
  context.
* `PublishedFilesAreIntact`: every published file is the sender's, checked or not,
  unless something spoiled it, with any overlap of calls, failed writes and renames,
  and crashes. `Stored` says that the temporary file of a session nothing spoiled
  is, byte for byte, the sender's chunks at the positions of its bitmap and zeroes
  at the others (`Partly`).

`NetworkProofs`, of the limiter, for any limits, amounts, threads and windows:

* `RateIsRespected`, `DebtIsBounded`: from `RateInv`, which relates the bytes
  granted in the window to what the bucket holds and what the window allows,
  with the bucket between a debt of less than a tick and its capacity
  (`DebtBounded`, a part of the invariant that no run lists). The
  lemmas on quotients show that set_limit's rescaling keeps it.
* `LimiterImplementsBucket`: `Spec => Bucket!Spec`. Every step maps to a step
  of TokenBucket or to a stutter; the case that needs work is SetLimit, where
  rescaling the tokens and then refilling must not exceed rescaling the level.

of the statistics and the pools, for any threads, amounts, windows, tasks and stages:

* `RateIsOfBytesTransferred`: from `CollectorInv`, that while no reset is under way
  the samples' bytes ascend and stay below the counter (`Ascend`, `Below`).
  RateStands speaks of two samples only, so it is not inductive: the next
  trimming makes another sample the oldest.
* `PendingAgreesWithFutures`: from `PoolInv`, that every count is exactly the
  number of tasks at the places from its increment to its decrement
  (`Counted`, `Activated`), and that a future is ready at the wrapper's end only.

and of the transports, for any servers, threads, sizes of the store and interfaces:

* `MessagesKeepTheirOrder`: receive hands out what came in, in that order
  (`InTurn` numbers what was received and what waits in turn).
* `RejectedTicketsAreGivenUp`: a ticket a server rejected is not in the store
  again, unless the process ended or the file was read before its removal was
  saved. `Numbered` says that a number stands for one ticket of one server
  wherever it is kept, so that giving up what the server has now gives up the
  ticket it rejected; `InSync` that a store that is not dirty has all valid
  tickets of the file, so that loading brings nothing back.

`PipelineAndResumeProofs`, of the resume handler, for any threads, transfers, chunks,
batches and interval, with file errors, deletions and restarts:

* `BitmapSurvives`, for every length: what hex_string_to_bitmap reads from the
  text that bitmap_to_hex_string wrote is the bitmap. No induction is needed: a
  position is 8 * byte + bit, a byte is the sum of eight weights, and each weight
  can be read off the sum by quotient and remainder.
* `RecordedIsMarked`: neither the cache nor a readable state file reports a
  chunk nobody marked. `IInv` adds to the types what is in the threads' hands
  between two steps: a state that was read and is about to be installed, and
  the text that is about to be written, are of marked chunks too
  (`ValuesMarked`), and who is about to save has a state (`SaversHaveState`).
* `SavedStatesAreRead`: the bitmap of every cached state is what a load of its
  file returns, by BitmapSurvives.
* `TypesHold`: the types, with the checkpoint counter below its interval.
* `AcknowledgedAreKept`: what a caller marked, saved or was told by a load stays
  reported, before and after restarts, until the state is deleted, saved over, or
  loaded by a call that began before. `Acknowledged` says that it is in the cache
  at every step: a checkpoint puts back the entry it refers to as it is by then,
  not a copy. `Calm` says that, undisturbed, a state once saved is cached and no
  call reads its file, and that no reference dangles.
* `CheckpointsBound`: for the only transfer, between calls, the file lacks fewer
  chunks than the interval. `Saving` says that who holds the mutex in save_state
  writes what the cache still has, `Checkpointed` that the file lacks no more
  chunks than the counter counted, when nobody saves.

and, of the pipeline, for any clients, workers, chunks, queue sizes, starts and stops:

* `UploadsAreIntact`, `DownloadsAreRestorable`: what the callbacks are given.
  `DInv` says of the chunk in every job, queued or executing, what its stage may
  rely on (`Fits`): which layers are on it, in step with its flags, and where
  its bytes still go with its checksum.
* `NothingIsLostWhileRunning`: before a stop, an accepted chunk is in a job or
  has ended in a callback. `LInv` is about the chunks as tokens: one that is being
  submitted is nowhere else (`Submitted`), jobs are of accepted chunks that have
  not ended (`Held`), a chunk is in one place at a time (`OnePlace`), and an
  accepted one that has not ended is found in the queue or with a worker
  (`Found`).

`ClientProofs`, for any threads and chunks, with duplicates, messages that
overtake each other, file errors and every user call:

* `CompletedAreIntact`: a success told after the hash was compared is of the
  whole file. `Verified` says that from the comparison to the move
  finalize_download holds the context's mutex, and that the temporary file is
  what was compared or gone, since cancel_download removes it without the lock.

and, for any threads and any numbers of transfers and batches:

* `CountsAreResults`: of a batch waited for once, succeeded is the number of listed
  results with success, and failed that of the named ones without.
  `BatchesHold` is the part about the batches, `OneWaits` says that who waits for
  a batch that was waited for once is alone in reading its results: without that
  two waiters could record the same transfer, as the code allows.
* `CancelledForGood`: once cancel_batch has returned, the uploads of the batch are
  over and stay so. `OpsHold` says which transfers an operation on a batch has
  behind it; what a cancelling call passed is final (`GoneHold`), because a
  transfer that is over is left by no step of any thread (`GoOn`), also when
  another call read its status before.

`EncryptionProofs`, for any threads, keys, nonce sizes and pieces:

* `NoncesAreApart`: two texts with one key and one nonce are a whole turn of the
  counter apart. `DrawnOnce` says that each value of the counter was drawn once,
  by a call under way or a sealed text.
* `OpenedAreSealed`: a decrypting stream that vouches for its output gave out
  what was sealed. `TagsBind` ties a tag to the text it was computed from.
* `SealedTextsStayReadable`: what was sealed under a key of the manager is opened
  by the stored key or one set aside, also between the steps of rotate_key and
  after a failed one. `Reach` follows a handle through the rotations of its id:
  made before the last d of them it has the d-th last key set aside (`Found`), if
  as many are kept; made since, the stored key. `AsideFirst` covers the moment when
  the old key is set aside and has no successor, and `EngineKeys` ties what the
  engine holds and sealed to handles the manager gave.
* `RederivedKeysAreKept`: a key rederive_key gives is, with the right password, one
  stored or set aside for the id, though the owner rotates meanwhile. `MetaDescribes`
  says that the parameters in the metadata go with a key that is reached from where
  they were written by as many rotations as began since, or with one about to be
  stored; `Rederived` that a call's key is derived from the parameters and the
  password it has, and `CallFits` that what the call copied is described still.

`FileTransferServerProofs`, for any threads and use of the quota manager:

* `RunningListens`: between calls is_running says whether the messaging server is
  started, and port its port, as long as starts and stops take turns. `Midway`
  says what holds at each step of the two functions.
* `ExcessAnnounced`: between calls, an exceeded quota was announced since the usage
  was last below it. `QExcess` names who is still to announce it when a call is under
  way, whatever copy of the usage that call decides on.
* `UsageTracksDisk`: as long as only uploads and deletions took place, the cached
  usage is, between calls, the sum of the sizes of the files in the directory, and their
  number. `QTracks` says it
  at every step: `Counted` are the files whose bytes the usage has and `Tallied`
  those its file counter has, which differ from the directory by the files a
  thread has stored or removed and not yet recorded.
* `TurnsWithinQuota`: uploads that take turns keep the directory within the quota.
  `InQuota` bounds what the directory holds and what it held until a removal
  that is not recorded yet (`Held`), and relates an upload that passed the check to
  the room it was granted.

  The three are stated of the server's specification, which has the quota
  manager's steps and its own. Sizes of sets of files are sums over finite sets;
  that the sum grows by a file's size when the file is added is proved for the
  operator the community modules define it by, by descent to a least set that
  would be a counterexample.

`CloudProofs`, for any callers, keys, scenarios, part and page sizes, and whatever
the provider answers:

* `ListingsComplete`, `ReadsIntact`: from `CloudInv`. `Reads` says that a listing has
  seen every key below its place whose object was there all the while, and that a
  download stream has read the beginning of an object whose size is the one it
  asked for, unless the object was replaced.
* `CommitsIntact`: from `StreamInv`. As long as a stream goes on (`Going`: no call of
  it failed, it was not aborted), `Filled` says that what it took is the full parts
  with what is in its buffer, `Tallied` what it counts meanwhile, `Handed`
  that every part handed over is among the futures or the results, with the data of its
  number, and `Kept` and `Stored` that what the provider has under a
  number is that part, whether it confirmed it or not.
  `Know` keeps two streams of one Azure blob apart, whose blocks share a name space.
  The commit sorts the results by number, and the parts put together are what was
  taken (`PartsTogether`).
* `BaseHolds`: the types, and `Owns`, that parts are under way only for a stream in
  use.

  The invariants must hold through failures nobody is told of: a request may have its
  effect and no answer, a wait may collect some results and leave others, and a
  later call may take what an earlier one left.

`StorageProofs`, for any threads, keys and data, all configurations, rules, ages and
retentions, and any number of failing requests and pending actions:

* `ReadsAreCurrent` and `HoldersAreSound`: both from `StoreInv` (`StoreSound`).
  ReadsCurrent is not inductive, because what a call returns depends on what it read
  before others ended, and on what the moves beside it carry. `Claims` says what
  every change under way knows of a backend it did not clash in: that it is as `sound`
  says, or already as the call will leave it. `Strays` names what a move may hold
  that is not the truth, and that then every other call for the key has clashed;
  `Sounds` what a sound backend holds while moves of its object go on; `Clashes`
  that of two calls that may disturb each other both are marked, and `Wholes` that
  a call which is no move is marked for both backends or for none. One lemma per step of a call, split by
  what the call is and by what the other calls are, shows that it is kept.
* `ProtectedAreKept`: from `Vetted`. A deletion is decided for an object no retention
  protects; as long as neither is replaced the object only grows older, and
  calls for it under way are removals. So what was due when it was decided is
  allowed when it is carried out, however much later.
* `TiersFollow`: `Dues` follows a move that is due through its stages. It is the last
  action for its key in `pending`, or the last that one thread has taken on
  (`Coming`) while no other has one for that key, or the object is there
  (`Arrived`). In between it is a move whose class is the tier's, with nobody
  beside it. `Tasks` ties the call of an executing thread to the first
  of its actions.

The proofs use the named assumptions on constants in the component modules,
which TLC evaluates in every run. Beside sizes they say that the value that
stands for "none" is no file, job, client, thread, key or call
(`None \notin Files`, `NothingIsNoJob`, `NoneIsNothing`, `NoneAssumption`), that there are finitely
many rules, and in the composed modules that the parts name the same threads
(`ThreadsSeal`, `TransportAssumption`). The assembler's theorems assume nothing of
its callers.
`UsageTracksDisk` assumes that a finite set of files has less than `Word` bytes
(`FilesFit`), and `TurnsWithinQuota` that the quota and a file together do
(`QuotaFits`): the code adds 64-bit sizes without a check, and a disk has fewer than
2^64 bytes. Without them the words wrap and both are false.

Every other property of the passing runs is a theorem; only liveness (fairness and
ENABLED are beyond the prover) is model-checked alone: AcceptedLeaves of the pipeline, CancelReleases of the batches, CallsEnd of the cloud storages and
TransportCallsReturn.

## Not modelled

CRC-32 and SHA-256 are taken as injective, compression as a layer put on a chunk and
taken off again; LZ4 itself, AES-GCM and OpenSSL, sockets,
the HTTP client, JSON text, logging and metrics are left out or appear through
their results; so do the operating system's list of network interfaces, QUIC
streams and certificates. Statistics and progress are left out where nothing
reads them back, and callbacks of the application where they change nothing.
Settings of single cloud objects (tiers, tags, holds) are requests like those
modelled. The import of key metadata, and changing the configuration of a
migration manager or of a quota policy while in use, are left out. PROJECT.json
gives the reason for each component that has no module. The network handlers of
client and server are placeholders in the source (messages are built and not
sent), so the two sides are not composed.

## Plan

Done, in this order: assembler, codec and resume handler, pipeline, limiter
with its abstract bucket, downloads, quota manager, storage manager and policy;
their proofs; then the client's batches, the cloud storages and their
streams, transports with migration and resumption, encryption, the splitter
feeding the assembler, the server's life cycle, and the proofs about these that
the section on proofs lists.

Next, modules: `Receive`, the assembler composed with the resume handler, for
what a resumed transfer may skip; the file session store shown to implement the
memory store as far as it does.

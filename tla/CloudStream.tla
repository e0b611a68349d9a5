---------------------------- MODULE CloudStream ----------------------------
(***************************************************************************)
(* The upload streams of cloud/s3_storage.cpp, gcs_storage.cpp and         *)
(* azure_blob_storage.cpp.  A stream buffers what it is given, hands every *)
(* full part to a thread of its own and at the end has the provider put    *)
(* the object together: S3 from the parts of a multipart upload, Azure     *)
(* from a list of block ids.  The GCS stream sends nothing.                *)
(*                                                                         *)
(* Bytes are units, told apart by the caller they come from and their      *)
(* place in what it writes.  Requests are described by their fate; headers,*)
(* signatures and bodies only by whether the provider accepts them.        *)
(***************************************************************************)
EXTENDS Naturals, Sequences, FiniteSets, FiniteSetsExt, SequencesExt

CONSTANTS
  Callers,      \* the threads that use the storage
  Keys,         \* object keys, numbered in the order of a listing
  Scenarios,    \* configurations, each with the calls made in it and the bounds they are followed to
  PartSize,     \* multipart.part_size, in units
  MaxUnits      \* bound: a stream is given no more

Providers == {"s3", "gcs", "azure"}
CallNames == {"connect", "disconnect", "upload", "upload_file", "stream", "download",
              "download_file", "delete", "delete_all", "exists", "metadata", "copy", "compose",
              "read", "list", "presign"}

\* endpoint: an S3 endpoint is configured, without one nothing is sent; max: max_concurrent_parts;
\* source, has: where the credentials come from and what is found there at first;
\* start, full: how the storage is found and the keys that have an object;
\* who, calls, keys, sizes: the inputs; maxCalls, maxFaults: bounds on the calls and the failed requests
ScenarioType ==
  [provider : Providers, endpoint : BOOLEAN, max : Nat \ {0},
   source : {"static", "environment", "profile"}, has : {"key", "token", "string"}, start : {"disconnected", "connected"}, full : SUBSET Keys,
   who : SUBSET Callers, calls : SUBSET CallNames, keys : SUBSET Keys, sizes : SUBSET Nat,
   maxCalls : Nat, maxFaults : Nat]

ASSUME StreamAssumption ==
  /\ IsFiniteSet(Keys) /\ Keys = 1..Cardinality(Keys) /\ PartSize \in Nat \ {0} /\ MaxUnits \in Nat
  /\ Scenarios \subseteq ScenarioType

VARIABLES
  conf,         \* rigid: the scenario of this behaviour
  state,        \* cloud_storage_state of the storage the callers share
  cred,         \* what the credential provider holds
  bucket,       \* the provider: key -> object, for the keys that have one
  uploads,      \* S3: caller -> the multipart upload its stream began
  blocks,       \* Azure: key -> uncommitted blocks by id
  strm,         \* caller -> its upload stream
  call,         \* caller -> the call it is in
  made, faults  \* how many calls were made, how many requests failed

streamVars == <<conf, state, cred, bucket, uploads, blocks, strm, call, made, faults>>

Is(p) == conf.provider = p

-----------------------------------------------------------------------------
(* Requests.  A request is served, refused with a status that means an     *)
(* error, or lost: the client reports a network error whether or not the   *)
(* provider acted on it.                                                   *)
Fates   == {"served", "refused", "lost", "unheard"}   \* unheard: acted on, and the answer lost
Acts(f) == f \in {"served", "unheard"}
Lost(f) == f \in {"lost", "unheard"}

\* create_authorization_header is empty unless the credentials hold an account key, and the request
\* goes out without it: the provider refuses it
S3StreamSigned    == cred \in {"key", "other"}
AzureStreamSigned == cred = "key"

FateOf(signed, f) ==
  LET usual == f = IF signed THEN "served" ELSE "refused"
  IN /\ usual \/ faults < conf.maxFaults
     /\ Acts(f) => signed
     /\ faults' = IF usual THEN faults ELSE faults + 1

-----------------------------------------------------------------------------
(* The state of a stream.  took, bad and shared are history: what it took  *)
(* over, that a call of it failed, that another stream wrote the same blob *)
(* meanwhile.                                                              *)
NewStream ==
  [buf |-> <<>>, written |-> 0, cur |-> 1, pend |-> <<>>, done |-> {}, ids |-> <<>>,
   fin |-> FALSE, abt |-> FALSE, id |-> "none",
   took |-> <<>>, bad |-> FALSE, shared |-> FALSE]

NoUpload == [open |-> FALSE, parts |-> <<>>]
NoCall   == [op |-> "none", key |-> 1, to |-> 1, pc |-> "idle", n |-> 0, todo |-> 0, res |-> "none",
             next |-> "user", got |-> <<>>, seen |-> {}]

Closed(s) == s.fin \/ s.abt
At(c, pc) == call[c].pc = pc

StoreIn(parts, num, data) ==
  [n \in DOMAIN parts \cup {num} |-> IF n = num THEN data ELSE parts[n]]

\* pend has the parts handed to threads and not erased yet, by their numbers: a later part has a larger one
In(s, st) == {n \in DOMAIN s.pend : s.pend[n].st = st}

ActiveOrDone(s) == Cardinality(DOMAIN s.pend)   \* mutated form: a part counts until its result is taken
Active(s) == Cardinality(In(s, "run"))

\* the first failed part whose result was not taken yet, or the number no part has yet
FirstFailed(s) == Min(In(s, "fail") \cup {s.cur})
AnyFailed(s)   == In(s, "fail") # {}

Etags(s) == {[num |-> n, etag |-> s.pend[n].etag] : n \in {m \in In(s, "ok") : m < FirstFailed(s)}}

\* collect_completed_uploads: parts that are done leave the list up to the first failed one, whose
\* result is taken and which stays, to be erased by the next call
Collected(s) ==
  LET f == FirstFailed(s)
  IN [s EXCEPT !.pend = [n \in In(s, "run") \cup {m \in DOMAIN @ : m >= f} |->
                           IF n = f THEN [@[n] EXCEPT !.st = "taken"] ELSE @[n]],
               !.done = @ \cup Etags(s)]

CollectFails(s) == AnyFailed(s)

\* wait_all_uploads takes the results in order, waits for each, and stops at a failed one
WaitEnds(s) == \A n \in In(s, "run") : n > FirstFailed(s)
Waited(s) ==
  LET f == FirstFailed(s)
  IN [s EXCEPT !.pend = [n \in IF AnyFailed(s) THEN DOMAIN @ ELSE {} |->
                           IF n <= f THEN [@[n] EXCEPT !.st = "taken"] ELSE @[n]],
               !.done = @ \cup Etags(s)]

-----------------------------------------------------------------------------
SetStream(c, s) == strm' = [strm EXCEPT ![c] = s]
Go(c, pc)       == call' = [call EXCEPT ![c].pc = pc]
\* the stream's call returns to its user
Returns(c, res) == call' = [call EXCEPT ![c].pc = "user", ![c].res = res]
Failed(s)       == [s EXCEPT !.bad = TRUE]

\* what the user of a stream does next: upload() writes everything, finalizes and lets it go, and
\* aborts it when the write failed; any other user does as it likes
Does(c, what) ==
  /\ At(c, "user")
  /\ call[c].op # "stream" =>
       what = CASE call[c].res = "opened"       -> "write"
                [] call[c].res = "written"      -> "finalize"
                [] call[c].res = "write failed" -> "abort"
                [] OTHER                        -> "drop"

-----------------------------------------------------------------------------
(* Creating a stream.  S3 begins a multipart upload.  Its constructor does *)
(* not look at the result, and a lost request is made up for by an id of   *)
(* the stream's own.                                                       *)
S3InitiateMultipart(c, f) ==
  LET open == conf.endpoint /\ Acts(f)
      id == IF ~conf.endpoint \/ Lost(f) THEN "own" ELSE IF f = "served" THEN "real" ELSE "none"
  IN /\ IF conf.endpoint THEN FateOf(S3StreamSigned, f) ELSE f = "served" /\ UNCHANGED faults
     /\ SetStream(c, [NewStream EXCEPT !.id = id])
     /\ uploads' = [uploads EXCEPT ![c] = [NoUpload EXCEPT !.open = open]]

Streaming(c) == call[c].op \in {"upload", "upload_file", "stream"} /\ call[c].pc \notin {"idle", "load", "open"}

\* streams of one blob number their blocks alike
AzureOpen(c) ==
  LET others == {d \in Callers \ {c} : Streaming(d) /\ call[d].key = call[c].key}
  IN strm' = [d \in Callers |-> IF d = c THEN [NewStream EXCEPT !.shared = others # {}]
                                ELSE [strm[d] EXCEPT !.shared = @ \/ d \in others]]

OpenStream(c) ==
  /\ At(c, "open")
  /\ IF state # "connected"
     THEN call' = [call EXCEPT ![c] = NoCall] /\ UNCHANGED <<strm, uploads, faults>>
     ELSE /\ Returns(c, "opened")
          /\ \/ Is("s3") /\ \E f \in Fates : S3InitiateMultipart(c, f)
             \/ Is("gcs") /\ SetStream(c, NewStream) /\ UNCHANGED <<uploads, faults>>
             \/ Is("azure") /\ AzureOpen(c) /\ UNCHANGED <<uploads, faults>>
  /\ UNCHANGED <<conf, state, cred, bucket, blocks, made>>

-----------------------------------------------------------------------------
(* write *)
Write(c) ==
  /\ Does(c, "write")
  /\ IF Closed(strm[c]) THEN Returns(c, "closed")
     ELSE \E n \in IF call[c].op # "stream" THEN {call[c].n} ELSE 1..MaxUnits :
            /\ Len(strm[c].took) + n <= MaxUnits
            /\ call' = [call EXCEPT ![c].pc = "fill", ![c].n = n, ![c].todo = n]
  /\ UNCHANGED <<conf, state, cred, bucket, uploads, blocks, strm, made, faults>>

\* the buffer is filled up to a part; bytes_written counts a write only once it is through
Fill(c) ==
  LET s == strm[c]
      k == Min({call[c].todo, PartSize - Len(s.buf)})
      new == [i \in 1..k |-> <<c, Len(s.took) + i>>]
      full == Len(s.buf) + k >= PartSize
      over == ~full /\ k = call[c].todo
  IN /\ At(c, "fill")
     /\ SetStream(c, [s EXCEPT !.buf = @ \o new, !.took = @ \o new,
                               !.written = IF over THEN @ + call[c].n ELSE @])
     /\ call' = [call EXCEPT ![c].todo = @ - k, ![c].pc = IF full THEN "slot" ELSE "user",
                             ![c].res = IF over THEN "written" ELSE @]
     /\ UNCHANGED <<conf, state, cred, bucket, uploads, blocks, made, faults>>

WriteFails(c) ==
  SetStream(c, Failed(Collected(strm[c]))) /\ Returns(c, "write failed")

\* wait_for_slot, while max_concurrent_parts are under way
WaitForSlot(c) ==
  /\ At(c, "slot") /\ Active(strm[c]) >= conf.max /\ In(strm[c], "run") # DOMAIN strm[c].pend
  /\ IF CollectFails(strm[c]) THEN WriteFails(c)
     ELSE SetStream(c, Collected(strm[c])) /\ UNCHANGED call
  /\ UNCHANGED <<conf, state, cred, bucket, uploads, blocks, made, faults>>

\* the buffer becomes a part, sent by a thread of its own
SubmittedKept(s) ==   \* mutated form: the buffer keeps what the part took
  [s EXCEPT !.pend = StoreIn(@, s.cur, [data |-> s.buf, st |-> "run", etag |-> "own"]),
            !.cur = @ + 1]
Submitted(s) ==
  [s EXCEPT !.pend = StoreIn(@, s.cur, [data |-> s.buf, st |-> "run", etag |-> "own"]),
            !.cur = @ + 1, !.buf = <<>>]

UploadPartAsync(s)  == Submitted(s)
UploadChunkAsync(s) == Submitted(s)
UploadBlockAsync(s) == [Submitted(s) EXCEPT !.ids = Append(@, s.cur)]

Submit(c) ==
  LET s == Collected(strm[c])
      t == CASE Is("s3")    -> UploadPartAsync(s)
             [] Is("gcs")   -> UploadChunkAsync(s)
             [] Is("azure") -> UploadBlockAsync(s)
      over == call[c].todo = 0
  IN /\ At(c, "slot") /\ Active(strm[c]) < conf.max
     /\ IF CollectFails(strm[c]) THEN WriteFails(c)
        ELSE /\ SetStream(c, [t EXCEPT !.written = IF over THEN @ + call[c].n ELSE @])
             /\ IF over THEN Returns(c, "written") ELSE Go(c, "fill")
     /\ UNCHANGED <<conf, state, cred, bucket, uploads, blocks, made, faults>>

-----------------------------------------------------------------------------
(* The threads of the parts *)
\* upload_part: S3 knows the part if it knows the upload; a lost request counts as done, under an
\* ETag of the stream's own
S3UploadPart(c, num, data, f) ==
  LET known == uploads[c].open /\ strm[c].id = "real"
      sent == conf.endpoint
      kept == sent /\ Acts(f) /\ known
  IN /\ IF sent THEN FateOf(S3StreamSigned, f) ELSE f = "served" /\ UNCHANGED faults
     /\ uploads' = IF kept THEN [uploads EXCEPT ![c].parts = StoreIn(@, num, data)] ELSE uploads
     /\ UNCHANGED blocks
S3PartResult(c, f) ==
  LET known == uploads[c].open /\ strm[c].id = "real"
  IN IF ~conf.endpoint \/ Lost(f) THEN [st |-> "ok", etag |-> "own"]
     ELSE IF f = "served" /\ known THEN [st |-> "ok", etag |-> "real"]
     ELSE [st |-> "fail", etag |-> "own"]

\* upload_block: anything but an answer of success is a failure
AzureUploadBlock(c, num, data, f) ==
  /\ FateOf(AzureStreamSigned, f)
  /\ blocks' = IF Acts(f) THEN [blocks EXCEPT ![call[c].key] = StoreIn(@, num, data)] ELSE blocks
  /\ UNCHANGED uploads
AzureBlockResult(f) == [st |-> IF f = "served" THEN "ok" ELSE "fail", etag |-> "real"]

\* upload_chunk: nothing is sent
GcsUploadChunk    == UNCHANGED <<uploads, blocks, faults>>
GcsChunkResult    == [st |-> "ok", etag |-> "own"]

\* a part is sent, by its thread or as the last one by finalize
Sends(c, num, data, f, r) ==
  \/ Is("s3")    /\ S3UploadPart(c, num, data, f) /\ r = S3PartResult(c, f)
  \/ Is("azure") /\ AzureUploadBlock(c, num, data, f) /\ r = AzureBlockResult(f)
  \/ Is("gcs")   /\ f = "served" /\ GcsUploadChunk /\ r = GcsChunkResult

Result(c, f) == CASE Is("s3")    -> S3PartResult(c, f)
                  [] Is("azure") -> AzureBlockResult(f)
                  [] Is("gcs")   -> GcsChunkResult

PartDone(c) ==
  /\ \E n \in In(strm[c], "run"), f \in Fates :
       LET r == Result(c, f)
       IN /\ Sends(c, n, strm[c].pend[n].data, f, r)
          /\ strm' = [strm EXCEPT ![c].pend[n].st = r.st, ![c].pend[n].etag = r.etag]
  /\ UNCHANGED <<conf, state, cred, bucket, call, made>>

-----------------------------------------------------------------------------
(* finalize *)
Finalize(c) ==
  /\ Does(c, "finalize")
  /\ IF Closed(strm[c]) THEN Returns(c, "closed")
     ELSE Go(c, IF strm[c].buf = <<>> THEN "waitall" ELSE "tail")
  /\ UNCHANGED <<conf, state, cred, bucket, uploads, blocks, strm, made, faults>>

\* the rest of the buffer goes out at once; the buffer is not emptied and, in Azure, its block id is
\* listed before it is sent
SendTail(c) ==
  LET s == strm[c]
      t == IF Is("azure") THEN [s EXCEPT !.ids = Append(@, s.cur)] ELSE s
  IN /\ At(c, "tail")
     /\ \E f \in Fates :
          LET r == Result(c, f)
              ok == r.st = "ok"
          IN /\ Sends(c, s.cur, s.buf, f, r)
             /\ SetStream(c, IF ok THEN [t EXCEPT !.done = @ \cup {[num |-> s.cur, etag |-> r.etag]}]
                             ELSE Failed(t))
             /\ IF ok THEN Go(c, "waitall")
                ELSE IF Is("s3")
                THEN call' = [call EXCEPT ![c].pc = "undo", ![c].res = "failed", ![c].next = "user"]
                ELSE Returns(c, "failed")
     /\ UNCHANGED <<conf, state, cred, bucket, made>>

WaitAll(c) ==
  LET s == strm[c]
  IN /\ At(c, "waitall") /\ WaitEnds(s)
     /\ IF AnyFailed(s)
        THEN /\ SetStream(c, Failed(Waited(s)))
             /\ IF Is("s3")
                THEN call' = [call EXCEPT ![c].pc = "undo", ![c].res = "failed", ![c].next = "user"]
                ELSE Returns(c, "failed")
        ELSE SetStream(c, [Waited(s) EXCEPT !.fin = TRUE]) /\ Go(c, "commit")
     /\ UNCHANGED <<conf, state, cred, bucket, uploads, blocks, made, faults>>

Put(k, data) == [j \in DOMAIN bucket \cup {k} |-> IF j = k THEN data ELSE bucket[j]]

\* numbers in increasing order
Sorted(nums) == CHOOSE s \in [1..Cardinality(nums) -> nums] : \A i, j \in DOMAIN s : i < j => s[i] < s[j]

Joined(parts, nums) == FlattenSeq([i \in DOMAIN nums |-> parts[nums[i]]])

\* the provider accepts a list of parts it has, each under the ETag it gave it
Accepts(c) ==
  LET s == strm[c]
  IN /\ uploads[c].open /\ s.id = "real" /\ s.done # {}
     /\ \A p \in s.done : p.etag = "real" /\ p.num \in DOMAIN uploads[c].parts

\* a refused completion can be neither repeated nor aborted: the stream is finalized already
S3Complete(c, f) ==
  LET sorted == Sorted({p.num : p \in strm[c].done})
      made_  == conf.endpoint /\ Acts(f) /\ Accepts(c)
  IN /\ IF conf.endpoint THEN FateOf(S3StreamSigned, f) ELSE f = "served" /\ UNCHANGED faults
     /\ bucket' = IF made_ THEN Put(call[c].key, Joined(uploads[c].parts, sorted)) ELSE bucket
     /\ uploads' = IF made_ THEN [uploads EXCEPT ![c].open = FALSE] ELSE uploads
     /\ Returns(c, IF ~conf.endpoint \/ Lost(f) THEN "made up"
                   ELSE IF f = "served" /\ Accepts(c) THEN "stored" ELSE "failed")
     /\ UNCHANGED blocks

AzureCommitBlockList(c, f) ==
  LET k == call[c].key
      ids == strm[c].ids
      good == \A i \in DOMAIN ids : ids[i] \in DOMAIN blocks[k]
  IN /\ FateOf(AzureStreamSigned, f)
     /\ bucket' = IF Acts(f) /\ good THEN Put(k, Joined(blocks[k], ids)) ELSE bucket
     /\ blocks' = IF Acts(f) /\ good THEN [blocks EXCEPT ![k] = <<>>] ELSE blocks
     /\ Returns(c, IF f = "served" /\ good THEN "stored" ELSE "failed")
     /\ UNCHANGED uploads

GcsFinalizeUpload(c) ==
  Returns(c, "made up") /\ UNCHANGED <<bucket, uploads, blocks, faults>>

Commit(c) ==
  /\ At(c, "commit")
  /\ \/ Is("s3")    /\ \E f \in Fates : S3Complete(c, f)
     \/ Is("azure") /\ \E f \in Fates : AzureCommitBlockList(c, f)
     \/ Is("gcs")   /\ GcsFinalizeUpload(c)
  /\ UNCHANGED <<conf, state, cred, strm, made>>

-----------------------------------------------------------------------------
(* abort and the end of a stream.  Parts under way are not waited for      *)
(* before the upload is aborted, and the stream is gone when they end.     *)
Abort(c) ==
  /\ Does(c, "abort")
  /\ IF Is("s3") /\ ~strm[c].abt
     THEN UNCHANGED strm /\ call' = [call EXCEPT ![c].pc = "undo", ![c].res = "aborted", ![c].next = "user"]
     ELSE strm' = [strm EXCEPT ![c].abt = TRUE] /\ Returns(c, "aborted")
  /\ UNCHANGED <<conf, state, cred, bucket, uploads, blocks, made, faults>>

\* abort_multipart_upload: what becomes of the request is not looked at
S3AbortMultipart(c) ==
  /\ At(c, "undo") /\ Go(c, call[c].next)
  /\ IF ~conf.endpoint \/ strm[c].id = "none"
     THEN strm' = [strm EXCEPT ![c].abt = TRUE] /\ UNCHANGED <<uploads, faults>>
     ELSE \E f \in Fates :
            /\ FateOf(S3StreamSigned, f)
            /\ uploads' = IF Acts(f) /\ strm[c].id = "real" THEN [uploads EXCEPT ![c] = NoUpload] ELSE uploads
            /\ strm' = [strm EXCEPT ![c].abt = TRUE]
  /\ UNCHANGED <<conf, state, cred, bucket, blocks, made>>

Drop(c) ==
  /\ Does(c, "drop")
  /\ call' = [call EXCEPT ![c].pc = IF Is("s3") /\ ~Closed(strm[c]) THEN "undo" ELSE "join",
                          ![c].next = "join"]
  /\ UNCHANGED <<conf, state, cred, bucket, uploads, blocks, strm, made, faults>>

Join(c) ==
  /\ At(c, "join") /\ Active(strm[c]) = 0
  /\ call' = [call EXCEPT ![c] = NoCall] /\ SetStream(c, NewStream)
  /\ uploads' = [uploads EXCEPT ![c] = NoUpload]
  /\ UNCHANGED <<conf, state, cred, bucket, blocks, made, faults>>

StreamStep(c) ==
  \/ OpenStream(c) \/ Write(c) \/ Fill(c) \/ WaitForSlot(c) \/ Submit(c) \/ Finalize(c) \/ SendTail(c)
  \/ WaitAll(c) \/ Commit(c) \/ Abort(c) \/ S3AbortMultipart(c) \/ Drop(c) \/ Join(c)

-----------------------------------------------------------------------------
(***************************************************************************)
(* When a provider confirms that it put an object together, the object is  *)
(* what the stream was given, every unit once and in order, and the result *)
(* counts all of it: in whatever order the parts arrived, and whichever    *)
(* were waited for by write and which by finalize.  It speaks of streams   *)
(* no call of which has failed, and of blobs no other stream wrote at the  *)
(* same time.                                                              *)
(***************************************************************************)
CommittedIntact ==
  [][\A c \in Callers :
       LET s == strm[c]
       IN (At(c, "commit") /\ call'[c].res = "stored" /\ ~s.bad /\ ~s.shared)
            => bucket'[call[c].key] = s.took /\ s.written = Len(s.took)]_streamVars
=============================================================================

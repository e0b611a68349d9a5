---------------------------- MODULE CloudStorage ----------------------------
(***************************************************************************)
(* The storages of cloud/s3_storage.cpp, gcs_storage.cpp and               *)
(* azure_blob_storage.cpp: their connection, the calls that send requests  *)
(* of their own, the download stream of Azure, the listing of a bucket page*)
(* by page, the access token of GCS and the credential providers.  Several *)
(* callers share one storage; the asynchronous calls are callers too.      *)
(* What the provider does with a request is one step, between the checks   *)
(* before it and the answer.                                               *)
(***************************************************************************)
EXTENDS CloudStream

CONSTANTS
  Threshold,   \* multipart.threshold, in units
  PageSize,    \* max_keys of a listing
  BufferSizes  \* sizes of the buffers given to a download stream

ASSUME StorageAssumption ==
  PageSize \in Nat \ {0} /\ BufferSizes \subseteq Nat \ {0} /\ Threshold \in Nat

VARIABLES
  env,    \* what the environment variables, or the credentials file, hold
  tok,    \* GCS: access_token_, and whether it is still good for a minute
  since   \* history: caller -> the keys whose object is there, the same, since its call began

storageVars == <<streamVars, env, tok, since>>

Units(who, n)  == [i \in 1..n |-> <<who, i>>]
There(k)       == k \in DOMAIN bucket
EndsWith(c, r) == call' = [call EXCEPT ![c].pc = "end", ![c].res = r]
Fails(c)       == EndsWith(c, "failed")

\* the provider's own version of what the three do alike
By(s3, gcs, azure) == CASE Is("s3") -> s3 [] Is("gcs") -> gcs [] Is("azure") -> azure

-----------------------------------------------------------------------------
(* Credential providers.  A key is what signs: access keys of S3, a service*)
(* account of GCS, an account key of Azure, which a connection string may  *)
(* hold too.  A token is what does not: a project without an account, a    *)
(* shared access signature, the secret of a client.                        *)
S3FromEnvironment(e)     == IF e = "key" THEN "key" ELSE "none"
S3FromProfile            == "other"   \* refresh names no profile: the default one is read
GcsFromEnvironment(e)    == e
AzureFromConnectionString == "key"
AzureFromSasToken         == "token"
AzureFromEnvironment(e)  ==
  CASE e = "string" -> AzureFromConnectionString [] e = "token" -> AzureFromSasToken [] OTHER -> e

\* the kind of provider decides what refresh does; one made from a connection string, a shared access
\* signature or a service account found in the environment is static
S3Rereads    == conf.source
GcsRereads   == IF conf.has = "token" THEN conf.source ELSE "static"
AzureRereads == IF conf.has = "key" THEN conf.source ELSE "static"

S3Refreshed ==
  CASE S3Rereads = "environment" -> S3FromEnvironment(env) [] S3Rereads = "profile" -> S3FromProfile
    [] OTHER -> "none"
GcsRefreshed   == IF GcsRereads = "environment" THEN GcsFromEnvironment(env) ELSE "none"
AzureRefreshed == IF AzureRereads = "environment" THEN AzureFromEnvironment(env) ELSE "none"

\* create: without a bucket, a region or credentials there is no storage
Init ==
  /\ conf \in Scenarios
  /\ state = conf.start /\ env = conf.has
  /\ cred = By(conf.has, conf.has, AzureFromEnvironment(conf.has))
  /\ bucket = [k \in conf.full |-> Units("old", k + 1)]
  /\ uploads = [c \in Callers |-> NoUpload] /\ blocks = [k \in Keys |-> <<>>]
  /\ strm = [c \in Callers |-> NewStream] /\ call = [c \in Callers |-> NoCall]
  /\ made = 0 /\ faults = 0 /\ tok = "none"
  /\ since = [c \in Callers |-> {}]

\* the calls that change nothing but the caller's place in its call
OnlyCall == UNCHANGED <<conf, state, cred, bucket, uploads, blocks, strm, made, faults, env, tok>>

-----------------------------------------------------------------------------
(* The connection *)
\* create_authorization_header of the storage, and of the download stream of Azure; a GCS request
\* carries the token got before
S3Signed            == cred \in {"key", "other"}
AzureSigned         == cred = "key"
AzureDownloadSigned == cred = "key"
Signed == By(S3Signed, TRUE, AzureSigned)

S3Access(c, f) ==
  /\ FateOf(S3Signed, f)
  /\ state' = IF f = "refused" THEN "error" ELSE "connected"   \* a lost request connects as well
GcsAccess   == state' = "connected" /\ UNCHANGED faults
AzureAccess == state' = "connected" /\ UNCHANGED faults

Connect(c) ==
  /\ At(c, "access")
  /\ \/ Is("s3") /\ \E f \in Fates : S3Access(c, f)
     \/ Is("gcs") /\ GcsAccess
     \/ Is("azure") /\ AzureAccess
  /\ EndsWith(c, "done")
  /\ UNCHANGED <<conf, cred, bucket, uploads, blocks, strm, made, env, tok>>

\* set_state: connecting at once, disconnected whatever is under way
Connecting(c) == state' = "connecting" /\ call' = [call EXCEPT ![c] = [NoCall EXCEPT !.op = "connect", !.pc = "access"]]
Disconnect    == state' = "disconnected" /\ UNCHANGED call

-----------------------------------------------------------------------------
(* Where a call goes after is_connected *)
Multipart(n) == n >= Threshold

UploadGoes(n) ==
  IF Multipart(n) THEN "open"
  ELSE By("send", "token", "pretend")

Goes(op, n) ==
  CASE op = "upload"                             -> UploadGoes(n)
    [] op = "upload_file"                        -> "load"
    [] op = "stream"                             -> "open"
    [] op = "read"                               -> IF Is("azure") THEN "head" ELSE "stub"
    [] op = "copy" /\ Is("azure")                -> "pretend"
    [] op = "delete_all"                         -> "check"
    [] OTHER                                     -> IF Is("gcs") THEN "token" ELSE "send"

\* presigned URLs and shared access signatures are computed from the credentials alone: S3 and Azure
\* need a key, the URL of GCS is a placeholder
S3PresignedUrl == cred \in {"key", "other"}
GcsSignedUrl   == TRUE
AzureSas       == cred = "key"
Presigns == By(S3PresignedUrl, GcsSignedUrl, AzureSas)

Begins(c, op) ==
  \/ op = "connect" /\ Connecting(c)
  \/ op = "disconnect" /\ Disconnect
  \/ /\ op = "presign" /\ UNCHANGED state
     /\ call' = [call EXCEPT ![c] = [NoCall EXCEPT !.op = op, !.pc = "end",
                                                   !.res = IF Presigns THEN "signed" ELSE "failed"]]
  \/ /\ op \notin {"connect", "disconnect", "presign"} /\ UNCHANGED state
     /\ IF state # "connected" THEN UNCHANGED call
        ELSE \E k \in conf.keys, j \in IF op \in {"copy", "compose"} THEN conf.keys ELSE {1},
                n \in IF op \in {"upload", "upload_file"} THEN conf.sizes ELSE {0} :
               call' = [call EXCEPT ![c] = [NoCall EXCEPT !.op = op, !.key = k, !.to = j, !.n = n,
                                                          !.pc = Goes(op, n)]]

Begin(c) ==
  /\ At(c, "idle") /\ c \in conf.who /\ made < conf.maxCalls
  /\ made' = made + 1
  /\ \E op \in conf.calls : Begins(c, op)
  /\ UNCHANGED <<conf, cred, bucket, uploads, blocks, strm, faults, env, tok>>

\* upload_file: the file may be missing or unreadable; is_connected is asked again by upload
LoadFile(c) ==
  /\ At(c, "load")
  /\ Fails(c) \/ (state = "connected" /\ Go(c, UploadGoes(call[c].n)))
  /\ OnlyCall

\* delete_objects goes on whatever becomes of one key, and returns the keys that were deleted
NextKey(c, gone) ==
  LET c1 == [call[c] EXCEPT !.todo = @ + 1, !.seen = @ \cup gone]
  IN call' = [call EXCEPT ![c] = IF c1.todo >= Cardinality(Keys) THEN [c1 EXCEPT !.pc = "end", !.res = "done"]
                                 ELSE [c1 EXCEPT !.pc = "check"]]

\* without a token, a key of delete_objects is left out like any other
TokenFails(c) == IF call[c].op = "delete_all" THEN NextKey(c, {}) ELSE Fails(c)

ServiceAccountValid == cred = "key"

\* get_access_token, under token_mutex_: the cached token, or a new one for the service account
TokenFor(c) ==
  /\ At(c, "token")
  /\ IF tok = "good" THEN Go(c, "send") /\ UNCHANGED <<faults, tok>>
     ELSE IF ~ServiceAccountValid THEN TokenFails(c) /\ UNCHANGED <<faults, tok>>
     ELSE \E f \in {"served", "refused"} :
            /\ FateOf(TRUE, f)
            /\ IF f = "served" THEN tok' = "good" /\ Go(c, "send") ELSE UNCHANGED tok /\ TokenFails(c)
  /\ UNCHANGED <<conf, state, cred, bucket, uploads, blocks, strm, made, env>>

\* nothing is sent and success is reported: a small upload and a copy of Azure, the download streams
\* of S3 and GCS, which hold no byte
AzurePretends(c) == At(c, "pretend") /\ EndsWith(c, IF call[c].op = "copy" THEN "copied" ELSE "made up") /\ OnlyCall
StubStream(c)    == At(c, "stub") /\ EndsWith(c, "empty") /\ OnlyCall

-----------------------------------------------------------------------------
(* The request of a call and what it makes of the answer *)
Requests(signed, f) ==
  /\ FateOf(signed, f)
  /\ UNCHANGED <<conf, state, cred, uploads, blocks, strm, made, env, tok>>

Answered(f, ok, yes, no) == IF f # "served" THEN "failed" ELSE IF ok THEN yes ELSE no

\* a request of S3 that is lost counts as an upload
S3Upload(f)  == IF Lost(f) THEN "made up" ELSE Answered(f, TRUE, "stored", "")
GcsUpload(f) == Answered(f, TRUE, "stored", "")

PutObject(c, f) ==
  /\ call[c].op \in {"upload", "upload_file"}
  /\ bucket' = IF Acts(f) THEN Put(call[c].key, Units(c, call[c].n)) ELSE bucket
  /\ EndsWith(c, IF Is("s3") THEN S3Upload(f) ELSE GcsUpload(f))

\* download, and the first half of download_file
S3Download(k, f)    == Answered(f, There(k), "got", "missing")
GcsDownload(k, f)   == Answered(f, There(k), "got", "missing")
AzureDownload(k, f) == Answered(f, There(k), "got", "missing")

GetObject(c, f) ==
  LET k == call[c].key
      r == By(S3Download(k, f), GcsDownload(k, f), AzureDownload(k, f))
  IN /\ call[c].op \in {"download", "download_file"} /\ UNCHANGED bucket
     /\ call' = [call EXCEPT ![c].got = IF r = "got" THEN bucket[k] ELSE <<>>, ![c].res = r,
                             ![c].pc = IF r = "got" /\ call[c].op = "download_file" THEN "save" ELSE "end"]

\* 404 is an error for GCS, a deletion for Azure, and never the answer of S3
S3Delete(f)     == Answered(f, TRUE, "deleted", "")
GcsDelete(k, f) == Answered(f, There(k), "deleted", "missing")
AzureDelete(f)  == Answered(f, TRUE, "deleted", "")
Deletes(k, f)   == By(S3Delete(f), GcsDelete(k, f), AzureDelete(f))

Without(k) == [j \in DOMAIN bucket \ {k} |-> bucket[j]]

DeleteObject(c, f) ==
  LET k == call[c].key
  IN /\ call[c].op = "delete"
     /\ bucket' = IF Acts(f) THEN Without(k) ELSE bucket
     /\ EndsWith(c, Deletes(k, f))

DeleteNext(c, f) ==
  LET k == call[c].todo + 1
  IN /\ call[c].op = "delete_all"
     /\ bucket' = IF Acts(f) THEN Without(k) ELSE bucket
     /\ NextKey(c, IF Deletes(k, f) = "deleted" THEN {k} ELSE {})

\* Azure takes any other status for a no
S3Exists(k, f)    == Answered(f, There(k), "yes", "no")
GcsExists(k, f)   == Answered(f, There(k), "yes", "no")
AzureExists(k, f) == IF Lost(f) THEN "failed" ELSE IF f = "served" /\ There(k) THEN "yes" ELSE "no"

Exists(c, f) ==
  LET k == call[c].key
  IN /\ call[c].op = "exists" /\ UNCHANGED bucket
     /\ EndsWith(c, By(S3Exists(k, f), GcsExists(k, f), AzureExists(k, f)))

S3Metadata(k, f)    == Answered(f, There(k), "got", "missing")
GcsMetadata(k, f)   == Answered(f, There(k), "got", "missing")
AzureMetadata(k, f) == Answered(f, There(k), "got", "missing")

GetMetadata(c, f) ==
  LET k == call[c].key
  IN /\ call[c].op = "metadata" /\ UNCHANGED bucket
     /\ EndsWith(c, By(S3Metadata(k, f), GcsMetadata(k, f), AzureMetadata(k, f)))

\* S3 does not tell a missing source from another error
S3Copy(k, f)  == Answered(f, There(k), "copied", "failed")
GcsCopy(k, f) == Answered(f, There(k), "copied", "missing")

CopyObject(c, f) ==
  LET k == call[c].key
  IN /\ call[c].op = "copy"
     /\ bucket' = IF Acts(f) /\ There(k) THEN Put(call[c].to, bucket[k]) ELSE bucket
     /\ EndsWith(c, IF Is("s3") THEN S3Copy(k, f) ELSE GcsCopy(k, f))

\* compose_objects, here of two: an object is appended to another
ComposeObjects(c, f) ==
  LET k == call[c].key
      j == call[c].to
      ok == There(k) /\ There(j)
  IN /\ call[c].op = "compose" /\ Is("gcs")
     /\ bucket' = IF Acts(f) /\ ok THEN Put(j, bucket[j] \o bucket[k]) ELSE bucket
     /\ EndsWith(c, Answered(f, ok, "composed", "failed"))

\* one page: the provider names some keys after the token, and gives a token if there are more
RestOfList(c) == {k \in DOMAIN bucket : k > call[c].todo}
Pages(c) == {p \in SUBSET RestOfList(c) :
               /\ Cardinality(p) <= PageSize /\ (p = {} <=> RestOfList(c) = {})
               /\ \A k \in p, j \in RestOfList(c) : j < k => j \in p}
NextToken(c, p) == IF p = RestOfList(c) THEN "" ELSE "more"

\* S3 reads IsTruncated, GCS and Azure whether there is a token that is not empty
S3Truncated(c, p)    == p # RestOfList(c)
GcsTruncated(c, p)   == NextToken(c, p) # ""
AzureTruncated(c, p) == NextToken(c, p) # ""
TruncatedWhenFull(c, p) == Cardinality(p) = PageSize   \* mutated form: only a full page has a next one
Truncated(c, p) == By(S3Truncated(c, p), GcsTruncated(c, p), AzureTruncated(c, p))

ListObjects(c, f) ==
  /\ call[c].op = "list" /\ UNCHANGED bucket
  /\ IF f # "served" THEN Fails(c)
     ELSE \E p \in Pages(c) :
            LET c1 == [call[c] EXCEPT !.seen = @ \cup p, !.todo = Max(p \cup {0})]
            IN call' = [call EXCEPT ![c] = IF Truncated(c, p) THEN [c1 EXCEPT !.pc = "check"]
                                           ELSE [c1 EXCEPT !.pc = "end", !.res = "listed"]]

Send(c) ==
  /\ At(c, "send")
  /\ \E f \in Fates :
       /\ Requests(Signed, f)
       /\ \/ PutObject(c, f) \/ GetObject(c, f) \/ DeleteObject(c, f) \/ DeleteNext(c, f)
          \/ Exists(c, f) \/ GetMetadata(c, f) \/ CopyObject(c, f) \/ ComposeObjects(c, f)
          \/ ListObjects(c, f)

\* the next page and the next key are calls of their own
CheckAgain(c) ==
  /\ At(c, "check")
  /\ IF state = "connected" THEN Go(c, IF Is("gcs") THEN "token" ELSE "send")
     ELSE IF call[c].op = "list" THEN Fails(c) ELSE NextKey(c, {})
  /\ OnlyCall

\* download_file writes the file; what was read is there already
SaveFile(c) ==
  /\ At(c, "save")
  /\ EndsWith(c, "saved") \/ Fails(c)
  /\ OnlyCall

-----------------------------------------------------------------------------
(* The download stream of Azure.  The size is asked for once; every read   *)
(* then asks for a range, of whatever the blob holds by then.              *)
OpenDownload(c) ==
  LET k == call[c].key
  IN /\ At(c, "head")
     /\ \E f \in Fates :
          /\ Requests(AzureDownloadSigned, f) /\ UNCHANGED bucket
          /\ IF f = "served" /\ There(k)
             THEN call' = [call EXCEPT ![c].pc = "read", ![c].n = Len(bucket[k])]
             ELSE Fails(c)   \* not initialized: every read of it fails

RangeEnd(start, size, total) == Min({start + size - 1, total - 1})

FetchRangeLate(c, start, end) ==   \* mutated form: the range begins one byte late
  SubSeq(bucket[call[c].key], start + 2, end + 1)
FetchRange(c, start, end) == SubSeq(bucket[call[c].key], start + 1, end + 1)

ReadRange(c) ==
  LET k == call[c].key
      start == Len(call[c].got)
  IN /\ At(c, "read")
     /\ \/ /\ start >= call[c].n /\ EndsWith(c, "read") /\ OnlyCall
        \/ /\ start < call[c].n
           /\ \E f \in Fates, size \in BufferSizes :
                LET data == FetchRange(c, start, Min({RangeEnd(start, size, call[c].n), Len(bucket[k]) - 1}))
                IN /\ Requests(AzureDownloadSigned, f) /\ UNCHANGED bucket
                   /\ IF f = "served" /\ There(k) /\ start < Len(bucket[k])
                      THEN call' = [call EXCEPT ![c].got = @ \o SubSeq(data, 1, Min({Len(data), size}))]
                      ELSE Fails(c)

-----------------------------------------------------------------------------
(* The end of a call; the credentials and the token *)
End(c) ==
  At(c, "end") /\ call' = [call EXCEPT ![c] = NoCall] /\ OnlyCall

EnvironmentChanges ==
  /\ conf.source = "environment"
  /\ env' \in By({"key", "none"}, {"key", "token", "none"}, {"key", "token", "string", "none"}) \ {env}
  /\ UNCHANGED <<streamVars, tok>>

\* refresh: static credentials stay, the others are read again, and stay if nothing is found
Refresh ==
  LET new == By(S3Refreshed, GcsRefreshed, AzureRefreshed)
  IN /\ new # "none" /\ cred' = new
     /\ UNCHANGED <<conf, state, bucket, uploads, blocks, strm, call, made, faults, env, tok>>

Expire == tok = "good" /\ tok' = "old" /\ UNCHANGED <<streamVars, env>>

-----------------------------------------------------------------------------
\* what was there, unchanged, all through a call
Observe ==
  since' = [c \in Callers |->
              IF call'[c].pc = "idle" THEN {}
              ELSE {k \in IF At(c, "idle") THEN DOMAIN bucket ELSE since[c] :
                      k \in DOMAIN bucket' /\ bucket'[k] = bucket[k]}]

CallStep(c) ==
  \/ Begin(c) \/ LoadFile(c) \/ TokenFor(c) \/ AzurePretends(c) \/ StubStream(c) \/ Connect(c)
  \/ Send(c) \/ CheckAgain(c) \/ SaveFile(c) \/ OpenDownload(c) \/ ReadRange(c)
  \/ End(c)

Steps(c)    == (CallStep(c) \/ (StreamStep(c) /\ UNCHANGED <<env, tok>>)) /\ Observe
Parts(c)    == PartDone(c) /\ UNCHANGED <<env, tok>> /\ Observe
LetsGo(c)   == Drop(c) /\ UNCHANGED <<env, tok>> /\ Observe
Around      == (EnvironmentChanges \/ Refresh \/ Expire) /\ Observe

Next == (\E c \in Callers : Steps(c) \/ Parts(c)) \/ Around

\* callers and the threads of the parts go on, and whoever has a stream lets go of it in the end
Fairness == \A c \in Callers : WF_storageVars(Steps(c)) /\ WF_storageVars(Parts(c)) /\ SF_storageVars(LetsGo(c))

Spec == Init /\ [][Next]_storageVars /\ Fairness

-----------------------------------------------------------------------------
(***************************************************************************)
(* A listing that came to its end without an error has every key whose     *)
(* object was there all the while, whatever was stored or deleted between  *)
(* its pages and however short the provider's pages are.                   *)
(***************************************************************************)
ListingComplete ==
  \A c \in Callers : (At(c, "end") /\ call[c].res = "listed") => since[c] \subseteq call[c].seen

(***************************************************************************)
(* What has been read from a download stream is the beginning of the       *)
(* object, all of it when the stream is at its end, if nobody replaced the *)
(* object meanwhile.                                                       *)
(***************************************************************************)
StreamReadIntact ==
  \A c \in Callers :
    LET k == call[c].key
    IN (call[c].op = "read" /\ call[c].pc \in {"read", "end"} /\ k \in since[c])
         => /\ IsPrefix(call[c].got, bucket[k])
            /\ call[c].res = "read" => call[c].got = bucket[k]

(***************************************************************************)
(* Every call returns: a writer waiting for a slot gets one, finalize ends *)
(* its wait for the parts, and a stream can be let go of.                  *)
(***************************************************************************)
CallsEnd == []<>(\A c \in Callers : At(c, "idle"))
=============================================================================

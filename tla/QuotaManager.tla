----------------------------- MODULE QuotaManager -----------------------------
(***************************************************************************)
(* server/quota_manager.cpp, with check_upload_allowed of                  *)
(* server/file_transfer_server.cpp: the cached usage of the storage        *)
(* directory, the quota, the warning thresholds and the cleanup.           *)
(*                                                                         *)
(* Nothing in the repository but its tests calls the record functions; the *)
(* uploads and deletions of files here are their callers as the header     *)
(* means them: check, store, record.  Each section under a lock, each      *)
(* access to the directory and each callback is a step of its own.         *)
(***************************************************************************)
EXTENDS Integers, FiniteSets, Sequences, FiniteSetsExt, SequencesExt

CONSTANTS
  Threads,
  Files,          \* the files that may be uploaded, each under a name of its own
  Size,           \* file -> its bytes
  Quota,          \* the quota at construction; 0 is unlimited
  Quotas,         \* the values set_total_quota is called with
  MaxFileSize,    \* 0 is unlimited
  Free,           \* the file system's own free space, used when the quota is unlimited
  Word,           \* 2^64: sizes are unsigned words
  Thresholds,     \* warning percentages
  Trigger, Target,  \* of the cleanup policy, in percent
  OldestFirst,    \* delete_oldest_first
  Excluded,       \* files whose names match an exclusion
  MinAge,         \* a minimum age is set, so that a file may be too young
  Calls,          \* the functions that are called
  MaxCalls,       \* bound: the calls made in a behaviour
  None

AllCalls == {"upload", "delete", "refresh", "set_quota", "reset", "cleanup",
             "start", "stop"}

ASSUME ConstantsAssumption ==
  /\ Word \in Nat /\ Size \in [Files -> 0..(Word - 1)]
  /\ {Quota, MaxFileSize, Free} \cup Quotas \subseteq 0..(Word - 1)
  /\ Thresholds \subseteq 1..100 /\ IsFiniteSet(Thresholds) /\ {Trigger, Target} \subseteq 0..100
  /\ Excluded \subseteq Files /\ {OldestFirst, MinAge} \subseteq BOOLEAN
  /\ Calls \subseteq AllCalls /\ MaxCalls \in Nat /\ None \notin Files \cup Threads \cup AllCalls

VARIABLES
  total,      \* total_quota, an atomic
  usage,      \* current_usage
  triggered,  \* the thresholds that have fired
  disk,       \* the files in the storage directory, oldest first
  call,       \* thread -> where it is, with its locals
  calls,      \* history: how many calls were made, of which functions, and which overlapped themselves
  told        \* history: exceeded_callback was called since the usage last was below the quota

vars == <<total, usage, triggered, disk, call, calls, told>>

Stored == MapThenSumSet(LAMBDA f : Size[f], Range(disk))

-----------------------------------------------------------------------------
(* A percentage is kept as the quotient the code computes: used of total.  *)
Percent(used, of) == [used |-> used, of |-> of]
AtLeast(p, n)     == p.used * 100 >= n * p.of
NoPercent         == Percent(0, 1)

Remaining(used, quota) == IF used < quota THEN quota - used ELSE 0

\* calculate_usage, from the directory and the quota as they are now
CalculateUsage ==
  LET used == Stored % Word IN
  [total |-> total, used |-> used, files |-> Len(disk),
   available |-> IF total > 0 THEN Remaining(used, total) ELSE Free,
   percent |-> IF total > 0 THEN Percent(used, total) ELSE NoPercent]

IsExceeded(u) == u.total > 0 /\ u.used >= u.total

BytesAdded(u, bytes) ==
  LET used == (u.used + bytes) % Word IN
  IF total > 0
  THEN [u EXCEPT !.used = used, !.available = Remaining(used, total), !.percent = Percent(used, total)]
  ELSE [u EXCEPT !.used = used]

BytesRemovedFreeing(u, bytes) ==   \* mutated form: only the available space is brought up to date
  [u EXCEPT !.available = (total - u.used + bytes) % Word]

\* The remaining space is a plain subtraction of words here.
BytesRemoved(u, bytes) ==
  LET used == IF bytes > u.used THEN 0 ELSE u.used - bytes IN
  IF total > 0
  THEN [u EXCEPT !.used = used, !.available = (total - used) % Word, !.percent = Percent(used, total)]
  ELSE [u EXCEPT !.used = used]

CheckFileSize(size) == MaxFileSize = 0 \/ size <= MaxFileSize
CheckQuotaBefore(size) ==   \* mutated form: the new file is left out of the sum
  usage.total = 0 \/ usage.used <= usage.total
CheckQuota(size)    == usage.total = 0 \/ (usage.used + size) % Word <= usage.total
CheckUploadAllowed(size) == CheckFileSize(size) /\ CheckQuota(size)

-----------------------------------------------------------------------------
Idle == [at |-> "idle", name |-> None, file |-> None, then |-> "idle", seen |-> None, list |-> <<>>]

Init ==
  /\ total = Quota /\ disk = <<>>
  /\ usage = CalculateUsage
  /\ triggered = {}
  /\ call = [t \in Threads |-> Idle]
  /\ calls = [made |-> 0, of |-> {}, overlapped |-> {}]
  /\ told = IsExceeded(usage)

At(t, where)   == call[t].at = where
Goto(t, where) == call' = [call EXCEPT ![t].at = where]
Return(t)      == call' = [call EXCEPT ![t] = Idle]
Continue(t)    ==
  call' = [call EXCEPT ![t] = IF call[t].then = "idle" THEN Idle
                              ELSE [call[t] EXCEPT !.at = call[t].then, !.then = "idle", !.seen = None]]

\* A call of the function begins at the given place, on the file, and goes on as given after a check.
Enter(t, name, where, file, then) ==
  /\ At(t, "idle") /\ name \in Calls /\ calls.made < MaxCalls
  /\ calls' = [made |-> calls.made + 1, of |-> calls.of \cup {name},
               overlapped |-> calls.overlapped \cup ({call[u].name : u \in Threads} \cap {name})]
  /\ call' = [call EXCEPT ![t] = [Idle EXCEPT !.at = where, !.name = name, !.file = file, !.then = then]]

SetUsage(u) == usage' = u /\ told' = (told /\ IsExceeded(u))

-----------------------------------------------------------------------------
(* An upload: accepted, stored by the assembler, recorded.                  *)
Accept(t, f) ==
  /\ f \notin Range(disk) /\ \A u \in Threads : call[u].file # f
  /\ CheckUploadAllowed(Size[f])
  /\ Enter(t, "upload", "store", f, "count")
  /\ UNCHANGED <<total, usage, triggered, disk, told>>

Store(t) ==
  /\ At(t, "store")
  /\ disk' = Append(disk, call[t].file)
  /\ Goto(t, "add")
  /\ UNCHANGED <<total, usage, triggered, calls, told>>

RecordBytesAddedOnly(t) ==   \* mutated form: the thresholds are not checked
  /\ At(t, "add")
  /\ SetUsage(BytesAdded(usage, Size[call[t].file]))
  /\ Goto(t, "count")
  /\ UNCHANGED <<total, triggered, disk, calls>>

RecordBytesAdded(t) ==
  /\ At(t, "add")
  /\ SetUsage(BytesAdded(usage, Size[call[t].file]))
  /\ Goto(t, "check")
  /\ UNCHANGED <<total, triggered, disk, calls>>

RecordFileAdded(t) ==
  /\ At(t, "count")
  /\ SetUsage([usage EXCEPT !.files = @ + 1])
  /\ Return(t)
  /\ UNCHANGED <<total, triggered, disk, calls>>

-----------------------------------------------------------------------------
(* check_thresholds: a copy of the usage decides, after the lock is gone.   *)
LookAtUsage(t) ==
  /\ At(t, "check")
  /\ call' = [call EXCEPT ![t].at = IF IsExceeded(usage) THEN "exceeded" ELSE "warn", ![t].seen = usage]
  /\ UNCHANGED <<total, usage, triggered, disk, calls, told>>

TellExceeded(t) ==
  /\ At(t, "exceeded")
  /\ told' = TRUE
  /\ Continue(t)
  /\ UNCHANGED <<total, usage, triggered, disk, calls>>

Firing(t) == {h \in Thresholds \ triggered : AtLeast(call[t].seen.percent, h)}

(* The callback runs with thresholds_mutex held, once for each threshold;   *)
(* it is taken not to call the manager back.                                *)
Warn(t) ==
  /\ At(t, "warn")
  /\ triggered' = triggered \cup Firing(t)
  /\ Continue(t)
  /\ UNCHANGED <<total, usage, disk, calls, told>>

CallReset(t) ==
  /\ Enter(t, "reset", "reset", None, "idle")
  /\ UNCHANGED <<total, usage, triggered, disk, told>>

\* set_warning_thresholds clears the triggers in the same way.
ResetThresholdTriggers(t) ==
  /\ At(t, "reset")
  /\ triggered' = {}
  /\ Return(t)
  /\ UNCHANGED <<total, usage, disk, calls, told>>

-----------------------------------------------------------------------------
(* refresh_usage and set_total_quota: the directory is read without a lock. *)
CallRefresh(t) ==
  /\ Enter(t, "refresh", "scan", None, "idle")
  /\ UNCHANGED <<total, usage, triggered, disk, told>>

SetTotalQuota(t, bytes) ==
  /\ Enter(t, "set_quota", "scan", None, "check")
  /\ total' = bytes
  /\ UNCHANGED <<usage, triggered, disk, told>>

ScanDirectory(t) ==
  /\ At(t, "scan")
  /\ call' = [call EXCEPT ![t].at = "assign", ![t].seen = CalculateUsage]
  /\ UNCHANGED <<total, usage, triggered, disk, calls, told>>

AssignUsage(t) ==
  /\ At(t, "assign")
  /\ SetUsage(call[t].seen)
  /\ Goto(t, "check")
  /\ UNCHANGED <<total, triggered, disk, calls>>

-----------------------------------------------------------------------------
(* A file is deleted, by an operator (once its upload is over) or by the    *)
(* cleanup, and then recorded.                                              *)
Without(f) == RemoveAt(disk, CHOOSE i \in DOMAIN disk : disk[i] = f)

DeleteFile(t, f) ==
  /\ f \in Range(disk) /\ \A u \in Threads : call[u].file # f
  /\ Enter(t, "delete", "removed", f, "idle")
  /\ disk' = Without(f)
  /\ UNCHANGED <<total, usage, triggered, told>>

RecordBytesRemoved(t) ==
  /\ At(t, "removed")
  /\ SetUsage(BytesRemoved(usage, Size[call[t].file]))
  /\ Goto(t, "uncount")
  /\ UNCHANGED <<total, triggered, disk, calls>>

RecordFileRemoved(t) ==
  /\ At(t, "uncount")
  /\ SetUsage([usage EXCEPT !.files = IF @ > 0 THEN @ - 1 ELSE 0])
  /\ Continue(t)
  /\ UNCHANGED <<total, triggered, disk, calls>>

-----------------------------------------------------------------------------
(* execute_cleanup *)
BeginCleanup(t) ==
  /\ AtLeast(usage.percent, Trigger)
  /\ Enter(t, "cleanup", "list", None, "idle")
  /\ UNCHANGED <<total, usage, triggered, disk, told>>

ListFiles(t) ==
  /\ At(t, "list")
  /\ call' = [call EXCEPT ![t].at = "pick", ![t].list = IF OldestFirst THEN disk ELSE Reverse(disk)]
  /\ UNCHANGED <<total, usage, triggered, disk, calls, told>>

\* is_excluded, or not is_file_old_enough: an age is tested whenever one is set.
MayBeKept(f) == f \in Excluded \/ MinAge

TargetReached == usage.percent.used * 100 <= Target * usage.percent.of

\* The next file of the list, unless the target is reached or the list at its end.
PickFile(t) ==
  /\ At(t, "pick")
  /\ IF call[t].list = <<>> \/ TargetReached
     THEN Return(t)
     ELSE \/ /\ Head(call[t].list) \notin Excluded
             /\ call' = [call EXCEPT ![t].at = "unlink", ![t].file = None]
          \/ /\ MayBeKept(Head(call[t].list))
             /\ call' = [call EXCEPT ![t].list = Tail(@), ![t].file = None]
  /\ UNCHANGED <<total, usage, triggered, disk, calls, told>>

\* A file that is gone by now is passed over.
UnlinkFile(t) ==
  /\ At(t, "unlink")
  /\ LET f == Head(call[t].list) IN
     IF f \in Range(disk)
     THEN /\ disk' = Without(f)
          /\ call' = [call EXCEPT ![t].at = "removed", ![t].file = f, ![t].then = "pick", ![t].list = Tail(@)]
     ELSE /\ call' = [call EXCEPT ![t].at = "pick", ![t].list = Tail(@)]
          /\ UNCHANGED disk
  /\ UNCHANGED <<total, usage, triggered, calls, told>>

-----------------------------------------------------------------------------
Step(t) ==
  \/ Store(t) \/ RecordBytesAdded(t) \/ RecordFileAdded(t)
  \/ LookAtUsage(t) \/ TellExceeded(t) \/ Warn(t) \/ ResetThresholdTriggers(t)
  \/ ScanDirectory(t) \/ AssignUsage(t)
  \/ RecordBytesRemoved(t) \/ RecordFileRemoved(t)
  \/ ListFiles(t) \/ PickFile(t) \/ UnlinkFile(t)

Call(t) ==
  \/ \E f \in Files : Accept(t, f) \/ DeleteFile(t, f)
  \/ CallReset(t) \/ CallRefresh(t) \/ BeginCleanup(t)
  \/ \E bytes \in Quotas : SetTotalQuota(t, bytes)

Next == \E t \in Threads : Step(t) \/ Call(t)

Spec == Init /\ [][Next]_vars
-----------------------------------------------------------------------------
Quiet == \A t \in Threads : At(t, "idle")

\* SRS-STORAGE-002: what is stored does not exceed the quota.
WithinQuota == total > 0 => Stored <= total

(* Uploads that take turns keep within the quota, although files are        *)
(* deleted, by operators and by cleanups, between an upload's check, its    *)
(* store and its record.                                                    *)
TurnsKeepQuota ==
  /\ calls.of \subseteq {"upload", "delete", "cleanup", "reset", "start", "stop"}
  /\ "upload" \notin calls.overlapped
  => WithinQuota

(* The cached usage tells the bytes and the files in the directory whenever *)
(* no call is in progress, as long as only uploads and deletions took place.*)
TracksTheDisk ==
  Quiet /\ calls.of \subseteq {"upload", "delete", "reset", "start", "stop"}
    => usage.used = Stored /\ usage.files = Len(disk)

(* An excess is announced: when no call is in progress and the usage is at  *)
(* the quota, exceeded_callback has been called since it was last below,    *)
(* whatever was removed or refreshed between the copy and the decision.     *)
ExcessIsAnnounced == Quiet /\ IsExceeded(usage) => told

=============================================================================

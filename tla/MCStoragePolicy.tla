-------------------------- MODULE MCStoragePolicy --------------------------
(* An instance of StoragePolicy for TLC: a rule that deletes what is two    *)
(* periods old, tiering by age and by size, three retentions, and the      *)
(* backends in each arrangement.                                           *)
EXTENDS StoragePolicy, TLC

Sizes == [v1 |-> 0, v2 |-> 1]

Between(primary, secondary, replicate) ==
  [kind |-> [primary |-> primary, secondary |-> secondary], replicate |-> replicate,
   fallback |-> TRUE, hybrid |-> replicate, attached |-> FALSE, dry |-> FALSE,
   calls |-> UserCalls, maxCalls |-> 3, maxFaults |-> 1]

\* the manager by itself, with failures
Managers ==
  {Between("local", "s3", TRUE), Between("s3", "local", TRUE), Between("s3", "gcs", FALSE),
   [Between("s3", "gcs", TRUE) EXCEPT !.maxFaults = 2]}

\* with a policy: backends do not fail, users store and move
WithPolicy(c) ==
  [c EXCEPT !.attached = TRUE, !.calls = {"store", "change_tier"}, !.maxCalls = 4, !.maxFaults = 0]

Arrangements ==
  Managers \cup {WithPolicy(Between("s3", "gcs", TRUE)),
            [WithPolicy(Between("s3", "local", TRUE)) EXCEPT !.maxCalls = 3, !.maxFaults = 1],
            [WithPolicy(Between("local", "local", TRUE)) EXCEPT !.dry = TRUE, !.maxCalls = 3]}

DeleteOld ==
  [priority |-> 1, trigger |-> "age", keys |-> Keys, source |-> None,
   range |-> {1, 2}, target |-> "archive", action |-> "delete_obj"]

Ages == [warm |-> 1, cold |-> 1, archive |-> 2]

RuleSet  == {DeleteOld}
KeepTwo  == [hold |-> FALSE, min |-> 2, exclusions |-> {}]
Holds    == {[KeepTwo EXCEPT !.hold = TRUE]}
Symmetry == Permutations(Threads)
=============================================================================

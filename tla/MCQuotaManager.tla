---------------------------- MODULE MCQuotaManager ----------------------------
(* Instances of QuotaManager, in its server, for TLC. *)
EXTENDS FileTransferServer, TLC

Sizes == [a |-> 2, b |-> 1, c |-> 3]
Symmetry == Permutations(Threads)
=============================================================================

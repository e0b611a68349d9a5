--------------------------- MODULE MCClientDownload ---------------------------
(* Instances of ClientDownload for TLC. *)
EXTENDS ClientDownload, TLC

Symmetry == Permutations(Threads)
=============================================================================

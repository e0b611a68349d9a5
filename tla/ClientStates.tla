----------------------------- MODULE ClientStates -----------------------------
(***************************************************************************)
(* client/file_transfer_client.cpp: what downloads and batches share: the  *)
(* threads that call the client and the states of a transfer.              *)
(***************************************************************************)
CONSTANTS
  Threads,
  MaxCalls   \* bound: the calls made in a behaviour (of a download, besides the first of each chunk)

Terminal == {"completed", "failed", "cancelled"}

IsValidTransition(from, to) ==
  /\ from \notin Terminal
  /\ \/ to = "cancelled"
     \/ from = "initializing" /\ to \in {"transferring", "failed"}
     \/ from = "transferring" /\ to \in {"paused", "verifying", "completing", "failed"}
     \/ from = "paused" /\ to \in {"transferring", "failed"}
     \/ from = "verifying" /\ to \in {"completing", "failed"}
     \/ from = "completing" /\ to \in {"completed", "failed"}
=============================================================================

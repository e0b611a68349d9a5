--------------------------- MODULE MCServerPipeline ---------------------------
(* The instances of ServerPipeline for TLC: two clients, one worker, an    *)
(* upload and a download, every setting of encryption.                     *)
EXTENDS ServerPipeline
=============================================================================

--------------------------- MODULE MCCloudStorage ---------------------------
(* The scenarios the storages are followed through. *)
EXTENDS CloudStorage

One == {CHOOSE c \in Callers : TRUE}

Plain == [provider |-> "s3", endpoint |-> TRUE, max |-> 1, source |-> "static", has |-> "key",
          start |-> "connected", full |-> {}, who |-> One, calls |-> {"stream"}, keys |-> {1}, sizes |-> {2},
          maxCalls |-> 1, maxFaults |-> 1]

Objects == {"download", "download_file", "delete", "exists", "metadata", "copy", "list", "presign", "read"}

MCScenarios ==
  { \* one S3 stream, used in any way, with one and with two parts at a time
    Plain, [Plain EXCEPT !.max = 2, !.maxFaults = 2],
    \* without an endpoint nothing is sent
    [Plain EXCEPT !.endpoint = FALSE, !.maxFaults = 0],
    \* uploads of the storage, small and large, while it is connected and disconnected
    [Plain EXCEPT !.start = "disconnected", !.calls = {"connect", "disconnect", "upload", "upload_file"},
                  !.sizes = {1, 3}, !.who = Callers, !.maxCalls = 3, !.maxFaults = 0],
    [Plain EXCEPT !.calls = {"connect", "upload"}, !.sizes = {1, 3}, !.maxCalls = 2],
    \* an Azure stream; a blob replaced by one caller and read by the other, or written by both
    [Plain EXCEPT !.provider = "azure", !.max = 2],
    [Plain EXCEPT !.provider = "azure", !.calls = {"upload", "read"}, !.full = {1}, !.sizes = {3},
                  !.who = Callers, !.maxCalls = 2, !.maxFaults = 0],
    \* credentials that do not sign, or cease to
    [Plain EXCEPT !.provider = "azure", !.source = "environment", !.has = "token",
                  !.calls = {"upload", "delete_all", "exists", "presign"}, !.full = {1, 2}, !.sizes = {1, 2},
                  !.maxFaults = 0],
    [Plain EXCEPT !.source = "environment", !.calls = {"connect", "exists", "presign"}, !.maxFaults = 0],
    [Plain EXCEPT !.source = "profile", !.calls = {"connect", "stream", "presign"}, !.maxFaults = 0],
    [Plain EXCEPT !.provider = "azure", !.source = "environment", !.calls = {"connect", "delete", "exists"}, !.full = {1}, !.maxCalls = 2],
    [Plain EXCEPT !.provider = "azure", !.source = "environment", !.has = "string", !.calls = {"read"}, !.full = {1}],
    [Plain EXCEPT !.provider = "gcs", !.source = "environment", !.has = "token", !.calls = {"delete_all", "exists"}, !.full = {1}],
    \* GCS, with tokens that expire
    [Plain EXCEPT !.provider = "gcs", !.calls = {"stream", "upload"}, !.sizes = {1, 2}],
    [Plain EXCEPT !.provider = "gcs", !.source = "environment", !.calls = {"connect", "delete_all", "compose", "list", "upload"},
                  !.sizes = {1}, !.full = {1, 2}, !.keys = {1, 2}, !.maxCalls = 2] }
  \cup \* the calls that send one request
  { [Plain EXCEPT !.provider = p, !.calls = Objects, !.full = {1}, !.keys = {1, 2}, !.maxCalls = 2] : p \in Providers }
  \cup \* a listing, with deletions and copies between its pages
  { [Plain EXCEPT !.provider = p, !.calls = {"disconnect", "delete", "copy", "list"}, !.full = {1, 2, 3},
                  !.keys = {1, 2, 3}, !.who = Callers, !.maxCalls = 3, !.maxFaults = 0] : p \in {"s3", "azure"} }
=============================================================================

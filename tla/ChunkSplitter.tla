--------------------------- MODULE ChunkSplitter ---------------------------
(* chunk_splitter and its iterator: which chunks a file of a given size is  *)
(* cut into, and which of them can still be read when the file has become   *)
(* shorter since its size was taken.  Sizes are in bytes.                   *)
EXTENDS Naturals

CONSTANTS min_chunk_size, max_chunk_size

ASSUME ChunkSizesAssumption ==
  min_chunk_size \in Nat \ {0} /\ max_chunk_size \in Nat /\ min_chunk_size <= max_chunk_size

validate(chunk_size) == min_chunk_size <= chunk_size /\ chunk_size <= max_chunk_size

calculate_chunk_count(file_size, chunk_size) ==
  IF file_size = 0 THEN 0 ELSE (file_size + chunk_size - 1) \div chunk_size

\* split and calculate_metadata: an empty file is sent as one empty chunk.
total_chunks(file_size, chunk_size) ==
  LET count == calculate_chunk_count(file_size, chunk_size) IN IF count = 0 THEN 1 ELSE count

\* The header next() writes: flags and sizes follow from the place in the file.
next(index, file_size, chunk_size) ==
  LET last   == index = total_chunks(file_size, chunk_size) - 1
      offset == index * chunk_size
  IN  [index |-> index, offset |-> offset, first |-> index = 0, last |-> last,
       size |-> IF last THEN file_size - offset ELSE chunk_size]

\* seekg and read: all the bytes are there, or the stream has failed for good.
Readable(c, now) == c.offset <= now /\ c.offset + c.size <= now

(* The chunks an iterator gives out, in order, until the first that cannot  *)
(* be read; none for a chunk size validate refuses.                         *)
split(file_size, chunk_size, now) ==
  IF ~validate(chunk_size) THEN {}
  ELSE {c \in {next(i, file_size, chunk_size) : i \in 0 .. total_chunks(file_size, chunk_size) - 1} :
          \A i \in 0 .. c.index : Readable(next(i, file_size, chunk_size), now)}
=============================================================================

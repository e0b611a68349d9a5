-------------------------- MODULE MCChunkAssembler --------------------------
(* Instances of ChunkAssembler for TLC, fed by ChunkSplitter. *)
EXTENDS ChunkAssembler, ChunkSplitter, TLC

CONSTANTS t1, t2, a, b

\* Two files of one chunk size: a's second chunk is shorter, b has one chunk.
ChunkSize == 2
FileSize(id) == IF id = a THEN 3 ELSE 2

\* A chunk the splitter made, as the assembler sees it: its slot is where its offset lies.
Sent(id, c) == [id |-> id, index |-> c.index, slot |-> c.offset \div ChunkSize, intact |-> TRUE]

\* Everything the splitter sends, and one chunk corrupted on the way.
SoundChunks ==
  UNION {{Sent(id, c) : c \in split(FileSize(id), ChunkSize, FileSize(id))} : id \in {a, b}}
    \cup {[id |-> a, index |-> 1, slot |-> 1, intact |-> FALSE]}

\* Also a chunk whose offset disagrees with its index, which CRC32 does not cover.
AnyChunks ==
  SoundChunks \cup {[id |-> a, index |-> 1, slot |-> 0, intact |-> TRUE]}

Symmetry == Permutations({t1, t2}) \cup Permutations(Ctxs)
=============================================================================

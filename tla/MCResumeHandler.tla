--------------------------- MODULE MCResumeHandler ---------------------------
(* Instances of ResumeHandler for TLC. *)
EXTENDS ResumeHandler, TLC

\* A batch in range, and one whose second index is out of range.
SmallBatches == {<<0, 1>>, <<0, TotalChunks, 1>>}

\* The empty state of a new transfer, and one a caller may save over what is cached.
NewState   == [marked |-> {}, fresh |-> TRUE]
SomeStates == {NewState, [marked |-> {2}, fresh |-> TRUE]}
NewStates  == {NewState}

Symmetry == Permutations(Threads)
=============================================================================

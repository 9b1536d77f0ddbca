---------------------------- MODULE MCNoteIndex ----------------------------
(* Instance of NoteIndex for TLC: two notes of a directory, with links to    *)
(* both, one by its name and one by its path.                                *)
EXTENDS NoteIndex, TLC

CONSTANTS r1, r2, absent

MCRequests == {r1, r2}
MCDirs == {"d"}
MCNames == {"a", "b"}
MCFiles == {[dir |-> "d", name |-> "a"], [dir |-> "d", name |-> "b"]}
MCContents == {{}, {[dir |-> "d", name |-> "b"], [dir |-> "same", name |-> "a"]}}

\* Nothing tells the two requests apart, and no property is about liveness.
Symmetric == Permutations(MCRequests)
=============================================================================

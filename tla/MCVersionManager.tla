-------------------------- MODULE MCVersionManager --------------------------
(* VersionManager with two files of which one lists the other's versions. *)
EXTENDS VersionManager, TLC

CONSTANTS readme, readmeMd

MCAlsoLists == {<<readme, readmeMd>>}
\* A clock one hour behind UTC.
MCZone == -1

Symmetry == Permutations(Worker) \cup Permutations(Content)
=============================================================================

---------------------------- MODULE MCFolderSync ----------------------------
(* FolderSync as it is: the configurations give its sets.  Devices and      *)
(* goroutines are interchangeable, but every configuration checks liveness, *)
(* where symmetry is not sound.                                             *)
EXTENDS FolderSync
=============================================================================

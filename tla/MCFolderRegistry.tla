-------------------------- MODULE MCFolderRegistry --------------------------
(* FolderRegistry with two devices and one folder. *)
EXTENDS FolderRegistry, TLC

CONSTANTS A, B, f

MCLimit == {0, 20}  \* unlimited, and another number

MCEntry(delete, on) == <<[id |-> f, syncDelete |-> delete, enabled |-> on]>>

\* The folder is on one device, or on both with different settings.
MCStart ==
  {A :> x @@ B :> y :
     <<x, y>> \in {<<MCEntry(FALSE, TRUE), <<>> >>,
                  <<MCEntry(FALSE, TRUE), MCEntry(FALSE, FALSE)>>,
                  <<MCEntry(TRUE, TRUE), MCEntry(FALSE, TRUE)>>}}
=============================================================================

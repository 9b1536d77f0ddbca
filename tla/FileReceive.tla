---------------------------- MODULE FileReceive ----------------------------
(***************************************************************************)
(* What receiving a file promises, whichever way the file travels: block   *)
(* by block (module CdcTransfer), in chunks or whole (ChunkedTransfer).    *)
(*                                                                         *)
(* The file at its final path is vacated and then published; it is vacated *)
(* only when a copy of it is kept, and what is published is a whole file   *)
(* of the sender.  Two things excuse the receiver: its own users write the *)
(* file meanwhile (touched), or the transfer is spoiled by a fault of the  *)
(* sender or of the way, and even then nothing but the sender's blocks and *)
(* holes between them is published.                                        *)
(***************************************************************************)
EXTENDS Sequences, Naturals

CONSTANTS
  Offer,       \* contents the sender's file may have
  Local,       \* contents the receiver's users write
  Absent,      \* no file
  Holes,       \* what the file may have where no block was written
  Versioning   \* are replaced files kept?

VARIABLES
  file,        \* the file at its final path
  kept,        \* copies kept of replaced files
  busy,        \* a transfer is under way
  touched,     \* the receiver's users have written the file
  spoiled      \* a transfer was spoiled on the way

vars == <<file, kept, busy, touched, spoiled>>

OfferedBlocks == UNION {{c[i] : i \in DOMAIN c} : c \in Offer}

Init ==
  /\ file \in Local \cup {Absent}
  /\ kept = {}
  /\ busy = FALSE /\ touched = FALSE /\ spoiled = FALSE

Ask == ~busy /\ busy' = TRUE /\ UNCHANGED <<file, kept, touched, spoiled>>

End == busy /\ busy' = FALSE /\ UNCHANGED <<file, kept, touched, spoiled>>

Keep ==
  /\ busy /\ file # Absent
  /\ kept' = kept \cup {file}
  /\ UNCHANGED <<file, busy, touched, spoiled>>

Vacate ==
  /\ busy
  /\ \/ ~Versioning \/ touched \/ spoiled
     \/ file \in kept \cup Offer
  /\ file' = Absent
  /\ UNCHANGED <<kept, busy, touched, spoiled>>

Publish ==
  /\ busy
  /\ file = Absent \/ touched
  /\ \/ file' \in Offer
     \/ /\ spoiled
        /\ file' # Absent
        /\ \A i \in DOMAIN file' : file'[i] \in OfferedBlocks \cup Holes
  /\ UNCHANGED <<kept, busy, touched, spoiled>>

\* The receiver's users write this file, or others whose blocks may end up
\* in it.
UserWrites(c) ==
  /\ file' \in {c, file} /\ touched' = TRUE
  /\ UNCHANGED <<kept, busy, spoiled>>

Spoil == spoiled' = TRUE /\ UNCHANGED <<file, kept, busy, touched>>

Next ==
  \/ Ask \/ End \/ Keep \/ Vacate \/ Publish \/ Spoil
  \/ \E c \in Local : UserWrites(c)

Spec == Init /\ [][Next]_vars
=============================================================================

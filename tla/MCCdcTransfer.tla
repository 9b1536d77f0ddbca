--------------------------- MODULE MCCdcTransfer ---------------------------
(* CdcTransfer with small sets of files for TLC. *)
EXTENDS CdcTransfer, TLC

CONSTANTS one, two, three, other

\* One version longer than the other: an edit may shorten the file.
MCShrinking == {<<one, two>>, <<two>>}
\* Two files that share blocks in other places, the second the longer one.
MCSources == {<<one, two>>, <<three, two, one>>}
\* Local files: blocks of the sender's file in and out of place.
MCLocalOne == {<<two, one>>}
MCOther == {other}
MCNoOther == {}

\* Transfers are interchangeable; used by runs without liveness only.
TransferSymmetry == Permutations(Transfers)
=============================================================================

------------------------- MODULE MCChunkedTransfer -------------------------
(* ChunkedTransfer with small files for TLC. *)
EXTENDS ChunkedTransfer

CONSTANTS one, two, three

\* With chunks of two blocks: a file sent whole, one of two chunks, one of
\* three and one that fills its chunks.
MCSources == {<<one>>, <<one, two, three>>, <<two, two, one, three, one>>,
              <<three, one>>}
\* Files that fill their chunks only.
MCFull == {<<three, one>>, <<one, two, two, three>>}
MCLocal == {<<two>>, <<three, two, one>>}
=============================================================================

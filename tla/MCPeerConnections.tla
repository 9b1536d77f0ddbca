------------------------- MODULE MCPeerConnections -------------------------
(* PeerConnections for TLC: model values have no order of their own. *)
EXTENDS PeerConnections, TLC

CONSTANTS A, B

MCRank == A :> 2 @@ B :> 1

\* A session for each direction.
MCEnds == 1 :> <<A, B>> @@ 2 :> <<B, A>>
=============================================================================

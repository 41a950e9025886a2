--------------------------- MODULE MCChannelPeers ---------------------------
(* Two remote nodes for TLC. *)
EXTENDS ChannelPeers, TLC

CONSTANTS p1, p2

MCPeers == {p1, p2}

MCSymmetry == Permutations(MCPeers)
=============================================================================

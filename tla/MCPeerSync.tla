----------------------------- MODULE MCPeerSync -----------------------------
(***************************************************************************)
(* Two peers and a chain that forks after its first block, one branch      *)
(* longer than the other, for PeerSync; the peers are in sync at first,    *)
(* get two more blocks between them, and one connection may be lost.       *)
(***************************************************************************)
EXTENDS PeerSync, TLC

CONSTANTS p, q
MCPeers == {p, q}

Branches == <<0, 1, 1, 3>>
AtFirst == [x \in MCPeers |-> 1]

BothAlike == Permutations(MCPeers)
=============================================================================

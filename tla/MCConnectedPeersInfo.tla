------------------------ MODULE MCConnectedPeersInfo ------------------------
EXTENDS ConnectedPeersInfo, TLC

CONSTANTS p1, p2, p3, sh0, sh1

MCPeers == {p1, p2, p3}
MCShards == {sh0, sh1}

(* Peers and shards are interchangeable: the classification compares a    *)
(* shard only with selfShard and never orders peers.                      *)
MCSymmetry == Permutations(MCPeers) \cup Permutations(MCShards)

=============================================================================

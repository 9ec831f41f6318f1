CONSTANTS
    p1 = p1
    p2 = p2
    p3 = p3
    sh0 = sh0
    sh1 = sh1
    Peers <- MCPeers
    Shards <- MCShards

SPECIFICATION Spec

SYMMETRY MCSymmetry

INVARIANT PeersInfoMatchesSpec

\* The call returns: the finished state has no successor.
CHECK_DEADLOCK FALSE

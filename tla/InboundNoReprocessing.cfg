CONSTANTS
    t1 = t1
    id1 = id1
    p1 = p1
    p2 = p2
    m1 = m1
    m2 = m2
    Topics <- MCTopics
    Ids <- MCIds
    Peers <- MCPeers
    Msgs <- MCMsgs
    MsgTopic <- MCMsgTopic
    MsgFrom <- MCMsgFrom
    MsgTs <- MCMsgTs
    MsgCorrupt <- MCMsgCorrupt
    CacheDur = 2
    Advance = 1
    MaxTime = 5
INIT Init
NEXT Next
INVARIANT
    NoReprocessing

CONSTANTS
    t1 = t1
    p1 = p1
    p2 = p2
    e1 = e1
    e2 = e2
    Disabled = Disabled
    Topics <- MCTopics
    Peers <- MCPeers
    Evaluators <- MCEvaluators
SPECIFICATION Spec
PROPERTY
    DeniedPeerKeptOut

CONSTANTS
    t1 = t1
    q1 = q1
    q2 = q2
    dflt = dflt
    Topics <- MCTopics
    Producers <- MCProducers
    DefaultChannel = dflt
    ChanCap = 1
    MaxGoRoutines = 2
SPECIFICATION Spec
\* After Close the sender goroutine has returned and producers blocked on a
\* full channel stay blocked: the messenger really stops there.
CHECK_DEADLOCK FALSE
INVARIANT
    ThrottlerCounts
PROPERTY
    BroadcastReturns
    LoadBalancerRefined

CONSTANTS
    t1 = t1
    q1 = q1
    q2 = q2
    dflt = dflt
    Topics <- MCTopics
    Producers <- MCProducers
    DefaultChannel = dflt
    ChanCap = 1
    MaxGoRoutines = 1
SPECIFICATION Spec
CHECK_DEADLOCK FALSE
INVARIANT
    ThrottlerBound

CONSTANTS
    t1 = t1
    t2 = t2
    c1 = c1
    c2 = c2
    NoList = NoList
    Topics <- MCTopics
    Callers <- MCCallers
    Refresh = 2
    TTL = 3
    MaxVer = 1
INIT Init
NEXT Next
INVARIANT
    EntryAgeBounded

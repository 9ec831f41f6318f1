CONSTANTS
    t1 = t1
    t2 = t2
    t3 = t3
    id1 = id1
    Topics <- MCTopics3
    Ids <- MCIds1
INIT RegInit
NEXT RegNext
PROPERTY
    UnregisterAllClearsValidators

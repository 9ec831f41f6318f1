\* UnregisterAllMessageProcessors deletes the keys but leaves each object
\* full.  A delivery that got hold of an object before it then lists
\* processors that are no longer registered.  Two such deliveries exist.
\* One is a pubsub validation queued earlier, whose closure holds the object.
\* The other is a direct delivery that read processors[topic] under the read
\* lock and calls getList after releasing it.  Both traces are four steps
\* long; TLC reports whichever it reaches first.
CONSTANTS
    t1 = t1
    t2 = t2
    id1 = id1
    id2 = id2
    s1 = s1
    s2 = s2
    NoObj = NoObj
    MaxObj = 3
    Topics <- MCTopics
    Ids <- MCIds
    Slots <- MCSlots
SPECIFICATION Spec

PROPERTY NoStaleRun

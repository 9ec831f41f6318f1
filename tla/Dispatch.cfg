\* Pointer-level registry with in-flight validations: the validator closure
\* holds the current object, and the module implements TopicRegistry.
CONSTANTS
    t1 = t1
    t2 = t2
    id1 = id1
    id2 = id2
    s1 = s1
    s2 = s2
    NoObj = NoObj
    MaxObj = 3
    Topics <- MCTopics
    Ids <- MCIds
    Slots <- MCSlots
SPECIFICATION Spec
INVARIANT ValidatorHoldsCurrentObject
PROPERTY RegistryRefined

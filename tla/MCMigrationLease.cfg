CONSTANTS
    c1 = c1
    c2 = c2
    c3 = c3
    label = label
    Coordinator <- Pair
    Holder <- Pair
    HolderOf <- OwnLabel
    NoHolder = NoHolder
    Payload = {p}
    Work = {w}
    MaxFence = 3
    MaxSequence = 2
    MaxFaults = 2
SPECIFICATION Spec
SYMMETRY Interchangeable
INVARIANTS
    TypeOK
    MirrorBetweenLeaseAndControl
    SchemaTransactionFenced
    JournalOrdered
PROPERTIES
    AcquireIssuesGreaterFence
    ResumedJournalIsFinal

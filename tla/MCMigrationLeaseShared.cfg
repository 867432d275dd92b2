CONSTANTS
    c1 = c1
    c2 = c2
    c3 = c3
    label = label
    Coordinator <- Pair
    Holder <- SameLabel
    HolderOf <- SharedLabel
    NoHolder = NoHolder
    Payload = {p}
    Work = {w}
    MaxFence = 2
    MaxSequence = 1
    MaxFaults = 2
SPECIFICATION Spec
PROPERTIES
    AcquireIssuesGreaterFence

CONSTANTS
    c1 = c1
    c2 = c2
    s0 = s0
    s1 = s1
    s2 = s2
    r1 = r1
    r2 = r2
    NoState = NoState
    Coordinator <- One
    Program <- TwoDeltas
    State = {s0, s1, s2}
    Row = {r1, r2}
    BatchRows = 1
    Payload <- Payloads
    Work <- Works
    MaxFence = 3
    MaxSequence = 12
    MaxFaults = 2
    MaxDrifts = 0
SPECIFICATION FairSpec
PROPERTIES
    EventuallyApplied

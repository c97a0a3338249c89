SPECIFICATION FairSpec
CONSTANTS
    c1 = c1
    c2 = c2
    Callers <- TwoCallers
    Priorities <- TwoPriorities
    MaxDepth = 2
    MaxSeq = 4
INVARIANTS NoLostWakeup ServedInOrder
PROPERTIES CloseReleases

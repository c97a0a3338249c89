CONSTANTS
    i1 = i1
    i2 = i2
    i3 = i3
    ann = ann
    bob = bob
    c1 = c1
    c2 = c2
    c3 = c3
    w1 = w1
    Sweeper = sweeper
    None = None
    Ids <- ThreeIds
    Owners <- TwoOwners
    Calls <- ThreeCalls
    OwnerOf <- TwoOfAnn
    Workers <- OneWorker
    Sizes <- UserOneReplyTwo
    MaxTime = 2
    Scenarios <- AllScenarios
SPECIFICATION FairSpec
CHECK_DEADLOCK FALSE
INVARIANTS SlotsExact NoLastingOrphan 
PROPERTIES ExpiredGoes

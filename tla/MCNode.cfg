SPECIFICATION Spec
CONSTANTS
    Kib = 2
    Absent = Absent
    Failed = Failed
    Bad = Bad
    Blank = Blank
    None = None
    Models = {"m1", "m2"}
    Jobs = {1, 2, 3}
    ChunksMax = 1
    QueueMax = 1
    UpMax = 2
    BackoffBase = 1
    BackoffMax = 3
    AttemptMax = 3
    Scenarios <- AllScenarios
CHECK_DEADLOCK FALSE
INVARIANTS AnswerInOrder PartingSound AdvertisedWasListed
PROPERTIES IdentityPinned 

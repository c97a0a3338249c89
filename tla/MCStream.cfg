SPECIFICATION FairSpec
CONSTANTS
    Jobs <- OneJob
    j1 = j1
    End = End
    Error = Error
    Fail = Fail
    Cancelled = Cancelled
    None = None
    ChanCap = 1
    MaxDeltas = 3
\* Every stream ends, one way or another.
CHECK_DEADLOCK FALSE
INVARIANTS StreamFaithful ResultAccounted EndsCleanly
PROPERTIES StreamReleased

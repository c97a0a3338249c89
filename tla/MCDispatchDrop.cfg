SPECIFICATION FairSpec
CONSTANTS
    j1 = j1  j2 = j2  h1 = h1  h2 = h2  w1 = w1  w2 = w2  m1 = m1
    None = None
    Jobs <- OneJob
    Handles <- OneHandle
    Ids <- OneId
    IdOf <- SameWorker
    Models <- OneModel
    ModelOf <- SameModel
    PrioOf <- SamePrio
    Reports <- AlwaysFit
    SendCap = 1
    MaxDepth = 1
    Env <- Drop
CHECK_DEADLOCK FALSE
PROPERTIES DroppedWorkerFailsJob

CONSTANTS
    None = None
    Nil = Nil
    r1 = r1
    r2 = r2
    r3 = r3
    s1 = s1
    s2 = s2
    n1 = n1
    n2 = n2
    ka = ka
    kb = kb
    ma = ma
    mb = mb
    c1 = c1
    Requests = {r1, r2, r3}
    Sids = {s1, s2}
    Nodes = {n1, n2}
    Results <- MCResults
    Plans <- MCPlans
    Chats = {c1}
    Clients = {1}
    Links = {1}
    AuditCap = 1
    MaxCount = 1
    Boots = 2
    Scopes <- MCScopes
    RingCap = 2
    MaxLines = 4
    Items = {1, 2, 3, 4}
    PageSize = 2
    MaxDays = 2
    Horizon = 4
    DayTokens = 1
    Recorders = {1, 2, 3}
    Latency <- MCLatency
    Cards <- MCCards
    Machines = {1, 2, 3}
    Snapshots <- MCSnapshots
    LoadPlans <- MCLoadPlans
    MaxSent = 3
    MaxWaits = 2
    Parts = {"gateway", "process", "config", "logs", "lists", "usage", "telemetry", "capacity",
             "placement", "loadtest"}
SPECIFICATION Spec
\* Every request is answered, and the process may stay down.
CHECK_DEADLOCK FALSE
INVARIANTS ConversationSound AnswersAccounted   PickIsBest LoadReportTrue
PROPERTIES NothingTakenBack 

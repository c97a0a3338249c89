SPECIFICATION Spec
CONSTANTS
    k1 = k1  r1 = r1  r2 = r2  r3 = r3
    None = None
    Global = Global
    Keys = {k1}
    Requests = {r1, r2, r3}
    KeyOf <- OneKey
    OwnLimits <- NoOwnLimits
    LimitChoices <- KeyLimits
    GlobalChoices <- GlobalLimits
    DayOf <- DayStarts
    MonthOf <- MonthStarts
    MaxTime = 2
    MaxTokens = 1
    Scenarios <- Mixed
SYMMETRY SameRequests
CHECK_DEADLOCK FALSE
INVARIANTS CountersSound  
PROPERTIES VerdictsJust

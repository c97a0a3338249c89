CONSTANTS
    KeyIds = {1, 2, 3, 4, 5}
    Models = {"m1", "m2"}
    MaxClock = 2
    None = None
    Boot <- MCBoot
    Blank = Blank
    Requests = {1, 2, 3}
    IdemKeys = {"i1"}
    IdemTTL = 2
    IdemMax = 2
    AuditMax = 3
    Workers = {"w1"}
    Scenarios <- MCScenarios
SPECIFICATION Spec
CHECK_DEADLOCK FALSE
INVARIANTS CredentialsSound  AuditMatchesWrites RetriesSafe SettingsSound
PROPERTIES OneAspectPerStep

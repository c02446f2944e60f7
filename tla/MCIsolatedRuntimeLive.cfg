CONSTANTS
    MaxRuntimes = 1
    MaxRestarts = 2
    MaxCrashes = 1
    NoPath = NoPath
    Stoppers = {s1}
    Failures = {"hung", "none"}
    Wirings <- Supervising
SPECIFICATION RuntimeSpec
INVARIANTS
    RuntimeTypeOK
    LaunchesCounted
PROPERTIES
    RestartsOnlyTheSilent
    LostRuntimesEnd
    RevokedRuntimesEnd
CHECK_DEADLOCK FALSE

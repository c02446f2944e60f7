CONSTANTS
    one = one
    two = two
    bad = bad
    sick = sick
    Archives = {one, two, bad, sick}
    VersionOf <- MCVersionOf
    Broken = {bad}
    Unhealthy = {sick}
    Requests = {r1, r2}
    MaxEvents = 3
    MaxFaults = 1
    Partial = Partial
    Torn = Torn
    None = None
SPECIFICATION PackageSpec
INVARIANTS
    RecordMatchesFiles
    RollbackPointIntact
PROPERTIES
    OnlyVerifiedCodeLoads
    QuarantineJustified
    LockIsReleased
    ProcessesComeUp
CHECK_DEADLOCK FALSE

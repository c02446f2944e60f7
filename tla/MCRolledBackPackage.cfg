CONSTANTS
    one = one
    two = two
    bad = bad
    sick = sick
    Archives = {one, two}
    VersionOf <- MCVersionOf
    Broken = {}
    Unhealthy = {}
    Requests = {r1}
    MaxEvents = 2
    MaxFaults = 0
    Partial = Partial
    Torn = Torn
    None = None
SPECIFICATION PackageSpec
INVARIANT RolledBackIsLoadable
CHECK_DEADLOCK FALSE

CONSTANTS
    MaxRuntimes = 1
    MaxRestarts = 1
    MaxCrashes = 0
    NoPath = NoPath
    Stoppers = {}
    Failures = {"hung", "none"}
    Wirings <- Deployed
SPECIFICATION RuntimeSpec
PROPERTIES
    HeartbeatMissStops
CHECK_DEADLOCK FALSE

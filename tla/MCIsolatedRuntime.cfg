CONSTANTS
    MaxRuntimes = 2
    MaxRestarts = 1
    MaxCrashes = 0
    NoPath = NoPath
    Stoppers = {s1}
    Failures = {"none"}
    Wirings <- OneMiss
SPECIFICATION RuntimeSpec
VIEW BesideHistory
INVARIANTS
    OutOfServiceIsCutOff
CHECK_DEADLOCK FALSE

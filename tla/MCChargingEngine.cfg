CONSTANTS
    MinCurrent = 2
    MaxCurrent = 3
    IncreaseStep = 1
    DecreaseStep = 1
    StartDelay = 0
    StopDelay = 1
    MinRunTime = 0
    MinOffTime = 2
    ImportTime = 0
    MaxStarts = 1
    Hour = 1
    Inputs = {}
    MinChangeInterval = 2
    Hysteresis = 1
    MaxFailures = 1
    UserModes = {"SMART_CHARGE", "PAUSED"}
    Overrides = FALSE
    Wishes = {0, 3}
    MaxCrashes = 1
    None = None
SPECIFICATION EngineSpec
INVARIANTS EngineTypeOK StateMatchesRequest KnowsLimit
PROPERTIES CommittedStopRests

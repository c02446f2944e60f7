CONSTANTS
    MinCurrent = 2
    MaxCurrent = 2
    IncreaseStep = 1
    DecreaseStep = 1
    StartDelay = 0
    StopDelay = 0
    MinRunTime = 0
    MinOffTime = 2
    ImportTime = 0
    MaxStarts = 1
    Hour = 0
    Inputs = {}
    MinChangeInterval = 0
    Hysteresis = 1
    MaxFailures = 1
    UserModes = {"SMART_CHARGE", "PAUSED"}
    Overrides = TRUE
    Wishes = {0, 2}
    MaxCrashes = 1
    None = None
SPECIFICATION FairEngineSpec
CONSTRAINT OneFault
PROPERTIES PauseTakesEffect UnwantedChargingEnds WantedChargingRuns

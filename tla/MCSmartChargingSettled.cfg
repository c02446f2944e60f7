CONSTANTS
    MinCurrent = 3
    MaxCurrent = 5
    IncreaseStep = 1
    DecreaseStep = 2
    StartDelay = 1
    StopDelay = 1
    MinRunTime = 2
    MinOffTime = 1
    ImportTime = 0
    MaxStarts = 1
    Hour = 2
    ModesUsed = {"SMART_CHARGE", "SOLAR_CHARGE", "QUICK_CHARGE"}
    OverrideModes = {}
    Targets = {0, 4}
    Inputs <- MCInputs
    None = None
SPECIFICATION SettledSpec
PROPERTIES EventuallyCharges StopIsRepeated ReachesTarget

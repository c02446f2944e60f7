CONSTANTS
    MinCurrent = 3
    MaxCurrent = 5
    IncreaseStep = 1
    DecreaseStep = 2
    StartDelay = 1
    StopDelay = 1
    MinRunTime = 3
    MinOffTime = 2
    ImportTime = 1
    MaxStarts = 2
    Hour = 5
    ModesUsed = {"SMART_CHARGE", "SOLAR_CHARGE", "QUICK_CHARGE", "PAUSED"}
    OverrideModes = {"SOLAR_CHARGE"}
    Targets = {0, 2, 3, 6}
    Inputs <- MCInputs
    None = None
SPECIFICATION HistorySpec
INVARIANTS TypeOK StateMatchesRequest CooldownMatchesStop HourlyLimit
PROPERTIES KeepsGuardrails StartDelayKept StopDelayKept MinimumRunKept

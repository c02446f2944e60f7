CONSTANTS
    charger = charger
    smart = smart
    pack = pack
    Modules = {charger, smart, pack}
    Rank <- MCRank
    Deps <- MCDeps
    Requires <- MCRequires
    Provides <- MCProvides
    Isolated = {pack}
    Charging = smart
    Initially <- MCInitially
    MaxChanges = 1
    MaxChecks = 1
    MaxFaults = 1
    None = None
SPECIFICATION OrchestratorSpec
INVARIANTS OrchestratorTypeOK NothingHangs FollowsEvents 
PROPERTIES EnabledModulesRun DisabledModulesStop ShownModulesRun

CONSTANTS
    charger = charger
    smart = smart
    pack = pack
    Modules = {charger, smart}
    Rank <- MCRank
    Deps <- MCDeps
    Requires <- MCRequires
    Provides <- MCProvides
    Isolated = {}
    Charging = smart
    Initially <- MCInitiallyBoth
    MaxChanges = 2
    MaxChecks = 0
    MaxFaults = 0
    None = None
SPECIFICATION OrchestratorSpec
PROPERTY SuppliedInTheEnd

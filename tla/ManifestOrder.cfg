INIT ManifestInit
NEXT ManifestNext
CONSTANTS
    Worlds <- SharedKeyWorlds
    None = None
    Texts <- SmallTexts
    ScanLimit = 200
    MaxRuns = 4
    MaxFaults = 3
    MaxEdits = 2
INVARIANTS
    DependenciesComeFirst

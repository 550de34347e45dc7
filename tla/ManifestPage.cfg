INIT ManifestInit
NEXT ManifestNext
CONSTANTS
    Worlds <- AccountWorlds
    None = None
    Texts <- SmallTexts
    ScanLimit = 1
    MaxRuns = 4
    MaxFaults = 3
    MaxEdits = 2
INVARIANTS
    CompleteMeansConverged

INIT Init
NEXT Next
CONSTANTS
    Worlds <- SmallWorlds
    None = None
    Texts <- SmallTexts
    ScanLimit = 200
    MaxRuns = 4
    MaxFaults = 3
    MaxEdits = 2
    Admins = {a1, a2}
    NoAdmin = NoAdmin
    Events = {e1, e2}
    EditBound = 3
    Threads = {t1, t2}
    MaxCalls = 2
SYMMETRY Symmetry
CHECK_DEADLOCK FALSE
INVARIANTS
    CompleteMeansConverged
    WideningIsReported
    UndisturbedApplySucceeds
    SecretsAreReported
    CallsAreSafe
    BodiesSurviveTheTrip
    OnlyTheEditedMemberChanges
PROPERTIES
    UnstatedSurvives
    NarrowingHolds

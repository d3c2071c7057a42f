SPECIFICATION Spec
CONSTANTS
    MaxThreads = 2
    MaxCount = 3
    MaxSlotRetry = 1
    Console = FALSE
    Nobody = Nobody
    Settings = {"old", "new"}
    Requests = {"r1", "r2"}
    None = None
INVARIANTS
    FinishedRowTrue
    StopFindsReauth
    MaintenanceHeld
PROPERTIES
    ProgressForward
    FinishedRowStays
    ConfigFrozen

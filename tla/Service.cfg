\* Four hours of three-hour days; a source that compiles; two starts.
\* The process may be off for ever.  No symmetry: ReadyMeansWork is about liveness.
CHECK_DEADLOCK FALSE
SPECIFICATION FairServiceSpec
CONSTANTS
    Settings <- MCSettings
    Installed = {s1}
    Compiles = {s1}
    Schedule <- MCSchedule
    Day = 3
    MaxNow = 4
    MaxStarts = 2
    MaxFaults = 1
INVARIANTS
    OncePerPeriod
    WorkFindsItsSources

    

\* Every fault but the database's.  No symmetry: the properties are about liveness.
SPECIFICATION FairSpec
CONSTANTS
    JobId = {j1, j2}
    NoJob = NoJob
    urgent = urgent
    routine = routine
    Work = {urgent}
    NoWork = NoWork
    Worker = {w1, w2}
    NoWorker = NoWorker
    Priority <- MCPriority
    MaxAttempts <- MCMaxAttempts
    Backoff = 1
    Overdue = 0
    StaleAfter = 1
    Retention = 1
    MaxRun = 1
    Faults = {"crash", "drain", "panic"}
    MaxDisruptions = 2
    MaxDead = 1
    Requests = {"cancel"}
INVARIANTS
    OutcomeHolds

    
    

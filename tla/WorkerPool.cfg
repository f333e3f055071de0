\* Two jobs, two workers, every fault.  A claim ends before its lock is stale, but may outlast
\* Retention, so that the row of a held job can be pruned.
SPECIFICATION Spec
SYMMETRY Symmetry
CONSTANTS
    JobId = {j1, j2}
    NoJob = NoJob
    urgent = urgent
    routine = routine
    Work = {urgent, routine}
    NoWork = NoWork
    Worker = {w1, w2}
    NoWorker = NoWorker
    Priority <- MCPriority
    MaxAttempts <- MCMaxAttempts
    Backoff = 1
    Overdue = 0
    StaleAfter = 2
    Retention = 1
    MaxRun = 2
    Faults = {"crash", "drain", "panic", "database"}
    MaxDisruptions = 2
    MaxDead = 1
    Requests = {"cancel", "retry"}
INVARIANTS
    OneHolder
PROPERTIES
    NoResurrection
    

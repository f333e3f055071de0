\* Two requests in flight out of three, two pages at once out of three, two attempts.
SPECIFICATION SandboxSpec
CHECK_DEADLOCK FALSE
CONSTANTS
    good = good
    moved = moved
    slow = slow
    gone = gone
    astray = astray
    within = within
    Url = {good, moved, slow, astray, within, gone}
    Asked = {good, slow, astray}
    Named = {gone}
    Image = {moved, slow, gone}
    Site <- MCSite
    Addresses <- MCAddresses
    Outside <- MCOutside
    Final <- MCFinal
    None = None
    MaxHandles = 3
    MaxBatch = 3
    MaxPages = 3
    InFlight = 2
    PageConcurrency = 2
    MaxAttempts = 2

    
PROPERTIES
    AttemptsAreSpentWell

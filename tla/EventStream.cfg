\* Two jobs, a page, a channel of one event, so that it lags; lost streams and stopped servers.
\* A server that is stopping waits for its streams, and nothing else may be left to do.
CHECK_DEADLOCK FALSE
SPECIFICATION FairSpec
CONSTANTS
    Client = {c1}
    Job = {j1, j2}
    Capacity = 1
    MaxEvents = 2
    MaxLosses = 2
INVARIANTS
    LooksLiveIsLive
    BarsEnd
PROPERTIES
    EveryViewCatchesUp

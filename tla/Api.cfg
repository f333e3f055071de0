\* Five rows, two to a page and two keys, so that pages end amid equal keys; archives of up to three
\* ranges.
SPECIFICATION ApiSpec
CHECK_DEADLOCK FALSE
CONSTANTS
    Row = {1, 2, 3, 4, 5}
    Key = {0, 1}
    PageSize = 2
    Size = {0, 1, 2, 5}
    MaxRange = 2
    MaxChanges = 2
    Client <- MCClient
    Proxy <- MCProxy
    TrustedProxies <- MCTrustedProxies
    MaxClaims = 1
    MaxHops = 2
    AuthPeriod = 2
    AuthBurst = 2
    MaxNow = 6
    User = {u1, u2}
    NoUser = NoUser
    Batch <- MCBatch
    Limit = 1
    MaxSpans = 2
    MaxAttributes = 2
    PageList <- MCPageList
    PagesAtOnce = 3
    MaxPages = 5
    MaxBytes = 5
    Base = 2
    MinWidth = 2
    Path <- MCPath
    Index <- MCIndex
    Build <- MCBuild
    HashLen = 2
    MaxDeploys = 2
    Thread = {t1, t2}
    Line <- MCLine
    Sensitive = {"token", "cookie"}
    MaxLines = 2
    Entry = {1, 2, 3}
    SubjectOf <- MCSubjectOf
    NoSubject = NoSubject
    Fact = {f1, f2}
    JobState = {"queued", "failed"}
    ListLimit = 2
    MaxAlters = 2
    Tab = {c1, c2}
    s1 = s1
    s2 = s2
    Series = {s1, s2}
    ChaptersOf <- MCChaptersOf
    WithDetails = {s2}
    Catalogue <- MCCatalogue
    MaxRows = 2
    MaxRequests = 3
    MaxFailures = 1
    JobWorker = {w1, w2}
    Wait = {1, 2, 3}
    MaxSamples = 3
    MetricsWindow = 1
    MaxOutcomes = 4
    MaxTaken = 2
INVARIANTS
    ListIsWhole
    ArchiveIsWhole
    
    LogIsTheServers
    AddIsARetry
    UiIsDeployed

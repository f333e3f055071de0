\* A source, two requests about it at once, versions 1 and 4 that this host can run, and two that it
\* cannot, for a capability and for a function that are missing,
\* two rows in a row, two failures or restarts.
SPECIFICATION Spec
CONSTANTS
    r1 = r1
    Repo = {r1}
    Source = {s1}
    RepoOf <- MCRepoOf
    Request = {q1, q2}
    None = None
    MaxVersion = 4
    Contents <- MCContents
    WithJs = FALSE
    WebView = {"webview_create"}
    MaxIds = 2
    MaxFaults = 2
INVARIANTS
    InstallsAreWhole
    UninstallsAreWhole
    UsableSurvives
PROPERTIES
    ChosenIsKept
CHECK_DEADLOCK FALSE

\* Two handlers of up to three pages, two at once, compete for two permits; one reinstall.
\* No symmetry: HandlersReturn is about liveness.
SPECIFICATION FairSpec
CONSTANTS
    Source = {s1, s2}
    NoSource = NoSource
    Handler = {h1, h2}
    Declaration <- MCDeclaration
    MaxPages = 3
    PageConcurrency = 2
    DefaultPermits = 2
    Looping = {}
    MaxBudgets = 2

    
PROPERTIES
    HandlersReturn

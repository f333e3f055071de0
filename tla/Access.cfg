\* Two browsers, a user who is allowed and one who is not, two requests at once.
SPECIFICATION Spec
CHECK_DEADLOCK FALSE
CONSTANTS
    Browser = {b1, b2}
    User = {u1, u2}
    Allowed = {u1}
    Request = {r1, r2}
    None = None
    MaxIds = 3
    MaxFlows = 2
    MaxFaults = 1
SYMMETRY Symmetry
INVARIANTS
    
    SignedInByItsOwn
    TakenIsGone
    NeverPromoted

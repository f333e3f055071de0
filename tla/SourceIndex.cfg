\* Two repositories, one of which never answers, and two passes at once.
SPECIFICATION FairSpec
CONSTANTS
    Repo = {r1, r2}
    NoRepo = NoRepo
    Dead = {r2}
    Worker = {w1, w2}
    MaxVersion = 2
    MaxFaults = 1
INVARIANTS
    StampedIsStored
PROPERTIES
    IndexCatchesUp

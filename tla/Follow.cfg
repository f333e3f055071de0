\* A series of one chapter, two workers, so that two checks, or a check and a refresh, run at once;
\* an interval of two ticks; one failed attempt.  No symmetry: DueIsChecked is about liveness.
SPECIFICATION FairSpec
CONSTANTS
    Series = {s1}
    NoSeries = NoSeries
    Chapter = {c1}
    SeriesOf <- MCSeriesOf
    Worker = {w1, w2}
    Interval = 2
    MaxQueued = 1
    MaxFaults = 1
INVARIANTS
    NewToOne
    NothingOwedIsDropped

    

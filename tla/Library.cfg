\* Two workers may come to the same download; two chapters, of which one is downloaded and the
\* other may have been there before; two retries, stale locks or restarts; one loss or outage.
\* No symmetry: two properties are about liveness.
SPECIFICATION FairSpec
CONSTANTS
    Series = {s1}
    c1 = c1
    c2 = c2
    Chapter = {c1, c2}
    NoChapter = NoChapter
    SeriesOf <- MCSeriesOf
    Title <- MCTitle
    Number <- MCNumber
    Worker = {w1, w2}
    Key <- MCOneKey
    Outages = {"unreachable"}
    MaxFaults = 2
    MaxLosses = 1
INVARIANTS
    RowHasFile
    
PROPERTIES
    ForgetsOnlyTheLost
    
    DownloadsSettle
CHECK_DEADLOCK FALSE

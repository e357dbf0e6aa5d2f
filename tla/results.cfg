SPECIFICATION FairSpec
CONSTANTS
    MaxRevs = 1
    NFiles = 2
    Consumers = {c1}
    Loop = Loop
    Threads = {t1}
    MaxVersion = 5
    MaxWrites = 1
    MaxStops = 1
\* The bounds may leave nothing to do.
CHECK_DEADLOCK FALSE
INVARIANTS PinnedIsRetained PageCatchesUp CaptureIsSnapshot ReadingIsHeld
PROPERTY CaptureEnds

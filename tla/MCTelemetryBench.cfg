\* Two modes with two samples each, one restart of the battery, and two frames
\* repeated, altered, made up or damaged.  A script may end after any step.
CONSTANTS
    MaxCounter = 2
    MaxSession = 2
    MaxRestarts = 1
    MaxFaults = 2
    MaxMode = 2
    MaxRows = 3
SPECIFICATION BenchSpec
INVARIANTS
    TypeOK
    HealthyUnlessOvertaken
    RowReplayExact
    VerifierAgrees
CHECK_DEADLOCK FALSE

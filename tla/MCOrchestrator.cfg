\* Three calls of run() on one object; every frame may be lost or duplicated.
CONSTANTS
    MaxRuns = 3
    Fates <- AllFates
    ExpiryChecks <- EitherAnswer
SPECIFICATION FairSpec
INVARIANTS
    TypeOK
    PhaseMatchesState
    OneSessionPerConnection
    SessionRestsOnAgreement
    NoDataFromEarlierRun
    OnlyFirstHelloCanSucceed
    ActiveMeansDelivered
PROPERTIES
    ImplementsConnection
    EveryRunEnds
\* The caller may stop after any number of runs.
CHECK_DEADLOCK FALSE

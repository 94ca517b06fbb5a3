SPECIFICATION FairSpec
CONSTANTS
    j1 = j1
    j2 = j2
    j3 = j3
    t1 = t1
    Jobs <- PairJobs
    Trips <- PairTrips
    TripOf <- PairTripOf
    KindOf <- PairKindOf
    NoJob = NoJob
    Publishers = {p1}
    NoPublisher = NoPublisher
    MAX_STORY_CONCURRENCY = 1
    JOBS_STORY_CONCURRENCY = 1
    JOBS_LEASE_SEC = 2
    JOBS_TIMEOUT_SEC <- Timeouts
    JOBS_PUBLISH_LEASE_SEC = 2
    TotalSteps = 1
    Outcomes <- AnyOutcome
    MaxReturns = 1
INVARIANTS
    TypeOK
    OneActivePerLine
    ResultsArePending
PROPERTIES
    ImplementsBoard
    TerminalIsFinal
    EveryJobEnds

SPECIFICATION FairRunSpec
CONSTANTS
    j1 = j1
    r1 = r1
    r2 = r2
    Jobs <- OneJob
    Trips <- OneJob
    TripOf <- OwnTrip
    KindOf <- StoryJobs
    NoJob = NoJob
    Publishers = {}
    NoPublisher = NoPublisher
    MAX_STORY_CONCURRENCY = 2
    JOBS_STORY_CONCURRENCY = 2
    JOBS_LEASE_SEC = 1
    JOBS_TIMEOUT_SEC <- Timeouts
    JOBS_PUBLISH_LEASE_SEC = 1
    TotalSteps = 1
    Outcomes <- StoryOutcomes
    MaxReturns = 3
    Runners <- TwoRunners
    RunnerKind <- StoryRunners
    MaxStops = 3
INVARIANTS
    HandlerStartsOnce
    DrainLeavesNothing
PROPERTIES
    EveryRunEnds
    LostChildLeaves

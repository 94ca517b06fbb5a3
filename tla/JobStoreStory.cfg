SPECIFICATION Spec
SYMMETRY StorySymmetry
CONSTANTS
    j1 = j1
    j2 = j2
    j3 = j3
    t1 = t1
    Jobs <- StoryJobs
    Trips <- StoryJobs
    TripOf <- StoryTripOf
    KindOf <- StoryKindOf
    NoJob = NoJob
    Publishers = {}
    NoPublisher = NoPublisher
    MAX_STORY_CONCURRENCY = 3
    JOBS_STORY_CONCURRENCY = 2
    JOBS_LEASE_SEC = 1
    JOBS_TIMEOUT_SEC <- ShortTimeouts
    JOBS_PUBLISH_LEASE_SEC = 1
    TotalSteps = 1
    Outcomes <- Success
    MaxReturns = 1
INVARIANTS
    QueueMatchesStatus
    ConcurrencyLimit
PROPERTIES
    StartsInOrder

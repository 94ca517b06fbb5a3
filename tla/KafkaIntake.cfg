SPECIFICATION FairIntakeSpec
CHECK_DEADLOCK FALSE
CONSTANTS
    j1 = j1
    j2 = j2
    j3 = j3
    j4 = j4
    t1 = t1
    t2 = t2
    Jobs = {j1, j2, j3, j4}
    Trips = {t1, t2}
    TripOf <- TripsOfJobs
    KindOf <- ProcessJobs
    NoJob = NoJob
    Publishers = {}
    NoPublisher = NoPublisher
    MAX_STORY_CONCURRENCY = 1
    JOBS_STORY_CONCURRENCY = 1
    JOBS_LEASE_SEC = 1
    JOBS_TIMEOUT_SEC <- Timeouts
    JOBS_PUBLISH_LEASE_SEC = 1
    TotalSteps = 1
    Outcomes = {}
    MaxReturns = 0
    Consumers = {c1, c2}
    NoConsumer = NoConsumer
    Partition <- Log
    ValidJobs = {j1, j2, j4}
    TooLarge = {6}
    MaxFaults = 4
INVARIANTS
    CommittedIsHandled
    HandledInOrder
PROPERTIES
    EveryMessageHandled

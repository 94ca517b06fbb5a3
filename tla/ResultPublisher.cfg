SPECIFICATION FairPubSpec
CONSTANTS
    j1 = j1
    t1 = t1
    Jobs = {j1}
    Trips = {t1}
    TripOf <- OneTrip
    KindOf <- ProcessJobs
    NoJob = NoJob
    Publishers = {p1, p2}
    NoPublisher = NoPublisher
    MAX_STORY_CONCURRENCY = 1
    JOBS_STORY_CONCURRENCY = 1
    JOBS_LEASE_SEC = 1
    JOBS_TIMEOUT_SEC <- Timeouts
    JOBS_PUBLISH_LEASE_SEC = 4
    TotalSteps = 1
    Outcomes <- PubOutcomes
    MaxReturns = 0
    TooLargeResults = {"RESULT"}
    MaxSendFaults = 3
INVARIANTS
    PublishedIsDelivered
    NoDoubleSend
PROPERTIES
    EveryResultPublished

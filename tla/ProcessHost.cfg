SPECIFICATION MCSpec
SYMMETRY PhotoSymmetry
CONSTANTS
    j1 = j1
    j2 = j2
    t1 = t1
    Jobs = {j1, j2}
    Trips = {t1}
    TripOf <- OneTrip
    KindOf <- ProcessJobs
    NoJob = NoJob
    Publishers = {}
    NoPublisher = NoPublisher
    MAX_STORY_CONCURRENCY = 1
    JOBS_STORY_CONCURRENCY = 1
    JOBS_LEASE_SEC = 1
    JOBS_TIMEOUT_SEC <- Timeouts
    JOBS_PUBLISH_LEASE_SEC = 1
    TotalSteps = 1
    Outcomes = {}
    MaxReturns = 0
    BatchNos = {1, 2}
    BatchLimit = 1
    JOBS_PHOTOS_READY_TTL_SEC = 2
    Workers = {w1, w2}
    MaxStagings = 2
    r1 = r1
    r2 = r2
    h1 = h1
    h2 = h2
    bad = bad
    HostRunners = {r1, r2}
    Wanted <- TwoVersions
    Contents = {h1, h2, bad}
    Times = {1, 2}
    NoFile = NoFile
    NoStamp = NoStamp
    EmptyStamp = EmptyStamp
    NoRunner = NoRunner
    Size = 2
INVARIANTS
    IndexIsVerified
    OneChildPerTask
PROPERTIES
    NoBatchAfterProcess

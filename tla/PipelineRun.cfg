SPECIFICATION FairSpec
CONSTANTS
    c1 = c1
    c2 = c2
    near = near
    far = far
    q1 = q1
    None = None
    Talks = {c1, c2}
    Spots = {near, far}
    InTrip = {near}
    Hits <- TwoHits
    Replies <- AllReplies
    InitialImages = 3
    MaxImages = 4
    ReadLimit = 2
    MaxCalls = 2
    Concurrency = 1
    KakaoLimit = 3
    N = 3
    Batch = 2
    Inputs <- MCInputs
INVARIANTS
    OnlyStoppingOutlives
    OnlyOutsideFailures
    CompletedIsComplete
PROPERTIES
    ProgressNeverBack
    EveryPipelineEnds

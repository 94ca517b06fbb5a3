SPECIFICATION Spec
CONSTANTS
    c1 = c1
    c2 = c2
    c3 = c3
    None = None
    N = 4
    Day = 10
    LastDay = 1
    ClockMinSim = 1
    ClockMinPairs = 1
    ClockTolerance = 2
    InheritMinSim = 2
    Eps = 1
    MinSamples = 1
    MaxGap = 3
    Candidates = {c1, c2, c3}
    InRegion = {c1, c2}
    SpotOf <- SpotsOfCandidates
    MaxRounds = 2
    MaxGroups = 2
    Inputs <- MCInputs
    Hashes <- MCHashes
INVARIANTS
    FailsOnlyForBlurredFolder
    InferredFromFolder
    RulesSettled

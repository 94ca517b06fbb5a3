SPECIFICATION Spec
CONSTANTS
    Photos = {1, 2, 3, 4, 5, 6}
    Chunk = 2
    DedupeZ = 1
    Stories <- MCStories
    Attachments = {1, 2, 3, 4}
    Queries <- MCQueries
    Outputs <- MCOutputs
    Scores = {4, 5, 8, 10}
    MinScore = 5
    RatioNum = 4
    RatioDen = 5
    QuestionK = 2
    ParseLimit = 3
    RetrievalLimit = 1
    AnswerLimit = 4
    RequestLimit = 6
    ReleaseLimit = 1
INVARIANTS
    SelectionIsFair
    StoryIsWhole
    OnlyRetrievalFails
    BestEvidence
    DatesAreRight
CHECK_DEADLOCK FALSE

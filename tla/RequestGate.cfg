SPECIFICATION Spec
CONSTANTS
    agent1 = agent1
    agent2 = agent2
    story = story
    Chats = {agent1, agent2, story}
    Processes <- TwoProcesses
    Limit = 1
    Timeout <- Short
    Retries <- AgentRetries
    Concurrency = 1
    WaitSec = 1
    Grace = 1
    LeaseMargin = 2
    ReplyDelay = 2
INVARIANTS
    OverLimitOnlyAfterSlowClaim
    IdleHoldsNoSlot
PROPERTIES
    EveryChatEnds

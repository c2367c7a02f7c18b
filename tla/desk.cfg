SPECIFICATION MCSpec
CONSTANTS
    h1 = h1
    h2 = h2
    Articles = {"a", "b"}
    Posts = {"p", "q"}
    PlatformOf <- MCPlatformOf
    Handlers <- MCHandlers
    MaxRequests = 4
CHECK_DEADLOCK FALSE
INVARIANTS
    RanksFollowTheRows
    OneRunPerRequest
    ConfigsFollowTheLine
    EditsAreRecorded
    PublishersWaitTheirTurn
PROPERTIES
    ImplementsDesk
    EveryHandlerReturns

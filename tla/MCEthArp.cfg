SPECIFICATION FairSpec
CONSTANTS
    Hosts = {h1, h2, h3}
    NoHost = NoHost
    TableSize = 2
    PoolSize = 3
    QueueLen = 2
    MaxAge = 4
    RerequestAge = 2
    MaxPending = 2
    AgeMod = 2
INVARIANTS TypeOK QueuesAccounted SentToItsHost OneEntryPerHost OnlyPendingQueues CleanedStaysClean
PROPERTY WaitingEnds

SPECIFICATION FairSpec
CONSTANTS
    m1 = m1
    m2 = m2
    NoMessage = NoMessage
    Ids <- MCIds
    Waits <- AllWaits
    MAX_MESSAGES = 2
    WaitForMessages = {FALSE}
    SpuriousWakeups = FALSE
    MaxPosts = 4
INVARIANTS
    NoLostWakeup
PROPERTIES
    ImplementsFairChannel
    PostReturns

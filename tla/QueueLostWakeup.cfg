SPECIFICATION FairSpec
CONSTANTS
    m1 = m1
    m2 = m2
    NoMessage = NoMessage
    Ids = {m1}
    Waits = {"PROCESSED"}
    MAX_MESSAGES = 2
    WaitForMessages = {FALSE}
    SpuriousWakeups = TRUE
    MaxPosts = 2
PROPERTY PostReturns

SPECIFICATION Spec
CONSTANTS
    m1 = m1
    m2 = m2
    NoMessage = NoMessage
    Ids <- MCIds
    Waits <- AllWaits
    MAX_MESSAGES = 2
    WaitForMessages = {TRUE, FALSE}
    SpuriousWakeups = TRUE
    MaxPosts = 5
SYMMETRY IdSymmetry
INVARIANTS
    TypeOK
    FlagsBelongToTheCall
    NothingOwedBetweenPumps
    NeverOverwrites
PROPERTY ReturnsOnlyWhenDone

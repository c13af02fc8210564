SPECIFICATION FairSpec
CONSTANTS
    Windows = {w1, w2}
    NULL = NULL
    NoMessage = NoMessage
    Ids <- MessageIds
    Waits = {"PROCESSED"}
    Capacity = 2
    Launches <- AllLaunches
INVARIANTS TypeOK WindowAlive RefsBalanced SeesLatest NoFault
PROPERTIES NoFrameAfterDestroy CallbackReturns DestroyEnds

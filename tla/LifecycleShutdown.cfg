SPECIFICATION Spec
CONSTANTS
    Windows = {w1, w2}
    NULL = NULL
    NoMessage = NoMessage
    Ids <- MessageIds
    Waits = {"PROCESSED"}
    Capacity = 2
    Launches <- OldInstall
INVARIANT AsksJavaToShutDown

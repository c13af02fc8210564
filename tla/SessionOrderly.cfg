SPECIFICATION FairSpec
CONSTANTS
    Handles = {h1, h2, h3, h4}
    NULL = NULL
    MaxEvents = 3
    Failing = {"bounds"}
    MayLose = FALSE
INVARIANTS TypeOK NothingRefused PoseInCurrentSpace
PROPERTIES KeepsDiscipline RuntimeIsObeyed

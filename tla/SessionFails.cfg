SPECIFICATION Spec
CONSTANTS
    Handles = {h1, h2, h3}
    NULL = NULL
    MaxEvents = 2
    Failing <- Calls
    MayLose = TRUE
SYMMETRY HandleSymmetry
INVARIANTS AssertionsHold SessionAgrees FrameIsWhole NoSpaceLeaked

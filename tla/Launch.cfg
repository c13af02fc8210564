SPECIFICATION Spec
CONSTANTS
    Worlds <- MCWorlds
    Entries <- MCEntries
    Rates <- MCRates
    ArgvSize = 5
INVARIANTS
    TypeOK
    FilesAreSound
    ArgumentsArrive
    NoNullCalls
    WalkIsKept
CHECK_DEADLOCK FALSE

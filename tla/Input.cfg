SPECIFICATION Spec
CONSTANT Plays <- MCPlays
INVARIANTS
    TypeOK
    NoKeyLeftBehind
    NoPressIsMissed
    StabilisedWhileHeld
    SnapInRange
PROPERTY TurnsOncePerPush

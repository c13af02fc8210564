SPECIFICATION FairSpec
CONSTANTS
    Requests <- ShortAndEndless
    Intensities = {"weak"}
    Quantum = 2
    Uptime = 8
    MaxGap = 3
INVARIANTS
    TypeOK
    NotTooLong
    NotTooShort
PROPERTY EveryVibrationEnds

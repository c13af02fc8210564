SPECIFICATION Spec
CONSTANTS
    Requests <- ShortAndEndless
    Intensities = {"weak"}
    Quantum = 1
    Uptime = 100
    MaxGap = 3
INVARIANT ToldWhatWasAsked

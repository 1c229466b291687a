CONSTANTS
    Cap = 3
    MaxLines = 6
    RollSize = 2
    CheckEveryN = 2
    NoBuf = NoBuf
SPECIFICATION Spec
INVARIANTS
    StopFlushesAll

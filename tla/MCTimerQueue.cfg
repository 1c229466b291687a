CONSTANTS
    T1 = T1
    T2 = T2
    Timers <- MCTimers
    Interval <- MCInterval
    When <- MCWhen
    Clamp = 1
    MaxLate = 2
    MaxClockSteps = 2
    MaxStepBack = 2
SPECIFICATION Spec
INVARIANTS
    NoStrandedTimer
PROPERTIES
    TimersFire

CONSTANTS
    L1 = L1
    T1 = T1
    T2 = T2
    Loops <- MCLoops
    Foreign <- MCForeign
    MaxFunctors = 4
    MaxIoEvents = 2

SPECIFICATION ThreadSpec
PROPERTY DestructorReturns

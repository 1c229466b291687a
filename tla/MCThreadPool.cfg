CONSTANTS
    W1 = W1
    W2 = W2
    W3 = W3
    T1 = T1
    T2 = T2
    T3 = T3
    NoOne = NoOne
    NoTask = NoTask
    Unset = Unset
    Workers <- MCWorkers
    Tasks <- MCTasks
SPECIFICATION Spec
INVARIANTS
    TypeOK
    TaskConservation
PROPERTIES
    QueuedTasksRun
    DestructorReturns
    DispatchSpec

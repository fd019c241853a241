\* The threading primitives of muduo/base, each checked on its own.
CONSTANTS
    w1 = w1
    w2 = w2
    p1 = p1
    p2 = p2
    c1 = c1
    c2 = c2
    l1 = l1
    l2 = l2
    d1 = d1
    d2 = d2
    d3 = d3
    Workers <- MCWorkers
    MaxTasks <- MCMaxTasks
SPECIFICATION MCSpec
INVARIANT
    MCTypeOK
    NoIdleWorkersWhileWorkQueued
    LatchNoWaiterPassesEarly
PROPERTY
    QueuedTaskEventuallyRuns
    StopJoinsAllWorkers
    BBQImplementsBoundedFifo
    BBQBlockedPutReturns
    BQImplementsFifo
    LatchAllWaitersReleased
\* Each primitive ends with its threads blocked for good (consumers on an
\* empty queue, workers joined) once its bounded callers are done.
CHECK_DEADLOCK FALSE

\* A quit() made before the owning thread enters loop() is lost.
CONSTANTS
    Threads = {t1, t2}
    MaxTasks <- MCMaxTasks

SPECIFICATION Spec

PROPERTY DestructorJoinReturns

CHECK_DEADLOCK FALSE

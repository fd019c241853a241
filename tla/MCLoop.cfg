\* One EventLoop with foreign threads (wakeup, functor order, quit), and
\* the Channel/EPollPoller registration protocol of a loop with two channels,
\* and the liveness of a small TimerQueue.
CONSTANTS
    Threads = {t1, t2}
    MaxTasks <- MCMaxTasks
    c1 = c1
    c2 = c2

SPECIFICATION MCSpec

INVARIANT MCTypeOK
INVARIANT NoStrandedWork
INVARIANT PollerRegistrationMirrorsIndex
INVARIANT PollerEpollCtlNeverFails
INVARIANT PollerDispatchFollowsSpec
PROPERTY ImplementsFunctorQueue
PROPERTY TimersDueEventuallyRun

\* The loop really stops once quit() has been honoured, and the foreign
\* threads may stop calling it; the poller's loop may stop calling it too.
CHECK_DEADLOCK FALSE

------------------------------- MODULE MCLoop -------------------------------
(***************************************************************************)
(* Model-checking instance of what runs on one loop's thread: EventLoop   *)
(* (the loop() cycle, cross-thread functors, wakeup, quit), ChannelPoller  *)
(* (the Channel/EPollPoller registration protocol and dispatch) and a     *)
(* small TimerQueue, whose liveness is checked here.  The modules model   *)
(* disjoint state, so one run checks them side by side: the initial state *)
(* picks which one runs (part) and the others stay in their initial       *)
(* states.  The reachable states are the union of the state spaces, not   *)
(* their product.                                                          *)
(***************************************************************************)
EXTENDS MCEventLoop

CONSTANTS c1, c2

VARIABLES
    part,
    cpEvents, cpIndex, cpChannels, cpInEpoll, cpKMask, cpReady, cpLpc,
    cpActive, cpEventsSize, cpCtlFailed,
    tqTimers, tqActiveTimers, tqTimerObj, tqCalling, tqCanceling, tqExpired,
    tqNextExpired, tqReadNow, tqNow, tqDeadline, tqNumCreated, tqIssued,
    tqCancelled, tqFired, tqPending

\* Two channels; kInitEventListSize (16) scaled to 1, so a poll can fill
\* events_ with fewer ready channels than exist and the doubling is reached.
Poller == INSTANCE ChannelPoller
             WITH Chans <- {c1, c2}, InitEventListSize <- 1,
                  MaxEventListSize <- 4,
                  events <- cpEvents, index <- cpIndex,
                  channels <- cpChannels, inEpoll <- cpInEpoll,
                  kMask <- cpKMask, ready <- cpReady, lpc <- cpLpc,
                  active <- cpActive, eventsSize <- cpEventsSize,
                  ctlFailed <- cpCtlFailed

\* Two timers at two addresses (a reused address and a stale id), time up
\* to 2 (a repeating timer fires twice) and two queued foreign calls.
TQ == INSTANCE TimerQueue
         WITH Addrs <- {1, 2}, MaxTimers <- 2, MaxTime <- 2,
              Delays <- {0, 1}, Intervals <- {0, 1}, MaxPending <- 2,
              timers <- tqTimers, activeTimers <- tqActiveTimers,
              timerObj <- tqTimerObj, callingExpiredTimers <- tqCalling,
              cancelingTimers <- tqCanceling, expired <- tqExpired,
              nextExpired <- tqNextExpired, readNow <- tqReadNow,
              now <- tqNow, deadline <- tqDeadline,
              numCreated <- tqNumCreated, issued <- tqIssued,
              cancelled <- tqCancelled, fired <- tqFired,
              pendingFunctors <- tqPending

loopVars == vars
pollerVars == <<cpEvents, cpIndex, cpChannels, cpInEpoll, cpKMask, cpReady,
                cpLpc, cpActive, cpEventsSize, cpCtlFailed>>
timerVars == <<tqTimers, tqActiveTimers, tqTimerObj, tqCalling, tqCanceling,
               tqExpired, tqNextExpired, tqReadNow, tqNow, tqDeadline,
               tqNumCreated, tqIssued, tqCancelled, tqFired, tqPending>>
allVars == <<part, loopVars, pollerVars, timerVars>>

MCInit ==
    /\ part \in {"loop", "poller", "timers"}
    /\ Init /\ Poller!Init /\ TQ!Init

MCNext ==
    \/ part = "loop" /\ Next /\ UNCHANGED <<part, pollerVars, timerVars>>
    \/ part = "poller" /\ Poller!Next /\ UNCHANGED <<part, loopVars, timerVars>>
    \/ part = "timers" /\ TQ!Next /\ UNCHANGED <<part, loopVars, pollerVars>>

\* The poller has no fairness of its own: its properties are invariants.
MCSpec ==
    /\ MCInit /\ [][MCNext]_allVars
    /\ part = "loop" => Fairness
    /\ part = "timers" => TQ!Fairness

\* Both halves' type invariants.
MCTypeOK == TypeOK /\ Poller!TypeOK /\ TQ!TypeOK

\* Every timer that has come due leaves timers_, taken by getExpired() or
\* cancelled, even once no more time passes (TimerQueue!DueTimerEventuallyRuns).
TimersDueEventuallyRun == TQ!DueTimerEventuallyRuns

\* index_, channels_ and the kernel's epoll table agree after every call
\* sequence of enableReading/enableWriting/disableWriting/disableAll/remove
\* (ChannelPoller!RegistrationMirrorsIndex).
PollerRegistrationMirrorsIndex == Poller!RegistrationMirrorsIndex

\* No epoll_ctl() call that updateChannel/removeChannel makes fails
\* (ChannelPoller!EpollCtlNeverFails).
PollerEpollCtlNeverFails == Poller!EpollCtlNeverFails

\* The whole dispatch table, a constant evaluated once (through the
\* instance TLC would evaluate it in every state).
PollerDispatchTableAgrees == Poller!DispatchTableAgrees

\* handleEvent fires the spec's callbacks in the spec's order for every
\* revents value and for every channel waiting in activeChannels_
\* (ChannelPoller!DispatchFollowsSpec).
PollerDispatchFollowsSpec ==
    /\ PollerDispatchTableAgrees
    /\ \A i \in DOMAIN cpActive : Poller!DispatchAgrees(cpActive[i].revents)
=============================================================================

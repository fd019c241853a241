---------------------------- MODULE MCTimerQueue ----------------------------
EXTENDS TimerQueue

\* Two addresses, so a deleted Timer's address is reused by a later one.
MCAddrs == {1, 2}
\* Three timers: enough for a reuse after a delete plus a stale TimerId.
MCMaxTimers == 3
MCMaxTime == 2
MCDelays == {0, 1}
MCIntervals == {0, 1}
\* Two queued functors: a foreign addTimer and a cancel of it, or two adds.
MCMaxPending == 2
=============================================================================

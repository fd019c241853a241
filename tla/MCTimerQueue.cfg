CONSTANTS
    Addrs <- MCAddrs
    MaxTimers <- MCMaxTimers
    MaxTime <- MCMaxTime
    Delays <- MCDelays
    Intervals <- MCIntervals
    MaxPending <- MCMaxPending
SPECIFICATION Spec
INVARIANT TypeOK
INVARIANT IndexesAgree
INVARIANT TimerfdArmedForEarliest
INVARIANT CancelledTimerNotPending
INVARIANT NoTimerLostWithoutCancel

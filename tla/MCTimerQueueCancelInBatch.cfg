CONSTANTS
    Addrs <- MCAddrs
    MaxTimers <- MCMaxTimers
    MaxTime <- MCMaxTime
    Delays <- MCDelays
    Intervals <- MCIntervals
    MaxPending <- MCMaxPending
SPECIFICATION Spec
PROPERTY NoFiringAfterCancel

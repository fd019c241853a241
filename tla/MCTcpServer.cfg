CONSTANTS
    c1 = c1
    c2 = c2
    c3 = c3
    Conns <- MCConns
    ThreadCounts <- MCThreadCounts
    FdLimit <- MCFdLimit
SPECIFICATION Spec
INVARIANT
    TypeOK
    RegisteredChannelOwnerAlive
    RoundRobinBalanced
PROPERTY
    ArrivedConnectionIsAnswered
    ClosedConnectionIsReclaimed
\* Once every client has connected and closed, the server idles in poll().
CHECK_DEADLOCK FALSE

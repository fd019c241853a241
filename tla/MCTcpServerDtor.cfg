\* ~TcpServer while a close is in flight on an I/O loop.
CONSTANTS
    c1 = c1
    c2 = c2
    c3 = c3
    Conns <- MCConns
    ThreadCounts <- MCThreadCounts
    FdLimit <- MCFdLimit
SPECIFICATION DtorSpec
INVARIANT NoCallIntoDestroyedServer
CHECK_DEADLOCK FALSE

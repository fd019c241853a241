---------------------------- MODULE MCTcpServer ----------------------------
EXTENDS TcpServer

CONSTANTS c1, c2, c3

MCConns == {c1, c2, c3}
\* No I/O loop (every runInLoop of the server runs inline on the base
\* loop), or two (connections are spread and hand-offs cross loops).
MCThreadCounts == {0, 2}
\* Listening socket, idleFd_ and two connections: a third live connection
\* meets EMFILE.
MCFdLimit == 4
=============================================================================

-------------------------- MODULE MCTcpConnection --------------------------
EXTENDS TcpConnection

CONSTANTS u1, u2

MCUsers == {u1}
\* Three sends of one or two bytes against a two-byte kernel buffer: a
\* direct write can be partial, and the buffer can hold data when
\* shutdown() or the close arrives.
MCMaxSends == 3
MCMsgSizes == {1, 2}
MCSockBuf == 2
\* highWaterMark_ scaled to the kernel buffer: a partial direct write and
\* a later append both reach it.
MCHighWaterMark == 2
\* inputBuffer_ scaled: a prepend of 1, an initial size of 1 and an
\* extrabuf of 1.  Three bytes from the peer fill both iovecs of one
\* readFd and leave a byte in the socket; the append then grows the
\* buffer, or compacts it when messageCallback left the prefix free.
MCCheapPrepend == 1
MCInitialSize == 1
MCExtraBufSize == 1
MCPeerBytes == 3
=============================================================================

---------------------------- MODULE TcpConnection ----------------------------
(***************************************************************************)
(* One TcpConnection (src/muduo/net/TcpConnection.cc) on its I/O loop,    *)
(* with the threads that call send() and shutdown() on it.                 *)
(*                                                                         *)
(* The loop thread runs one handler at a time: a channel callback          *)
(* (handleRead, handleWrite), or a queued functor (sendInLoop,             *)
(* shutdownInLoop, connectDestroyed).  The messageCallback that handleRead *)
(* runs may itself call send() or shutdown(); on the loop thread those run *)
(* synchronously (runInLoop).  A foreign thread's send() reads state_,     *)
(* then queues sendInLoop bound to the raw 'this'; its shutdown() writes   *)
(* state_, then queues shutdownInLoop.  Each of these is two steps here.   *)
(*                                                                         *)
(* Data is counted in bytes.  The kernel send buffer has SockBuf bytes of  *)
(* space that the peer frees by acknowledging; the peer may send data and  *)
(* may close.  handleClose's closeCallback goes through                    *)
(* TcpServer::removeConnection on the base loop, which queues              *)
(* connectDestroyed back on this loop; that round trip is one step here.   *)
(***************************************************************************)
EXTENDS Naturals, Sequences, SequencesExt, Buffer

CONSTANTS
    Users,      \* foreign threads holding a TcpConnectionPtr
    MaxSends,   \* bound on the number of send() calls that pass the check
    MsgSizes,   \* sizes of the messages sent
    SockBuf,    \* free space of the kernel send buffer when drained
    HighWaterMark,  \* highWaterMark_
    InitialSize,  \* Buffer::kInitialSize, scaled
    PeerBytes   \* bound on the bytes the peer sends

kConnecting == "kConnecting"
kConnected == "kConnected"
kDisconnecting == "kDisconnecting"
kDisconnected == "kDisconnected"
States == {kConnecting, kConnected, kDisconnecting, kDisconnected}

VARIABLES
    state,        \* TcpConnection::state_
    reading,      \* the channel's interest in reading
    writing,      \* the channel's interest in writing (isWriting())
    outBuf,       \* outputBuffer_.readableBytes()
    sockSpace,    \* free space in the kernel send buffer
    writeShut,    \* socket_->shutdownWrite() has been done
    peerBytes,    \* bytes the peer has sent that are not yet read
    inBuf,        \* inputBuffer_: its reader, writer and size
    received,     \* history: bytes the peer has sent
    consumed,     \* history: bytes messageCallback retrieved from inBuf
    peerClosed,   \* the peer has closed its side
    queue,        \* functors of this connection in the loop's queue
    upc,          \* where each foreign thread is in send()/shutdown()
    upcN,         \* the size of the message a thread is sending
    nSends,       \* send() calls that passed the state check
    accepted,     \* bytes of those calls
    committed,    \* bytes of send() calls that have returned
    written,      \* bytes written to the socket
    dropped,      \* bytes given up: connection down, or EPIPE
    bufferedAtShutdown,   \* written + outBuf when shutdown() was accepted
    committedAtShutdown,  \* committed when shutdown() was accepted
    closes,       \* handleClose() calls
    destroyedCalled,  \* connectDestroyed() has run
    destroyed,    \* the last TcpConnectionPtr is gone
    hwmCalls,     \* highWaterMarkCallback_ functors queued
    wcCalls,      \* writeCompleteCallback_ functors queued
    hwmCrossings, \* history: appends taking outBuf from below the mark to it
    outputDrains  \* history: writes that left no output pending

vars == <<state, reading, writing, outBuf, sockSpace, writeShut, peerBytes,
          inBuf, received, consumed, peerClosed, queue, upc, upcN, nSends, accepted, committed, written,
          dropped, bufferedAtShutdown, committedAtShutdown, closes,
          destroyedCalled, destroyed, hwmCalls, wcCalls, hwmCrossings,
          outputDrains>>

\* The input side: the peer's socket data and inputBuffer_.
peerVars == <<peerBytes, inBuf, received, consumed, peerClosed>>
historyVars == <<nSends, accepted, committed, bufferedAtShutdown,
                 committedAtShutdown>>
\* The two user callbacks about output, and what they are checked against.
cbVars == <<hwmCalls, wcCalls, hwmCrossings, outputDrains>>

MinOf(a, b) == IF a < b THEN a ELSE b

QueuedBytes == FoldLeft(LAMBDA acc, f : acc + f.n, 0, queue)

InFlightBytes ==
    FoldSet(LAMBDA u, acc : acc + (IF upc[u] = "send" THEN upcN[u] ELSE 0),
            0, Users)

-----------------------------------------------------------------------------
(***************************************************************************)
(* sendInLoop queues highWaterMarkCallback_ when the append of the         *)
(* remaining bytes takes the output buffer from below highWaterMark_ to    *)
(* at or above it; sendInLoop and handleWrite queue writeCompleteCallback_ *)
(* when a write leaves nothing unwritten.  Both callbacks are set.         *)
(***************************************************************************)
QueueHighWaterMarkAbove(oldLen, remaining) ==
    \* faulty variant: the mark must be exceeded, not reached
    hwmCalls' = hwmCalls + (IF /\ oldLen + remaining > HighWaterMark
                               /\ oldLen < HighWaterMark THEN 1 ELSE 0)

QueueHighWaterMark(oldLen, remaining) ==
    hwmCalls' = hwmCalls + (IF /\ oldLen + remaining >= HighWaterMark
                               /\ oldLen < HighWaterMark THEN 1 ELSE 0)

QueueWriteCompleteAnyWrite(done) ==
    \* faulty variant: queued after every successful write
    wcCalls' = wcCalls + 1

QueueWriteComplete(done) == wcCalls' = wcCalls + (IF done THEN 1 ELSE 0)

\* The history the two callbacks are checked against, read off the output
\* buffer and the socket: appends crossing the mark, and writes after which
\* nothing is pending.
ObserveOutput ==
    /\ hwmCrossings' = hwmCrossings + (IF /\ outBuf < HighWaterMark
                                         /\ outBuf' >= HighWaterMark
                                      THEN 1 ELSE 0)
    /\ outputDrains' = outputDrains + (IF written' > written /\ outBuf' = 0
                                      THEN 1 ELSE 0)

(***************************************************************************)
(* TcpConnection::sendInLoop(data, n): give up if disconnected; with no   *)
(* pending output, write directly (EPIPE once the write side is shut      *)
(* down); append what is left to outputBuffer_ and enable writing.        *)
(***************************************************************************)
SendInLoopNoEnableWriting(n) ==
    \* faulty variant: the remainder is buffered but POLLOUT not watched
    \/ /\ state = kDisconnected
       /\ dropped' = dropped + n
       /\ UNCHANGED <<outBuf, writing, sockSpace, written, hwmCalls, wcCalls>>
    \/ /\ state # kDisconnected
       /\ ~writing /\ outBuf = 0
       /\ writeShut
       /\ dropped' = dropped + n
       /\ UNCHANGED <<outBuf, writing, sockSpace, written, hwmCalls, wcCalls>>
    \/ /\ state # kDisconnected
       /\ ~writing /\ outBuf = 0
       /\ ~writeShut
       /\ LET nw == MinOf(n, sockSpace)
          IN  /\ written' = written + nw
              /\ sockSpace' = sockSpace - nw
              /\ QueueWriteComplete(n - nw = 0)
              /\ QueueHighWaterMark(0, n - nw)
              /\ outBuf' = n - nw
       /\ UNCHANGED <<writing, dropped>>
    \/ /\ state # kDisconnected
       /\ writing \/ outBuf > 0
       /\ outBuf' = outBuf + n
       /\ QueueHighWaterMark(outBuf, n)
       /\ UNCHANGED wcCalls
       /\ UNCHANGED <<writing, sockSpace, written, dropped>>

SendInLoopAppendWhole(n) ==
    \* faulty variant: the whole message is appended after a partial write
    \/ /\ state = kDisconnected
       /\ dropped' = dropped + n
       /\ UNCHANGED <<outBuf, writing, sockSpace, written, hwmCalls, wcCalls>>
    \/ /\ state # kDisconnected
       /\ ~writing /\ outBuf = 0
       /\ writeShut
       /\ dropped' = dropped + n
       /\ UNCHANGED <<outBuf, writing, sockSpace, written, hwmCalls, wcCalls>>
    \/ /\ state # kDisconnected
       /\ ~writing /\ outBuf = 0
       /\ ~writeShut
       /\ LET nw == MinOf(n, sockSpace)
          IN  /\ written' = written + nw
              /\ sockSpace' = sockSpace - nw
              /\ QueueWriteComplete(n - nw = 0)
              /\ QueueHighWaterMark(0, n - nw)
              /\ outBuf' = IF n - nw > 0 THEN n ELSE 0
              /\ writing' = (n - nw > 0)
       /\ UNCHANGED dropped
    \/ /\ state # kDisconnected
       /\ writing \/ outBuf > 0
       /\ outBuf' = outBuf + n
       /\ QueueHighWaterMark(outBuf, n)
       /\ UNCHANGED wcCalls
       /\ writing' = TRUE
       /\ UNCHANGED <<sockSpace, written, dropped>>

SendInLoop(n) ==
    \/ /\ state = kDisconnected
       /\ dropped' = dropped + n
       /\ UNCHANGED <<outBuf, writing, sockSpace, written, hwmCalls, wcCalls>>
    \/ /\ state # kDisconnected
       /\ ~writing /\ outBuf = 0
       /\ writeShut
       /\ dropped' = dropped + n
       /\ UNCHANGED <<outBuf, writing, sockSpace, written, hwmCalls, wcCalls>>
    \/ /\ state # kDisconnected
       /\ ~writing /\ outBuf = 0
       /\ ~writeShut
       /\ LET nw == MinOf(n, sockSpace)
          IN  /\ written' = written + nw
              /\ sockSpace' = sockSpace - nw
              /\ QueueWriteComplete(n - nw = 0)
              /\ QueueHighWaterMark(0, n - nw)
              /\ outBuf' = n - nw
              /\ writing' = (n - nw > 0)
       /\ UNCHANGED dropped
    \/ /\ state # kDisconnected
       /\ writing \/ outBuf > 0
       /\ outBuf' = outBuf + n
       /\ QueueHighWaterMark(outBuf, n)
       /\ UNCHANGED wcCalls
       /\ writing' = TRUE
       /\ UNCHANGED <<sockSpace, written, dropped>>

(***************************************************************************)
(* TcpConnection::shutdownInLoop(), given whether the channel is writing: *)
(* shut the write side down only when no output is pending.               *)
(***************************************************************************)
ShutdownInLoopIgnoreWriting(isWriting) ==
    \* faulty variant: the write side is shut down at once
    writeShut' = TRUE

ShutdownInLoop(isWriting) ==
    writeShut' = (writeShut \/ ~isWriting)

(***************************************************************************)
(* TcpConnection::handleClose(): state_ = kDisconnected, disableAll(),    *)
(* connectionCallback, then closeCallback, whose removeConnection          *)
(* queues connectDestroyed on this loop.                                   *)
(***************************************************************************)
HandleClose ==
    /\ state' = kDisconnected
    /\ reading' = FALSE
    /\ writing' = FALSE
    /\ closes' = closes + 1
    /\ queue' = Append(queue, [op |-> "destroy", n |-> 0])

(***************************************************************************)
(* Channel::handleEventWithGuard, POLLHUP without POLLIN: closeCallback_,  *)
(* which is handleClose().  epoll reports POLLHUP for any registered fd    *)
(* once the peer's close() has answered the loop's writes with RST, and   *)
(* POLLIN only when it is watched; with reading watched the hang-up goes  *)
(* through handleRead's read() of 0 instead.  The POLLOUT of the same      *)
(* revents then finds writing disabled.  The kernel need not report it.   *)
(***************************************************************************)
HandleHup ==
    /\ writing
    /\ ~reading
    /\ peerClosed
    /\ ~destroyed
    /\ HandleClose
    /\ UNCHANGED <<cbVars, peerVars, outBuf, sockSpace, writeShut, written,
                   dropped, historyVars, upc, upcN, destroyedCalled, destroyed>>

\* TcpConnection::send() on the loop thread: state_ check, then
\* sendInLoop() directly.
SendFromLoop ==
    /\ state = kConnected
    /\ nSends < MaxSends
    /\ \E n \in MsgSizes :
          /\ nSends' = nSends + 1
          /\ accepted' = accepted + n
          /\ committed' = committed + n
          /\ SendInLoop(n)
    /\ ObserveOutput
    /\ UNCHANGED <<state, reading, writeShut, queue, closes,
                   bufferedAtShutdown, committedAtShutdown>>

\* TcpConnection::shutdown() on the loop thread: state_ = kDisconnecting
\* and shutdownInLoop() directly.
ShutdownFromLoop ==
    /\ state = kConnected
    /\ state' = kDisconnecting
    /\ bufferedAtShutdown' = written + outBuf
    /\ committedAtShutdown' = committed
    /\ ShutdownInLoop(writing)
    /\ UNCHANGED <<cbVars, reading, writing, outBuf, sockSpace, queue, closes,
                   nSends, accepted, committed, written, dropped>>

(***************************************************************************)
(* TcpConnection::handleRead(): inputBuffer_.readFd(); n > 0 runs         *)
(* messageCallback, which either retrieves everything readable or leaves  *)
(* it for later, and may do nothing else, send or shut down; n = 0 means  *)
(* the peer closed and runs handleClose().  A read error only logs         *)
(* (handleError).  Bytes readv() left in the socket stay readable.        *)
(***************************************************************************)
\* Buffer::retrieveAll(): both indexes back to kCheapPrepend.
RetrieveAll(b) == [b EXCEPT !.reader = CheapPrepend, !.writer = CheapPrepend]

HandleRead ==
    /\ reading
    /\ ~destroyed
    /\ \/ /\ peerBytes > 0
          /\ LET r == ReadFd(inBuf, peerBytes)
             IN  /\ peerBytes' = peerBytes - r.n
                 /\ \/ /\ inBuf' = RetrieveAll(r.buf)
                       /\ consumed' = consumed + Readable(r.buf)
                    \/ /\ inBuf' = r.buf
                       /\ UNCHANGED consumed
          /\ UNCHANGED received
          /\ \/ UNCHANGED <<cbVars, state, reading, writing, outBuf, sockSpace,
                            writeShut, queue, closes, written, dropped,
                            historyVars>>
             \/ SendFromLoop
             \/ ShutdownFromLoop
       \/ /\ peerBytes = 0
          /\ peerClosed
          /\ HandleClose
          /\ UNCHANGED <<cbVars, peerBytes, inBuf, received, consumed, outBuf, sockSpace, writeShut, written,
                         dropped, historyVars>>
    /\ UNCHANGED <<peerClosed, upc, upcN, destroyedCalled, destroyed>>

(***************************************************************************)
(* TcpConnection::handleWrite(), when the socket is writable and the      *)
(* channel watches POLLOUT: write what the kernel takes; once the output  *)
(* buffer is empty, disableWriting(), queue writeCompleteCallback and, if *)
(* a shutdown was requested (kDisconnecting), shutdownInLoop().            *)
(***************************************************************************)
HandleWriteKeepWriting ==
    \* faulty variant: writing stays enabled after the buffer is drained
    /\ writing
    /\ sockSpace > 0
    /\ ~destroyed
    /\ LET nw == MinOf(outBuf, sockSpace)
       IN  /\ written' = written + nw
           /\ sockSpace' = sockSpace - nw
           /\ outBuf' = outBuf - nw
           /\ QueueWriteComplete(outBuf - nw = 0)
           /\ IF outBuf - nw = 0 /\ state = kDisconnecting
              THEN ShutdownInLoop(FALSE)
              ELSE UNCHANGED writeShut
    /\ ObserveOutput
    /\ UNCHANGED <<hwmCalls, state, reading, writing, peerVars, queue, upc, upcN,
                   dropped, closes, destroyedCalled, destroyed, historyVars>>

HandleWriteNoShutdown ==
    \* faulty variant: a pending shutdown is forgotten after the drain
    /\ writing
    /\ sockSpace > 0
    /\ ~destroyed
    /\ LET nw == MinOf(outBuf, sockSpace)
       IN  /\ written' = written + nw
           /\ sockSpace' = sockSpace - nw
           /\ outBuf' = outBuf - nw
           /\ QueueWriteComplete(outBuf - nw = 0)
           /\ writing' = (outBuf - nw > 0)
    /\ ObserveOutput
    /\ UNCHANGED <<hwmCalls, state, reading, writeShut, peerVars, queue, upc, upcN,
                   dropped, closes, destroyedCalled, destroyed, historyVars>>

HandleWrite ==
    /\ writing
    /\ sockSpace > 0
    /\ ~destroyed
    /\ LET nw == MinOf(outBuf, sockSpace)
       IN  /\ written' = written + nw
           /\ sockSpace' = sockSpace - nw
           /\ outBuf' = outBuf - nw
           /\ QueueWriteComplete(outBuf - nw = 0)
           /\ writing' = (outBuf - nw > 0)
           /\ IF outBuf - nw = 0 /\ state = kDisconnecting
              THEN ShutdownInLoop(FALSE)
              ELSE UNCHANGED writeShut
    /\ ObserveOutput
    /\ UNCHANGED <<hwmCalls, state, reading, peerVars, queue, upc, upcN,
                   dropped, closes, destroyedCalled, destroyed, historyVars>>

-----------------------------------------------------------------------------
(* Functors of this connection run by doPendingFunctors, in queue order.   *)

\* sendInLoop bound to the raw 'this' by a foreign send().
RunSendInLoop ==
    /\ queue # <<>>
    /\ Head(queue).op = "send"
    /\ ~destroyed
    /\ queue' = Tail(queue)
    /\ SendInLoop(Head(queue).n)
    /\ ObserveOutput
    /\ UNCHANGED <<state, reading, writeShut, peerVars, upc, upcN, closes,
                   destroyedCalled, destroyed, historyVars>>

\* shutdownInLoop bound to the raw 'this' by a foreign shutdown().
RunShutdownInLoop ==
    /\ queue # <<>>
    /\ Head(queue).op = "shutdown"
    /\ ~destroyed
    /\ queue' = Tail(queue)
    /\ ShutdownInLoop(writing)
    /\ UNCHANGED <<cbVars, state, reading, writing, outBuf, sockSpace, peerVars, upc,
                   upcN, closes, written, dropped, destroyedCalled, destroyed,
                   historyVars>>

(***************************************************************************)
(* TcpConnection::connectDestroyed(): if still kConnected (the server is  *)
(* going away), kDisconnected, disableAll() and connectionCallback; then  *)
(* channel_->remove().  The functor held the last server-side reference.  *)
(***************************************************************************)
RunConnectDestroyed ==
    /\ queue # <<>>
    /\ Head(queue).op = "destroy"
    /\ queue' = Tail(queue)
    /\ IF state = kConnected
       THEN /\ state' = kDisconnected
            /\ reading' = FALSE
            /\ writing' = FALSE
       ELSE UNCHANGED <<state, reading, writing>>
    /\ destroyedCalled' = TRUE
    /\ UNCHANGED <<cbVars, outBuf, sockSpace, writeShut, peerVars, upc, upcN, closes,
                   written, dropped, destroyed, historyVars>>

\* The last TcpConnectionPtr is released: no thread is inside a call on
\* the connection and connectDestroyed has run.
Release ==
    /\ destroyedCalled
    /\ ~destroyed
    /\ \A u \in Users : upc[u] = "idle"
    /\ destroyed' = TRUE
    /\ UNCHANGED <<cbVars, state, reading, writing, outBuf, sockSpace, writeShut,
                   peerVars, queue, upc, upcN, closes, written, dropped,
                   destroyedCalled, historyVars>>

\* TcpConnection::connectEstablished(), queued by TcpServer::newConnection:
\* kConnected, tie, enableReading, connectionCallback.
ConnectEstablished ==
    /\ state = kConnecting
    /\ state' = kConnected
    /\ reading' = TRUE
    /\ UNCHANGED <<cbVars, writing, outBuf, sockSpace, writeShut, peerVars, queue,
                   upc, upcN, closes, written, dropped, destroyedCalled,
                   destroyed, historyVars>>

-----------------------------------------------------------------------------
(* Foreign threads.                                                         *)

\* TcpConnection::send(): the unsynchronized read of state_ passes ...
UserSend(u) ==
    /\ upc[u] = "idle"
    /\ ~destroyed
    /\ state = kConnected
    /\ nSends < MaxSends
    /\ \E n \in MsgSizes :
          /\ upc' = [upc EXCEPT ![u] = "send"]
          /\ upcN' = [upcN EXCEPT ![u] = n]
          /\ nSends' = nSends + 1
          /\ accepted' = accepted + n
    /\ UNCHANGED <<cbVars, state, reading, writing, outBuf, sockSpace, writeShut,
                   peerVars, queue, closes, committed, written, dropped,
                   bufferedAtShutdown, committedAtShutdown, destroyedCalled,
                   destroyed>>

\* ... then runInLoop(bind(&sendInLoop, this, message)) queues it.
UserQueueSend(u) ==
    /\ upc[u] = "send"
    /\ queue' = Append(queue, [op |-> "send", n |-> upcN[u]])
    /\ committed' = committed + upcN[u]
    /\ upc' = [upc EXCEPT ![u] = "idle"]
    /\ UNCHANGED <<cbVars, state, reading, writing, outBuf, sockSpace, writeShut,
                   peerVars, upcN, closes, written, dropped, nSends, accepted,
                   bufferedAtShutdown, committedAtShutdown, destroyedCalled,
                   destroyed>>

(***************************************************************************)
(* TcpConnection::shutdown(): "FIXME: use compare and swap".  The read of *)
(* state_ == kConnected and the store of kDisconnecting are separate      *)
(* unsynchronized accesses, so the loop thread may run in between ...     *)
(***************************************************************************)
UserShutdown(u) ==
    /\ upc[u] = "idle"
    /\ ~destroyed
    /\ state = kConnected
    /\ upc' = [upc EXCEPT ![u] = "shutdownCheck"]
    /\ UNCHANGED <<cbVars, state, reading, writing, outBuf, sockSpace, writeShut,
                   peerVars, queue, upcN, closes, written, dropped,
                   destroyedCalled, destroyed, historyVars>>

\* ... setState(kDisconnecting) ...
UserShutdownStore(u) ==
    /\ upc[u] = "shutdownCheck"
    /\ state' = kDisconnecting
    /\ upc' = [upc EXCEPT ![u] = "shutdown"]
    /\ bufferedAtShutdown' = written + outBuf
    /\ committedAtShutdown' = committed
    /\ UNCHANGED <<cbVars, reading, writing, outBuf, sockSpace, writeShut, peerVars,
                   queue, upcN, closes, written, dropped, nSends, accepted,
                   committed, destroyedCalled, destroyed>>

\* ... then runInLoop(bind(&shutdownInLoop, this)) queues it.
UserQueueShutdown(u) ==
    /\ upc[u] = "shutdown"
    /\ queue' = Append(queue, [op |-> "shutdown", n |-> 0])
    /\ upc' = [upc EXCEPT ![u] = "idle"]
    /\ UNCHANGED <<cbVars, state, reading, writing, outBuf, sockSpace, writeShut,
                   peerVars, upcN, closes, written, dropped, destroyedCalled,
                   destroyed, historyVars>>

-----------------------------------------------------------------------------
(* The peer.                                                                *)

PeerAcks ==
    /\ sockSpace < SockBuf
    /\ sockSpace' = sockSpace + 1
    /\ UNCHANGED <<cbVars, state, reading, writing, outBuf, writeShut, peerVars,
                   queue, upc, upcN, closes, written, dropped,
                   destroyedCalled, destroyed, historyVars>>

PeerSends ==
    /\ ~peerClosed
    /\ received < PeerBytes
    /\ peerBytes' = peerBytes + 1
    /\ received' = received + 1
    /\ UNCHANGED <<inBuf, consumed>>
    /\ UNCHANGED <<cbVars, state, reading, writing, outBuf, sockSpace, writeShut,
                   peerClosed, queue, upc, upcN, closes, written, dropped,
                   destroyedCalled, destroyed, historyVars>>

PeerCloses ==
    /\ ~peerClosed
    /\ peerClosed' = TRUE
    /\ UNCHANGED <<cbVars, state, reading, writing, outBuf, sockSpace, writeShut,
                   peerBytes, inBuf, received, consumed, queue, upc, upcN,
                   closes, written, dropped,
                   destroyedCalled, destroyed, historyVars>>

-----------------------------------------------------------------------------
Init ==
    /\ state = kConnecting
    /\ reading = FALSE
    /\ writing = FALSE
    /\ outBuf = 0
    /\ sockSpace = SockBuf
    /\ writeShut = FALSE
    /\ peerBytes = 0
    /\ inBuf = [reader |-> CheapPrepend, writer |-> CheapPrepend,
                size |-> CheapPrepend + InitialSize]
    /\ received = 0
    /\ consumed = 0
    /\ peerClosed = FALSE
    /\ queue = <<>>
    /\ upc = [u \in Users |-> "idle"]
    /\ upcN = [u \in Users |-> 0]
    /\ nSends = 0
    /\ accepted = 0
    /\ committed = 0
    /\ written = 0
    /\ dropped = 0
    /\ bufferedAtShutdown = 0
    /\ committedAtShutdown = 0
    /\ closes = 0
    /\ destroyedCalled = FALSE
    /\ destroyed = FALSE
    /\ hwmCalls = 0
    /\ wcCalls = 0
    /\ hwmCrossings = 0
    /\ outputDrains = 0

LoopStep ==
    \/ ConnectEstablished
    \/ HandleRead
    \/ HandleWrite
    \/ HandleHup
    \/ RunSendInLoop
    \/ RunShutdownInLoop
    \/ RunConnectDestroyed

Next ==
    \/ LoopStep
    \/ Release
    \/ \E u \in Users :
          \/ UserSend(u)
          \/ UserQueueSend(u)
          \/ UserShutdown(u)
          \/ UserShutdownStore(u)
          \/ UserQueueShutdown(u)
    \/ PeerAcks
    \/ PeerSends
    \/ PeerCloses

(***************************************************************************)
(* The loop thread keeps handling its events and, after each poll, runs   *)
(* every pending functor, so each loop handler is fair on its own; a thread*)
(* inside send() or shutdown() returns; the peer keeps acknowledging what *)
(* it receives (a peer that stops reading stalls the connection by        *)
(* design).  Callers and the peer's own sends and close are not fair.     *)
(***************************************************************************)
Fairness ==
    /\ WF_vars(ConnectEstablished)
    /\ WF_vars(HandleRead)
    /\ WF_vars(HandleWrite)
    /\ WF_vars(RunSendInLoop)
    /\ WF_vars(RunShutdownInLoop)
    /\ WF_vars(RunConnectDestroyed)
    /\ WF_vars(Release)
    /\ \A u \in Users : /\ WF_vars(UserQueueSend(u))
                        /\ WF_vars(UserShutdownStore(u))
                        /\ WF_vars(UserQueueShutdown(u))
    /\ WF_vars(PeerAcks)

Spec == Init /\ [][Next]_vars /\ Fairness

-----------------------------------------------------------------------------
(***************************************************************************)
(* handleClose() or connectDestroyed() has taken the connection down.     *)
(* state_ says so too, until a shutdown() whose check passed before the   *)
(* close stores kDisconnecting after it; the properties about a live      *)
(* connection are stated on Closed, and CloseHandledOnce on what the late *)
(* store leads to.                                                         *)
(***************************************************************************)
Closed == closes > 0 \/ destroyedCalled

(***************************************************************************)
(* Types; the channel watches POLLOUT only while output is pending (no    *)
(* busy loop on an always-writable socket).                                *)
(***************************************************************************)
TypeOK ==
    /\ state \in States
    /\ reading \in BOOLEAN
    /\ writing \in BOOLEAN
    /\ outBuf \in Nat
    /\ sockSpace \in 0..SockBuf
    /\ upc \in [Users -> {"idle", "send", "shutdownCheck", "shutdown"}]
    /\ closes \in Nat
    /\ peerBytes \in 0..PeerBytes
    /\ CursorsOrdered(inBuf)
    /\ writing => outBuf > 0
    /\ {hwmCalls, wcCalls, hwmCrossings, outputDrains} \subseteq Nat

(***************************************************************************)
(* Pending output is always being watched for: while the connection is    *)
(* up, a non-empty output buffer means POLLOUT is enabled, so the data    *)
(* cannot stall with nobody to write it.  "Up" is kConnected or           *)
(* kDisconnecting and not Closed.                                          *)
(***************************************************************************)
PendingOutputIsWatched ==
    (outBuf > 0 /\ state \in {kConnected, kDisconnecting} /\ ~Closed)
        => writing

(***************************************************************************)
(* No input byte is lost or invented by handleRead: every byte the peer   *)
(* sent is still in the socket, readable in inputBuffer_, or was handed   *)
(* to messageCallback, however readFd split it between the buffer's       *)
(* writable tail and its stack extrabuf.                                   *)
(***************************************************************************)
InputByteConservation == received = peerBytes + Readable(inBuf) + consumed

(***************************************************************************)
(* No byte is lost or invented by send/sendInLoop/handleWrite: every byte *)
(* of an accepted send() is written, buffered, queued, still with its     *)
(* calling thread, or given up on a documented path (disconnected, EPIPE). *)
(***************************************************************************)
ByteConservation ==
    accepted = written + outBuf + QueuedBytes + InFlightBytes + dropped

(***************************************************************************)
(* The write side is shut down only after everything that was in the      *)
(* output buffer (or already written) when shutdown() was accepted has    *)
(* been written: shutdownInLoop waits for handleWrite to drain the buffer. *)
(* (Once the peer has closed, the data is lost with the connection.)       *)
(***************************************************************************)
BufferedDataWrittenBeforeShutdown ==
    (writeShut /\ state # kDisconnected /\ ~Closed) => written >= bufferedAtShutdown


(***************************************************************************)
(* A requested shutdown happens: once kDisconnecting, the write side is   *)
(* eventually shut down, unless the connection is Closed first.           *)
(***************************************************************************)
ShutdownEventuallyHappens ==
    (state = kDisconnecting) ~> (writeShut \/ state = kDisconnected \/ Closed)

(***************************************************************************)
(* The spec's send/shutdown contract: data whose send() returned before   *)
(* shutdown() was called is written before the write side is closed.  On  *)
(* the loop thread shutdown() runs shutdownInLoop at once and overtakes   *)
(* a sendInLoop another thread had already queued.                        *)
(***************************************************************************)
SendBeforeShutdownIsWritten ==
    (writeShut /\ state # kDisconnected /\ ~Closed) => written >= committedAtShutdown

(***************************************************************************)
(* A functor queued on this connection never outlives it: once the last   *)
(* TcpConnectionPtr is gone no sendInLoop/shutdownInLoop bound to its raw *)
(* 'this' is left in the loop's queue.                                     *)
(***************************************************************************)
NoFunctorOnDestroyedConnection ==
    destroyed => \A i \in 1..Len(queue) : queue[i].op = "destroy"

(***************************************************************************)
(* handleClose() runs once: its disableAll() is meant to stop every event *)
(* of the closed socket.  A second run calls closeCallback_ again, and     *)
(* TcpServer::removeConnectionInLoop then erases nothing (assert(n == 1)) *)
(* and queues a second connectDestroyed.  A shutdown() whose store of     *)
(* kDisconnecting lands after handleClose's kDisconnected lets a queued   *)
(* sendInLoop write and enable POLLOUT again; the reset peer's POLLHUP is *)
(* then dispatched to handleClose, whose assert accepts kDisconnecting.    *)
(***************************************************************************)
CloseHandledOnce == closes <= 1


(***************************************************************************)
(* highWaterMarkCallback_ fires once per crossing of the mark: sendInLoop *)
(* queues it exactly as often as an append, after a direct write that may *)
(* have been partial, has taken the output buffer from below              *)
(* highWaterMark_ to at or above it.  The spec: one-shot, armed again only *)
(* after draining below the mark and refilling above it.                  *)
(***************************************************************************)
HighWaterMarkOncePerCrossing == hwmCalls = hwmCrossings

(***************************************************************************)
(* writeCompleteCallback_ is queued exactly once for each write, direct   *)
(* in sendInLoop or from handleWrite, after which no output is pending.   *)
(***************************************************************************)
WriteCompleteOncePerDrain == wcCalls = outputDrains

=============================================================================

------------------------------ MODULE TcpServer ------------------------------
(***************************************************************************)
(* A TcpServer (src/muduo/net/TcpServer.cc) with its Acceptor and the      *)
(* EventLoopThreadPool of numThreads I/O loops, and the life of each       *)
(* TcpConnection across the base loop and its I/O loop.                    *)
(*                                                                         *)
(* Loop 0 is the base loop; loops 1..numThreads are the pool's.  Each loop *)
(* runs one handler at a time: an I/O event of a channel it owns, or the   *)
(* functor at the head of its queue.  Functors hold a TcpConnectionPtr, so *)
(* a connection is alive while the registry connections_ or a queued      *)
(* functor refers to it; when the last reference goes, ~TcpConnection     *)
(* closes its socket.  Connections are the model values Conns, each       *)
(* connecting at most once; the process may hold FdLimit descriptors.     *)
(***************************************************************************)
EXTENDS Naturals, Sequences, FiniteSets, SequencesExt

CONSTANTS
    Conns,       \* client connections (one TCP connect each)
    ThreadCounts, \* the values setThreadNum() may be given before start()
    FdLimit      \* RLIMIT_NOFILE: descriptors the process may hold

Loops == 0..Max(ThreadCounts)
BaseLoop == 0

kConnecting == "kConnecting"
kConnected == "kConnected"
kDisconnected == "kDisconnected"

VARIABLES
    numThreads,  \* EventLoopThreadPool::numThreads_
    listening,   \* Acceptor::listenning_ (and TcpServer::started_)
    backlog,     \* connections completed by the kernel, not yet accepted
    arrived,     \* connections that have ever connected
    refused,     \* connections accepted and closed on the EMFILE path
    connections, \* TcpServer::connections_ (names are the connections)
    next,        \* EventLoopThreadPool::next_
    assigned,    \* how many connections each loop has been given
    loopOf,      \* TcpConnection::loop_
    cstate,      \* TcpConnection::state_ ("none" before construction)
    chan,        \* the connection's channel in its loop's poller
    peerClosed,  \* the client has closed
    qs,          \* each loop's pendingFunctors_: [op, c]
    serverAlive  \* the TcpServer object has not been destroyed

vars == <<numThreads, listening, backlog, arrived, refused, connections, next, assigned,
          loopOf, cstate, chan, peerClosed, qs, serverAlive>>

Functors == {"established", "remove", "destroy"}

\* A TcpConnectionPtr to c is held by the registry or by a queued functor.
Alive(c) ==
    \/ c \in connections
    \/ \E l \in Loops : \E i \in 1..Len(qs[l]) : qs[l][i].c = c

\* Descriptors held: the listening socket, idleFd_ (always reopened), and
\* the socket of each connection not yet destroyed.
FdsInUse ==
    2 + Cardinality({c \in Conns : cstate[c] # "none" /\ Alive(c)})

\* EventLoop::queueInLoop(f) on loop 'to', from queues q.
Enqueue(q, to, op, c) == [q EXCEPT ![to] = Append(@, [op |-> op, c |-> c])]

-----------------------------------------------------------------------------
(***************************************************************************)
(* EventLoopThreadPool::getNextLoop(): the base loop when the pool is     *)
(* empty, else loops_[next_] and next_ advances round-robin.               *)
(***************************************************************************)
NextLoop == IF numThreads = 0 THEN BaseLoop ELSE next + 1

NextIndexSkipLast ==
    \* faulty variant: wraps one early (next_ >= size - 1)
    IF numThreads = 0 THEN next
    ELSE IF next + 1 >= numThreads - 1 THEN 0 ELSE next + 1

NextIndexWrapLate ==
    \* faulty variant: wraps one late (next_ > size)
    IF numThreads = 0 THEN next
    ELSE IF next + 1 > numThreads THEN 0 ELSE next + 1

NextIndex ==
    IF numThreads = 0 THEN next
    ELSE IF next + 1 >= numThreads THEN 0 ELSE next + 1

(***************************************************************************)
(* TcpConnection::connectEstablished(): kConnected, enableReading().       *)
(***************************************************************************)
EstablishOf(c) ==
    /\ cstate' = [cstate EXCEPT ![c] = kConnected]
    /\ chan' = [chan EXCEPT ![c] = "reading"]

(***************************************************************************)
(* TcpServer::newConnection(c), on the base loop, from Acceptor::handleRead:*)
(* pick the I/O loop, construct the connection (kConnecting), insert it in *)
(* connections_, and runInLoop(connectEstablished) on the I/O loop, which  *)
(* runs it inline when the I/O loop is the base loop.                      *)
(***************************************************************************)
NewConnection(c) ==
    LET io == NextLoop IN
    /\ connections' = connections \cup {c}
    /\ next' = NextIndex
    /\ assigned' = [assigned EXCEPT ![io] = @ + 1]
    /\ loopOf' = [loopOf EXCEPT ![c] = io]
    /\ IF io = BaseLoop
       THEN /\ EstablishOf(c)
            /\ UNCHANGED qs
       ELSE /\ cstate' = [cstate EXCEPT ![c] = kConnecting]
            /\ qs' = Enqueue(qs, io, "established", c)
            /\ UNCHANGED chan

(***************************************************************************)
(* Acceptor::handleRead() on the base loop: accept() the first pending    *)
(* connection; on success hand it to newConnection.  On EMFILE close       *)
(* idleFd_, accept and close the connection, reopen idleFd_, so the       *)
(* listening socket does not stay readable forever.                        *)
(***************************************************************************)
AcceptorHandleReadNoIdleFd ==
    \* faulty variant: EMFILE only logs
    /\ listening
    /\ backlog # <<>>
    /\ FdsInUse < FdLimit
    /\ backlog' = Tail(backlog)
    /\ NewConnection(Head(backlog))
    /\ UNCHANGED <<arrived, refused, peerClosed>>

AcceptorHandleRead ==
    /\ listening
    /\ backlog # <<>>
    /\ backlog' = Tail(backlog)
    /\ \/ /\ FdsInUse < FdLimit
          /\ NewConnection(Head(backlog))
          /\ UNCHANGED refused
       \/ /\ FdsInUse >= FdLimit
          /\ refused' = refused \cup {Head(backlog)}
          /\ UNCHANGED <<connections, next, assigned, loopOf,
                         cstate, chan, qs>>
    /\ UNCHANGED <<arrived, peerClosed>>

-----------------------------------------------------------------------------
(***************************************************************************)
(* TcpServer::removeConnectionInLoop(c) on the base loop, the queues      *)
(* being q: erase c from connections_ and queueInLoop(connectDestroyed)    *)
(* on c's I/O loop.                                                         *)
(***************************************************************************)
RemoveConnectionInLoopNoDestroy(c, q) ==
    \* faulty variant: the entry is erased, connectDestroyed never queued
    /\ connections' = connections \ {c}
    /\ qs' = q

RemoveConnectionInLoop(c, q) ==
    /\ connections' = connections \ {c}
    /\ qs' = Enqueue(q, loopOf[c], "destroy", c)

(***************************************************************************)
(* TcpConnection::handleClose(c) on c's loop, when the read returns 0:    *)
(* kDisconnected, disableAll(), then closeCallback = removeConnection,    *)
(* which runs removeConnectionInLoop inline on the base loop or queues it *)
(* there from an I/O loop.                                                 *)
(***************************************************************************)
HandleCloseNoCallback(c) ==
    \* faulty variant: closeCallback_ is not called
    /\ cstate[c] = kConnected
    /\ chan[c] = "reading"
    /\ peerClosed[c]
    /\ cstate' = [cstate EXCEPT ![c] = kDisconnected]
    /\ chan' = [chan EXCEPT ![c] = "disabled"]
    /\ UNCHANGED <<backlog, arrived, refused, next, assigned,
                   loopOf, peerClosed, connections, qs>>

HandleClose(c) ==
    /\ cstate[c] = kConnected
    /\ chan[c] = "reading"
    /\ peerClosed[c]
    /\ cstate' = [cstate EXCEPT ![c] = kDisconnected]
    /\ chan' = [chan EXCEPT ![c] = "disabled"]
    /\ IF loopOf[c] = BaseLoop
       THEN RemoveConnectionInLoop(c, qs)
       ELSE /\ qs' = Enqueue(qs, BaseLoop, "remove", c)
            /\ UNCHANGED connections
    /\ UNCHANGED <<backlog, arrived, refused, next, assigned,
                   loopOf, peerClosed>>

(***************************************************************************)
(* TcpConnection::connectDestroyed(): if still kConnected, kDisconnected  *)
(* and disableAll(); then channel_->remove().                              *)
(***************************************************************************)
DestroyOf(c) ==
    /\ cstate' = [cstate EXCEPT ![c] = kDisconnected]
    /\ chan' = [chan EXCEPT ![c] = "removed"]

\* doPendingFunctors on loop l runs the functor at the head of its queue.
RunFunctor(l) ==
    /\ qs[l] # <<>>
    /\ LET f == Head(qs[l]) IN
       \/ /\ f.op = "established"
          /\ EstablishOf(f.c)
          /\ qs' = [qs EXCEPT ![l] = Tail(@)]
          /\ UNCHANGED connections
       \/ /\ f.op = "remove"
          /\ RemoveConnectionInLoop(f.c, [qs EXCEPT ![l] = Tail(@)])
          /\ UNCHANGED <<cstate, chan>>
       \/ /\ f.op = "destroy"
          /\ DestroyOf(f.c)
          /\ qs' = [qs EXCEPT ![l] = Tail(@)]
          /\ UNCHANGED connections
    /\ UNCHANGED <<backlog, arrived, refused, next, assigned, loopOf,
                   peerClosed>>

(***************************************************************************)
(* TcpServer::start() on the base loop: EventLoopThreadPool::start()      *)
(* (startLoop for each thread, which returns once the thread's loop       *)
(* exists), then Acceptor::listen() (inline, this being the base loop):   *)
(* listen() and enableReading() on the listening channel.                  *)
(***************************************************************************)
\* Acceptor::listen(): listenning_ = true, listen(), enableReading().
AcceptorListen == listening' = TRUE

Start ==
    /\ serverAlive
    /\ ~listening
    /\ AcceptorListen
    /\ UNCHANGED <<numThreads, backlog, arrived, refused, connections, next, assigned,
                   loopOf, cstate, chan, peerClosed, qs, serverAlive>>

\* ~Acceptor(): the listening channel is disabled and removed, the
\* listening socket and idleFd_ are closed.
AcceptorDtor == listening' = FALSE

(***************************************************************************)
(* ~TcpServer() on the base loop, with its members' destructors: each     *)
(* connection in connections_ is reset there and connectDestroyed is      *)
(* runInLoop'ed on its loop (inline on the base loop, queued on an I/O    *)
(* loop); ~EventLoopThreadPool then quits and joins the I/O loops, which  *)
(* finish the iteration they are in, its handlers and functors included; *)
(* ~Acceptor closes the listening socket.  Closes already in flight are   *)
(* not cancelled: their closeCallback_ still holds the raw this.          *)
(***************************************************************************)
ServerDestroy ==
    /\ serverAlive
    /\ listening
    /\ LET onBase == {c \in connections : loopOf[c] = BaseLoop}
           queued(l) == SetToSeq({c \in connections : loopOf[c] = l})
       IN  /\ cstate' = [c \in Conns |-> IF c \in onBase THEN kDisconnected ELSE cstate[c]]
           /\ chan' = [c \in Conns |-> IF c \in onBase THEN "removed" ELSE chan[c]]
           /\ qs' = [l \in Loops |->
                       IF l = BaseLoop THEN qs[l]
                       ELSE qs[l] \o [i \in DOMAIN queued(l) |->
                                        [op |-> "destroy", c |-> queued(l)[i]]]]
    /\ connections' = {}
    /\ serverAlive' = FALSE
    /\ AcceptorDtor
    /\ UNCHANGED <<numThreads, backlog, arrived, refused, next, assigned,
                   loopOf, peerClosed>>

-----------------------------------------------------------------------------
(* The clients.                                                             *)

\* A client connects; the kernel completes the handshake only once the
\* socket listens.
Connect(c) ==
    /\ listening
    /\ c \notin arrived
    /\ arrived' = arrived \cup {c}
    /\ backlog' = Append(backlog, c)
    /\ UNCHANGED <<refused, connections, next, assigned, loopOf,
                   cstate, chan, peerClosed, qs>>

PeerClose(c) ==
    /\ cstate[c] # "none"
    /\ ~peerClosed[c]
    /\ peerClosed' = [peerClosed EXCEPT ![c] = TRUE]
    /\ UNCHANGED <<backlog, arrived, refused, connections, next,
                   assigned, loopOf, cstate, chan, qs>>

\* setThreadNum() has been called (or not: 0) before start().
Init ==
    /\ numThreads \in ThreadCounts
    /\ listening = FALSE
    /\ backlog = <<>>
    /\ arrived = {}
    /\ refused = {}
    /\ connections = {}
    /\ next = 0
    /\ assigned = [l \in Loops |-> 0]
    /\ loopOf = [c \in Conns |-> BaseLoop]
    /\ cstate = [c \in Conns |-> "none"]
    /\ chan = [c \in Conns |-> "none"]
    /\ peerClosed = [c \in Conns |-> FALSE]
    /\ qs = [l \in Loops |-> <<>>]
    /\ serverAlive = TRUE

Next ==
    \/ Start
    \/ /\ \/ AcceptorHandleRead
          \/ \E l \in Loops : RunFunctor(l)
          \/ \E c \in Conns : HandleClose(c) \/ Connect(c) \/ PeerClose(c)
       /\ UNCHANGED <<numThreads, listening, serverAlive>>

(***************************************************************************)
(* start() is called; each loop keeps dispatching its ready channels and *)
(* running its functors; clients are not obliged to connect or close.     *)
(***************************************************************************)
Spec ==
    /\ Init /\ [][Next]_vars
    /\ WF_vars(Start)
    /\ WF_vars(AcceptorHandleRead /\ UNCHANGED <<numThreads, listening, serverAlive>>)
    /\ \A l \in Loops : WF_vars(RunFunctor(l) /\ UNCHANGED <<numThreads, listening, serverAlive>>)
    /\ \A c \in Conns : WF_vars(HandleClose(c) /\ UNCHANGED <<numThreads, listening, serverAlive>>)

(***************************************************************************)
(* The same server, destroyed while it runs: the program deletes it from  *)
(* a callback on the base loop, which goes on running.                     *)
(***************************************************************************)
DtorSpec == Init /\ [][Next \/ ServerDestroy]_vars

-----------------------------------------------------------------------------
TypeOK ==
    /\ next \in 0..(IF numThreads = 0 THEN 0 ELSE numThreads - 1)
    /\ connections \subseteq Conns
    /\ loopOf \in [Conns -> Loops]
    /\ cstate \in [Conns -> {"none", kConnecting, kConnected, kDisconnected}]
    /\ chan \in [Conns -> {"none", "reading", "disabled", "removed"}]
    /\ \A l \in Loops : \A i \in 1..Len(qs[l]) :
          qs[l][i] \in [op : Functors, c : Conns]

(***************************************************************************)
(* The poller never holds a dangling Channel*: while a connection's       *)
(* channel is still in its loop's poller (enabled or disabled), some      *)
(* TcpConnectionPtr (the registry entry or a queued functor) keeps the    *)
(* connection alive.  handleClose, removeConnection,                      *)
(* removeConnectionInLoop and connectDestroyed hand the last reference on *)
(* across two loops.                                                        *)
(***************************************************************************)
RegisteredChannelOwnerAlive ==
    \A c \in Conns : chan[c] \in {"reading", "disabled"} => Alive(c)

(***************************************************************************)
(* getNextLoop spreads connections over the pool's loops round-robin: no *)
(* I/O loop is given two more connections than another, and the base     *)
(* loop is given none while the pool has threads.                          *)
(***************************************************************************)
RoundRobinBalanced ==
    numThreads > 0 =>
        /\ assigned[BaseLoop] = 0
        /\ \A l1, l2 \in 1..numThreads : assigned[l1] <= assigned[l2] + 1

(***************************************************************************)
(* Every connection the kernel completes is eventually answered: accepted *)
(* into a TcpConnection, or accepted and closed on the EMFILE path, so    *)
(* the level-triggered listening channel does not spin with it pending.   *)
(***************************************************************************)
ArrivedConnectionIsAnswered ==
    \A c \in Conns : c \in arrived ~> (cstate[c] # "none" \/ c \in refused)

(***************************************************************************)
(* A connection the peer closes is eventually torn down: its channel is   *)
(* removed from the poller and the last reference dropped, which closes   *)
(* its descriptor.                                                          *)
(***************************************************************************)
ClosedConnectionIsReclaimed ==
    \A c \in Conns :
        (peerClosed[c] /\ cstate[c] # "none") ~> (chan[c] = "removed" /\ ~Alive(c))

(***************************************************************************)
(* No call into a destroyed server: once ~TcpServer has run, no           *)
(* removeConnectionInLoop functor bound to its raw this waits in the base *)
(* loop's queue.  Such a functor is what closeCallback_                    *)
(* (TcpServer::removeConnection, bound to this) queues when an I/O loop   *)
(* handles a close; run, it erases from the freed connections_.          *)
(***************************************************************************)
NoCallIntoDestroyedServer ==
    ~serverAlive => \A i \in DOMAIN qs[BaseLoop] : qs[BaseLoop][i].op # "remove"

=============================================================================

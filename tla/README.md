# TLA+ models of muduo-pro

This directory holds TLA+ specifications of the muduo-pro network library
(`src/muduo`): a one-loop-per-thread reactor with a timer queue, a TCP
connection state machine, an accepting server with a pool of I/O loops, and a
thread pool with blocking queues in `muduo/base`. Each module models one
component. Its state is the component's member variables, and each action is
one handler or operation, translated from the source. An `MC*` module and its
`.cfg` files instantiate each component for the TLC model checker.
`PROJECT.json` lists:

- the components;
- the runs;
- the mutants that show each property can fail;
- the source lines each definition models;
- the findings;
- the hazards.

## The system

| Part | Source | State | How it interacts |
|---|---|---|---|
| EventLoop | `net/EventLoop.cc` | `quit_`, `callingPendingFunctors_`, `pendingFunctors_` (under `mutex_`), `activeChannels_`, the eventfd `wakeupFd_` | The owner thread loops through poll, dispatching active channels, then `doPendingFunctors`. Other threads reach it only through `queueInLoop`/`runInLoop` and `quit`, and they wake it by writing the eventfd. |
| TimerQueue, Timer | `net/TimerQueue.cc`, `net/Timer.cc`, `net/TimerId.h` | `timers_` (set of (expiration, Timer*)), `activeTimers_` (set of (Timer*, sequence)), `callingExpiredTimers_`, `cancelingTimers_`, the timerfd | Owned by an EventLoop. `runAt/runAfter/runEvery/cancel` go through `runInLoop`. The timerfd is a Channel of the loop, and its `handleRead` runs the expired callbacks, which may add or cancel timers. |
| Channel | `net/Channel.cc`, `net/Channel.h` | `events_`, `revents_`, `index_`, `tie_`, `eventHandling_` | Chooses which callback a readiness result calls (`handleEventWithGuard`), and registers itself through `EventLoop::updateChannel/removeChannel`. |
| EPollPoller | `net/poller/EPollPoller.cc` | `channels_` (fd → Channel*), the per-channel index kNew/kAdded/kDeleted, the epoll interest set, `events_` | Called only from the loop thread: `poll`, `updateChannel`, `removeChannel`. |
| PollPoller | `net/poller/PollPoller.h` | — | Only the header exists, so it is not modelled. |
| Acceptor | `net/Acceptor.cc` | listening Socket, `idleFd_` | A read callback on the base loop. It calls `newConnectionCallback` (TcpServer::newConnection). |
| TcpServer | `net/TcpServer.cc` | `connections_`, `started_`, `nextConnId_` | Creates a TcpConnection on an I/O loop chosen round-robin. It erases the connection in the base loop when the connection closes, then queues `connectDestroyed` on the I/O loop. |
| TcpConnection | `net/TcpConnection.cc` | `state_` (kDisconnected/kConnecting/kConnected/kDisconnecting), input/output Buffers, the channel's interest | `send`/`shutdown` may be called from any thread and are forwarded to the I/O loop. `handleRead/Write/Close/Error` are the channel's callbacks. |
| EventLoopThread, EventLoopThreadPool | `net/EventLoopThread*.cc` | `loop_`, `exiting_`, `next_` | `startLoop` waits on a condition until the thread publishes its loop. The destructor calls `quit` and then `join`. |
| Buffer | `net/Buffer.cc` (`Buffer.h` is missing) | reader/writer indexes | `readFd` uses readv into the writable tail plus a 64 KiB stack buffer. TcpConnection's `handleRead` reads into `inputBuffer_` with it. |
| ThreadPool, BlockingQueue, BoundedBlockingQueue, CountDownLatch | `base/` | the task deque, `running_`, `count_` | Guarded by a mutex and conditions. |
| Logging, LogFile, Timestamp, StringPiece, Exception, Thread, Singleton | `base/` | — | Formatting and wrappers around pthreads. They are not modelled, except as the atomicity they give. |
| http, inspect, TcpClient | `net/http`, `net/inspect`, `net/TcpClient.h` | — | Outside what the spec covers. TcpClient has no implementation and Connector is missing. |

## Modules and runs

Every run below is listed in `PROJECT.json`, with its properties and the
mutant that shows each property of a passing run can fail. All cfgs set
`CHECK_DEADLOCK FALSE`: each system really can sit idle (a loop blocked in
poll, a connection nobody writes to, a pool with no tasks), and the liveness
properties say what must still happen.

### EventLoop and EventLoopThread (`EventLoop.tla`, `MCEventLoop.tla`)

One loop with two channels: the eventfd `wakeup` and one I/O channel `io`.
`lpc` is where the loop thread is:

- `unborn`: `EventLoopThread::startLoop` has not started the thread;
- `created`: in `threadFunc`, before `loop()`;
- `poll`: in `poll()`;
- `handle`: dispatching the active channels;
- `run`: in `doPendingFunctors`;
- `stopped`: `loop()` has returned.

`opc` is the thread that owns the `EventLoopThread`:

- `StartLoop` starts the thread and waits on `cond_`.
- `PublishLoop` is `threadFunc` setting `loop_` under the mutex and notifying.
- `StartLoopReturns` ends the wait.
- `~EventLoopThread` runs as three steps:
  - `DestroyQuit` sets `quit_`;
  - `DestroyWakeup` writes the eventfd;
  - `Join` returns once `loop()` has returned.

The `Threads` are other threads holding the published loop. Each may call
`queueInLoop` or `quit`, and each step of a call is a separate action:

- the push under the mutex, or the store of `quit_`, is one action;
- the following `wakeup()` is another (`tpc`).

Callbacks run on the loop thread, both I/O callbacks and functors, may queue
functors or call `quit` (`OwnerCallback`). Functors are numbered in the order
they are queued (`enq`), and `log` is the order in which they run.

Fairness is weak fairness on:

- every step of the loop thread;
- the `wakeup()` that a thread owes after its push or quit;
- `threadFunc`'s publish, the end of `startLoop`'s wait, and the destructor's
  wakeup and join.

`PollTimeout` is not fair, so liveness must hold through the eventfd wakeups
alone. Callers, the destructor's start and I/O arrival are not fair, since
nobody has to call.

**Refinement.** `FunctorQueue.tla` is what the loop promises to callers
of `runInLoop`/`queueInLoop`, with no threads, eventfd or poller. Functors
join one queue and run oldest first, and a running functor may queue
another. Once `loop()` has returned nothing more runs. Until then, a queued
functor is eventually run (`WF(Run)`). `EventLoop` instantiates it `WITH`
this mapping:

- `queued <- functors \o pendingFunctors`: the swapped list still to run,
  then the pending ones;
- `ran <- log`;
- `issued <- Len(enq)`;
- `stopped <- lpc = "stopped"`.

Under this mapping the swap in `doPendingFunctors` is a stutter.
`ImplementsFunctorQueue` checks the abstract `Spec`, fairness included.
This refinement covers three things: order across threads and swap rounds,
no functor run twice, and progress without the poll timeout. It also pins
down the one way work is dropped: a functor queued after the last swap
before `quit` stays queued once `stopped` holds (`EventLoop.cc:106`).

`MaxTasks = 3` bounds the queued functors. Three allow:

- a functor queued by a functor (deferred to the next iteration);
- a foreign push racing the swap.

| Run | cfg | Expect | What it shows |
|---|---|---|---|
| loop_safety | `MCLoop.cfg` (`MCLoop.tla`) | pass | `NoStrandedWork`: whenever the loop blocks in `poll()` with nothing readable while functors are pending or quit is set, some thread's wakeup is still on its way. `ImplementsFunctorQueue`: the loop refines `FunctorQueue` (below). The same run also checks the Channel/EPollPoller properties (next section but one) and `TimersDueEventuallyRun`, the liveness of a small TimerQueue (next section). About 330k states, a little over two minutes. |
| eventloop_quit_lost | `MCEventLoopQuitLost.cfg` | violation | `DestructorJoinReturns` fails. `~EventLoopThread` runs right after `startLoop` returns, while the thread has published `loop_` but not yet entered `loop()`. Its `quit()` is erased by `quit_ = false` (`EventLoop.cc:105`), the loop polls forever, and `thread_.join()` never returns. |

### TimerQueue (`TimerQueue.tla`, `MCTimerQueue.tla`)

This module covers everything `TimerQueue` does on its loop thread, and the
calls from other threads. `runInLoop` from the owner thread calls
`addTimerInLoop`/`cancelInLoop` directly, so `AddTimer` and `Cancel` are
single steps outside `handleRead`. From another thread, `addTimer` creates the
`Timer` and returns its `TimerId` at once (`ForeignAddTimer`), and `cancel`
(`ForeignCancel`) takes any id ever issued; both queue a functor in
`pendingFunctors`, which the loop runs in FIFO order outside `handleRead`
(`RunTimerFunctor`). Loop-thread code only cancels ids it was handed, so it
never names a timer whose add is still queued (`Known`).
Inside `handleRead`, each expired callback is a separate step
(`RunExpiredTimer`) that may:

- do nothing;
- add a timer;
- cancel any TimerId ever issued, including itself and stale ids.

Timers live at heap addresses `Addrs`. `new Timer` takes any free address, so
addresses are reused after `delete`, and the order of addresses is the
pointer order that `timers_` sorts equal expirations by. `reset()` restarts a
repeating timer at `now + interval` (`Restarted`, from `Timer::restart`). The
timerfd is `deadline`:

- `resetTimerfd` arms it for the expiration, or at once if that is already
  past (the 100 µs clamp);
- reading it disarms it.

The bounds are:

- `Addrs = {1,2}`: reuse happens;
- `MaxTimers = 3`: a stale id can meet a reused address;
- `MaxTime = 2`;
- `MaxPending = 2`: a cancel can queue behind the add of the same timer;
- delays `{0,1}` and intervals `{0,1}`: one-shot and repeating timers, and
  timers already due when added from a callback.

| Run | cfg | Expect | What it shows |
|---|---|---|---|
| timerqueue_safety | `MCTimerQueue.cfg` | pass | `IndexesAgree`: `timers_` and `activeTimers_` hold the same live timers. `TimerfdArmedForEarliest`: outside `handleRead`, a pending timer means the timerfd is armed no later than the earliest expiration. `CancelledTimerNotPending`: a cancelled timer, self-cancel included, is never re-armed. `NoTimerLostWithoutCancel`: a stale TimerId on a reused address never removes another timer, and a timer whose add is still queued is not lost. About 2.77M states, one minute. `TypeOK` also requires that no `timers_` entry points at a deleted Timer. |
| timerqueue_equal_expiration_order | `MCTimerQueueOrder.cfg` | violation | Timers due at the same instant fire in address order, not in sequence order as the spec says. |
| timerqueue_cancel_in_batch | `MCTimerQueueCancelInBatch.cfg` | violation | A callback that cancels a later timer of the same batch does not stop it: that timer's callback runs after `cancel()` returned. |

**Liveness.** `Fairness` is weak fairness on the loop thread's timerfd
handling (`TimerfdStep`: `handleRead`'s read, callbacks and `reset`, which
exclude one another) and on `doPendingFunctors` (`RunTimerFunctor`). An armed
timerfd whose deadline has passed stays readable for the level-triggered poll.
Time passing and other threads' calls are not fair. `DueTimerEventuallyRuns`
says that whenever a due timer is in `timers_`, a state follows in which none
is, even after time has stopped. It depends on the sentry
`<now, UINTPTR_MAX>` in `getExpired`: a sentry below a `Timer*` at `now`
leaves a timer due exactly now, `reset` re-arms for it at once, and the loop
spins. Liveness over the 2.77M states of `MCTimerQueue.cfg` takes about four
minutes, so the property is checked in `loop_safety` on a TimerQueue with two
timers (`MCLoop.tla`, instance `TQ`, about 95k states). Two timers still give
an address reuse with a stale id, and two queued foreign calls.

### Channel and EPollPoller (`ChannelPoller.tla`, checked in `MCLoop.tla`)

This module models the registration protocol on one loop thread:

- `enableReading`/`enableWriting`/`disableWriting`/`disableAll` set
  `events_` and go through `update()` → `EPollPoller::updateChannel`;
- `remove()` goes through `EPollPoller::removeChannel`;
- `EpollCtl` models `epoll_ctl`. It fails on ADD of a registered fd and on
  MOD/DEL of an unregistered one;
- `Poll` is `epoll_wait` plus `fillActiveChannels`, in any order the kernel
  chooses. It doubles `events_` when a poll fills it.

`Dispatch` is `Channel::handleEventWithGuard`: given a revents value, it
returns the callbacks in the order they run. `HandleEventCalls` adds the
`tie_` check of `handleEvent`. There are two channels, and
`kInitEventListSize` is scaled to 1 so that the doubling happens.

`MCLoop.tla` checks this module, `EventLoop` and a small `TimerQueue` in one
run as a disjoint sum: `part` picks one of the three in the initial state, and
each step is a step of the chosen one. Each part's fairness applies only when
that part is chosen. The properties of all three are checked in `loop_safety`.
This module's are:

- `PollerRegistrationMirrorsIndex`: `index_`, `channels_` and the epoll table agree after every call sequence.
- `PollerEpollCtlNeverFails`.
- `PollerDispatchFollowsSpec`: for all 128 revents values over {IN, PRI, RDHUP, OUT, ERR, HUP, NVAL}, tied or not, owner alive or not, and for every channel waiting in `activeChannels_`, the callbacks fired are those of the spec's table, in its order.

A former violation run showed that `disableAll()` on a kNew/kDeleted channel
issues `EPOLL_CTL_ADD` with an empty mask, where spec §8 says a channel is
registered with its mask or not at all. It is kept as a hazard
(`EPollPoller.cc:114`) and no longer has a run of its own.

### TcpConnection and Buffer (`TcpConnection.tla`, `Buffer.tla`, `MCTcpConnection.tla`)

This module models one connection on its I/O loop, with `Users` (other
threads holding a `TcpConnectionPtr`) and the peer.

On the loop thread:

- `connectEstablished`;
- `handleRead`, which calls `readFd` and then a messageCallback that may
  retrieve the input, send, or shut down;
- `handleWrite`, with partial writes;
- `handleClose`, from `handleRead`'s read of 0;
- `HandleHup`: `handleClose` reached through `Channel::handleEventWithGuard`'s
  POLLHUP-without-POLLIN branch (`Channel.cc:78`). epoll reports the hang-up
  of a reset peer for any registered fd, and POLLIN only when reading is
  watched, so this branch is open only while writing alone is watched. The
  kernel need not report it, so it has no fairness;
- the queued `sendInLoop`/`shutdownInLoop`;
- `connectDestroyed`.

A user's `send()` is two steps: the check of `state_`, then the queued
functor. `shutdown()` is three: `UserShutdown` reads `state_ == kConnected`,
`UserShutdownStore` writes `kDisconnecting`, and the queued `shutdownInLoop`
runs later. The read and the write are separate steps because the code does
not make them atomic (`TcpConnection.cc:197-199`), and the loop thread's
`handleClose` may run between them. The properties that speak of a
connection that is still up say so with `Closed` (a close was handled or
`connectDestroyed` ran), not with `state_`, because a late store can move
`state_` back to `kDisconnecting`. `sendInLoop` is bound to the raw `this`,
and `Release` drops the last reference.

Buffers hold byte counts. The output buffer is `outBuf`. `inputBuffer_` is
three cursors, and `Buffer::readFd` is translated exactly:

- a readv into the writable tail plus `extrabuf`;
- then an append that grows or compacts the buffer.

`Buffer.h` is absent, so `append`/`retrieveAll` follow the spec.

The bounds are:

- `SockBuf = 2`: direct writes can be partial;
- `HighWaterMark = 2`: a two-byte append from empty reaches the mark exactly, and a one-byte remainder of a partial write crosses it only with a later append;
- sends of 1–2 bytes and at most 3 send calls;
- peer input of 3 bytes, with a 1-byte initial buffer and a 1-byte extrabuf,
  so one read fills both iovecs and leaves a byte behind.

Fairness is weak fairness on:

- each loop handler separately (the loop runs every ready handler and every
  pending functor);
- a user's queued step;
- the peer's acknowledgements.

| Run | cfg | Expect | What it shows |
|---|---|---|---|
| tcpconnection_safety | `MCTcpConnection.cfg` | pass | `PendingOutputIsWatched`. `ByteConservation` (output): accepted = written + buffered + queued + in flight + dropped. `InputByteConservation`: sent by the peer = still in the socket + readable + consumed. `BufferedDataWrittenBeforeShutdown`. `ShutdownEventuallyHappens`. `HighWaterMarkOncePerCrossing`: `highWaterMarkCallback_` is queued exactly once for each append that takes the output buffer from below the mark to it, read off a history of the buffer size (`ObserveOutput`). `WriteCompleteOncePerDrain`: `writeCompleteCallback_` is queued once for each write, direct or from `handleWrite`, after which nothing is pending. "Up" in these properties means `~Closed`. About 773k states, under two minutes. |
| tcpconnection_shutdown_overtakes_send | `MCTcpConnectionShutdownOrder.cfg` | violation | A `shutdown()` on the I/O thread (from a message callback) runs `shutdownInLoop` at once (`TcpConnection.cc:201`). A `send()` that another thread finished earlier is still a queued `sendInLoop`. SHUT_WR happens first, and that write then fails with EPIPE, so the data is dropped. |
| tcpconnection_functor_after_destroy | `MCTcpConnectionUseAfterFree.cfg` | violation | `sendInLoop` is bound to raw `this` (`TcpConnection.cc:97`). The connection can be destroyed while that functor is still queued. |
| tcpconnection_shutdown_race | `MCTcpConnectionShutdownRace.cfg` | violation | `CloseHandledOnce`: `handleClose` runs once, because its `disableAll()` ends the channel's events. The trace: a user's `send()` queues a `sendInLoop`, and its `shutdown()` passes the `kConnected` test. The loop then handles the peer's close (`kDisconnected`), and the user stores `kDisconnecting` over it. The queued `sendInLoop` no longer sees `kDisconnected`. It writes to the closed socket and calls `enableWriting()`, which re-registers the removed channel. The reset peer's POLLHUP then reaches `handleClose` again (`HandleHup`), whose assert accepts `kDisconnecting`. Its second `closeCallback_` makes `TcpServer::removeConnectionInLoop` fail `assert(n == 1)` and queue a second `connectDestroyed`. |

### TcpServer, Acceptor, EventLoopThreadPool (`TcpServer.tla`, `MCTcpServer.tla`)

This module follows a connection's life across the base loop and the I/O
loops:

- `Acceptor::handleRead`, with the EMFILE `idleFd_` path at `FdLimit`;
- `newConnection`, which picks the loop round-robin (`getNextLoop`) and
  queues `connectEstablished` on it;
- `handleClose`, which queues `removeConnection` on the base loop;
- the erase from `connections_`, which queues `connectDestroyed` back.

Each loop's functor queue is modelled, and so is who holds a reference.
`numThreads ∈ {0, 2}` covers the base loop alone and a pool. Three
connections make the round-robin wrap.

| Run | cfg | Expect | What it shows |
|---|---|---|---|
| tcpserver_safety | `MCTcpServer.cfg` | pass | `RegisteredChannelOwnerAlive`: a channel in a poller always has a live connection. `RoundRobinBalanced`. `ArrivedConnectionIsAnswered`: a connection is accepted or refused even at the descriptor limit. `ClosedConnectionIsReclaimed`: every closed connection is erased and destroyed. |
| tcpserver_destroy_race | `MCTcpServerDtor.cfg` | violation | `NoCallIntoDestroyedServer` fails. `~TcpServer` (`ServerDestroy`, checked under `DtorSpec`) runs on the base loop while an I/O loop's `handleClose` has already queued `removeConnection` there, bound to the raw `this` (`TcpServer.cc:111`). The functor then runs on a destroyed server. Eight states. |

`ServerDestroy` models `~TcpServer`: connections on the base loop are
destroyed inline, the others get `connectDestroyed` queued on their loop,
`connections_` is cleared and the `Acceptor` stops listening. It is a step of
`DtorSpec` only, so the passing run keeps a server that lives for ever.

### Threading primitives of muduo/base (`ThreadPool.tla`, `BoundedBlockingQueue.tla`, `BlockingQueue.tla`, `CountDownLatch.tla`, `BoundedFifo.tla`, `MCBaseSync.tla`)

**Shared conventions.** Every critical section of a mutex is one step.
`Condition::wait` releases the mutex and joins the wait set atomically. A
notify, or a spurious wakeup, moves a waiter to `woken`, from where it
reacquires the mutex and re-tests its `while` condition. Spurious wakeups
are actions but are not fair.

**ThreadPool.** The module models:

- the owner's `start`/`stop` and `run()`;
- each worker's `runInThread`/`take`, one step per critical section;
- the unsynchronized read of `running_` at the top of the worker loop, as a
  step of its own.

**BoundedBlockingQueue.** `put` waits on `notFull_` while the buffer is
full, pushes, and notifies `notEmpty_` after releasing the lock (a separate
step, `PutNotify`). `take` waits on `notEmpty_` while the buffer is empty,
then pops and notifies `notFull_` under the lock. Producers each make
`PutsEach` calls. Consumers call `take` forever.

**BlockingQueue.** The same shape, unbounded and with only `notEmpty_`.

**CountDownLatch.** `wait` loops while `count_ > 0`. `countDown`
decrements and calls `notifyAll` when `count_` reaches 0. There are more
counters than the count, so `count_` goes negative.

**Refinement.** `BoundedFifo.tla` is the abstract queue: a FIFO that never
holds more than `Capacity` elements, whose elements are eventually taken.
`BoundedBlockingQueue` instantiates it with `Capacity` set to `maxSize`.
`BlockingQueue` instantiates it with a capacity no run can reach. Both
refinements are checked as properties.

**Composition.** These four share no state. `MCBaseSync` checks them in one
run as a disjoint union: the initial state picks `part`, only that
component moves, and its fairness applies only while it is the one moving.
So the run explores each state space separately (2.9k states in total), not
their product.

**Bounds.**

| Component | Bound | Why |
|---|---|---|
| ThreadPool | 2 workers, 3 tasks | Tasks queue up, and `stop` has two waiters to wake. |
| BoundedBlockingQueue | 2 producers × 2 puts, capacity 1, 2 consumers | Two producers can wait on `notFull_` together, and a woken producer can find the buffer refilled. |
| BlockingQueue | 1 producer × 2 puts, 2 consumers | Both consumers can sleep on `notEmpty_`. |
| CountDownLatch | count 2, 3 counters, 2 waiters | `count_` passes through 0 to −1, and `notifyAll` has two waiters. |

**Fairness** is weak fairness on each thread's non-waiting step and on the
pool owner's join. Nobody has to call `run`, `start`, `stop` or
`countDown`.

| Run | cfg | Expect | What it shows |
|---|---|---|---|
| base_sync_safety | `MCBaseSync.cfg` | pass | `MCTypeOK`. ThreadPool: `NoIdleWorkersWhileWorkQueued` (no lost wakeup), `QueuedTaskEventuallyRuns` (unless `stop()` comes first), `StopJoinsAllWorkers`. `BBQImplementsBoundedFifo`: the `while` re-test keeps a woken producer from overflowing the buffer, and the notifies get every element taken. `BBQBlockedPutReturns`: a `put` blocked on `notFull_` eventually pushes. `BQImplementsFifo`: notifying after unlocking strands no element. `LatchNoWaiterPassesEarly`: no `wait` returns while `count_ > 0`, even after a spurious wakeup. `LatchAllWaitersReleased`: once `count_ <= 0`, every waiter returns. |

## Further work

1. `~TimerQueue` deletes only the timers in `timers_`. A `Timer` allocated by a
   foreign `addTimer` whose `addTimerInLoop` functor was dropped at quit
   (`EventLoop.cc:106`) is never freed. Checking this needs TimerQueue and
   EventLoop composed through one functor queue, and a run slot.
2. `EventLoop::removeChannel` during event handling (the `eventHandling_`
   assertion). No caller in this repository removes a channel from inside a
   dispatch pass: `connectDestroyed` is always queued. `ChannelPoller` therefore
   allows `remove()` only between polls.
3. The write-complete callback is modelled (`WriteCompleteOncePerDrain`).
   `forceClose` does not exist in this version of `TcpConnection`.

Runs are at the 12 the project keeps, so new checks extend existing runs or
replace weaker ones.

## Not modelled

- Formatting, logging, and the file and socket wrappers.
- `http` and `inspect` (the spec leaves them out).
- `TcpClient` (header only) and `PollPoller` (header only).
- `Thread` (`Thread.cc`): `start()` spawns a thread that publishes its
  `tid_` without a latch and without synchronisation, and `~Thread` neither
  joins nor detaches. Nothing in the repository reads `tid()` or relies on
  the destructor, so these hazards are latent; the threads that matter are
  modelled where they are used (`EventLoopThread`, `ThreadPool`).
- Byte contents. Buffers are modelled as sizes and cursors.
- The read-only queries (`getCount`, `size`, `empty`, `full`, `capacity`).
  They take the lock and change nothing.

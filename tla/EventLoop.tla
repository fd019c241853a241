----------------------------- MODULE EventLoop -----------------------------
(***************************************************************************)
(* One muduo EventLoop (src/muduo/net/EventLoop.cc) together with the     *)
(* foreign threads that hand it work.                                      *)
(*                                                                         *)
(* The owning thread runs loop(): poll, dispatch the ready channels, then *)
(* doPendingFunctors().  Foreign threads call queueInLoop() (runInLoop()   *)
(* from a foreign thread is exactly queueInLoop()) and quit().  Both push  *)
(* their effect first and write the eventfd afterwards, outside the lock, *)
(* so every step of queueInLoop/quit is its own action.                    *)
(*                                                                         *)
(* Channels are abstracted to two: the loop's own wakeup channel over the *)
(* eventfd, and "io", which stands for every other channel (timerfd,      *)
(* listening socket, connections) whose callback may itself call          *)
(* queueInLoop() or quit() from the owning thread.  A functor is a task    *)
(* number; running it may likewise queue a follow-up or call quit().      *)
(*                                                                         *)
(* The loop is the one an EventLoopThread (EventLoopThread.cc) creates:    *)
(* the owner of the EventLoopThread calls startLoop(), which starts the   *)
(* thread and waits on cond_ until threadFunc() has published loop_, and  *)
(* later destroys it: quit() then join().  Foreign threads reach the loop *)
(* only through the published loop_.                                       *)
(***************************************************************************)
EXTENDS Naturals, Sequences

CONSTANTS
    Threads,    \* foreign threads that call queueInLoop()/quit()
    MaxTasks    \* bound on the number of functors ever queued

ASSUME MaxTasks \in Nat \ {0}

Channels == {"wakeup", "io"}

\* Program counter of the owning thread inside EventLoop::loop().
LoopPcs == {"unborn", "created", "poll", "handle", "run", "stopped"}

\* Program counter of the thread that owns the EventLoopThread object.
OwnerPcs == {"idle", "waiting", "running", "quitWake", "joining", "joined"}

\* Program counter of a foreign thread between the two steps of
\* queueInLoop() (push, then wakeup()) and of quit() (flag, then wakeup()).
ThreadPcs == {"idle", "wake", "quitWake"}

VARIABLES
    lpc,                     \* where the owning thread is in loop()
    quit,                    \* EventLoop::quit_
    activeChannels,          \* EventLoop::activeChannels_ not yet handled
    pendingFunctors,         \* EventLoop::pendingFunctors_
    functors,                \* the local list swapped out in doPendingFunctors()
    callingPendingFunctors,  \* EventLoop::callingPendingFunctors_
    wakeupReadable,          \* the eventfd counter is non-zero
    ioReady,                 \* some other channel of the loop is ready
    tpc,                     \* foreign thread program counters
    enq,                     \* history: functors in the order they were queued
    log,                     \* history: functors in the order they ran
    published,               \* EventLoopThread::loop_ # NULL
    opc                      \* the EventLoopThread owner's program counter

vars == <<lpc, quit, activeChannels, pendingFunctors, functors,
          callingPendingFunctors, wakeupReadable, ioReady, tpc, enq, log,
          published, opc>>

\* Variables of the EventLoopThread, left alone by the loop's own steps.
etVars == <<published, opc>>

NextTask == Len(enq) + 1

Ready(c) == IF c = "wakeup" THEN wakeupReadable ELSE ioReady

-----------------------------------------------------------------------------
(* EventLoop::wakeup(): write 8 bytes to the eventfd.                      *)
Wakeup == wakeupReadable' = TRUE

(***************************************************************************)
(* EventLoop::queueInLoop() called on the owning thread (from a channel    *)
(* callback or from a running functor), where isInLoopThread() holds: push *)
(* under the lock, and wake only when callingPendingFunctors_ is set.  The *)
(* push and the test run on the same thread, so they are one step.  l is   *)
(* the run log the caller leaves behind.                                   *)
(***************************************************************************)
QueueInLoopOwnerInline(l) ==
    \* faulty variant: the owner thread runs the functor at once
    /\ Len(enq) < MaxTasks
    /\ enq' = Append(enq, NextTask)
    /\ log' = Append(l, NextTask)
    /\ UNCHANGED <<pendingFunctors, wakeupReadable>>

QueueInLoopOwnerNoWake(l) ==
    \* faulty variant: the owner thread never wakes its own loop
    /\ Len(enq) < MaxTasks
    /\ pendingFunctors' = Append(pendingFunctors, NextTask)
    /\ enq' = Append(enq, NextTask)
    /\ log' = l
    /\ UNCHANGED wakeupReadable

QueueInLoopOwner(l) ==
    /\ Len(enq) < MaxTasks
    /\ pendingFunctors' = Append(pendingFunctors, NextTask)
    /\ enq' = Append(enq, NextTask)
    /\ log' = l
    /\ wakeupReadable' = (wakeupReadable \/ callingPendingFunctors)

(***************************************************************************)
(* What a callback or functor run on the owning thread may do to the loop: *)
(* nothing, queue a follow-up functor, or call quit(), which on the owning *)
(* thread only sets quit_.                                                 *)
(***************************************************************************)
OwnerCallback(l) ==
    \/ /\ log' = l
       /\ UNCHANGED <<pendingFunctors, enq, wakeupReadable, quit>>
    \/ /\ QueueInLoopOwner(l)
       /\ UNCHANGED quit
    \/ /\ quit' = TRUE
       /\ log' = l
       /\ UNCHANGED <<pendingFunctors, enq, wakeupReadable>>

-----------------------------------------------------------------------------
(* Actions of the owning thread, EventLoop::loop().                        *)

\* loop(): looping_ = true; quit_ = false; then the while test, which
\* passes because quit_ was just cleared.
LoopStart ==
    /\ lpc = "created"
    /\ lpc' = "poll"
    /\ quit' = FALSE
    /\ UNCHANGED <<activeChannels, pendingFunctors, functors,
                   callingPendingFunctors, wakeupReadable, ioReady, tpc,
                   enq, log>>
    /\ UNCHANGED etVars

\* poller_->poll() returns the ready channels.
Poll ==
    /\ lpc = "poll"
    /\ \E c \in Channels : Ready(c)
    /\ activeChannels' = {c \in Channels : Ready(c)}
    /\ lpc' = "handle"
    /\ UNCHANGED <<quit, pendingFunctors, functors, callingPendingFunctors,
                   wakeupReadable, ioReady, tpc, enq, log>>
    /\ UNCHANGED etVars

\* poller_->poll() returns after kPollTimeMs with nothing ready.
PollTimeout ==
    /\ lpc = "poll"
    /\ \A c \in Channels : ~Ready(c)
    /\ activeChannels' = {}
    /\ lpc' = "handle"
    /\ UNCHANGED <<quit, pendingFunctors, functors, callingPendingFunctors,
                   wakeupReadable, ioReady, tpc, enq, log>>
    /\ UNCHANGED etVars

\* wakeupChannel_ dispatch: EventLoop::handleRead() reads the eventfd,
\* which resets its counter to zero.
HandleWakeup ==
    /\ lpc = "handle"
    /\ "wakeup" \in activeChannels
    /\ activeChannels' = activeChannels \ {"wakeup"}
    /\ wakeupReadable' = FALSE
    /\ UNCHANGED <<lpc, quit, pendingFunctors, functors,
                   callingPendingFunctors, ioReady, tpc, enq, log>>
    /\ UNCHANGED etVars

\* Any other channel's dispatch: its callback consumes the readiness and
\* may queue work or quit from the owning thread.
HandleIo ==
    /\ lpc = "handle"
    /\ "io" \in activeChannels
    /\ activeChannels' = activeChannels \ {"io"}
    /\ ioReady' = FALSE
    /\ OwnerCallback(log)
    /\ UNCHANGED <<lpc, functors, callingPendingFunctors, tpc>>
    /\ UNCHANGED etVars

(***************************************************************************)
(* doPendingFunctors(), first part: eventHandling_ = false, then           *)
(* callingPendingFunctors_ = true and the swap of pendingFunctors_ into    *)
(* the local list under the lock.                                          *)
(***************************************************************************)
DoPendingFunctors ==
    /\ lpc = "handle"
    /\ activeChannels = {}
    /\ callingPendingFunctors' = TRUE
    /\ functors' = pendingFunctors
    /\ pendingFunctors' = <<>>
    /\ lpc' = "run"
    /\ UNCHANGED <<quit, activeChannels, wakeupReadable, ioReady, tpc, enq, log>>
    /\ UNCHANGED etVars

\* doPendingFunctors(): functors[i]() for the next swapped functor.
RunFunctor ==
    /\ lpc = "run"
    /\ functors # <<>>
    /\ functors' = Tail(functors)
    /\ OwnerCallback(Append(log, Head(functors)))
    /\ UNCHANGED <<lpc, activeChannels, callingPendingFunctors, ioReady, tpc>>
    /\ UNCHANGED etVars

\* End of doPendingFunctors(): callingPendingFunctors_ = false, then the
\* while (!quit_) test of loop(); on exit looping_ = false.
FinishPendingFunctorsKeepFlag ==
    \* faulty variant: callingPendingFunctors_ is never cleared
    /\ lpc = "run"
    /\ functors = <<>>
    /\ lpc' = IF quit THEN "stopped" ELSE "poll"
    /\ UNCHANGED <<quit, activeChannels, pendingFunctors, functors,
                   callingPendingFunctors, wakeupReadable, ioReady, tpc, enq, log>>
    /\ UNCHANGED etVars

FinishPendingFunctors ==
    /\ lpc = "run"
    /\ functors = <<>>
    /\ callingPendingFunctors' = FALSE
    /\ lpc' = IF quit THEN "stopped" ELSE "poll"
    /\ UNCHANGED <<quit, activeChannels, pendingFunctors, functors,
                   wakeupReadable, ioReady, tpc, enq, log>>
    /\ UNCHANGED etVars

-----------------------------------------------------------------------------
(* Actions of foreign threads.                                             *)

\* queueInLoop() (or runInLoop()) from a foreign thread: push under lock.
ForeignQueueInLoop(t) ==
    /\ published
    /\ tpc[t] = "idle"
    /\ Len(enq) < MaxTasks
    /\ pendingFunctors' = Append(pendingFunctors, NextTask)
    /\ enq' = Append(enq, NextTask)
    /\ tpc' = [tpc EXCEPT ![t] = "wake"]
    /\ UNCHANGED <<lpc, quit, activeChannels, functors,
                   callingPendingFunctors, wakeupReadable, ioReady, log>>
    /\ UNCHANGED etVars

\* quit() from a foreign thread: quit_ = true, without any lock.
ForeignQuit(t) ==
    /\ published
    /\ tpc[t] = "idle"
    /\ quit' = TRUE
    /\ tpc' = [tpc EXCEPT ![t] = "quitWake"]
    /\ UNCHANGED <<lpc, activeChannels, pendingFunctors, functors,
                   callingPendingFunctors, wakeupReadable, ioReady, enq, log>>
    /\ UNCHANGED etVars

\* The wakeup() that ends queueInLoop() and quit() on a foreign thread,
\* since !isInLoopThread() holds there.
ForeignWakeup(t) ==
    /\ tpc[t] \in {"wake", "quitWake"}
    /\ Wakeup
    /\ tpc' = [tpc EXCEPT ![t] = "idle"]
    /\ UNCHANGED <<lpc, quit, activeChannels, pendingFunctors, functors,
                   callingPendingFunctors, ioReady, enq, log>>
    /\ UNCHANGED etVars

\* The environment: another fd of the loop becomes ready.
IoArrives ==
    /\ lpc \notin {"unborn", "stopped"}
    /\ ~ioReady
    /\ ioReady' = TRUE
    /\ UNCHANGED <<lpc, quit, activeChannels, pendingFunctors, functors,
                   callingPendingFunctors, wakeupReadable, tpc, enq, log>>
    /\ UNCHANGED etVars

-----------------------------------------------------------------------------
(* EventLoopThread (EventLoopThread.cc).                                   *)

\* startLoop(): thread_.start(); the new thread constructs its EventLoop on
\* its stack; the caller locks mutex_ and waits on cond_ while loop_ is NULL.
StartLoop ==
    /\ opc = "idle"
    /\ lpc' = "created"
    /\ opc' = "waiting"
    /\ UNCHANGED <<quit, activeChannels, pendingFunctors, functors,
                   callingPendingFunctors, wakeupReadable, ioReady, tpc,
                   enq, log, published>>

\* threadFunc(): under mutex_, loop_ = &loop and cond_.notify(); loop()
\* is called after the lock is released (LoopStart).
PublishLoop ==
    /\ lpc = "created"
    /\ ~published
    /\ published' = TRUE
    /\ UNCHANGED <<lpc, quit, activeChannels, pendingFunctors, functors,
                   callingPendingFunctors, wakeupReadable, ioReady, tpc,
                   enq, log, opc>>

\* startLoop(): the wait ends once loop_ is set (the while re-test covers
\* spurious wakeups), and loop_ is returned.
StartLoopReturns ==
    /\ opc = "waiting"
    /\ published
    /\ opc' = "running"
    /\ UNCHANGED <<lpc, quit, activeChannels, pendingFunctors, functors,
                   callingPendingFunctors, wakeupReadable, ioReady, tpc,
                   enq, log, published>>

\* ~EventLoopThread(): exiting_ = true; loop_->quit() sets quit_ ...
DestroyQuit ==
    /\ opc = "running"
    /\ quit' = TRUE
    /\ opc' = "quitWake"
    /\ UNCHANGED <<lpc, activeChannels, pendingFunctors, functors,
                   callingPendingFunctors, wakeupReadable, ioReady, tpc,
                   enq, log, published>>

\* ... and, from a foreign thread, wakeup(); then thread_.join().
DestroyWakeup ==
    /\ opc = "quitWake"
    /\ Wakeup
    /\ opc' = "joining"
    /\ UNCHANGED <<lpc, quit, activeChannels, pendingFunctors, functors,
                   callingPendingFunctors, ioReady, tpc, enq, log, published>>

\* join() returns when threadFunc() returns, i.e. after loop() returned.
Join ==
    /\ opc = "joining"
    /\ lpc = "stopped"
    /\ opc' = "joined"
    /\ UNCHANGED <<lpc, quit, activeChannels, pendingFunctors, functors,
                   callingPendingFunctors, wakeupReadable, ioReady, tpc,
                   enq, log, published>>

-----------------------------------------------------------------------------
Init ==
    /\ lpc = "unborn"
    /\ quit = FALSE
    /\ activeChannels = {}
    /\ pendingFunctors = <<>>
    /\ functors = <<>>
    /\ callingPendingFunctors = FALSE
    /\ wakeupReadable = FALSE
    /\ ioReady = FALSE
    /\ tpc = [t \in Threads |-> "idle"]
    /\ enq = <<>>
    /\ log = <<>>
    /\ published = FALSE
    /\ opc = "idle"

Next ==
    \/ StartLoop \/ PublishLoop \/ StartLoopReturns
    \/ DestroyQuit \/ DestroyWakeup \/ Join
    \/ LoopStart
    \/ Poll
    \/ PollTimeout
    \/ HandleWakeup
    \/ HandleIo
    \/ DoPendingFunctors
    \/ RunFunctor
    \/ FinishPendingFunctors
    \/ \E t \in Threads : ForeignQueueInLoop(t) \/ ForeignQuit(t) \/ ForeignWakeup(t)
    \/ IoArrives

(***************************************************************************)
(* Fairness.  The owning thread never stops by itself while it has a step *)
(* to take, and a foreign thread that has pushed a functor or set quit_   *)
(* finishes the call with its wakeup().  The poll timeout is deliberately *)
(* left unfair: the properties below must hold without waiting for        *)
(* kPollTimeMs, i.e. through the wakeup mechanism alone.  Callers         *)
(* (ForeignQueueInLoop, ForeignQuit) and fd readiness are not fair.       *)
(***************************************************************************)
Fairness ==
    /\ WF_vars(LoopStart)
    /\ WF_vars(Poll)
    /\ WF_vars(HandleWakeup)
    /\ WF_vars(HandleIo)
    /\ WF_vars(DoPendingFunctors)
    /\ WF_vars(RunFunctor)
    /\ WF_vars(FinishPendingFunctors)
    /\ \A t \in Threads : WF_vars(ForeignWakeup(t))
    /\ WF_vars(PublishLoop)
    /\ WF_vars(StartLoopReturns)
    /\ WF_vars(DestroyWakeup)
    /\ WF_vars(Join)

Spec == Init /\ [][Next]_vars /\ Fairness

-----------------------------------------------------------------------------
TypeOK ==
    /\ lpc \in LoopPcs
    /\ quit \in BOOLEAN
    /\ activeChannels \subseteq Channels
    /\ pendingFunctors \in Seq(1..MaxTasks)
    /\ functors \in Seq(1..MaxTasks)
    /\ callingPendingFunctors \in BOOLEAN
    /\ wakeupReadable \in BOOLEAN
    /\ ioReady \in BOOLEAN
    /\ tpc \in [Threads -> ThreadPcs]
    /\ enq \in Seq(1..MaxTasks)
    /\ log \in Seq(1..MaxTasks)
    /\ published \in BOOLEAN
    /\ opc \in OwnerPcs
    \* callingPendingFunctors_ is set exactly while the swapped list runs
    /\ callingPendingFunctors = (lpc = "run")

\* The owning thread is blocked in epoll_wait with no fd that can end it
\* before the timeout.
LoopBlocked == lpc = "poll" /\ \A c \in Channels : ~Ready(c)

(***************************************************************************)
(* No lost wakeup: whenever the owning thread blocks in poll with nothing *)
(* ready, it has no queued functor and no pending quit, unless a foreign  *)
(* thread is between its push and its wakeup() and is about to wake it.   *)
(* This is what the wakeup conditions of queueInLoop() and quit() are     *)
(* for, including the callingPendingFunctors_ case of a functor that      *)
(* queues another functor.                                                 *)
(***************************************************************************)
NoStrandedWork ==
    LoopBlocked /\ (pendingFunctors # <<>> \/ quit)
        => \/ \E t \in Threads : tpc[t] \in {"wake", "quitWake"}
           \/ opc = "quitWake"

(***************************************************************************)
(* Refinement: the loop implements FunctorQueue.  The abstract queue is   *)
(* the swapped-out list still to run followed by pendingFunctors_; the    *)
(* swap in doPendingFunctors() is then a stutter.  So functors run in the *)
(* order they were queued, each once, across threads and swap rounds      *)
(* (what keeps the bytes of several send() calls in order), and, with   *)
(* the loop's fairness, a queued functor is eventually run unless loop()  *)
(* returns first: a functor queued after the last swap before quit is     *)
(* never run.                                                              *)
(***************************************************************************)
Abstract == INSTANCE FunctorQueue
                WITH queued <- functors \o pendingFunctors,
                     ran <- log,
                     issued <- Len(enq),
                     stopped <- (lpc = "stopped")

ImplementsFunctorQueue == Abstract!Spec

(***************************************************************************)
(* The spec: quit() is thread-safe and stops the loop.  ~EventLoopThread  *)
(* relies on it: it calls loop_->quit() and then joins the thread, so the *)
(* join must return.  loop() starts with quit_ = false, and threadFunc()  *)
(* publishes loop_ before it calls loop(), so a destructor that runs      *)
(* right after startLoop() returned has its quit() erased and the join    *)
(* waits forever.                                                          *)
(***************************************************************************)
DestructorJoinReturns == (opc = "joining") ~> (opc = "joined")

=============================================================================

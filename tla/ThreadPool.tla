----------------------------- MODULE ThreadPool -----------------------------
(***************************************************************************)
(* muduo::ThreadPool (src/muduo/base/ThreadPool.cc): worker threads take   *)
(* tasks from queue_ under mutex_, waiting on cond_ while it is empty and  *)
(* the pool runs; run() pushes a task and notifies one waiter; stop()      *)
(* clears running_, notifies all and joins every worker.                   *)
(*                                                                         *)
(* Every critical section of mutex_ (the body of take() between waits,    *)
(* run()'s push and notify, stop()'s store and notifyAll) is one step;    *)
(* Condition::wait releases the mutex and enters the wait set atomically, *)
(* and a waiter leaves it by a notify or spuriously, then reacquires the  *)
(* mutex and re-tests.  The read of running_ at the top of runInThread()  *)
(* is outside the mutex and is its own step.  Tasks are numbered in the   *)
(* order run() is called.                                                  *)
(***************************************************************************)
EXTENDS Naturals, Sequences, SequencesExt

CONSTANTS
    Workers,   \* the threads start(numThreads) creates
    MaxTasks   \* bound on the number of run() calls

VARIABLES
    started,    \* start() has run: threads_ is non-empty
    running,    \* ThreadPool::running_
    queue,      \* ThreadPool::queue_
    waitSet,    \* workers blocked in cond_.wait()
    wpc,        \* where each worker is in runInThread()/take()
    task,       \* the task a worker has taken
    opc,        \* the owner thread: before/after stop(), joining
    submitted,  \* history: tasks in the order run() was called
    done        \* history: tasks that have run

vars == <<started, running, queue, waitSet, wpc, task, opc, submitted, done>>

WorkerPcs == {"top", "take", "woken", "waiting", "run", "exited"}

NextTask == Len(submitted) + 1

(***************************************************************************)
(* Condition::notify() and notifyAll() on cond_: one waiter, or all, leave *)
(* the wait set and go on to reacquire the mutex.                          *)
(***************************************************************************)
NotifyOne ==
    IF waitSet = {}
    THEN UNCHANGED <<waitSet, wpc>>
    ELSE \E w \in waitSet :
            /\ waitSet' = waitSet \ {w}
            /\ wpc' = [wpc EXCEPT ![w] = "woken"]

NotifyAllKeepWaiters ==
    \* faulty variant: waiters are marked woken but stay in the wait set
    /\ waitSet' = waitSet
    /\ wpc' = [w \in Workers |-> IF w \in waitSet THEN "woken" ELSE wpc[w]]

NotifyAll ==
    /\ waitSet' = {}
    /\ wpc' = [w \in Workers |-> IF w \in waitSet THEN "woken" ELSE wpc[w]]

-----------------------------------------------------------------------------
(* The owner thread.                                                        *)

\* start(numThreads): running_ = true, then each Thread started.
Start ==
    /\ ~started
    /\ started' = TRUE
    /\ running' = TRUE
    /\ UNCHANGED <<queue, waitSet, wpc, task, opc, submitted, done>>

(***************************************************************************)
(* stop(): under the lock running_ = false and cond_.notifyAll(); then    *)
(* join every thread.                                                       *)
(***************************************************************************)
StopNotifyOne ==
    \* faulty variant: cond_.notify() instead of notifyAll()
    /\ started
    /\ opc = "idle"
    /\ running' = FALSE
    /\ NotifyOne
    /\ opc' = "join"
    /\ UNCHANGED <<started, queue, task, submitted, done>>

Stop ==
    /\ started
    /\ opc = "idle"
    /\ running' = FALSE
    /\ NotifyAll
    /\ opc' = "join"
    /\ UNCHANGED <<started, queue, task, submitted, done>>

\* The for_each join of stop() returns once every worker has exited.
Join ==
    /\ opc = "join"
    /\ \A w \in Workers : wpc[w] = "exited"
    /\ opc' = "joined"
    /\ UNCHANGED <<started, running, queue, waitSet, wpc, task, submitted,
                   done>>

-----------------------------------------------------------------------------
(***************************************************************************)
(* run(task) on any thread: with no threads the task runs inline;    *)
(* otherwise push it under the lock and cond_.notify().                    *)
(***************************************************************************)
RunNoNotify ==
    \* faulty variant: the push is not followed by a notify
    /\ Len(submitted) < MaxTasks
    /\ submitted' = Append(submitted, NextTask)
    /\ IF ~started
       THEN /\ done' = Append(done, NextTask)
            /\ UNCHANGED <<queue, waitSet, wpc>>
       ELSE /\ queue' = Append(queue, NextTask)
            /\ UNCHANGED <<done, waitSet, wpc>>
    /\ UNCHANGED <<started, running, task, opc>>

Run ==
    /\ Len(submitted) < MaxTasks
    /\ submitted' = Append(submitted, NextTask)
    /\ IF ~started
       THEN /\ done' = Append(done, NextTask)
            /\ UNCHANGED <<queue, waitSet, wpc>>
       ELSE /\ queue' = Append(queue, NextTask)
            /\ NotifyOne
            /\ UNCHANGED done
    /\ UNCHANGED <<started, running, task, opc>>

-----------------------------------------------------------------------------
(* Worker threads, runInThread().                                          *)

\* while (running_): the unsynchronized test at the top of the loop.
LoopTest(w) ==
    /\ started
    /\ wpc[w] = "top"
    /\ wpc' = [wpc EXCEPT ![w] = IF running THEN "take" ELSE "exited"]
    /\ UNCHANGED <<started, running, queue, waitSet, task, opc, submitted,
                   done>>

(***************************************************************************)
(* take(), from the lock (or the reacquisition after a wait) to the next  *)
(* wait or the return: wait while queue_ is empty and running_; else pop  *)
(* the front if there is one, and return (an empty Task otherwise).       *)
(***************************************************************************)
Take(w) ==
    /\ wpc[w] \in {"take", "woken"}
    /\ IF queue = <<>> /\ running
       THEN /\ waitSet' = waitSet \cup {w}
            /\ wpc' = [wpc EXCEPT ![w] = "waiting"]
            /\ UNCHANGED <<queue, task>>
       ELSE IF queue # <<>>
       THEN /\ task' = [task EXCEPT ![w] = Head(queue)]
            /\ queue' = Tail(queue)
            /\ wpc' = [wpc EXCEPT ![w] = "run"]
            /\ UNCHANGED waitSet
       ELSE /\ wpc' = [wpc EXCEPT ![w] = "top"]
            /\ UNCHANGED <<queue, task, waitSet>>
    /\ UNCHANGED <<started, running, opc, submitted, done>>

\* pthread_cond_wait may return without a notify.
SpuriousWakeup(w) ==
    /\ w \in waitSet
    /\ waitSet' = waitSet \ {w}
    /\ wpc' = [wpc EXCEPT ![w] = "woken"]
    /\ UNCHANGED <<started, running, queue, task, opc, submitted, done>>

\* if (task) task(); then back to the top of the loop.
RunTaskThenExit(w) ==
    \* faulty variant: the worker returns after one task (no loop)
    /\ wpc[w] = "run"
    /\ done' = Append(done, task[w])
    /\ wpc' = [wpc EXCEPT ![w] = "exited"]
    /\ UNCHANGED <<started, running, queue, waitSet, task, opc, submitted>>

RunTask(w) ==
    /\ wpc[w] = "run"
    /\ done' = Append(done, task[w])
    /\ wpc' = [wpc EXCEPT ![w] = "top"]
    /\ UNCHANGED <<started, running, queue, waitSet, task, opc, submitted>>

-----------------------------------------------------------------------------
Init ==
    /\ started = FALSE
    /\ running = FALSE
    /\ queue = <<>>
    /\ waitSet = {}
    /\ wpc = [w \in Workers |-> "top"]
    /\ task = [w \in Workers |-> 0]
    /\ opc = "idle"
    /\ submitted = <<>>
    /\ done = <<>>

WorkerStep(w) == LoopTest(w) \/ Take(w) \/ RunTask(w)

Next ==
    \/ Start \/ Stop \/ Join
    \/ Run
    \/ \E w \in Workers : WorkerStep(w) \/ SpuriousWakeup(w)

(***************************************************************************)
(* The scheduler runs every runnable thread: workers between waits and    *)
(* the owner's join.  Nobody is obliged to call run(), start() or stop(), *)
(* and spurious wakeups need not happen.                                    *)
(***************************************************************************)
Fairness ==
    /\ \A w \in Workers : WF_vars(WorkerStep(w))
    /\ WF_vars(Join)

Spec == Init /\ [][Next]_vars /\ Fairness

-----------------------------------------------------------------------------
TypeOK ==
    /\ started \in BOOLEAN
    /\ running \in BOOLEAN
    /\ queue \in Seq(1..MaxTasks)
    /\ waitSet \subseteq Workers
    /\ wpc \in [Workers -> WorkerPcs]
    /\ task \in [Workers -> 0..MaxTasks]
    /\ opc \in {"idle", "join", "joined"}
    \* a worker is in cond_'s wait set exactly while it waits
    /\ \A w \in Workers : (w \in waitSet) = (wpc[w] = "waiting")

(***************************************************************************)
(* No lost wakeup: while the pool runs and a task is queued, some worker  *)
(* is not asleep on cond_ (it is running a task, about to test running_,  *)
(* or woken and about to retake the mutex), so the task is not stranded   *)
(* with every worker waiting for a notify that already happened.          *)
(***************************************************************************)
NoIdleWorkersWhileWorkQueued ==
    (running /\ queue # <<>>) => \E w \in Workers : wpc[w] # "waiting"

(***************************************************************************)
(* A task queued while the pool runs is eventually run, unless stop()     *)
(* comes first (stop does not drain queue_).                               *)
(***************************************************************************)
QueuedTaskEventuallyRuns ==
    \A i \in 1..MaxTasks :
        (running /\ i \in ToSet(queue)) ~> (i \in ToSet(done) \/ ~running)

(***************************************************************************)
(* stop() returns: after running_ = false every worker leaves take() and  *)
(* its loop, whether it was waiting on cond_, running a task or between   *)
(* the unsynchronized test of running_ and the lock, so every join ends.  *)
(***************************************************************************)
StopJoinsAllWorkers == (opc = "join") ~> (opc = "joined")

=============================================================================

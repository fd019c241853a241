----------------------------- MODULE MCBaseSync -----------------------------
(***************************************************************************)
(* Model-checking instance of the threading primitives of muduo/base:      *)
(* ThreadPool, BoundedBlockingQueue, BlockingQueue and CountDownLatch.      *)
(* They share no state, so one run checks them side by side: the initial  *)
(* state picks which one runs (part), the others stay in their initial    *)
(* state, and each one's fairness applies when it is the one running.     *)
(* The reachable states are the union of the four state spaces, not their *)
(* product.                                                                *)
(***************************************************************************)
EXTENDS ThreadPool

CONSTANTS w1, w2, p1, p2, c1, c2, l1, l2, d1, d2, d3

VARIABLES
    part,
    bbQueue, bbWaiters, bbPc, bbPuts,
    bqQueue, bqNotEmptyWaiters, bqPc, bqPuts,
    latchCount, latchWaitSet, latchWpc, latchCounted

\* ThreadPool: two workers, so one can wait on cond_ while the other runs
\* a task and stop() has more than one waiter to wake; three run() calls,
\* more tasks than workers, so tasks queue up.
MCWorkers == {w1, w2}
MCMaxTasks == 3

\* Two producers on a queue of capacity 1, two puts each: both producers
\* can wait on notFull_ while both consumers wait on notEmpty_ in turn.
BBQ == INSTANCE BoundedBlockingQueue
          WITH Producers <- {p1, p2}, Consumers <- {c1, c2}, Capacity <- 1,
               PutsEach <- 2, queue <- bbQueue,
               waiters <- bbWaiters, pc <- bbPc, puts <- bbPuts

\* One producer, two puts, two consumers that may both sleep on notEmpty_.
BQ == INSTANCE BlockingQueue
         WITH Producers <- {p1}, Consumers <- {c1, c2}, PutsEach <- 2,
              queue <- bqQueue, notEmptyWaiters <- bqNotEmptyWaiters,
              pc <- bqPc, puts <- bqPuts

\* A latch of count 2 with three countDown() callers (count_ goes below
\* 0) and two waiters.
Latch == INSTANCE CountDownLatch
            WITH Waiters <- {l1, l2}, Counters <- {d1, d2, d3}, Count <- 2,
                 count <- latchCount, waitSet <- latchWaitSet,
                 wpc <- latchWpc, counted <- latchCounted

poolVars == vars
bbVars == <<bbQueue, bbWaiters, bbPc, bbPuts>>
bqVars == <<bqQueue, bqNotEmptyWaiters, bqPc, bqPuts>>
latchVars == <<latchCount, latchWaitSet, latchWpc, latchCounted>>
allVars == <<part, poolVars, bbVars, bqVars, latchVars>>

MCInit ==
    /\ part \in {"pool", "bbq", "bq", "latch"}
    /\ Init /\ BBQ!Init /\ BQ!Init /\ Latch!Init

MCNext ==
    \/ part = "pool" /\ Next /\ UNCHANGED <<part, bbVars, bqVars, latchVars>>
    \/ part = "bbq" /\ BBQ!Next /\ UNCHANGED <<part, poolVars, bqVars, latchVars>>
    \/ part = "bq" /\ BQ!Next /\ UNCHANGED <<part, poolVars, bbVars, latchVars>>
    \/ part = "latch" /\ Latch!Next /\ UNCHANGED <<part, poolVars, bbVars, bqVars>>

MCSpec ==
    /\ MCInit /\ [][MCNext]_allVars
    /\ part = "pool" => Fairness
    /\ part = "bbq" => BBQ!Fairness
    /\ part = "bq" => BQ!Fairness
    /\ part = "latch" => Latch!Fairness

\* Every component's type invariant.
MCTypeOK == TypeOK /\ BBQ!TypeOK /\ BQ!TypeOK /\ Latch!TypeOK

\* BoundedBlockingQueue implements a FIFO of capacity maxSize whose
\* elements are all taken (BoundedBlockingQueue!ImplementsBoundedFifo).
BBQImplementsBoundedFifo == BBQ!ImplementsBoundedFifo

\* A put() blocked on notFull_ eventually pushes
\* (BoundedBlockingQueue!BlockedPutReturns).
BBQBlockedPutReturns == BBQ!BlockedPutReturns

\* BlockingQueue implements a FIFO whose elements are all taken
\* (BlockingQueue!ImplementsFifo).
BQImplementsFifo == BQ!ImplementsFifo

\* No CountDownLatch::wait() returns while count_ > 0
\* (CountDownLatch!NoWaiterPassesEarly).
LatchNoWaiterPassesEarly == Latch!NoWaiterPassesEarly

\* Once count_ reaches 0 every waiter returns
\* (CountDownLatch!AllWaitersReleased).
LatchAllWaitersReleased == Latch!AllWaitersReleased
=============================================================================

---------------------------- MODULE BlockingQueue ----------------------------
(***************************************************************************)
(* muduo::BlockingQueue<T> (src/muduo/base/BlockingQueue.h): an unbounded *)
(* deque under mutex_ with one condition, notEmpty_.  put() pushes under  *)
(* the lock and notifies after releasing it; take() waits while the deque *)
(* is empty and pops the front.  Steps and wait semantics are those of    *)
(* BoundedBlockingQueue: a critical section is one step, a notified or    *)
(* spuriously woken waiter reacquires the mutex and re-tests.             *)
(***************************************************************************)
EXTENDS Naturals, Sequences, FiniteSets

CONSTANTS
    Producers,  \* threads calling put()
    Consumers,  \* threads calling take() in a loop
    PutsEach    \* bound on the put() calls of each producer

VARIABLES
    queue,            \* queue_
    notEmptyWaiters,  \* threads blocked in notEmpty_.wait()
    pc,               \* "lock", "wait", "woken", "notify" or "done"
    puts              \* put() calls each producer has completed

vars == <<queue, notEmptyWaiters, pc, puts>>

Threads == Producers \cup Consumers

\* notEmpty_.notify() by producer p, which then makes its next put() call.
NotifyNotEmpty(p) ==
    LET next == IF puts[p] + 1 < PutsEach THEN "lock" ELSE "done"
    IN  \/ /\ notEmptyWaiters = {}
           /\ UNCHANGED notEmptyWaiters
           /\ pc' = [pc EXCEPT ![p] = next]
        \/ \E c \in notEmptyWaiters :
           /\ notEmptyWaiters' = notEmptyWaiters \ {c}
           /\ pc' = [pc EXCEPT ![p] = next, ![c] = "woken"]

\* put(): push_back under the lock.
PutPush(p) ==
    /\ pc[p] = "lock"
    /\ queue' = Append(queue, p)
    /\ pc' = [pc EXCEPT ![p] = "notify"]
    /\ UNCHANGED <<notEmptyWaiters, puts>>

PutNoNotify(p) ==
    \* faulty variant: put() never notifies notEmpty_
    /\ pc[p] = "notify"
    /\ pc' = [pc EXCEPT ![p] = IF puts[p] + 1 < PutsEach THEN "lock" ELSE "done"]
    /\ puts' = [puts EXCEPT ![p] = @ + 1]
    /\ UNCHANGED <<queue, notEmptyWaiters>>

\* put(), after the guard is released: notEmpty_.notify().
PutNotify(p) ==
    /\ pc[p] = "notify"
    /\ NotifyNotEmpty(p)
    /\ puts' = [puts EXCEPT ![p] = @ + 1]
    /\ UNCHANGED queue

\* take(): while (queue_.empty()) notEmpty_.wait(); then pop_front.
TakeLock(c) ==
    /\ pc[c] \in {"lock", "woken"}
    /\ IF queue = <<>>
       THEN /\ notEmptyWaiters' = notEmptyWaiters \cup {c}
            /\ pc' = [pc EXCEPT ![c] = "wait"]
            /\ UNCHANGED queue
       ELSE /\ queue' = Tail(queue)
            /\ pc' = [pc EXCEPT ![c] = "lock"]
            /\ UNCHANGED notEmptyWaiters
    /\ UNCHANGED puts

\* pthread_cond_wait may return without a notify.
SpuriousWakeup(c) ==
    /\ c \in notEmptyWaiters
    /\ notEmptyWaiters' = notEmptyWaiters \ {c}
    /\ pc' = [pc EXCEPT ![c] = "woken"]
    /\ UNCHANGED <<queue, puts>>

Init ==
    /\ queue = <<>>
    /\ notEmptyWaiters = {}
    /\ pc = [t \in Threads |-> "lock"]
    /\ puts = [p \in Producers |-> 0]

Next ==
    \/ \E p \in Producers : PutPush(p) \/ PutNotify(p)
    \/ \E c \in Consumers : TakeLock(c) \/ SpuriousWakeup(c)

\* Every thread that can take a step takes it; wakeups need not be spurious.
Fairness ==
    /\ \A p \in Producers : WF_vars(PutPush(p)) /\ WF_vars(PutNotify(p))
    /\ \A c \in Consumers : WF_vars(TakeLock(c))

Spec == Init /\ [][Next]_vars /\ Fairness

-----------------------------------------------------------------------------
TypeOK ==
    /\ queue \in Seq(Producers)
    /\ notEmptyWaiters \subseteq Consumers
    /\ pc \in [Threads -> {"lock", "wait", "woken", "notify", "done"}]
    /\ puts \in [Producers -> 0..PutsEach]
    /\ \A t \in Threads : (pc[t] = "wait") = (t \in notEmptyWaiters)

(***************************************************************************)
(* Refinement: the deque is a FIFO (bounded here only by the number of    *)
(* put() calls) whose elements are all eventually taken: the notify that  *)
(* put() makes after releasing the lock wakes a consumer that went to     *)
(* sleep on an empty deque, however the two interleave.                   *)
(***************************************************************************)
Fifo == INSTANCE BoundedFifo
            WITH Values <- Producers,
                 Capacity <- PutsEach * Cardinality(Producers)

ImplementsFifo == Fifo!Spec

=============================================================================

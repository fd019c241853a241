------------------------- MODULE BoundedBlockingQueue -------------------------
(***************************************************************************)
(* muduo::BoundedBlockingQueue<T> (src/muduo/base/BoundedBlockingQueue.h): *)
(* a circular_buffer of maxSize under mutex_, with notEmpty_ and notFull_ *)
(* conditions.  put() waits while the buffer is full, pushes, releases    *)
(* the lock and then notifies notEmpty_; take() waits while it is empty,  *)
(* pops the front and notifies notFull_ before releasing the lock.        *)
(*                                                                         *)
(* Each critical section is one step.  Condition::wait releases mutex_    *)
(* and joins the condition's wait set at once; a notify (or a spurious    *)
(* wakeup) moves a waiter to "woken", from where it reacquires the mutex  *)
(* and re-tests the while condition.  Producers each put PutsEach         *)
(* elements (an element is its producer's name); consumers call take()    *)
(* forever.                                                                *)
(***************************************************************************)
EXTENDS Naturals, Sequences

CONSTANTS
    Producers,  \* threads calling put()
    Consumers,  \* threads calling take() in a loop
    Capacity,   \* maxSize given to the constructor
    PutsEach    \* bound on the put() calls of each producer

VARIABLES
    queue,            \* queue_
    waiters,          \* threads blocked in notEmpty_.wait(), notFull_.wait()
    pc,               \* "lock": calling put()/take(); "wait"; "woken";
                      \* "notify": put() between unlock and notify; "done"
    puts              \* put() calls each producer has completed

vars == <<queue, waiters, pc, puts>>

Threads == Producers \cup Consumers

(***************************************************************************)
(* Condition::notify() on cond, made by self, which moves on to selfPc:  *)
(* one waiter, if any, is woken.                                           *)
(***************************************************************************)
NotifyOne(cond, self, selfPc) ==
    \/ /\ waiters[cond] = {}
       /\ UNCHANGED waiters
       /\ pc' = [pc EXCEPT ![self] = selfPc]
    \/ \E t \in waiters[cond] :
       /\ waiters' = [waiters EXCEPT ![cond] = @ \ {t}]
       /\ pc' = [pc EXCEPT ![self] = selfPc, ![t] = "woken"]

\* Condition::wait() on cond by t.
WaitOn(cond, t) ==
    /\ waiters' = [waiters EXCEPT ![cond] = @ \cup {t}]
    /\ pc' = [pc EXCEPT ![t] = "wait"]

\* Where a producer goes after a put(): the next put(), or done.
AfterPut(p) == IF puts[p] + 1 < PutsEach THEN "lock" ELSE "done"

-----------------------------------------------------------------------------
(***************************************************************************)
(* put(), under the lock: while (queue_.full()) notFull_.wait(); then     *)
(* push_back.                                                              *)
(***************************************************************************)
PutLockIf(p) ==
    \* faulty variant: if instead of while, no re-test after the wait
    /\ pc[p] \in {"lock", "woken"}
    /\ IF Len(queue) = Capacity /\ pc[p] = "lock"
       THEN /\ WaitOn("notFull", p)
            /\ UNCHANGED queue
       ELSE /\ queue' = Append(queue, p)
            /\ pc' = [pc EXCEPT ![p] = "notify"]
            /\ UNCHANGED waiters
    /\ UNCHANGED puts

PutLock(p) ==
    /\ pc[p] \in {"lock", "woken"}
    /\ IF Len(queue) = Capacity
       THEN /\ WaitOn("notFull", p)
            /\ UNCHANGED queue
       ELSE /\ queue' = Append(queue, p)
            /\ pc' = [pc EXCEPT ![p] = "notify"]
            /\ UNCHANGED waiters
    /\ UNCHANGED puts

\* put(), after the guard is released: notEmpty_.notify().
PutNotify(p) ==
    /\ pc[p] = "notify"
    /\ NotifyOne("notEmpty", p, AfterPut(p))
    /\ puts' = [puts EXCEPT ![p] = @ + 1]
    /\ UNCHANGED queue

(***************************************************************************)
(* take(), under the lock: while (queue_.empty()) notEmpty_.wait(); then  *)
(* pop_front and notFull_.notify(); the consumer calls take() again.      *)
(***************************************************************************)
TakeNoNotify(c) ==
    \* faulty variant: the pop is not followed by notFull_.notify()
    /\ pc[c] \in {"lock", "woken"}
    /\ IF queue = <<>>
       THEN /\ WaitOn("notEmpty", c)
            /\ UNCHANGED queue
       ELSE /\ queue' = Tail(queue)
            /\ pc' = [pc EXCEPT ![c] = "lock"]
            /\ UNCHANGED waiters
    /\ UNCHANGED puts

TakeLock(c) ==
    /\ pc[c] \in {"lock", "woken"}
    /\ IF queue = <<>>
       THEN /\ WaitOn("notEmpty", c)
            /\ UNCHANGED queue
       ELSE /\ queue' = Tail(queue)
            /\ NotifyOne("notFull", c, "lock")
    /\ UNCHANGED puts

\* pthread_cond_wait may return without a notify.
SpuriousWakeup(t) ==
    /\ \E cond \in DOMAIN waiters :
          /\ t \in waiters[cond]
          /\ waiters' = [waiters EXCEPT ![cond] = @ \ {t}]
    /\ pc' = [pc EXCEPT ![t] = "woken"]
    /\ UNCHANGED <<queue, puts>>

-----------------------------------------------------------------------------
Init ==
    /\ queue = <<>>
    /\ waiters = [cond \in {"notEmpty", "notFull"} |-> {}]
    /\ pc = [t \in Threads |-> "lock"]
    /\ puts = [p \in Producers |-> 0]

Next ==
    \/ \E p \in Producers : PutLock(p) \/ PutNotify(p)
    \/ \E c \in Consumers : TakeLock(c)
    \/ \E t \in Threads : SpuriousWakeup(t)

\* Every thread that can take a step takes it; wakeups need not be spurious.
Fairness ==
    /\ \A p \in Producers : WF_vars(PutLock(p)) /\ WF_vars(PutNotify(p))
    /\ \A c \in Consumers : WF_vars(TakeLock(c))

Spec == Init /\ [][Next]_vars /\ Fairness

-----------------------------------------------------------------------------
TypeOK ==
    /\ queue \in Seq(Producers)
    /\ waiters \in [{"notEmpty", "notFull"} -> SUBSET Threads]
    /\ waiters["notEmpty"] \subseteq Consumers
    /\ waiters["notFull"] \subseteq Producers
    /\ pc \in [Threads -> {"lock", "wait", "woken", "notify", "done"}]
    /\ puts \in [Producers -> 0..PutsEach]
    /\ \A t \in Threads : (pc[t] = "wait") = (t \in waiters["notEmpty"] \cup waiters["notFull"])

(***************************************************************************)
(* Refinement: the queue is a BoundedFifo of capacity maxSize.  The while *)
(* re-test after notFull_.wait() is what keeps a woken producer from      *)
(* pushing into a buffer another producer has filled meanwhile, and the   *)
(* notifies of put() and take() are what make every element eventually   *)
(* taken.                                                                  *)
(***************************************************************************)
Fifo == INSTANCE BoundedFifo WITH Values <- Producers

ImplementsBoundedFifo == Fifo!Spec

(***************************************************************************)
(* A put() blocked on a full queue eventually pushes its element: every   *)
(* take() notifies notFull_, so a producer waiting on it is not left      *)
(* asleep while consumers empty the queue.                                 *)
(***************************************************************************)
BlockedPutReturns == \A p \in Producers : (pc[p] = "wait") ~> (pc[p] = "notify")

=============================================================================

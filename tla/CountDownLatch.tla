---------------------------- MODULE CountDownLatch ----------------------------
(***************************************************************************)
(* muduo::CountDownLatch (src/muduo/base/CountDownLatch.cc): count_ under *)
(* mutex_; wait() blocks on condition_ while count_ > 0; countDown()       *)
(* decrements count_ and, when it reaches 0, notifies all waiters.  Each  *)
(* call is one critical section; a waiter woken by the notifyAll or       *)
(* spuriously reacquires the mutex and re-tests count_.  Every counter    *)
(* thread calls countDown() once; there may be more of them than the      *)
(* initial count, so count_ may go below 0.                                *)
(***************************************************************************)
EXTENDS Integers, FiniteSets

CONSTANTS
    Waiters,    \* threads calling wait()
    Counters,   \* threads calling countDown() once each
    Count       \* the count given to the constructor

VARIABLES
    count,      \* count_
    waitSet,    \* threads blocked in condition_.wait()
    wpc,        \* "call": in wait(), testing count_; "wait"; "woken"; "returned"
    counted     \* counters whose countDown() has run

vars == <<count, waitSet, wpc, counted>>

\* wait(): while (count_ > 0) condition_.wait();
WaitIf(w) ==
    \* faulty variant: if instead of while, no re-test after the wait
    /\ wpc[w] \in {"call", "woken"}
    /\ IF count > 0 /\ wpc[w] = "call"
       THEN /\ waitSet' = waitSet \cup {w}
            /\ wpc' = [wpc EXCEPT ![w] = "wait"]
       ELSE /\ wpc' = [wpc EXCEPT ![w] = "returned"]
            /\ UNCHANGED waitSet
    /\ UNCHANGED <<count, counted>>

Wait(w) ==
    /\ wpc[w] \in {"call", "woken"}
    /\ IF count > 0
       THEN /\ waitSet' = waitSet \cup {w}
            /\ wpc' = [wpc EXCEPT ![w] = "wait"]
       ELSE /\ wpc' = [wpc EXCEPT ![w] = "returned"]
            /\ UNCHANGED waitSet
    /\ UNCHANGED <<count, counted>>

\* countDown(): --count_; if (count_ == 0) condition_.notifyAll();
CountDownNotifyOne(c) ==
    \* faulty variant: condition_.notify() instead of notifyAll()
    /\ c \notin counted
    /\ counted' = counted \cup {c}
    /\ count' = count - 1
    /\ IF count - 1 = 0 /\ waitSet # {}
       THEN \E w \in waitSet :
               /\ waitSet' = waitSet \ {w}
               /\ wpc' = [wpc EXCEPT ![w] = "woken"]
       ELSE UNCHANGED <<waitSet, wpc>>

CountDown(c) ==
    /\ c \notin counted
    /\ counted' = counted \cup {c}
    /\ count' = count - 1
    /\ IF count - 1 = 0
       THEN /\ waitSet' = {}
            /\ wpc' = [w \in Waiters |-> IF w \in waitSet THEN "woken" ELSE wpc[w]]
       ELSE UNCHANGED <<waitSet, wpc>>

\* pthread_cond_wait may return without a notify.
SpuriousWakeup(w) ==
    /\ w \in waitSet
    /\ waitSet' = waitSet \ {w}
    /\ wpc' = [wpc EXCEPT ![w] = "woken"]
    /\ UNCHANGED <<count, counted>>

Init ==
    /\ count = Count
    /\ waitSet = {}
    /\ wpc = [w \in Waiters |-> "call"]
    /\ counted = {}

Next ==
    \/ \E w \in Waiters : Wait(w) \/ SpuriousWakeup(w)
    \/ \E c \in Counters : CountDown(c)

(***************************************************************************)
(* A waiter that is not blocked runs.  Counters are not obliged to call   *)
(* countDown(), and wakeups need not be spurious.                          *)
(***************************************************************************)
Fairness == \A w \in Waiters : WF_vars(Wait(w))

Spec == Init /\ [][Next]_vars /\ Fairness

-----------------------------------------------------------------------------
TypeOK ==
    /\ count \in (Count - Cardinality(Counters))..Count
    /\ waitSet \subseteq Waiters
    /\ wpc \in [Waiters -> {"call", "wait", "woken", "returned"}]
    /\ counted \subseteq Counters
    /\ count = Count - Cardinality(counted)
    /\ \A w \in Waiters : (wpc[w] = "wait") = (w \in waitSet)

(***************************************************************************)
(* The latch: no wait() returns before count_ has reached 0, even when    *)
(* the condition wakes it spuriously.                                      *)
(***************************************************************************)
NoWaiterPassesEarly == \A w \in Waiters : wpc[w] = "returned" => count <= 0

(***************************************************************************)
(* Once count_ has reached 0, every thread in wait() returns: the last    *)
(* countDown() wakes all the waiters, not one, and a waiter that calls    *)
(* wait() afterwards does not block.                                        *)
(***************************************************************************)
AllWaitersReleased ==
    (count <= 0) ~> (\A w \in Waiters : wpc[w] = "returned")

=============================================================================

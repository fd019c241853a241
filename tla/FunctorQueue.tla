---------------------------- MODULE FunctorQueue ----------------------------
(***************************************************************************)
(* What an EventLoop promises to the callers of runInLoop()/queueInLoop() *)
(* (spec section 4.1), with no threads, locks, eventfd or poller: functors *)
(* join one queue and run one at a time, oldest first; running a functor *)
(* may queue another; once the loop has stopped, nothing more runs, and   *)
(* what is still queued then is never run.  While the loop has not        *)
(* stopped, a queued functor is eventually run.                            *)
(***************************************************************************)
EXTENDS Naturals, Sequences

CONSTANT MaxTasks   \* bound on the number of functors ever queued

VARIABLES
    queued,   \* functors queued and not yet run, oldest first
    ran,      \* functors in the order they ran
    issued,   \* number of functors ever queued; functor k is the k-th
    stopped   \* loop() has returned

vars == <<queued, ran, issued, stopped>>

Init ==
    /\ queued = <<>>
    /\ ran = <<>>
    /\ issued = 0
    /\ stopped = FALSE

\* Any thread queues a functor, also after the loop stopped.
Queue ==
    /\ issued < MaxTasks
    /\ queued' = Append(queued, issued + 1)
    /\ issued' = issued + 1
    /\ UNCHANGED <<ran, stopped>>

\* The loop runs the oldest functor, which may queue a follow-up.
Run ==
    /\ ~stopped
    /\ queued # <<>>
    /\ ran' = Append(ran, Head(queued))
    /\ \/ /\ queued' = Tail(queued)
          /\ UNCHANGED issued
       \/ /\ issued < MaxTasks
          /\ queued' = Append(Tail(queued), issued + 1)
          /\ issued' = issued + 1
    /\ UNCHANGED stopped

\* loop() returns.
Stop ==
    /\ ~stopped
    /\ stopped' = TRUE
    /\ UNCHANGED <<queued, ran, issued>>

Next == Queue \/ Run \/ Stop

Spec == Init /\ [][Next]_vars /\ WF_vars(Run)

=============================================================================

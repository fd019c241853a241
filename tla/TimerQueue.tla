----------------------------- MODULE TimerQueue -----------------------------
(***************************************************************************)
(* muduo's TimerQueue (src/muduo/net/TimerQueue.cc), run on its loop's    *)
(* thread.  Every public operation reaches the loop thread through        *)
(* runInLoop(), so on that thread addTimer() and cancel() are synchronous *)
(* and they cannot interleave with handleRead() except from inside the     *)
(* timer callbacks it runs.  Those callbacks are separate steps here: a    *)
(* callback may add a timer or cancel any TimerId it was ever given,       *)
(* itself and stale ones included.  Other threads' addTimer() and cancel() *)
(* are queued in pendingFunctors_ and run by doPendingFunctors in order.  *)
(*                                                                         *)
(* Timer objects live at heap addresses (Addrs, ordered like pointers);   *)
(* new Timer takes any free address, so a deleted timer's address can be  *)
(* reused by a later one, which is why TimerId carries the sequence.      *)
(* Time is a natural number in timer-resolution units.                     *)
(***************************************************************************)
EXTENDS Integers, Sequences, SequencesExt, FiniteSets

CONSTANTS
    Addrs,       \* heap addresses a Timer can be allocated at (naturals)
    MaxTimers,   \* bound on Timer::s_numCreated_
    MaxTime,     \* bound on the clock
    Delays,      \* delays a timer may be scheduled with (runAfter/runAt)
    Intervals,   \* repeat intervals, 0 meaning one-shot
    MaxPending   \* bound on the functors waiting in pendingFunctors_

ASSUME /\ Addrs \subseteq Nat
       /\ MaxTimers \in Nat
       /\ MaxTime \in Nat
       /\ Delays \subseteq Nat
       /\ Intervals \subseteq Nat
       /\ MaxPending \in Nat

\* A free heap slot.
NoTimer == [seq |-> 0, expiration |-> 0, interval |-> 0]

\* timerfd disarmed.
NoDeadline == -1

VARIABLES
    timers,                \* TimerQueue::timers_, a set of <<expiration, addr>>
    activeTimers,          \* TimerQueue::activeTimers_, a set of <<addr, seq>>
    timerObj,              \* the heap: Timer object at each address
    callingExpiredTimers,  \* TimerQueue::callingExpiredTimers_
    cancelingTimers,       \* TimerQueue::cancelingTimers_
    expired,               \* handleRead()'s local vector of expired entries
    nextExpired,           \* index of the next expired callback to run
    readNow,               \* handleRead()'s local 'now'
    now,                   \* the clock
    deadline,              \* when the timerfd is armed to fire
    numCreated,            \* Timer::s_numCreated_
    issued,                \* TimerIds handed out to callers
    cancelled,             \* history: sequences ever passed to cancel()
    fired,                 \* history: sequences of the callbacks run, in order
    pendingFunctors        \* EventLoop::pendingFunctors_: the addTimerInLoop
                           \* and cancelInLoop functors of foreign threads

vars == <<timers, activeTimers, timerObj, callingExpiredTimers,
          cancelingTimers, expired, nextExpired, readNow, now, deadline,
          numCreated, issued, cancelled, fired, pendingFunctors>>

TimerSeq(a) == timerObj[a].seq

\* TimerIds whose addTimerInLoop is still queued on the loop.
QueuedAdds == {f.id : f \in {g \in ToSet(pendingFunctors) : g.op = "add"}}

(***************************************************************************)
(* The TimerIds code on the loop thread can hold: those it was handed     *)
(* through the loop's own queue, so only after their addTimerInLoop ran.  *)
(***************************************************************************)
Known == issued \ QueuedAdds

Earliest == CHOOSE w \in {e[1] : e \in timers} : \A e \in timers : w <= e[1]

\* std::set<pair<Timestamp, Timer*>> order: expiration, then address.
EntryLess(x, y) == x[1] < y[1] \/ (x[1] = y[1] /\ x[2] < y[2])

\* detail::resetTimerfd(): the timerfd fires at 'when', or at once (after
\* 100 microseconds, below the model's resolution) if 'when' has passed.
ArmAt(when) == deadline' = IF when > now THEN when ELSE now

-----------------------------------------------------------------------------
(* TimerQueue::insert(): does the new expiration become the earliest?      *)
EarliestChangedNonEmptyOnly(when) ==
    \* faulty variant: an empty queue is not treated as a change
    timers # {} /\ when < Earliest

EarliestChanged(when) == timers = {} \/ when < Earliest

(***************************************************************************)
(* EventLoop::runAt/runAfter/runEvery -> TimerQueue::addTimer(): new      *)
(* Timer (sequence = ++s_numCreated_), runInLoop(addTimerInLoop), which    *)
(* on the loop thread runs at once: insert() into both indexes, and        *)
(* resetTimerfd() when the earliest expiration changed.                    *)
(***************************************************************************)
\* new Timer(cb, now + delay, interval) at a free address a, by the caller.
NewTimer(a, delay, interval) ==
    /\ timerObj[a] = NoTimer
    /\ numCreated < MaxTimers
    /\ timerObj' = [timerObj EXCEPT ![a] = [seq |-> numCreated + 1,
                       expiration |-> now + delay, interval |-> interval]]
    /\ numCreated' = numCreated + 1
    /\ issued' = issued \cup {<<a, numCreated + 1>>}

\* addTimerInLoop(): insert() the Timer at a with sequence s, due at when.
InsertTimer(a, s, when) ==
    /\ timers' = timers \cup {<<when, a>>}
    /\ activeTimers' = activeTimers \cup {<<a, s>>}
    /\ IF EarliestChanged(when) THEN ArmAt(when)
                                ELSE UNCHANGED deadline

AddTimerInLoop(delay, interval) ==
    \E a \in Addrs :
        /\ NewTimer(a, delay, interval)
        /\ InsertTimer(a, numCreated + 1, now + delay)

(***************************************************************************)
(* TimerQueue::cancelInLoop(): a pending timer is removed from both        *)
(* indexes and deleted; one that is not pending while callbacks run is     *)
(* recorded in cancelingTimers_; otherwise nothing happens.                 *)
(***************************************************************************)
CancelInLoopByAddress(id) ==
    \* faulty variant: TimerId looked up by the Timer* alone
    /\ cancelled' = cancelled \cup {id[2]}
    /\ \/ \E act \in activeTimers :
            /\ act[1] = id[1]
            /\ timers' = timers \ {<<timerObj[id[1]].expiration, id[1]>>}
            /\ activeTimers' = activeTimers \ {act}
            /\ timerObj' = [timerObj EXCEPT ![id[1]] = NoTimer]
            /\ UNCHANGED cancelingTimers
       \/ /\ \A act \in activeTimers : act[1] # id[1]
          /\ callingExpiredTimers
          /\ cancelingTimers' = cancelingTimers \cup {id}
          /\ UNCHANGED <<timers, activeTimers, timerObj>>
       \/ /\ \A act \in activeTimers : act[1] # id[1]
          /\ ~callingExpiredTimers
          /\ UNCHANGED <<timers, activeTimers, timerObj, cancelingTimers>>

CancelInLoopKeepEntry(id) ==
    \* faulty variant: the Timer is deleted but its timers_ entry is kept
    /\ cancelled' = cancelled \cup {id[2]}
    /\ \/ /\ id \in activeTimers
          /\ activeTimers' = activeTimers \ {id}
          /\ timerObj' = [timerObj EXCEPT ![id[1]] = NoTimer]
          /\ UNCHANGED <<timers, cancelingTimers>>
       \/ /\ id \notin activeTimers
          /\ callingExpiredTimers
          /\ cancelingTimers' = cancelingTimers \cup {id}
          /\ UNCHANGED <<timers, activeTimers, timerObj>>
       \/ /\ id \notin activeTimers
          /\ ~callingExpiredTimers
          /\ UNCHANGED <<timers, activeTimers, timerObj, cancelingTimers>>

CancelInLoop(id) ==
    /\ cancelled' = cancelled \cup {id[2]}
    /\ \/ /\ id \in activeTimers
          /\ timers' = timers \ {<<timerObj[id[1]].expiration, id[1]>>}
          /\ activeTimers' = activeTimers \ {id}
          /\ timerObj' = [timerObj EXCEPT ![id[1]] = NoTimer]
          /\ UNCHANGED cancelingTimers
       \/ /\ id \notin activeTimers
          /\ callingExpiredTimers
          /\ cancelingTimers' = cancelingTimers \cup {id}
          /\ UNCHANGED <<timers, activeTimers, timerObj>>
       \/ /\ id \notin activeTimers
          /\ ~callingExpiredTimers
          /\ UNCHANGED <<timers, activeTimers, timerObj, cancelingTimers>>

-----------------------------------------------------------------------------
(* Operations of the loop thread outside handleRead().                     *)

AddTimer ==
    /\ ~callingExpiredTimers
    /\ \E d \in Delays, iv \in Intervals : AddTimerInLoop(d, iv)
    /\ UNCHANGED <<callingExpiredTimers, cancelingTimers, expired,
                   nextExpired, readNow, now, cancelled, fired>>

Cancel ==
    /\ ~callingExpiredTimers
    /\ \E id \in Known : CancelInLoop(id)
    /\ UNCHANGED <<callingExpiredTimers, expired, nextExpired, readNow, now,
                   deadline, numCreated, issued, fired>>

Tick ==
    /\ now < MaxTime
    /\ now' = now + 1
    /\ UNCHANGED <<timers, activeTimers, timerObj, callingExpiredTimers,
                   cancelingTimers, expired, nextExpired, readNow, deadline,
                   numCreated, issued, cancelled, fired>>

(***************************************************************************)
(* Another thread calls runAt/runAfter/runEvery: addTimer() allocates the *)
(* Timer and its sequence on that thread, queueInLoop(addTimerInLoop), and *)
(* returns the TimerId before the loop has inserted the timer.             *)
(***************************************************************************)
ForeignAddTimer ==
    /\ Len(pendingFunctors) < MaxPending
    /\ \E a \in Addrs, d \in Delays, iv \in Intervals :
          /\ NewTimer(a, d, iv)
          /\ pendingFunctors' = Append(pendingFunctors,
                                   [op |-> "add", id |-> <<a, numCreated + 1>>])
    /\ UNCHANGED <<timers, activeTimers, callingExpiredTimers, cancelingTimers,
                   expired, nextExpired, readNow, now, deadline, cancelled, fired>>

\* Another thread calls cancel(timerId): queueInLoop(cancelInLoop).
ForeignCancel ==
    /\ Len(pendingFunctors) < MaxPending
    /\ \E id \in issued :
          pendingFunctors' = Append(pendingFunctors, [op |-> "cancel", id |-> id])
    /\ UNCHANGED <<timers, activeTimers, timerObj, callingExpiredTimers,
                   cancelingTimers, expired, nextExpired, readNow, now,
                   deadline, numCreated, issued, cancelled, fired>>

(***************************************************************************)
(* EventLoop::doPendingFunctors(), between two polls (never inside        *)
(* handleRead): the functors run in the order they were queued.           *)
(***************************************************************************)
RunFunctor(f) ==
    \/ /\ f.op = "add"
       /\ InsertTimer(f.id[1], f.id[2], timerObj[f.id[1]].expiration)
       /\ UNCHANGED <<timerObj, cancelingTimers, cancelled>>
    \/ /\ f.op = "cancel"
       /\ CancelInLoop(f.id)
       /\ UNCHANGED deadline

RunTimerFunctorAnyOrder ==
    \* faulty variant: a queued functor may overtake one queued before it
    /\ ~callingExpiredTimers
    /\ \E i \in DOMAIN pendingFunctors :
          /\ RunFunctor(pendingFunctors[i])
          /\ pendingFunctors' = RemoveAt(pendingFunctors, i)
    /\ UNCHANGED <<callingExpiredTimers, expired, nextExpired, readNow, now,
                   numCreated, issued, fired>>

RunTimerFunctor ==
    /\ ~callingExpiredTimers
    /\ pendingFunctors # <<>>
    /\ RunFunctor(Head(pendingFunctors))
    /\ pendingFunctors' = Tail(pendingFunctors)
    /\ UNCHANGED <<callingExpiredTimers, expired, nextExpired, readNow, now,
                   numCreated, issued, fired>>

(***************************************************************************)
(* The timerfd channel is readable: TimerQueue::handleRead() reads the     *)
(* timerfd (the one-shot timerfd is now disarmed), getExpired(now) moves   *)
(* every entry with expiration <= now out of both indexes into 'expired'  *)
(* in timers_ order, then callingExpiredTimers_ = true and                 *)
(* cancelingTimers_.clear().                                               *)
(***************************************************************************)
GetExpiredKeepActive ==
    \* faulty variant: getExpired() leaves the entries in activeTimers_
    /\ ~callingExpiredTimers
    /\ deadline # NoDeadline
    /\ deadline <= now
    /\ LET due == {e \in timers : e[1] <= now}
       IN  /\ expired' = SetToSortSeq(due, EntryLess)
           /\ timers' = timers \ due
           /\ UNCHANGED activeTimers
    /\ deadline' = NoDeadline
    /\ readNow' = now
    /\ callingExpiredTimers' = TRUE
    /\ cancelingTimers' = {}
    /\ nextExpired' = 1
    /\ UNCHANGED <<timerObj, now, numCreated, issued, cancelled, fired>>

GetExpiredBeforeNow ==
    \* faulty variant: the sentry compares below a Timer* at now, so a timer
    \* due exactly now is not taken
    /\ ~callingExpiredTimers
    /\ deadline # NoDeadline
    /\ deadline <= now
    /\ LET due == {e \in timers : e[1] < now}
       IN  /\ expired' = SetToSortSeq(due, EntryLess)
           /\ timers' = timers \ due
           /\ activeTimers' = activeTimers \ {<<e[2], TimerSeq(e[2])>> : e \in due}
    /\ deadline' = NoDeadline
    /\ readNow' = now
    /\ callingExpiredTimers' = TRUE
    /\ cancelingTimers' = {}
    /\ nextExpired' = 1
    /\ UNCHANGED <<timerObj, now, numCreated, issued, cancelled, fired>>

HandleRead ==
    /\ ~callingExpiredTimers
    /\ deadline # NoDeadline
    /\ deadline <= now
    /\ LET due == {e \in timers : e[1] <= now}
       IN  /\ expired' = SetToSortSeq(due, EntryLess)
           /\ timers' = timers \ due
           /\ activeTimers' = activeTimers \ {<<e[2], TimerSeq(e[2])>> : e \in due}
    /\ deadline' = NoDeadline
    /\ readNow' = now
    /\ callingExpiredTimers' = TRUE
    /\ cancelingTimers' = {}
    /\ nextExpired' = 1
    /\ UNCHANGED <<timerObj, now, numCreated, issued, cancelled, fired>>

(***************************************************************************)
(* handleRead(): it->second->run() for the next expired timer.  The user  *)
(* callback may do nothing, add a timer, or cancel any TimerId.            *)
(***************************************************************************)
RunExpiredTimer ==
    /\ callingExpiredTimers
    /\ nextExpired <= Len(expired)
    /\ fired' = Append(fired, TimerSeq(expired[nextExpired][2]))
    /\ nextExpired' = nextExpired + 1
    /\ \/ UNCHANGED <<timers, activeTimers, timerObj, cancelingTimers,
                      deadline, numCreated, issued, cancelled>>
       \/ /\ \E d \in Delays, iv \in Intervals : AddTimerInLoop(d, iv)
          /\ UNCHANGED <<cancelingTimers, cancelled>>
       \/ /\ \E id \in Known : CancelInLoop(id)
          /\ UNCHANGED <<deadline, numCreated, issued>>
    /\ UNCHANGED <<callingExpiredTimers, expired, readNow, now>>

\* TimerQueue::reset(): is an expired timer restarted?
RestartableIgnoringCancel(a) ==
    \* faulty variant: cancelingTimers_ is not consulted
    timerObj[a].interval > 0

Restartable(a) ==
    /\ timerObj[a].interval > 0
    /\ <<a, TimerSeq(a)>> \notin cancelingTimers

(***************************************************************************)
(* End of handleRead(): callingExpiredTimers_ = false, then reset(): each  *)
(* restartable timer gets expiration now + interval (handleRead's now)    *)
(* and is inserted again, every other expired timer is deleted, and the   *)
(* timerfd is re-armed for the earliest pending expiration, if any.       *)
(***************************************************************************)
\* Timer::restart(now): a repeating timer's next expiration, now + interval_.
Restarted(a) == readNow + timerObj[a].interval

ResetExpired ==
    /\ callingExpiredTimers
    /\ nextExpired > Len(expired)
    /\ LET ex == ToSet(expired)
           restart == {e[2] : e \in {x \in ex : Restartable(x[2])}}
           drop == {e[2] : e \in ex} \ restart
           newTimers == timers \cup
                          {<<Restarted(a), a>> : a \in restart}
       IN  /\ timers' = newTimers
           /\ activeTimers' = activeTimers \cup {<<a, TimerSeq(a)>> : a \in restart}
           /\ timerObj' = [a \in Addrs |->
                             IF a \in drop THEN NoTimer
                             ELSE IF a \in restart
                                  THEN [timerObj[a] EXCEPT !.expiration =
                                          Restarted(a)]
                                  ELSE timerObj[a]]
           /\ IF newTimers # {}
              THEN ArmAt(CHOOSE w \in {e[1] : e \in newTimers} :
                            \A e \in newTimers : w <= e[1])
              ELSE UNCHANGED deadline
    /\ callingExpiredTimers' = FALSE
    /\ expired' = <<>>
    /\ nextExpired' = 1
    /\ UNCHANGED <<cancelingTimers, readNow, now, numCreated, issued,
                   cancelled, fired>>

-----------------------------------------------------------------------------
Init ==
    /\ timers = {}
    /\ activeTimers = {}
    /\ timerObj = [a \in Addrs |-> NoTimer]
    /\ callingExpiredTimers = FALSE
    /\ cancelingTimers = {}
    /\ expired = <<>>
    /\ nextExpired = 1
    /\ readNow = 0
    /\ now = 0
    /\ deadline = NoDeadline
    /\ numCreated = 0
    /\ issued = {}
    /\ cancelled = {}
    /\ fired = <<>>
    /\ pendingFunctors = <<>>

Next ==
    \/ /\ \/ AddTimer
          \/ Cancel
          \/ Tick
          \/ HandleRead
          \/ RunExpiredTimer
          \/ ResetExpired
       /\ UNCHANGED pendingFunctors
    \/ ForeignAddTimer
    \/ ForeignCancel
    \/ RunTimerFunctor

(***************************************************************************)
(* The loop thread keeps running: an armed timerfd whose deadline has     *)
(* passed is readable and the level-triggered poll reports it, an expired  *)
(* batch is run to its end and reset, and doPendingFunctors runs after     *)
(* every poll.  handleRead's phases exclude one another, so one fairness   *)
(* condition covers them.  Time passing and calls from other threads are   *)
(* not fair.                                                                *)
(***************************************************************************)
TimerfdStep ==
    /\ HandleRead \/ RunExpiredTimer \/ ResetExpired
    /\ UNCHANGED pendingFunctors

Fairness == WF_vars(TimerfdStep) /\ WF_vars(RunTimerFunctor)

Spec == Init /\ [][Next]_vars /\ Fairness

-----------------------------------------------------------------------------
LiveAddrs == {a \in Addrs : timerObj[a] # NoTimer}

PendingSeqs == {TimerSeq(e[2]) : e \in timers}

(***************************************************************************)
(* Types; every entry of timers_ points at a live Timer (no dangling      *)
(* Timer* is left behind by a delete).                                     *)
(***************************************************************************)
TypeOK ==
    /\ timers \subseteq (Nat \X LiveAddrs)
    /\ activeTimers \subseteq (Addrs \X (1..MaxTimers))
    /\ timerObj \in [Addrs -> [seq : 0..MaxTimers, expiration : Nat,
                               interval : Intervals]]
    /\ callingExpiredTimers \in BOOLEAN
    /\ cancelingTimers \subseteq (Addrs \X (1..MaxTimers))
    /\ expired \in Seq(Nat \X Addrs)
    /\ nextExpired \in 1..(Len(expired) + 1)
    /\ now \in 0..MaxTime
    /\ deadline \in {NoDeadline} \cup Nat
    /\ numCreated \in 0..MaxTimers
    /\ pendingFunctors \in Seq([op : {"add", "cancel"}, id : Addrs \X (1..MaxTimers)])

(***************************************************************************)
(* timers_ and activeTimers_ index the same live timers, each exactly     *)
(* once and under its current expiration, after every operation:          *)
(* cancelInLoop, getExpired, reset and callbacks that add or cancel.      *)
(***************************************************************************)
IndexesAgree ==
    /\ activeTimers = {<<e[2], TimerSeq(e[2])>> : e \in timers}
    /\ Cardinality(activeTimers) = Cardinality(timers)
    /\ \A e \in timers : e[1] = timerObj[e[2]].expiration

(***************************************************************************)
(* No timer is missed: outside handleRead, if any timer is pending the    *)
(* timerfd is armed, and for no later than the earliest expiration (or    *)
(* now, when that expiration was already past at arming time).             *)
(***************************************************************************)
TimerfdArmedForEarliest ==
    (~callingExpiredTimers /\ timers # {})
        => /\ deadline # NoDeadline
           /\ deadline <= IF Earliest > now THEN Earliest ELSE now

(***************************************************************************)
(* A cancelled timer is never re-armed: outside handleRead no pending     *)
(* timer carries a sequence that was passed to cancel(), including the    *)
(* repeating timer that cancelled itself from its own callback, and a      *)
(* timer cancelled from another thread right after addTimer() returned,    *)
(* whose cancelInLoop must not run before its addTimerInLoop.              *)
(***************************************************************************)
CancelledTimerNotPending ==
    ~callingExpiredTimers => PendingSeqs \cap cancelled = {}

(***************************************************************************)
(* A timer disappears only by firing or by its own cancel(): a timer that *)
(* was never cancelled is pending, waiting in the expired batch, queued   *)
(* for insertion by a foreign addTimer(), or has fired, even when a stale  *)
(* TimerId names its reused address.                                       *)
(***************************************************************************)
NoTimerLostWithoutCancel ==
    \A s \in (1..numCreated) \ cancelled :
        \/ s \in PendingSeqs
        \/ s \in {TimerSeq(expired[i][2]) : i \in nextExpired..Len(expired)}
        \/ s \in ToSet(fired)
        \/ s \in {id[2] : id \in QueuedAdds}

(***************************************************************************)
(* The spec's firing order: timers due at the same expiration fire in the *)
(* order of their sequence numbers (insertion order).  timers_ orders     *)
(* equal expirations by Timer* address instead.                             *)
(***************************************************************************)
EqualExpirationsFireInSequenceOrder ==
    \A i, j \in 1..Len(expired) :
        (i < j /\ expired[i][1] = expired[j][1])
            => TimerSeq(expired[i][2]) < TimerSeq(expired[j][2])

(***************************************************************************)
(* A timer whose cancel() has returned does not fire afterwards.  A timer *)
(* cancelled by an earlier callback of the same expired batch still runs: *)
(* it is only put in cancelingTimers_.                                      *)
(***************************************************************************)
NoFiringAfterCancel ==
    [][RunExpiredTimer => TimerSeq(expired[nextExpired][2]) \notin cancelled]_vars


(***************************************************************************)
(* Due timers run: whenever timers_ holds a timer whose expiration has    *)
(* been reached, a state follows in which it holds none (DuePending ~>   *)
(* ~DuePending, written []<>~DuePending), each taken by                   *)
(* getExpired() (the sentry <now, UINTPTR_MAX> takes every entry at now)   *)
(* or removed by a cancel, even when no more time passes.                  *)
(***************************************************************************)
DuePending == \E e \in timers : e[1] <= now

DueTimerEventuallyRuns == []<>~DuePending

=============================================================================

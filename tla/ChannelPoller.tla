---------------------------- MODULE ChannelPoller ----------------------------
(***************************************************************************)
(* The registration protocol between Channel (src/muduo/net/Channel.h,    *)
(* Channel.cc), EventLoop::updateChannel/removeChannel and EPollPoller     *)
(* (src/muduo/net/poller/EPollPoller.cc), all on one loop thread, together *)
(* with the kernel's epoll interest table it drives.                       *)
(*                                                                         *)
(* Each Channel is a model value.  Its interest events_ is a subset of     *)
(* {"IN", "OUT"} (kReadEvent = POLLIN|POLLPRI is "IN", kWriteEvent is      *)
(* "OUT").  Readiness in the kernel is a subset of KernelEvents; epoll     *)
(* reports EPOLLHUP and EPOLLERR whatever the registered mask, so "HUP"   *)
(* stands for both.                                                        *)
(***************************************************************************)
EXTENDS Naturals, Sequences, SequencesExt, FiniteSets

CONSTANTS
    Chans,              \* the channels (one fd each)
    InitEventListSize,  \* kInitEventListSize, the initial size of events_
    MaxEventListSize    \* bound on events_.size() for the type invariant

Interest == {"IN", "OUT"}
KernelEvents == {"IN", "OUT", "HUP"}

\* Channel::index_ values (EPollPoller.cc).
kNew == -1
kAdded == 1
kDeleted == 2

VARIABLES
    events,      \* Channel::events_
    index,       \* Channel::index_
    channels,    \* the keys of EPollPoller::channels_
    inEpoll,     \* fds present in the kernel's epoll interest table
    kMask,       \* the event mask the kernel holds for each fd
    ready,       \* kernel readiness of each fd
    lpc,         \* "poll": in or between polls; "handle": dispatching
    active,      \* EventLoop::activeChannels_, each with its revents_
    eventsSize,  \* EPollPoller::events_.size()
    ctlFailed    \* an epoll_ctl() call has failed

vars == <<events, index, channels, inEpoll, kMask, ready, lpc, active,
          eventsSize, ctlFailed>>

\* What epoll_wait reports for a registered fd.
Reported(c) == ready[c] \cap (kMask[c] \cup {"HUP"})

(***************************************************************************)
(* EPollPoller::update(): epoll_ctl(op, fd, {events_, channel}).  ADD      *)
(* fails (EEXIST) for a registered fd, MOD and DEL fail (ENOENT) for an    *)
(* unregistered one; ADD/MOD failures are fatal and a DEL failure is       *)
(* logged, so a failure is recorded and the kernel table left as it was.   *)
(***************************************************************************)
EpollCtl(op, c, mask) ==
    IF (op = "ADD") = (c \in inEpoll)
    THEN /\ ctlFailed' = TRUE
         /\ UNCHANGED <<inEpoll, kMask>>
    ELSE /\ UNCHANGED ctlFailed
         /\ inEpoll' = IF op = "ADD" THEN inEpoll \cup {c}
                       ELSE IF op = "DEL" THEN inEpoll \ {c}
                       ELSE inEpoll
         /\ kMask' = [kMask EXCEPT ![c] = IF op = "DEL" THEN {} ELSE mask]

(***************************************************************************)
(* EPollPoller::updateChannel(), reached from Channel::update() through   *)
(* EventLoop::updateChannel(), with the channel's new events_ 'ev'.  A    *)
(* channel not in the epoll tree (kNew, kDeleted) is added to channels_   *)
(* if new and ADDed with whatever mask it has; an added channel is DELeted *)
(* (index kDeleted) when its mask is empty, MODified otherwise.            *)
(***************************************************************************)
UpdateChannelNoDeletedIndex(c, ev) ==
    \* faulty variant: set_index(kDeleted) omitted after EPOLL_CTL_DEL
    \/ /\ index[c] \in {kNew, kDeleted}
       /\ channels' = channels \cup {c}
       /\ index' = [index EXCEPT ![c] = kAdded]
       /\ EpollCtl("ADD", c, ev)
    \/ /\ index[c] = kAdded
       /\ ev = {}
       /\ EpollCtl("DEL", c, ev)
       /\ UNCHANGED <<channels, index>>
    \/ /\ index[c] = kAdded
       /\ ev # {}
       /\ EpollCtl("MOD", c, ev)
       /\ UNCHANGED <<channels, index>>

UpdateChannel(c, ev) ==
    \/ /\ index[c] \in {kNew, kDeleted}
       /\ channels' = channels \cup {c}
       /\ index' = [index EXCEPT ![c] = kAdded]
       /\ EpollCtl("ADD", c, ev)
    \/ /\ index[c] = kAdded
       /\ ev = {}
       /\ EpollCtl("DEL", c, ev)
       /\ index' = [index EXCEPT ![c] = kDeleted]
       /\ UNCHANGED channels
    \/ /\ index[c] = kAdded
       /\ ev # {}
       /\ EpollCtl("MOD", c, ev)
       /\ UNCHANGED <<channels, index>>

\* Channel::enableReading/enableWriting/disableWriting/disableAll: set
\* events_ and call update().
SetEvents(c, ev) ==
    /\ events' = [events EXCEPT ![c] = ev]
    /\ UpdateChannel(c, ev)
    /\ UNCHANGED <<ready, lpc, active, eventsSize>>

EnableReading(c) == SetEvents(c, events[c] \cup {"IN"})
EnableWriting(c) == SetEvents(c, events[c] \cup {"OUT"})
DisableWriting(c) == SetEvents(c, events[c] \ {"OUT"})
DisableAll(c) == SetEvents(c, {})

(***************************************************************************)
(* Channel::remove() -> EventLoop::removeChannel() ->                      *)
(* EPollPoller::removeChannel(): the caller has cleared the mask (asserted *)
(* by Channel::remove); the fd is erased from channels_, DELeted from the *)
(* epoll tree if it is still there (kAdded), and the index becomes kNew.  *)
(* Owners remove channels from queued functors (connectDestroyed) or      *)
(* destructors, never from inside a dispatch pass, so lpc is "poll".      *)
(***************************************************************************)
RemoveChannelAlwaysDel(c) ==
    \* faulty variant: EPOLL_CTL_DEL issued whatever the index
    /\ lpc = "poll"
    /\ events[c] = {}
    /\ channels' = channels \ {c}
    /\ EpollCtl("DEL", c, {})
    /\ index' = [index EXCEPT ![c] = kNew]
    /\ UNCHANGED <<events, ready, lpc, active, eventsSize>>

RemoveChannel(c) ==
    /\ lpc = "poll"
    /\ events[c] = {}
    /\ channels' = channels \ {c}
    /\ IF index[c] = kAdded THEN EpollCtl("DEL", c, {})
                            ELSE UNCHANGED <<inEpoll, kMask, ctlFailed>>
    /\ index' = [index EXCEPT ![c] = kNew]
    /\ UNCHANGED <<events, ready, lpc, active, eventsSize>>

\* The peer or the kernel changes an fd's readiness.
Readiness(c) ==
    /\ \E s \in SUBSET KernelEvents : ready' = [ready EXCEPT ![c] = s]
    /\ UNCHANGED <<events, index, channels, inEpoll, kMask, lpc, active,
                   eventsSize, ctlFailed>>

(***************************************************************************)
(* EPollPoller::poll(): epoll_wait() fills at most events_.size() entries *)
(* from the ready list, in an order the kernel chooses;                    *)
(* fillActiveChannels() copies each into activeChannels_ with its revents; *)
(* a full events_ is doubled.  No event at all is the timeout.             *)
(***************************************************************************)
PollResizeAlways ==
    \* faulty variant: events_ doubled after every non-empty poll
    /\ lpc = "poll"
    /\ LET due == {c \in inEpoll : Reported(c) # {}}
           n == IF Cardinality(due) < eventsSize THEN Cardinality(due)
                                                 ELSE eventsSize
       IN  /\ n > 0
           /\ \E s \in SetToSeqs(due) :
                 active' = [i \in 1..n |-> [chan |-> s[i],
                                            revents |-> Reported(s[i])]]
           /\ eventsSize' = 2 * eventsSize
    /\ lpc' = "handle"
    /\ UNCHANGED <<events, index, channels, inEpoll, kMask, ready, ctlFailed>>

Poll ==
    /\ lpc = "poll"
    /\ LET due == {c \in inEpoll : Reported(c) # {}}
           n == IF Cardinality(due) < eventsSize THEN Cardinality(due)
                                                 ELSE eventsSize
       IN  /\ n > 0
           /\ \E s \in SetToSeqs(due) :
                 active' = [i \in 1..n |-> [chan |-> s[i],
                                            revents |-> Reported(s[i])]]
           /\ eventsSize' = IF n = eventsSize THEN 2 * eventsSize
                                              ELSE eventsSize
    /\ lpc' = "handle"
    /\ UNCHANGED <<events, index, channels, inEpoll, kMask, ready, ctlFailed>>

PollTimeout ==
    /\ lpc = "poll"
    /\ \A c \in inEpoll : Reported(c) = {}
    /\ UNCHANGED vars

(***************************************************************************)
(* EventLoop::loop() hands the next active channel to                     *)
(* Channel::handleEvent(); the callbacks it runs are the owner's           *)
(* operations, interleaved here as the channel operations above.           *)
(***************************************************************************)
HandleEvent ==
    /\ lpc = "handle"
    /\ active # <<>>
    /\ active' = Tail(active)
    /\ UNCHANGED <<events, index, channels, inEpoll, kMask, ready, lpc,
                   eventsSize, ctlFailed>>

\* The dispatch pass is over (doPendingFunctors follows).
EndHandling ==
    /\ lpc = "handle"
    /\ active = <<>>
    /\ lpc' = "poll"
    /\ UNCHANGED <<events, index, channels, inEpoll, kMask, ready, active,
                   eventsSize, ctlFailed>>

-----------------------------------------------------------------------------
(***************************************************************************)
(* Channel::handleEventWithGuard(): the callbacks one revents_ value      *)
(* fires, in the order they run.  Flags are the poll(2) bits the code     *)
(* tests; "nval" alone is only logged.                                     *)
(***************************************************************************)
PollFlags == {"IN", "PRI", "RDHUP", "OUT", "ERR", "HUP", "NVAL"}

DispatchHupIgnoresIn(rev) ==
    \* faulty variant: close on POLLHUP whether or not POLLIN is set
    (IF "HUP" \in rev THEN <<"close">> ELSE <<>>)
    \o (IF rev \cap {"ERR", "NVAL"} # {} THEN <<"error">> ELSE <<>>)
    \o (IF rev \cap {"IN", "PRI", "RDHUP"} # {} THEN <<"read">> ELSE <<>>)
    \o (IF "OUT" \in rev THEN <<"write">> ELSE <<>>)

Dispatch(rev) ==
    (IF "HUP" \in rev /\ "IN" \notin rev THEN <<"close">> ELSE <<>>)
    \o (IF rev \cap {"ERR", "NVAL"} # {} THEN <<"error">> ELSE <<>>)
    \o (IF rev \cap {"IN", "PRI", "RDHUP"} # {} THEN <<"read">> ELSE <<>>)
    \o (IF "OUT" \in rev THEN <<"write">> ELSE <<>>)

(***************************************************************************)
(* Channel::handleEvent(): a tied channel dispatches only if its owner    *)
(* (the TcpConnection behind tie_) can still be locked.                    *)
(***************************************************************************)
HandleEventCalls(tied, ownerAlive, rev) ==
    IF tied /\ ~ownerAlive THEN <<>> ELSE Dispatch(rev)

Init ==
    /\ events = [c \in Chans |-> {}]
    /\ index = [c \in Chans |-> kNew]
    /\ channels = {}
    /\ inEpoll = {}
    /\ kMask = [c \in Chans |-> {}]
    /\ ready = [c \in Chans |-> {}]
    /\ lpc = "poll"
    /\ active = <<>>
    /\ eventsSize = InitEventListSize
    /\ ctlFailed = FALSE

Next ==
    \/ \E c \in Chans :
          \/ EnableReading(c)
          \/ EnableWriting(c)
          \/ DisableWriting(c)
          \/ DisableAll(c)
          \/ RemoveChannel(c)
          \/ Readiness(c)
    \/ Poll
    \/ PollTimeout
    \/ HandleEvent
    \/ EndHandling

Spec == Init /\ [][Next]_vars

-----------------------------------------------------------------------------
EventListSizes ==
    {InitEventListSize * (2 ^ k) : k \in 0..Cardinality(Chans)}

(***************************************************************************)
(* Types; events_ only grows by doubling when a poll filled it, so it     *)
(* stays within a doubling of the number of channels.                     *)
(***************************************************************************)
TypeOK ==
    /\ events \in [Chans -> SUBSET Interest]
    /\ index \in [Chans -> {kNew, kAdded, kDeleted}]
    /\ channels \subseteq Chans
    /\ inEpoll \subseteq Chans
    /\ kMask \in [Chans -> SUBSET Interest]
    /\ ready \in [Chans -> SUBSET KernelEvents]
    /\ lpc \in {"poll", "handle"}
    /\ eventsSize \in EventListSizes
    /\ eventsSize <= MaxEventListSize
    /\ ctlFailed \in BOOLEAN

(***************************************************************************)
(* The poller's three records of a channel agree after every sequence of  *)
(* enable/disable/remove calls: index kAdded exactly when the fd is in   *)
(* the epoll tree, with the channel's current mask; index kNew exactly    *)
(* when the fd is not in channels_.                                        *)
(***************************************************************************)
RegistrationMirrorsIndex ==
    \A c \in Chans :
        /\ (index[c] = kAdded) <=> (c \in inEpoll)
        /\ (index[c] = kNew) <=> (c \notin channels)
        /\ (c \in inEpoll) => (kMask[c] = events[c])

(***************************************************************************)
(* epoll_ctl() never fails: updateChannel and removeChannel never ADD an   *)
(* fd the tree holds, nor MOD or DEL one it does not.                      *)
(***************************************************************************)
EpollCtlNeverFails == ~ctlFailed

(***************************************************************************)
(* The dispatch table of the spec (section 5, Channel): hang-up without   *)
(* readable fires close; invalid descriptor or error fires error;          *)
(* readable, priority or peer half-close fires read; writable fires write; *)
(* in that order, each at most once; an untied channel always dispatches  *)
(* and a tied one whose owner is gone fires nothing.  It holds for the    *)
(* revents_ of every channel waiting in activeChannels_ and for every     *)
(* other revents_ value handleEventWithGuard can be given.                 *)
(***************************************************************************)
SpecFires(cb, rev) ==
    CASE cb = "close" -> "HUP" \in rev /\ "IN" \notin rev
      [] cb = "error" -> "ERR" \in rev \/ "NVAL" \in rev
      [] cb = "read"  -> \E f \in {"IN", "PRI", "RDHUP"} : f \in rev
      [] cb = "write" -> "OUT" \in rev

SpecCalls(tied, alive, rev) ==
    IF tied /\ ~alive THEN <<>>
    ELSE SelectSeq(<<"close", "error", "read", "write">>,
                   LAMBDA cb : SpecFires(cb, rev))

DispatchAgrees(rev) ==
    \A tied, alive \in BOOLEAN :
        HandleEventCalls(tied, alive, rev) = SpecCalls(tied, alive, rev)

\* The whole table: a constant, which TLC evaluates once.
DispatchTableAgrees == \A rev \in SUBSET PollFlags : DispatchAgrees(rev)

DispatchFollowsSpec ==
    /\ DispatchTableAgrees
    /\ \A e \in ToSet(active) : DispatchAgrees(e.revents)

=============================================================================

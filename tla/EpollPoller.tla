---------------------------- MODULE EpollPoller ----------------------------
(***************************************************************************)
(* net/poller/EpollPoller.cc with the registration half of net/Channel: the*)
(* state a Channel keeps about itself (fd_, events_, index_), the map      *)
(* channels_ of the poller, and the kernel's epoll set, which holds raw    *)
(* Channel pointers.  The operators take and return the whole poller state *)
(* p, so that a handler of another module can make several calls in a row. *)
(***************************************************************************)
EXTENDS Integers

CONSTANTS
    Chan,     \* Channel objects (addresses, reused once freed)
    Fd,       \* file descriptors (numbers, reused once closed)
    NoChan,   \* the null pointer
    NoFd      \* the fd of an object that does not exist

ASSUME PollerAssumption ==
    /\ NoChan \notin Chan
    /\ NoFd \notin Fd

kNew     == -1
kAdded   == 1
kDeleted == 2

Interest == {"IN", "OUT"}   \* the event masks a channel can ask for

-----------------------------------------------------------------------------
(* The poller state *)

State(fd_, events_, index_, channels_, ptr, watched, fatal) ==
    [fd_ |-> fd_, events_ |-> events_, index_ |-> index_,
     channels_ |-> channels_,
     ptr |-> ptr,           \* kernel: per fd, the registered event.data.ptr
     watched |-> watched,   \* kernel: per fd, the registered event mask
     fatal |-> fatal]       \* LOG_FAT was reached: the process exits

EmptyPoller ==
    State([c \in Chan |-> NoFd], [c \in Chan |-> {}], [c \in Chan |-> kNew],
          [f \in Fd |-> NoChan], [f \in Fd |-> NoChan], [f \in Fd |-> {}], FALSE)

Live(p, c) == p.fd_[c] # NoFd

FreeFds(p) == {f \in Fd : \A c \in Chan : p.fd_[c] # f}

(* The Channel constructor, on a descriptor the kernel just handed out. *)
Construct(p, c, f) ==
    State([p.fd_ EXCEPT ![c] = f], [p.events_ EXCEPT ![c] = {}],
          [p.index_ EXCEPT ![c] = kNew], p.channels_, p.ptr, p.watched, p.fatal)

(* Channel and Socket destructors: the descriptor is closed, which also     *)
(* takes it out of the kernel's epoll set; channels_ is not touched.        *)
Destroy(p, c) ==
    State([p.fd_ EXCEPT ![c] = NoFd], p.events_, p.index_, p.channels_,
          [p.ptr EXCEPT ![p.fd_[c]] = NoChan],
          [p.watched EXCEPT ![p.fd_[c]] = {}], p.fatal)

(* EpollPoller::update: epoll_ctl with the channel's current mask.  ADD of  *)
(* a registered fd and MOD of an unregistered one fail and are fatal; a DEL *)
(* that fails is only logged.                                               *)
CtlAdd(p, c) ==
    LET f == p.fd_[c]
    IN State(p.fd_, p.events_, p.index_, p.channels_,
             [p.ptr EXCEPT ![f] = c], [p.watched EXCEPT ![f] = p.events_[c]],
             p.fatal \/ p.ptr[f] # NoChan)

CtlMod(p, c) ==
    LET f == p.fd_[c]
    IN State(p.fd_, p.events_, p.index_, p.channels_,
             [p.ptr EXCEPT ![f] = c], [p.watched EXCEPT ![f] = p.events_[c]],
             p.fatal \/ p.ptr[f] = NoChan)

CtlDel(p, c) ==
    LET f == p.fd_[c]
    IN State(p.fd_, p.events_, p.index_, p.channels_,
             [p.ptr EXCEPT ![f] = NoChan], [p.watched EXCEPT ![f] = {}], p.fatal)

SetIndex(p, c, i) ==
    State(p.fd_, p.events_, [p.index_ EXCEPT ![c] = i], p.channels_, p.ptr,
          p.watched, p.fatal)

SetEvents(p, c, ev) ==
    State(p.fd_, [p.events_ EXCEPT ![c] = ev], p.index_, p.channels_, p.ptr,
          p.watched, p.fatal)

SetMap(p, f, c) ==
    State(p.fd_, p.events_, p.index_, [p.channels_ EXCEPT ![f] = c], p.ptr,
          p.watched, p.fatal)

(* Forgets set_index(kDeleted) after the EPOLL_CTL_DEL. *)
UpdateChannelIndexMutant(p, c) ==
    IF p.index_[c] = kNew
    THEN CtlAdd(SetIndex(SetMap(p, p.fd_[c], c), c, kAdded), c)
    ELSE IF p.index_[c] = kDeleted THEN CtlAdd(SetIndex(p, c, kAdded), c)
    ELSE IF p.events_[c] = {} THEN CtlDel(p, c)
    ELSE CtlMod(p, c)

(* Does not hand an unchanged-looking mask on to the kernel. *)
UpdateChannelModMutant(p, c) ==
    IF p.index_[c] = kNew
    THEN CtlAdd(SetIndex(SetMap(p, p.fd_[c], c), c, kAdded), c)
    ELSE IF p.index_[c] = kDeleted THEN CtlAdd(SetIndex(p, c, kAdded), c)
    ELSE IF p.events_[c] = {} THEN SetIndex(CtlDel(p, c), c, kDeleted)
    ELSE p

UpdateChannel(p, c) ==
    IF p.index_[c] = kNew
    THEN CtlAdd(SetIndex(SetMap(p, p.fd_[c], c), c, kAdded), c)
    ELSE IF p.index_[c] = kDeleted THEN CtlAdd(SetIndex(p, c, kAdded), c)
    ELSE IF p.events_[c] = {} THEN SetIndex(CtlDel(p, c), c, kDeleted)
    ELSE CtlMod(p, c)

(* Leaves the map entry behind. *)
RemoveChannelMapMutant(p, c) ==
    IF p.index_[c] = kAdded THEN SetIndex(CtlDel(p, c), c, kNew)
    ELSE SetIndex(p, c, kNew)

(* Resets index_ to 0, which is none of the three states. *)
RemoveChannelIndexMutant(p, c) ==
    LET q == SetMap(p, p.fd_[c], NoChan)
    IN IF p.index_[c] = kAdded THEN SetIndex(CtlDel(q, c), c, 0)
       ELSE SetIndex(q, c, 0)

RemoveChannel(p, c) ==
    LET q == SetMap(p, p.fd_[c], NoChan)
    IN IF p.index_[c] = kAdded THEN SetIndex(CtlDel(q, c), c, kNew)
       ELSE SetIndex(q, c, kNew)

HasChannel(p, c) == p.channels_[p.fd_[c]] = c

IsWriting(p, c) == "OUT" \in p.events_[c]

(* Channel::enableReading and its siblings: the mask, then update(). *)
EnableReading(p, c)  == UpdateChannel(SetEvents(p, c, p.events_[c] \cup {"IN"}), c)
DisableReading(p, c) == UpdateChannel(SetEvents(p, c, p.events_[c] \ {"IN"}), c)
EnableWriting(p, c)  == UpdateChannel(SetEvents(p, c, p.events_[c] \cup {"OUT"}), c)
DisableWriting(p, c) == UpdateChannel(SetEvents(p, c, p.events_[c] \ {"OUT"}), c)
DisableAll(p, c)     == UpdateChannel(SetEvents(p, c, {}), c)

-----------------------------------------------------------------------------
(* A poller whose channels are driven by arbitrary owners *)

VARIABLE poller

NewChannel(c) ==
    /\ ~Live(poller, c)
    /\ \E f \in FreeFds(poller) : poller' = Construct(poller, c, f)

(* Owners change what they are interested in from callbacks and functors. *)
Update(c) ==
    /\ Live(poller, c)
    /\ \/ poller' = EnableReading(poller, c)
       \/ poller' = DisableReading(poller, c)
       \/ poller' = EnableWriting(poller, c)
       \/ poller' = DisableWriting(poller, c)
       \/ poller' = DisableAll(poller, c)

Remove(c) ==
    /\ Live(poller, c)
    /\ poller' = RemoveChannel(poller, c)

(* Every owner in the library removes its channel before it destroys it     *)
(* (connectDestroyed, and the destructors of Acceptor, TimerQueue and       *)
(* EventLoop).                                                              *)
DestroyChannel(c) ==
    /\ Live(poller, c) /\ poller.index_[c] = kNew
    /\ poller' = Destroy(poller, c)

Init == poller = EmptyPoller

Next ==
    \E c \in Chan : NewChannel(c) \/ Update(c) \/ Remove(c) \/ DestroyChannel(c)

Spec == Init /\ [][Next]_poller

-----------------------------------------------------------------------------
(* Properties *)

(* Type invariant. *)
TypeOK ==
    /\ poller.fd_ \in [Chan -> Fd \cup {NoFd}]
    /\ poller.events_ \in [Chan -> SUBSET Interest]
    /\ poller.index_ \in [Chan -> {kNew, kAdded, kDeleted}]
    /\ poller.channels_ \in [Fd -> Chan \cup {NoChan}]
    /\ poller.ptr \in [Fd -> Chan \cup {NoChan}]
    /\ poller.watched \in [Fd -> SUBSET Interest]
    /\ poller.fatal \in BOOLEAN

(* index_ tells the truth: a channel believes it is registered exactly when *)
(* the kernel holds its pointer under its fd, and then with the mask it has *)
(* asked for last.  updateChannel and removeChannel choose the epoll_ctl    *)
(* operation from index_ alone.                                             *)
KernelAgrees ==
    \A c \in Chan : Live(poller, c) =>
        /\ poller.index_[c] = kAdded <=> poller.ptr[poller.fd_[c]] = c
        /\ poller.index_[c] = kAdded =>
              poller.watched[poller.fd_[c]] = poller.events_[c]

(* No sequence of enable, disable, remove, destroy and descriptor reuse     *)
(* makes epoll_ctl ADD or MOD fail, which would end the process (LOG_FAT).  *)
NeverFatal == ~poller.fatal

(* The raw pointers in the kernel and in channels_ always point to a live   *)
(* channel that owns that descriptor: none survives its channel, even when  *)
(* the descriptor is reused.                                                *)
NoDanglingChannel ==
    \A f \in Fd :
        /\ poller.ptr[f] # NoChan => poller.fd_[poller.ptr[f]] = f
        /\ poller.channels_[f] # NoChan => poller.fd_[poller.channels_[f]] = f

(* hasChannel answers TRUE exactly for the channels that were handed to     *)
(* updateChannel and not removed since.                                     *)
MapAgrees ==
    \A c \in Chan : Live(poller, c) =>
        (poller.index_[c] # kNew <=> HasChannel(poller, c))
=============================================================================

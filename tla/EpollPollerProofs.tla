------------------------- MODULE EpollPollerProofs -------------------------
(***************************************************************************)
(* Proofs about EpollPoller for any sets of channels and descriptors: what *)
(* channels believe, what the poller's map holds and what the kernel holds *)
(* agree, no epoll_ctl is fatal, and no raw pointer dangles.               *)
(***************************************************************************)
EXTENDS EpollPoller, TLAPS

(* The type invariant as a predicate on a poller state. *)
IsPoller(p) ==
    /\ p.fd_ \in [Chan -> Fd \cup {NoFd}]
    /\ p.events_ \in [Chan -> SUBSET Interest]
    /\ p.index_ \in [Chan -> {kNew, kAdded, kDeleted}]
    /\ p.channels_ \in [Fd -> Chan \cup {NoChan}]
    /\ p.ptr \in [Fd -> Chan \cup {NoChan}]
    /\ p.watched \in [Fd -> SUBSET Interest]
    /\ p.fatal \in BOOLEAN

(* No two live channels own the same descriptor. *)
OwnFd(p) ==
    \A c, d \in Chan : p.fd_[c] = p.fd_[d] /\ p.fd_[c] # NoFd => c = d

(* Pointers in the kernel and in the map lead to the owner of the fd. *)
Pointers(p) ==
    \A f \in Fd :
        /\ p.ptr[f] # NoChan => p.fd_[p.ptr[f]] = f
        /\ p.channels_[f] # NoChan => p.fd_[p.channels_[f]] = f

(* index_ agrees with the kernel and with the map. *)
Index(p) ==
    \A c \in Chan : p.fd_[c] # NoFd =>
        /\ p.index_[c] = kAdded <=> p.ptr[p.fd_[c]] = c
        /\ p.index_[c] = kAdded => p.watched[p.fd_[c]] = p.events_[c]
        /\ p.index_[c] # kNew <=> p.channels_[p.fd_[c]] = c

Good(p) == IsPoller(p) /\ OwnFd(p) /\ Pointers(p) /\ Index(p) /\ ~p.fatal

USE PollerAssumption DEF kNew, kAdded, kDeleted

(* The empty poller is well formed. *)
LEMMA EmptyGood == Good(EmptyPoller)
BY DEF Good, IsPoller, OwnFd, Pointers, Index, EmptyPoller, State

(* Constructing a channel on a free descriptor keeps the state well formed. *)
LEMMA ConstructGood ==
    ASSUME NEW p, Good(p), NEW c \in Chan, ~Live(p, c), NEW f \in FreeFds(p)
    PROVE  Good(Construct(p, c, f))
<1> DEFINE q == Construct(p, c, f)
<1>1. /\ q.fd_ = [p.fd_ EXCEPT ![c] = f] /\ q.events_ = [p.events_ EXCEPT ![c] = {}]
      /\ q.index_ = [p.index_ EXCEPT ![c] = kNew] /\ q.channels_ = p.channels_
      /\ q.ptr = p.ptr /\ q.watched = p.watched /\ q.fatal = p.fatal
  BY DEF Construct, State
<1>2. /\ f \in Fd /\ f # NoFd /\ p.fd_[c] = NoFd
      /\ \A d \in Chan : p.fd_[d] # f
  BY DEF FreeFds, Live
<1>3. p.ptr[f] = NoChan /\ p.channels_[f] = NoChan
  BY <1>2 DEF Good, IsPoller, Pointers
<1> HIDE DEF q
<1>4. IsPoller(q) /\ ~q.fatal
  BY <1>1, <1>2 DEF Good, IsPoller
<1>5. OwnFd(q)
  BY <1>1, <1>2 DEF Good, IsPoller, OwnFd
<1>6. Pointers(q)
  BY <1>1, <1>2, <1>3 DEF Good, IsPoller, Pointers
<1>7. Index(q)
  BY <1>1, <1>2, <1>3 DEF Good, IsPoller, Index
<1> QED
  BY <1>4, <1>5, <1>6, <1>7 DEF Good, q

(* Setting a mask and updating keeps the state well formed, whatever the    *)
(* channel's index and whatever the mask.                                   *)
LEMMA UpdateGood ==
    ASSUME NEW p, Good(p), NEW c \in Chan, Live(p, c), NEW ev \in SUBSET Interest
    PROVE  Good(UpdateChannel(SetEvents(p, c, ev), c))
<1> DEFINE q == UpdateChannel(SetEvents(p, c, ev), c)
           f == p.fd_[c]
<1>0. f \in Fd /\ f # NoFd
  BY DEF Good, IsPoller, Live
<1>1. CASE p.index_[c] \in {kNew, kDeleted}
  <2>1. /\ q.fd_ = p.fd_ /\ q.events_ = [p.events_ EXCEPT ![c] = ev]
        /\ q.index_ = [p.index_ EXCEPT ![c] = kAdded]
        /\ q.channels_ = IF p.index_[c] = kNew THEN [p.channels_ EXCEPT ![f] = c]
                         ELSE p.channels_
        /\ q.ptr = [p.ptr EXCEPT ![f] = c] /\ q.watched = [p.watched EXCEPT ![f] = ev]
        /\ q.fatal = (p.fatal \/ p.ptr[f] # NoChan)
    <3>1. [p.events_ EXCEPT ![c] = ev][c] = ev
      BY DEF Good, IsPoller
    <3> QED
      BY <1>1, <3>1, ZenonT(60) DEF UpdateChannel, CtlAdd, SetIndex, SetMap, SetEvents, State
  <2>2. p.ptr[f] = NoChan
    BY <1>0, <1>1 DEF Good, IsPoller, OwnFd, Pointers, Index
  <2> HIDE DEF q
  <2>3. IsPoller(q) /\ ~q.fatal
    BY <1>0, <2>1, <2>2 DEF Good, IsPoller
  <2>4. OwnFd(q)
    BY <2>1 DEF Good, OwnFd
  <2>5. Pointers(q)
    BY <1>0, <2>1 DEF Good, IsPoller, Pointers
  <2>6. Index(q)
    BY <1>0, <1>1, <2>1 DEF Good, IsPoller, OwnFd, Index
  <2> QED
    BY <2>3, <2>4, <2>5, <2>6 DEF Good, q
<1>2. CASE p.index_[c] = kAdded /\ ev = {}
  <2>1. /\ q.fd_ = p.fd_ /\ q.events_ = [p.events_ EXCEPT ![c] = ev]
        /\ q.index_ = [p.index_ EXCEPT ![c] = kDeleted]
        /\ q.channels_ = p.channels_
        /\ q.ptr = [p.ptr EXCEPT ![f] = NoChan] /\ q.watched = [p.watched EXCEPT ![f] = {}]
        /\ q.fatal = p.fatal
    <3>1. [p.events_ EXCEPT ![c] = ev][c] = ev
      BY DEF Good, IsPoller
    <3>2. /\ SetEvents(p, c, ev).index_[c] = kAdded
          /\ SetEvents(p, c, ev).events_[c] = {}
      BY <1>2, <3>1 DEF SetEvents, State
    <3>3. q = SetIndex(CtlDel(SetEvents(p, c, ev), c), c, kDeleted)
      BY <3>2 DEF UpdateChannel
    <3> HIDE DEF q
    <3> QED
      BY <3>3 DEF CtlDel, SetIndex, SetEvents, State
  <2> HIDE DEF q
  <2>3. IsPoller(q) /\ ~q.fatal
    BY <1>0, <2>1 DEF Good, IsPoller
  <2>4. OwnFd(q)
    BY <2>1 DEF Good, OwnFd
  <2>5. Pointers(q)
    BY <1>0, <2>1 DEF Good, IsPoller, Pointers
  <2>6. Index(q)
    BY <1>0, <1>2, <2>1 DEF Good, IsPoller, OwnFd, Index
  <2> QED
    BY <2>3, <2>4, <2>5, <2>6 DEF Good, q
<1>3. CASE p.index_[c] = kAdded /\ ev # {}
  <2>1. /\ q.fd_ = p.fd_ /\ q.events_ = [p.events_ EXCEPT ![c] = ev]
        /\ q.index_ = p.index_ /\ q.channels_ = p.channels_
        /\ q.ptr = [p.ptr EXCEPT ![f] = c] /\ q.watched = [p.watched EXCEPT ![f] = ev]
        /\ q.fatal = (p.fatal \/ p.ptr[f] = NoChan)
    <3>1. [p.events_ EXCEPT ![c] = ev][c] = ev
      BY DEF Good, IsPoller
    <3> QED
      BY <1>3, <3>1 DEF UpdateChannel, CtlMod, SetEvents, State
  <2>2. p.ptr[f] # NoChan
    BY <1>0, <1>3 DEF Good, Index
  <2> HIDE DEF q
  <2>3. IsPoller(q) /\ ~q.fatal
    BY <1>0, <2>1, <2>2 DEF Good, IsPoller
  <2>4. OwnFd(q)
    BY <2>1 DEF Good, OwnFd
  <2>5. Pointers(q)
    BY <1>0, <2>1 DEF Good, IsPoller, Pointers
  <2>6. Index(q)
    BY <1>0, <1>3, <2>1 DEF Good, IsPoller, OwnFd, Index
  <2> QED
    BY <2>3, <2>4, <2>5, <2>6 DEF Good, q
<1>4. p.index_[c] \in {kNew, kAdded, kDeleted}
  BY DEF Good, IsPoller
<1> QED
  BY <1>1, <1>2, <1>3, <1>4

(* removeChannel keeps the state well formed and leaves index_ at kNew. *)
LEMMA RemoveGood ==
    ASSUME NEW p, Good(p), NEW c \in Chan, Live(p, c)
    PROVE  Good(RemoveChannel(p, c))
<1> DEFINE q == RemoveChannel(p, c)
           f == p.fd_[c]
<1>0. f \in Fd /\ f # NoFd
  BY DEF Good, IsPoller, Live
<1>1. /\ q.fd_ = p.fd_ /\ q.events_ = p.events_
      /\ q.index_ = [p.index_ EXCEPT ![c] = kNew]
      /\ q.channels_ = [p.channels_ EXCEPT ![f] = NoChan]
      /\ q.fatal = p.fatal
      /\ p.index_[c] = kAdded =>
            /\ q.ptr = [p.ptr EXCEPT ![f] = NoChan]
            /\ q.watched = [p.watched EXCEPT ![f] = {}]
      /\ p.index_[c] # kAdded => q.ptr = p.ptr /\ q.watched = p.watched
  <2>1. CASE p.index_[c] = kAdded
    BY <2>1 DEF RemoveChannel, CtlDel, SetIndex, SetMap, State
  <2>2. CASE p.index_[c] # kAdded
    BY <2>2 DEF RemoveChannel, SetIndex, SetMap, State
  <2> QED
    BY <2>1, <2>2
<1> HIDE DEF q
<1>2. IsPoller(q) /\ ~q.fatal
  BY <1>0, <1>1 DEF Good, IsPoller
<1>3. OwnFd(q)
  BY <1>1 DEF Good, OwnFd
<1>4. Pointers(q)
  BY <1>0, <1>1 DEF Good, IsPoller, Pointers
<1>5. Index(q)
  <2> SUFFICES ASSUME NEW d \in Chan, q.fd_[d] # NoFd
               PROVE  /\ q.index_[d] = kAdded <=> q.ptr[q.fd_[d]] = d
                      /\ q.index_[d] = kAdded => q.watched[q.fd_[d]] = q.events_[d]
                      /\ q.index_[d] # kNew <=> q.channels_[q.fd_[d]] = d
    BY DEF Index
  <2>1. CASE d = c
    BY <1>0, <1>1, <2>1 DEF Good, IsPoller, Index
  <2>2. CASE d # c
    <3>1. q.fd_[d] = p.fd_[d] /\ p.fd_[d] # f /\ p.fd_[d] \in Fd
      BY <1>0, <1>1, <2>2 DEF Good, IsPoller, OwnFd
    <3> QED
      BY <1>0, <1>1, <2>2, <3>1 DEF Good, IsPoller, Index
  <2> QED
    BY <2>1, <2>2
<1> QED
  BY <1>2, <1>3, <1>4, <1>5 DEF Good, q

(* Destroying a removed channel leaves no pointer to it behind. *)
LEMMA DestroyGood ==
    ASSUME NEW p, Good(p), NEW c \in Chan, Live(p, c), p.index_[c] = kNew
    PROVE  Good(Destroy(p, c))
<1> DEFINE q == Destroy(p, c)
           f == p.fd_[c]
<1>0. f \in Fd /\ f # NoFd
  BY DEF Good, IsPoller, Live
<1>1. /\ q.fd_ = [p.fd_ EXCEPT ![c] = NoFd] /\ q.events_ = p.events_
      /\ q.index_ = p.index_ /\ q.channels_ = p.channels_
      /\ q.ptr = [p.ptr EXCEPT ![f] = NoChan]
      /\ q.watched = [p.watched EXCEPT ![f] = {}]
      /\ q.fatal = p.fatal
  BY DEF Destroy, State
<1>2. \A g \in Fd : p.ptr[g] # c /\ p.channels_[g] # c
  BY <1>0 DEF Good, IsPoller, Pointers, Index
<1> HIDE DEF q
<1>3. IsPoller(q) /\ ~q.fatal
  BY <1>0, <1>1 DEF Good, IsPoller
<1>4. OwnFd(q)
  BY <1>0, <1>1 DEF Good, IsPoller, OwnFd
<1>5. Pointers(q)
  BY <1>0, <1>1, <1>2 DEF Good, IsPoller, Pointers
<1>6. Index(q)
  BY <1>0, <1>1, <1>2 DEF Good, IsPoller, OwnFd, Index
<1> QED
  BY <1>3, <1>4, <1>5, <1>6 DEF Good, q

-----------------------------------------------------------------------------
(* Good(poller) is inductive. *)
LEMMA PollerInductive ==
    /\ Init => Good(poller)
    /\ Good(poller) /\ [Next]_poller => Good(poller')
<1>1. Init => Good(poller)
  BY EmptyGood DEF Init
<1>2. ASSUME Good(poller), NEW c \in Chan, NewChannel(c) PROVE Good(poller')
  BY <1>2, ConstructGood DEF NewChannel
<1>3. ASSUME Good(poller), NEW c \in Chan, Update(c) PROVE Good(poller')
  <2>1. poller.events_[c] \in SUBSET Interest
    BY <1>3 DEF Good, IsPoller
  <2>2. PICK ev \in SUBSET Interest :
          poller' = UpdateChannel(SetEvents(poller, c, ev), c)
    BY <1>3, <2>1
    DEF Update, EnableReading, DisableReading, EnableWriting, DisableWriting,
        DisableAll, Interest
  <2> QED
    BY <1>3, <2>2, UpdateGood DEF Update
<1>4. ASSUME Good(poller), NEW c \in Chan, Remove(c) PROVE Good(poller')
  BY <1>4, RemoveGood DEF Remove
<1>5. ASSUME Good(poller), NEW c \in Chan, DestroyChannel(c) PROVE Good(poller')
  BY <1>5, DestroyGood DEF DestroyChannel
<1>6. ASSUME Good(poller), poller' = poller PROVE Good(poller')
  BY <1>6
<1> QED
  BY <1>1, <1>2, <1>3, <1>4, <1>5, <1>6 DEF Next

(* Type correctness of EpollPoller. *)
THEOREM PollerTypeOK == Spec => []TypeOK
<1>1. Good(poller) => TypeOK
  BY DEF Good, IsPoller, TypeOK
<1>2. Good(poller') <=> Good(poller)'
  BY DEF Good, IsPoller, OwnFd, Pointers, Index
<1> QED
  BY <1>1, <1>2, PollerInductive, PTL DEF Spec

(* updateChannel and removeChannel may trust index_: it always agrees with  *)
(* what the kernel holds, mask included.                                    *)
THEOREM PollerKernelAgrees == Spec => []KernelAgrees
<1>1. Good(poller) => KernelAgrees
  BY DEF Good, Index, KernelAgrees, Live
<1>2. Good(poller') <=> Good(poller)'
  BY DEF Good, IsPoller, OwnFd, Pointers, Index
<1> QED
  BY <1>1, <1>2, PollerInductive, PTL DEF Spec

(* No order of enabling, disabling, removing, destroying and descriptor     *)
(* reuse reaches the LOG_FAT of EpollPoller::update.                        *)
THEOREM PollerNeverFatal == Spec => []NeverFatal
<1>1. Good(poller) => NeverFatal
  BY DEF Good, NeverFatal
<1>2. Good(poller') <=> Good(poller)'
  BY DEF Good, IsPoller, OwnFd, Pointers, Index
<1> QED
  BY <1>1, <1>2, PollerInductive, PTL DEF Spec

(* No raw pointer to a destroyed channel stays in the kernel or in the map. *)
THEOREM PollerNoDangling == Spec => []NoDanglingChannel
<1>1. Good(poller) => NoDanglingChannel
  BY DEF Good, Pointers, NoDanglingChannel
<1>2. Good(poller') <=> Good(poller)'
  BY DEF Good, IsPoller, OwnFd, Pointers, Index
<1> QED
  BY <1>1, <1>2, PollerInductive, PTL DEF Spec

(* hasChannel is right about every live channel. *)
THEOREM PollerMapAgrees == Spec => []MapAgrees
<1>1. Good(poller) => MapAgrees
  BY DEF Good, Index, MapAgrees, Live, HasChannel
<1>2. Good(poller') <=> Good(poller)'
  BY DEF Good, IsPoller, OwnFd, Pointers, Index
<1> QED
  BY <1>1, <1>2, PollerInductive, PTL DEF Spec
=============================================================================

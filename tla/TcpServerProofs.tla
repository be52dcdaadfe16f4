-------------------------- MODULE TcpServerProofs --------------------------
(***************************************************************************)
(* Proofs about TcpServer, for every number of connections, descriptors    *)
(* and bytes, and every bound.                                             *)
(*                                                                         *)
(* The properties are about raw pointers (activeChannels_, the kernel's    *)
(* epoll set, the this of shutdownInLoop) to objects that shared_ptrs keep *)
(* alive.  ServerInv is inductive; its heart is LifeInv, which says that a *)
(* connection exists exactly while a reference to it does, and that        *)
(* connectDestroyed is still to run, or has removed the channel, once      *)
(* connections_ has let go of it.                                          *)
(***************************************************************************)
EXTENDS TcpServer, SequenceTheorems, TLAPS

PP == INSTANCE EpollPollerProofs WITH Chan <- Chans

-----------------------------------------------------------------------------
(* Where the loop thread is *)

InDispatch == pc = "events" \/ under = "events"

InFunctors == pc = "functors" \/ under = "functors"

Destroying == pc \in {"destroying", "gone"} \/ under = "destroying"

(* The thread's local state belongs to its phase. *)
PhaseInv ==
    /\ pc = "user" <=> under # "none"
    /\ pc = "user" => self \in Conn
    /\ pc # "user" => after = "none"
    /\ after = "close" => under = "events" /\ self = cur
    /\ after = "remove" => under = "destroying"
    /\ InDispatch <=> cur # NoChan
    /\ ~InDispatch => todo = <<>>
    /\ pc # "dispatch" /\ ~InDispatch => DOMAIN active = {}
    /\ ~InFunctors => batch = <<>> /\ pos = 1
    /\ pc \notin {"user", "destroying"} => self = NoChan

-----------------------------------------------------------------------------
(* References *)

Ends(fn) == fn.f = "connectDestroyed"

(* The functors that are queued, in the batch, and in the batch and still   *)
(* to run.                                                                  *)
Pending == Range(pendingFuntors_)
Batch   == Range(batch)
Waiting == {batch[i] : i \in pos .. Len(batch)}

(* A functor of S holds a shared_ptr to c; connectDestroyed of c is in S. *)
Held(S, c)   == \E fn \in S : fn.c = c /\ IsStrong(fn)
Ending(S, c) == \E fn \in S : fn.c = c /\ Ends(fn)

(* A connection exists exactly while a reference to it does. *)
Referenced ==
    \A c \in Conn : Alive(c) <=>
        c \in connections_ \/ Held(Pending, c) \/ Held(Batch, c) \/ (Destroying /\ self = c)

(* connectDestroyed is queued when the map has let go of a connection that  *)
(* was closed, and only while channels are dispatched.                      *)
EndsOnce ==
    /\ \A fn \in Pending \cup Batch : Ends(fn) =>
         fn.c \notin connections_ /\ state_[fn.c] = "kDisConnected"
    /\ pc # "dispatch" /\ ~InDispatch => \A fn \in Pending : ~Ends(fn)

(* A connection the map has let go of is removed from the poller, or will   *)
(* be before its last reference is dropped.                                 *)
RemovedFirst ==
    \A c \in Conn : Alive(c) /\ c \notin connections_ =>
        \/ Ending(Pending, c) \/ Ending(Waiting, c) \/ poller.index_[c] = P!kNew
        \/ after = "remove" /\ self = c

(* What guards the raw this of shutdownInLoop while the loop runs. *)
Guarded ==
    ~Destroying =>
        /\ \A fn \in Pending : fn.c \in connections_ \/ Ending(Pending, fn.c)
        /\ \A fn \in Waiting : fn.c \in connections_ \/ Held(Batch, fn.c)

LifeInv == Referenced /\ EndsOnce /\ RemovedFirst /\ Guarded

-----------------------------------------------------------------------------
(* state_ and the callbacks made, against the life of the connection *)

Born(c) == c < nextConnId_

(* state_ counts the connection callbacks. *)
Counted ==
    \A c \in Conn :
        /\ Born(c) <=> state_[c] # "kConnecting"
        /\ ups[c] = (IF Born(c) THEN 1 ELSE 0)
        /\ downs[c] = (IF state_[c] = "kDisConnected" THEN 1 ELSE 0)
        /\ ~Born(c) => ~Alive(c)

(* state_ and connections_ agree, but for the callback of handleClose. *)
Mapped ==
    \A c \in Conn :
        /\ state_[c] = "kConnected" => c \in connections_
        /\ ~Destroying /\ Born(c) /\ c \notin connections_ => state_[c] = "kDisConnected"
        /\ after = "close" /\ self = c => c \in connections_ /\ state_[c] = "kDisConnected"
        /\ c \in connections_ /\ state_[c] = "kDisConnected" => after = "close" /\ self = c
        /\ Destroying /\ self = c => c \notin connections_

(* state_ and the channel agree: an open connection is watched for reading, *)
(* a closed one for nothing.                                                *)
Watched ==
    \A c \in Conn :
        /\ c \in connections_ /\ state_[c] # "kDisConnected" =>
             poller.index_[c] = P!kAdded /\ "IN" \in poller.events_[c]
        /\ Alive(c) /\ state_[c] = "kDisConnected" => poller.events_[c] = {}

StateInv == Counted /\ Mapped /\ Watched

-----------------------------------------------------------------------------
(* activeChannels_ and the dispatch in progress *)

Open(c) == c \in connections_ /\ state_[c] # "kDisConnected"

(* Of the callbacks, close and read may close the connection. *)
MayClose(cb) == cb \in {"close", "read"}

NoneCloses(s) == \A i \in DOMAIN s : ~MayClose(s[i])

OneCloses(s) == \A i, j \in DOMAIN s : MayClose(s[i]) /\ MayClose(s[j]) => i = j

ActiveInv ==
    /\ \A ch \in DOMAIN active : ch = Acceptor \/ Open(ch)
    /\ cur \notin DOMAIN active
    /\ cur \in Conn => cur \in connections_ \/ Ending(Pending, cur)
    /\ cur \in Conn => OneCloses(todo) /\ (Open(cur) \/ NoneCloses(todo))

AcceptInv ==
    /\ pc # "gone" => Alive(Acceptor)
    /\ backlog > 0 => nextConnId_ <= MaxConns

-----------------------------------------------------------------------------
(* TypeOK in groups of variables that change together *)

TypeServer ==
    /\ eventListSize \in Nat \ {0} /\ started_ \in BOOLEAN
    /\ connections_ \subseteq Conn /\ nextConnId_ \in 1..MaxConns + 1
    /\ state_ \in [Conn -> {"kConnecting", "kConnected", "kDisConnecting", "kDisConnected"}]
    /\ ups \in [Conn -> Nat] /\ downs \in [Conn -> Nat] /\ backlog \in 0..1

TypeQueue ==
    pendingFuntors_ \in Seq(FunctorSet) /\ batch \in Seq(FunctorSet) /\ pos \in Nat \ {0}

TypeLoop ==
    /\ DOMAIN active \subseteq Chans
    /\ \A ch \in DOMAIN active : active[ch] \subseteq {"IN", "OUT", "HUP", "ERR"}
    /\ cur \in Chans \cup {NoChan} /\ self \in Conn \cup {NoChan}
    /\ todo \in Seq({"close", "error", "read", "write"})
    /\ pc \in {"outside", "poll", "dispatch", "events", "functors", "user",
               "destroying", "gone"}
    /\ under \in {"none", "events", "functors", "destroying"}
    /\ after \in {"none", "close", "remove"}

TypeKernel ==
    /\ rx \in [Conn -> 0..MaxRx] /\ fin \in [Conn -> BOOLEAN] /\ rst \in [Conn -> BOOLEAN]
    /\ err \in [Conn -> BOOLEAN] /\ wrClosed \in [Conn -> BOOLEAN]

TypeStream ==
    /\ DOMAIN oututBuffer_ = Conn /\ DOMAIN stream = Conn /\ DOMAIN nsent = Conn
    /\ \A c \in Conn : /\ oututBuffer_[c] \in Seq(1..MaxSend[c])
                       /\ stream[c] \in Seq(1..MaxSend[c])
                       /\ nsent[c] \in 0..MaxSend[c]
    /\ fault \in [Conn -> BOOLEAN]

(* The invariant of the loop, the server and the objects ... *)
CoreInv ==
    /\ TypeServer /\ TypeQueue /\ TypeLoop /\ PP!Good(poller)
    /\ PhaseInv /\ LifeInv /\ StateInv /\ ActiveInv /\ AcceptInv

(* ... and with the kernel and the bytes, which it does not depend on. *)
ServerInv == CoreInv /\ TypeKernel /\ TypeStream /\ StreamInOrder

-----------------------------------------------------------------------------
(* What the poller's operations do to a well-formed poller, in terms of     *)
(* this module: which channels live, what they ask for, and their index_.   *)

LEMMA PollerAssumed == PP!PollerAssumption
  BY ServerAssumption DEF PP!PollerAssumption

LEMMA GoodTypes ==
    ASSUME NEW p, PP!Good(p)
    PROVE  /\ p.fd_ \in [Chans -> Fd \cup {NoFd}]
           /\ p.events_ \in [Chans -> SUBSET {"IN", "OUT"}]
           /\ p.index_ \in [Chans -> {P!kNew, P!kAdded, P!kDeleted}]
           /\ p.ptr \in [Fd -> Chans \cup {NoChan}]
  BY DEF PP!Good, PP!IsPoller, PP!Interest, PP!kNew, PP!kAdded, PP!kDeleted,
         P!kNew, P!kAdded, P!kDeleted

(* A pointer the kernel holds leads to a channel that lives. *)
LEMMA GoodPointers ==
    ASSUME NEW p, PP!Good(p), NEW f \in Fd, p.ptr[f] # NoChan
    PROVE  p.ptr[f] \in Chans /\ P!Live(p, p.ptr[f]) /\ p.fd_[p.ptr[f]] = f
  BY ServerAssumption DEF PP!Good, PP!IsPoller, PP!Pointers, P!Live

(* The two instances of EpollPoller have the same operators. *)
LEMMA SameOperators ==
    ASSUME NEW p, NEW c, NEW f, NEW ev
    PROVE  /\ P!Live(p, c) = PP!Live(p, c) /\ P!FreeFds(p) = PP!FreeFds(p)
           /\ P!Construct(p, c, f) = PP!Construct(p, c, f)
           /\ P!Destroy(p, c) = PP!Destroy(p, c)
           /\ P!RemoveChannel(p, c) = PP!RemoveChannel(p, c)
           /\ P!UpdateChannel(P!SetEvents(p, c, ev), c) =
                PP!UpdateChannel(PP!SetEvents(p, c, ev), c)
           /\ P!EmptyPoller = PP!EmptyPoller
<1> USE DEF P!State, PP!State, P!kNew, PP!kNew, P!kAdded, PP!kAdded, P!kDeleted,
            PP!kDeleted, P!SetMap, PP!SetMap, P!SetIndex, PP!SetIndex, P!CtlDel, PP!CtlDel
<1>1. P!Live(p, c) = PP!Live(p, c) /\ P!FreeFds(p) = PP!FreeFds(p)
  BY DEF P!Live, PP!Live, P!FreeFds, PP!FreeFds
<1>2. P!Construct(p, c, f) = PP!Construct(p, c, f) /\ P!Destroy(p, c) = PP!Destroy(p, c)
  BY DEF P!Construct, PP!Construct, P!Destroy, PP!Destroy
<1>3. P!RemoveChannel(p, c) = PP!RemoveChannel(p, c)
  BY DEF P!RemoveChannel, PP!RemoveChannel
<1>4. P!UpdateChannel(P!SetEvents(p, c, ev), c) =
        PP!UpdateChannel(PP!SetEvents(p, c, ev), c)
  BY DEF P!UpdateChannel, PP!UpdateChannel, P!SetEvents, PP!SetEvents, P!CtlAdd,
         PP!CtlAdd, P!CtlMod, PP!CtlMod
<1>5. P!EmptyPoller = PP!EmptyPoller
  BY DEF P!EmptyPoller, PP!EmptyPoller
<1> QED
  BY <1>1, <1>2, <1>3, <1>4, <1>5

LEMMA UpdateOK ==
    ASSUME NEW p, PP!Good(p), NEW c \in Chans, P!Live(p, c),
           NEW ev \in SUBSET {"IN", "OUT"},
           NEW q, q = P!UpdateChannel(P!SetEvents(p, c, ev), c)
    PROVE  /\ PP!Good(q) /\ q.fd_ = p.fd_
           /\ q.events_ = [p.events_ EXCEPT ![c] = ev]
           /\ \A d \in Chans : d # c => q.index_[d] = p.index_[d]
           /\ p.index_[c] # P!kAdded => q.index_[c] = P!kAdded
           /\ p.index_[c] = P!kAdded /\ ev # {} => q.index_[c] = P!kAdded
<1>1. PP!Good(q)
  BY PollerAssumed, SameOperators, PP!UpdateGood DEF PP!Interest
<1> DEFINE r == P!SetEvents(p, c, ev)
<1>2. /\ r.fd_ = p.fd_ /\ r.events_ = [p.events_ EXCEPT ![c] = ev]
      /\ r.index_ = p.index_
  BY DEF P!SetEvents, P!State
<1>3. r.index_ \in [Chans -> {P!kNew, P!kAdded, P!kDeleted}] /\ r.events_[c] = ev
  BY <1>2, GoodTypes
<1> HIDE DEF r
<1>4. q = P!UpdateChannel(r, c)
  BY DEF r
<1>5. CASE r.index_[c] = P!kNew
  <2>1. q = P!CtlAdd(P!SetIndex(P!SetMap(r, r.fd_[c], c), c, P!kAdded), c)
    BY <1>4, <1>5 DEF P!UpdateChannel
  <2>2. /\ q.fd_ = r.fd_ /\ q.events_ = r.events_
        /\ q.index_ = [r.index_ EXCEPT ![c] = P!kAdded]
    BY <2>1 DEF P!CtlAdd, P!CtlMod, P!CtlDel, P!SetIndex, P!SetMap, P!State
  <2> QED
    BY <1>1, <1>2, <1>3, <1>5, <2>2 DEF P!kNew, P!kAdded
<1>6. CASE r.index_[c] = P!kDeleted
  <2>1. q = P!CtlAdd(P!SetIndex(r, c, P!kAdded), c)
    BY <1>4, <1>6 DEF P!UpdateChannel, P!kNew, P!kDeleted
  <2>2. /\ q.fd_ = r.fd_ /\ q.events_ = r.events_
        /\ q.index_ = [r.index_ EXCEPT ![c] = P!kAdded]
    BY <2>1 DEF P!CtlAdd, P!CtlMod, P!CtlDel, P!SetIndex, P!SetMap, P!State
  <2> QED
    BY <1>1, <1>2, <1>3, <1>6, <2>2 DEF P!kDeleted, P!kAdded
<1>7. CASE r.index_[c] = P!kAdded /\ ev = {}
  <2>1. q = P!SetIndex(P!CtlDel(r, c), c, P!kDeleted)
    BY <1>3, <1>4, <1>7 DEF P!UpdateChannel, P!kNew, P!kAdded, P!kDeleted
  <2>2. /\ q.fd_ = r.fd_ /\ q.events_ = r.events_
        /\ q.index_ = [r.index_ EXCEPT ![c] = P!kDeleted]
    BY <2>1 DEF P!CtlAdd, P!CtlMod, P!CtlDel, P!SetIndex, P!SetMap, P!State
  <2> QED
    BY <1>1, <1>2, <1>3, <1>7, <2>2
<1>8. CASE r.index_[c] = P!kAdded /\ ev # {}
  <2>0. r.index_[c] # P!kNew /\ r.index_[c] # P!kDeleted /\ r.events_[c] # {}
    BY <1>3, <1>8 DEF P!kNew, P!kAdded, P!kDeleted
  <2>1. q = P!CtlMod(r, c)
    BY <1>4, <2>0 DEF P!UpdateChannel
  <2>2. q.fd_ = r.fd_ /\ q.events_ = r.events_ /\ q.index_ = r.index_
    BY <2>1 DEF P!CtlAdd, P!CtlMod, P!CtlDel, P!SetIndex, P!SetMap, P!State
  <2> QED
    BY <1>1, <1>2, <1>3, <1>8, <2>2
<1> QED
  BY <1>3, <1>5, <1>6, <1>7, <1>8

LEMMA RemoveOK ==
    ASSUME NEW p, PP!Good(p), NEW c \in Chans, P!Live(p, c),
           NEW q, q = P!RemoveChannel(p, c)
    PROVE  /\ PP!Good(q) /\ q.fd_ = p.fd_ /\ q.events_ = p.events_
           /\ q.index_ = [p.index_ EXCEPT ![c] = P!kNew]
<1>1. PP!Good(q)
  BY PollerAssumed, SameOperators, PP!RemoveGood
<1>2. /\ q.fd_ = p.fd_ /\ q.events_ = p.events_
      /\ q.index_ = [p.index_ EXCEPT ![c] = P!kNew]
  BY DEF P!RemoveChannel, P!CtlDel, P!SetIndex, P!SetMap, P!State
<1> QED
  BY <1>1, <1>2

LEMMA DestroyOK ==
    ASSUME NEW p, PP!Good(p), NEW c \in Chans, P!Live(p, c), p.index_[c] = P!kNew,
           NEW q, q = P!Destroy(p, c)
    PROVE  /\ PP!Good(q) /\ q.fd_ = [p.fd_ EXCEPT ![c] = NoFd]
           /\ q.events_ = p.events_ /\ q.index_ = p.index_
<1>1. PP!Good(q)
  BY PollerAssumed, SameOperators, PP!DestroyGood DEF P!kNew, PP!kNew
<1>2. /\ q.fd_ = [p.fd_ EXCEPT ![c] = NoFd] /\ q.events_ = p.events_
      /\ q.index_ = p.index_
  BY DEF P!Destroy, P!State
<1> QED
  BY <1>1, <1>2

LEMMA ConstructOK ==
    ASSUME NEW p, PP!Good(p), NEW c \in Chans, ~P!Live(p, c), NEW f \in P!FreeFds(p),
           NEW q, q = P!Construct(p, c, f)
    PROVE  /\ PP!Good(q) /\ f \in Fd /\ f # NoFd
           /\ q.fd_ = [p.fd_ EXCEPT ![c] = f]
           /\ q.events_ = [p.events_ EXCEPT ![c] = {}]
           /\ q.index_ = [p.index_ EXCEPT ![c] = P!kNew]
<1>1. PP!Good(q)
  BY PollerAssumed, SameOperators, PP!ConstructGood
<1>2. f \in Fd /\ f # NoFd
  BY ServerAssumption DEF P!FreeFds
<1>3. /\ q.fd_ = [p.fd_ EXCEPT ![c] = f] /\ q.events_ = [p.events_ EXCEPT ![c] = {}]
      /\ q.index_ = [p.index_ EXCEPT ![c] = P!kNew]
  BY DEF P!Construct, P!State
<1> QED
  BY <1>1, <1>2, <1>3

(* A channel that is constructed and at once watched for reading. *)
LEMMA EstablishOK ==
    ASSUME NEW p, PP!Good(p), NEW c \in Chans, ~P!Live(p, c), NEW f \in P!FreeFds(p),
           NEW r, r = P!EnableReading(P!Construct(p, c, f), c)
    PROVE  /\ PP!Good(r) /\ r.index_[c] = P!kAdded /\ r.events_[c] = {"IN"}
           /\ r.fd_[c] # NoFd
           /\ \A d \in Chans : d # c => /\ r.fd_[d] = p.fd_[d]
                                        /\ r.index_[d] = p.index_[d]
                                        /\ r.events_[d] = p.events_[d]
<1> DEFINE q == P!Construct(p, c, f)
<1>1. /\ p.fd_ \in [Chans -> Fd \cup {NoFd}]
      /\ p.events_ \in [Chans -> SUBSET {"IN", "OUT"}]
      /\ p.index_ \in [Chans -> {P!kNew, P!kAdded, P!kDeleted}]
  BY GoodTypes
<1>2. q = P!Construct(p, c, f)
  OBVIOUS
<1> DEFINE ev == q.events_[c] \cup {"IN"}
<1>3. r = P!UpdateChannel(P!SetEvents(q, c, ev), c)
  BY DEF P!EnableReading
<1> HIDE DEF q
<1>4. /\ PP!Good(q) /\ f \in Fd /\ f # NoFd
      /\ q.fd_ = [p.fd_ EXCEPT ![c] = f]
      /\ q.events_ = [p.events_ EXCEPT ![c] = {}]
      /\ q.index_ = [p.index_ EXCEPT ![c] = P!kNew]
  BY <1>2, ConstructOK
<1>5. ev = {"IN"} /\ q.index_[c] = P!kNew /\ q.fd_[c] # NoFd
  BY <1>1, <1>4
<1>6. P!Live(q, c) /\ ev \in SUBSET {"IN", "OUT"} /\ q.index_[c] # P!kAdded
  BY <1>5 DEF P!Live, P!kNew, P!kAdded
<1> HIDE DEF ev
<1>7. /\ PP!Good(r) /\ r.fd_ = q.fd_ /\ r.events_ = [q.events_ EXCEPT ![c] = ev]
      /\ \A d \in Chans : d # c => r.index_[d] = q.index_[d]
      /\ r.index_[c] = P!kAdded
  <2>1. PP!Good(q)
    BY <1>4
  <2> QED
    BY <1>3, <1>6, <2>1, UpdateOK
<1> QED
  BY <1>1, <1>4, <1>5, <1>7

LEMMA GoodPrime == PP!Good(poller') <=> PP!Good(poller)'
  BY DEF PP!Good, PP!IsPoller, PP!OwnFd, PP!Pointers, PP!Index

-----------------------------------------------------------------------------
(* The sets of functors *)

LEMMA FunctorsTyped ==
    ASSUME TypeQueue
    PROVE  /\ Pending \subseteq FunctorSet /\ Batch \subseteq FunctorSet
           /\ Waiting \subseteq Batch
           /\ \A fn \in Pending \cup Batch : fn.c \in Conn
<1>1. Pending \subseteq FunctorSet /\ Batch \subseteq FunctorSet
  BY DEF TypeQueue, Pending, Batch, Range
<1>2. Waiting \subseteq Batch
  BY DEF TypeQueue, Waiting, Batch, Range
<1> QED
  BY <1>1, <1>2 DEF FunctorSet

(* The functors of a queue that fns was appended to. *)
LEMMA RangeConcat ==
    ASSUME NEW s \in Seq(FunctorSet), NEW fns \in Seq(FunctorSet)
    PROVE  s \o fns \in Seq(FunctorSet) /\ Range(s \o fns) = Range(s) \cup Range(fns)
<1> DEFINE u == s \o fns
<1>1. /\ u \in Seq(FunctorSet) /\ Len(u) = Len(s) + Len(fns)
      /\ Len(s) \in Nat /\ Len(fns) \in Nat
      /\ \A i \in 1..Len(s) : u[i] = s[i]
      /\ \A i \in 1..Len(fns) : u[Len(s) + i] = fns[i]
      /\ \A i \in 1..Len(u) : i > Len(s) => i - Len(s) \in 1..Len(fns) /\ u[i] = fns[i - Len(s)]
  BY ConcatProperties
<1> HIDE DEF u
<1>2. ASSUME NEW x \in Range(u) PROVE x \in Range(s) \cup Range(fns)
  <2>1. PICK i \in 1..Len(u) : x = u[i]
    BY <1>1 DEF Range
  <2>2. CASE i <= Len(s)
    BY <1>1, <2>1, <2>2 DEF Range
  <2>3. CASE i > Len(s)
    BY <1>1, <2>1, <2>3 DEF Range
  <2> QED
    BY <1>1, <2>2, <2>3
<1>3. Range(s) \subseteq Range(u)
  BY <1>1 DEF Range
<1>4. ASSUME NEW x \in Range(fns) PROVE x \in Range(u)
  <2>1. PICK i \in 1..Len(fns) : x = fns[i]
    BY <1>1 DEF Range
  <2>2. Len(s) + i \in 1..Len(u) /\ u[Len(s) + i] = x
    BY <1>1, <2>1
  <2> QED
    BY <1>1, <2>2 DEF Range
<1> QED
  BY <1>1, <1>2, <1>3, <1>4 DEF u

(* Holds, as the model writes it, is Held of the functors. *)
LEMMA HoldsHeld ==
    /\ \A c : Holds(pendingFuntors_, c) <=> Held(Pending, c)
    /\ \A c : Holds(batch, c) <=> Held(Batch, c)
  BY DEF Holds, Held, Pending, Batch, Range

-----------------------------------------------------------------------------
coreVars == <<poller, server, state_, queue, events, pc, caller, backlog, ups, downs>>

(* The steps of the kernel leave the core alone. *)
LEMMA CoreFrame == CoreInv /\ UNCHANGED coreVars => CoreInv'
<1> SUFFICES ASSUME CoreInv, UNCHANGED coreVars PROVE CoreInv'
  OBVIOUS
<1>1. /\ UNCHANGED <<poller, started_, connections_, nextConnId_, state_, pendingFuntors_>>
      /\ UNCHANGED <<batch, pos, active, eventListSize, cur, todo, pc, under, after, self>>
      /\ UNCHANGED <<backlog, ups, downs>>
  BY DEF coreVars, server, queue, events, caller
<1>2. Pending' = Pending /\ Batch' = Batch /\ Waiting' = Waiting
  BY <1>1 DEF Pending, Batch, Waiting
<1>3. InDispatch' = InDispatch /\ InFunctors' = InFunctors /\ Destroying' = Destroying
  BY <1>1 DEF InDispatch, InFunctors, Destroying
<1>4. TypeServer' /\ TypeQueue' /\ TypeLoop'
  BY <1>1 DEF CoreInv, TypeServer, TypeQueue, TypeLoop
<1>5. PP!Good(poller)'
  BY <1>1, GoodPrime DEF CoreInv
<1>6. PhaseInv'
  BY <1>1, <1>3 DEF CoreInv, PhaseInv
<1>7. LifeInv'
  BY <1>1, <1>2, <1>3
  DEF CoreInv, LifeInv, Referenced, EndsOnce, RemovedFirst, Guarded, Alive, P!Live
<1>8. StateInv'
  BY <1>1, <1>3 DEF CoreInv, StateInv, Counted, Mapped, Watched, Alive, P!Live, Born
<1>9. ActiveInv' /\ AcceptInv'
  BY <1>1, <1>2 DEF CoreInv, ActiveInv, AcceptInv, Open, Alive, P!Live
<1> QED
  BY <1>4, <1>5, <1>6, <1>7, <1>8, <1>9 DEF CoreInv

(* A step of the loop thread that leaves the objects and the functors alone *)
(* and is not inside handleClose or connectDestroyed.                       *)
LEMMA ControlStep ==
    ASSUME CoreInv, after = "none", after' = "none",
           UNCHANGED <<poller, connections_, nextConnId_, state_, ups, downs>>,
           Pending' = Pending, Batch' = Batch, Waiting' \subseteq Waiting,
           \A c \in Conn : Ending(Waiting, c) => Ending(Waiting', c),
           Destroying => Destroying',
           \A c \in Conn : Destroying' /\ self' = c => Destroying /\ self = c,
           \A c \in Conn : Destroying /\ self = c => self' = c,
           \/ pc' = "dispatch" \/ InDispatch'
           \/ pc # "dispatch" /\ ~InDispatch
           \/ Pending = {}
    PROVE  LifeInv' /\ StateInv'
<1>1. Referenced'
  BY DEF CoreInv, LifeInv, Referenced, Alive, P!Live
<1>2. EndsOnce'
  BY DEF CoreInv, LifeInv, EndsOnce
<1>3. RemovedFirst'
  BY DEF CoreInv, LifeInv, RemovedFirst, Ending, Alive, P!Live
<1>4. Guarded'
  BY DEF CoreInv, LifeInv, Guarded
<1>5. Counted' /\ Watched'
  BY DEF CoreInv, StateInv, Counted, Watched, Alive, P!Live, Born
<1>6. Mapped'
  BY DEF CoreInv, StateInv, Mapped, Born
<1> QED
  BY <1>1, <1>2, <1>3, <1>4, <1>5, <1>6 DEF LifeInv, StateInv

(* NoChan is no channel, and the acceptor's is no connection's. *)
LEMMA Distinct ==
    /\ NoChan \notin Conn /\ Acceptor \in Chans /\ NoChan # Acceptor
    /\ \A c \in Conn : c \in Chans /\ c # Acceptor
  BY ServerAssumption DEF Chans

(* loop() begins, or the server's destructor does. *)
LEMMA EnterStep ==
    ASSUME CoreInv, EnterLoop \/ DestroyServer
    PROVE  CoreInv'
<1>1. /\ pc = "outside" /\ pc' \in {"poll", "destroying"}
      /\ UNCHANGED <<poller, started_, connections_, nextConnId_, state_, pendingFuntors_>>
      /\ UNCHANGED <<batch, pos, active, eventListSize, cur, todo, under, after, self>>
      /\ UNCHANGED <<backlog, ups, downs>>
  BY DEF EnterLoop, DestroyServer, server, objects, queue, events, caller, kernel, history
<1>2. Pending' = Pending /\ Batch' = Batch /\ Waiting' = Waiting
  BY <1>1 DEF Pending, Batch, Waiting
<1>3. after = "none" /\ under = "none" /\ self = NoChan
  BY <1>1 DEF CoreInv, PhaseInv
<1>4. /\ ~InDispatch /\ ~InDispatch' /\ ~InFunctors /\ ~InFunctors' /\ ~Destroying
  BY <1>1, <1>3 DEF InDispatch, InFunctors, Destroying
<1>5. TypeServer' /\ TypeQueue' /\ TypeLoop'
  BY <1>1 DEF CoreInv, TypeServer, TypeQueue, TypeLoop
<1>6. PP!Good(poller)'
  BY <1>1, GoodPrime DEF CoreInv
<1>7. PhaseInv'
  BY <1>1, <1>3, <1>4 DEF CoreInv, PhaseInv
<1>8. LifeInv' /\ StateInv'
  BY <1>1, <1>2, <1>3, <1>4, Distinct, ControlStep
<1>9. ActiveInv' /\ AcceptInv'
  BY <1>1, <1>2 DEF CoreInv, ActiveInv, AcceptInv, Open, Alive, P!Live
<1> QED
  BY <1>5, <1>6, <1>7, <1>8, <1>9 DEF CoreInv

(* The end of an iteration: the batch has been run and released. *)
LEMMA EndIterationStep ==
    ASSUME CoreInv, EndIteration
    PROVE  CoreInv'
<1>1. /\ pc = "functors" /\ batch = <<>> /\ pos' = 1 /\ pc' \in {"poll", "outside"}
      /\ UNCHANGED <<poller, started_, connections_, nextConnId_, state_, pendingFuntors_>>
      /\ UNCHANGED <<batch, active, eventListSize, cur, todo, under, after, self>>
      /\ UNCHANGED <<backlog, ups, downs>>
  BY DEF EndIteration, server, objects, events, caller, kernel, history
<1>2. Pending' = Pending /\ Batch' = Batch /\ Waiting' = Waiting
  <2>1. Len(batch) = 0 /\ pos \in Nat \ {0}
    BY <1>1 DEF CoreInv, TypeQueue
  <2>2. Waiting = {} /\ Waiting' = {}
    BY <1>1, <2>1 DEF Waiting
  <2> QED
    BY <1>1, <2>2 DEF Pending, Batch
<1>3. after = "none" /\ under = "none" /\ self = NoChan
  BY <1>1 DEF CoreInv, PhaseInv
<1>4. /\ ~InDispatch /\ ~InDispatch' /\ ~InFunctors' /\ ~Destroying /\ ~Destroying'
  BY <1>1, <1>3 DEF InDispatch, InFunctors, Destroying
<1>5. TypeServer' /\ TypeQueue' /\ TypeLoop'
  BY <1>1 DEF CoreInv, TypeServer, TypeQueue, TypeLoop
<1>6. PP!Good(poller)'
  BY <1>1, GoodPrime DEF CoreInv
<1>7. PhaseInv'
  BY <1>1, <1>3, <1>4 DEF CoreInv, PhaseInv
<1>8. LifeInv' /\ StateInv'
  BY <1>1, <1>2, <1>3, <1>4, ControlStep
<1>9. ActiveInv' /\ AcceptInv'
  BY <1>1, <1>2 DEF CoreInv, ActiveInv, AcceptInv, Open, Alive, P!Live
<1> QED
  BY <1>5, <1>6, <1>7, <1>8, <1>9 DEF CoreInv

(* At a poll, the channels that live are the acceptor's and those of the    *)
(* open connections.                                                        *)
LEMMA LiveAtPoll ==
    ASSUME CoreInv, pc = "poll"
    PROVE  \A ch \in Chans : Alive(ch) => ch = Acceptor \/ Open(ch)
<1> SUFFICES ASSUME NEW ch \in Chans, Alive(ch), ch # Acceptor PROVE Open(ch)
  OBVIOUS
<1>1. ch \in Conn
  BY DEF Chans
<1>2. under = "none" /\ after = "none" /\ ~InDispatch /\ ~InFunctors /\ ~Destroying
  BY DEF CoreInv, PhaseInv, InDispatch, InFunctors, Destroying
<1>3. Batch = {}
  BY <1>2 DEF CoreInv, PhaseInv, Batch, Range
<1>4. ch \in connections_ \/ Held(Pending, ch)
  BY <1>1, <1>2, <1>3 DEF CoreInv, LifeInv, Referenced, Held
<1>5. \A fn \in Pending : ~Ends(fn)
  BY <1>2 DEF CoreInv, LifeInv, EndsOnce
<1>6. \A fn \in Pending : fn.c \in connections_
  BY <1>2, <1>5 DEF CoreInv, LifeInv, Guarded, Ending
<1>7. ch \in connections_
  BY <1>4, <1>6 DEF Held
<1> QED
  BY <1>1, <1>2, <1>7 DEF CoreInv, StateInv, Mapped, Open

LEMMA PollStep ==
    ASSUME CoreInv, Poll
    PROVE  CoreInv'
<1>1. /\ pc = "poll" /\ pc' = "dispatch"
      /\ UNCHANGED <<poller, started_, connections_, nextConnId_, state_, pendingFuntors_>>
      /\ UNCHANGED <<batch, pos, cur, todo, under, after, self, backlog, ups, downs>>
  BY DEF Poll, server, objects, queue, caller, kernel, history
<1>2. PICK S \in SUBSET ReadyFds :
        /\ active' = [ch \in {poller.ptr[f] : f \in S} |-> Mask(poller.fd_[ch])]
        /\ eventListSize' = Grow(Cardinality(S))
  BY DEF Poll
<1>3. \A ch \in DOMAIN active' : ch \in Chans /\ (ch = Acceptor \/ Open(ch))
  <2> SUFFICES ASSUME NEW ch \in DOMAIN active'
               PROVE  ch \in Chans /\ (ch = Acceptor \/ Open(ch))
    OBVIOUS
  <2>1. PICK f \in S : ch = poller.ptr[f]
    BY <1>2
  <2>2. f \in Fd /\ poller.ptr[f] # NoChan
    BY <2>1 DEF ReadyFds
  <2>3. ch \in Chans /\ Alive(ch)
    BY <2>1, <2>2, GoodPointers DEF CoreInv, Alive
  <2> QED
    BY <1>1, <2>3, LiveAtPoll
<1>4. \A ch \in DOMAIN active' : active'[ch] \subseteq {"IN", "OUT", "HUP", "ERR"}
  <2>1. \A f : Mask(f) \subseteq {"IN", "OUT", "HUP", "ERR"}
    BY DEF Mask, Condition
  <2> QED
    BY <1>2, <2>1
<1>5. eventListSize' \in Nat \ {0}
  BY <1>2 DEF Grow, CoreInv, TypeServer
<1>6. Pending' = Pending /\ Batch' = Batch /\ Waiting' = Waiting
  BY <1>1 DEF Pending, Batch, Waiting
<1>7. /\ after = "none" /\ under = "none" /\ self = NoChan /\ cur = NoChan /\ todo = <<>>
      /\ ~InDispatch /\ ~InDispatch' /\ ~InFunctors /\ ~InFunctors'
      /\ ~Destroying /\ ~Destroying'
  BY <1>1 DEF CoreInv, PhaseInv, InDispatch, InFunctors, Destroying
<1>8. TypeServer' /\ TypeQueue' /\ TypeLoop'
  BY <1>1, <1>3, <1>4, <1>5 DEF CoreInv, TypeServer, TypeQueue, TypeLoop
<1>9. PP!Good(poller)'
  BY <1>1, GoodPrime DEF CoreInv
<1>10. PhaseInv'
  BY <1>1, <1>7 DEF CoreInv, PhaseInv
<1>11. LifeInv' /\ StateInv'
  BY <1>1, <1>6, <1>7, ControlStep
<1>12. ActiveInv' /\ AcceptInv'
  <2>1. cur' \notin DOMAIN active' /\ cur' \notin Conn
    BY <1>1, <1>3, <1>7, ServerAssumption, Distinct DEF Chans
  <2> QED
    BY <1>1, <1>3, <2>1 DEF CoreInv, ActiveInv, AcceptInv, Open, Alive, P!Live
<1> QED
  BY <1>8, <1>9, <1>10, <1>11, <1>12 DEF CoreInv

-----------------------------------------------------------------------------
(* Callbacks and dispatch *)

CallbackSet == {"close", "error", "read", "write"}

(* At most one callback of a concatenation closes, if it is in one half. *)
LEMMA ConcatCloses ==
    ASSUME NEW s \in Seq(CallbackSet), NEW u \in Seq(CallbackSet)
    PROVE  /\ s \o u \in Seq(CallbackSet)
           /\ NoneCloses(s) /\ NoneCloses(u) => NoneCloses(s \o u)
           /\ NoneCloses(s) /\ OneCloses(u) => OneCloses(s \o u)
           /\ OneCloses(s) /\ NoneCloses(u) => OneCloses(s \o u)
<1> DEFINE v == s \o u
<1>1. /\ v \in Seq(CallbackSet) /\ Len(v) = Len(s) + Len(u)
      /\ Len(s) \in Nat /\ Len(u) \in Nat /\ DOMAIN v = 1..Len(v)
      /\ DOMAIN s = 1..Len(s) /\ DOMAIN u = 1..Len(u)
  BY ConcatProperties
<1>2. /\ \A i \in DOMAIN v : i <= Len(s) => i \in DOMAIN s /\ v[i] = s[i]
      /\ \A i \in DOMAIN v : i > Len(s) => i - Len(s) \in DOMAIN u /\ v[i] = u[i - Len(s)]
  BY <1>1, ConcatProperties
<1> HIDE DEF v
<1>3. NoneCloses(s) /\ NoneCloses(u) => NoneCloses(v)
  BY <1>1, <1>2 DEF NoneCloses
<1>4. ASSUME NoneCloses(s), OneCloses(u) PROVE OneCloses(v)
  <2> SUFFICES ASSUME NEW i \in DOMAIN v, NEW j \in DOMAIN v,
                      MayClose(v[i]), MayClose(v[j])
               PROVE  i = j
    BY DEF OneCloses
  <2>1. ~(i <= Len(s)) /\ ~(j <= Len(s))
    BY <1>2, <1>4 DEF NoneCloses
  <2>3. i \in Int /\ j \in Int /\ i > Len(s) /\ j > Len(s)
    BY <1>1, <2>1
  <2>2. i - Len(s) = j - Len(s)
    BY <1>2, <1>4, <2>3 DEF OneCloses
  <2> QED
    BY <1>1, <2>3, <2>2
<1>5. ASSUME OneCloses(s), NoneCloses(u) PROVE OneCloses(v)
  <2> SUFFICES ASSUME NEW i \in DOMAIN v, NEW j \in DOMAIN v,
                      MayClose(v[i]), MayClose(v[j])
               PROVE  i = j
    BY DEF OneCloses
  <2>1. ~(i > Len(s)) /\ ~(j > Len(s))
    BY <1>2, <1>5 DEF NoneCloses
  <2>2. i <= Len(s) /\ j <= Len(s)
    BY <1>1, <2>1
  <2> QED
    BY <1>2, <1>5, <2>2 DEF OneCloses
<1> QED
  BY <1>1, <1>3, <1>4, <1>5 DEF v

(* handleEventWithGuard never calls both closeCallback_ and readCallback_. *)
LEMMA CallbacksOK ==
    ASSUME NEW ch \in Chans, NEW mask
    PROVE  Callbacks(ch, mask) \in Seq(CallbackSet) /\ OneCloses(Callbacks(ch, mask))
<1> DEFINE Call(cb, wanted) == IF wanted THEN <<cb>> ELSE <<>>
           close == Call("close", "HUP" \in mask /\ "IN" \notin mask)
           error == Call("error", "ERR" \in mask)
           read  == Call("read", "IN" \in mask)
           write == Call("write", "OUT" \in mask)
<1>1. /\ close \in Seq(CallbackSet) /\ error \in Seq(CallbackSet)
      /\ read \in Seq(CallbackSet) /\ write \in Seq(CallbackSet)
  <2>1. \A cb \in CallbackSet : <<cb>> \in Seq(CallbackSet)
    OBVIOUS
  <2>2. <<>> \in Seq(CallbackSet)
    OBVIOUS
  <2>3. {"close", "error", "read", "write"} \subseteq CallbackSet
    BY DEF CallbackSet
  <2> QED
    BY <2>1, <2>2, <2>3
<1>2. /\ NoneCloses(error) /\ NoneCloses(write) /\ OneCloses(close) /\ OneCloses(read)
      /\ NoneCloses(close) \/ NoneCloses(read)
  BY DEF NoneCloses, OneCloses, MayClose
<1>3. Callbacks(ch, mask) = IF ch = Acceptor THEN read
                            ELSE ((close \o error) \o read) \o write
  BY DEF Callbacks
<1> HIDE DEF close, error, read, write
<1> DEFINE ce == close \o error
           cer == ce \o read
<1>4. /\ ce \in Seq(CallbackSet) /\ OneCloses(ce) /\ (NoneCloses(close) => NoneCloses(ce))
  BY <1>1, <1>2, ConcatCloses
<1> HIDE DEF ce
<1>5. cer \in Seq(CallbackSet) /\ OneCloses(cer)
  BY <1>1, <1>2, <1>4, ConcatCloses
<1> HIDE DEF cer
<1>6. cer \o write \in Seq(CallbackSet) /\ OneCloses(cer \o write)
  BY <1>1, <1>2, <1>5, ConcatCloses
<1> QED
  BY <1>1, <1>2, <1>3, <1>6 DEF cer, ce

(* The rest of the callbacks once the first has been called. *)
LEMMA TailCloses ==
    ASSUME NEW s \in Seq(CallbackSet), s # <<>>
    PROVE  /\ Head(s) \in CallbackSet /\ Tail(s) \in Seq(CallbackSet)
           /\ NoneCloses(s) => NoneCloses(Tail(s)) /\ ~MayClose(Head(s))
           /\ OneCloses(s) => OneCloses(Tail(s))
           /\ OneCloses(s) /\ MayClose(Head(s)) => NoneCloses(Tail(s))
<1>1. /\ Len(s) \in Nat /\ Len(s) >= 1 /\ DOMAIN s = 1..Len(s)
      /\ Head(s) = s[1] /\ Head(s) \in CallbackSet
      /\ Tail(s) \in Seq(CallbackSet) /\ DOMAIN Tail(s) = 1..(Len(s) - 1)
      /\ \A i \in 1..(Len(s) - 1) : Tail(s)[i] = s[i + 1] /\ i + 1 \in DOMAIN s
      /\ 1 \in DOMAIN s
  OBVIOUS
<1> DEFINE u == Tail(s)
<1> HIDE DEF u
<1>2. DOMAIN u = 1..(Len(s) - 1)
      /\ \A i \in DOMAIN u : u[i] = s[i + 1] /\ i + 1 \in DOMAIN s /\ i + 1 # 1
  BY <1>1 DEF u
<1>3. NoneCloses(s) => NoneCloses(u) /\ ~MayClose(Head(s))
  BY <1>1, <1>2 DEF NoneCloses
<1>4. ASSUME OneCloses(s) PROVE OneCloses(u)
  <2> SUFFICES ASSUME NEW i \in DOMAIN u, NEW j \in DOMAIN u,
                      MayClose(u[i]), MayClose(u[j])
               PROVE  i = j
    BY DEF OneCloses
  <2>1. i + 1 = j + 1
    BY <1>2, <1>4 DEF OneCloses
  <2> QED
    BY <1>1, <1>2, <2>1
<1>5. OneCloses(s) /\ MayClose(Head(s)) => NoneCloses(u)
  BY <1>1, <1>2 DEF OneCloses, NoneCloses
<1> QED
  BY <1>1, <1>3, <1>4, <1>5 DEF u

LEMMA DispatchStep ==
    ASSUME CoreInv, Dispatch
    PROVE  CoreInv'
<1>1. /\ pc = "dispatch" /\ pc' = "events"
      /\ UNCHANGED <<poller, started_, connections_, nextConnId_, state_, pendingFuntors_>>
      /\ UNCHANGED <<batch, pos, eventListSize, under, after, self, backlog, ups, downs>>
  BY DEF Dispatch, server, objects, queue, caller, kernel, history
<1>2. PICK ch \in DOMAIN active :
        /\ cur' = ch /\ todo' = Callbacks(ch, active[ch])
        /\ active' = [x \in DOMAIN active \ {ch} |-> active[x]]
  BY DEF Dispatch
<1>3. ch \in Chans /\ ch # NoChan /\ (ch = Acceptor \/ Open(ch))
  BY ServerAssumption DEF CoreInv, TypeLoop, ActiveInv
<1>4. todo' \in Seq(CallbackSet) /\ OneCloses(todo')
  <2>1. \A mask : Callbacks(ch, mask) \in Seq(CallbackSet) /\ OneCloses(Callbacks(ch, mask))
    BY <1>3, CallbacksOK
  <2> QED
    BY <1>2, <2>1
<1>5. Pending' = Pending /\ Batch' = Batch /\ Waiting' = Waiting
  BY <1>1 DEF Pending, Batch, Waiting
<1>6. /\ after = "none" /\ under = "none" /\ self = NoChan
      /\ ~InDispatch /\ InDispatch' /\ ~InFunctors /\ ~InFunctors'
      /\ ~Destroying /\ ~Destroying'
  BY <1>1 DEF CoreInv, PhaseInv, InDispatch, InFunctors, Destroying
<1>7. TypeServer' /\ TypeQueue' /\ TypeLoop'
  BY <1>1, <1>2, <1>3, <1>4 DEF CoreInv, TypeServer, TypeQueue, TypeLoop, CallbackSet
<1>8. PP!Good(poller)'
  BY <1>1, GoodPrime DEF CoreInv
<1>9. PhaseInv'
  BY <1>1, <1>2, <1>3, <1>6 DEF CoreInv, PhaseInv
<1>10. LifeInv' /\ StateInv'
  BY <1>1, <1>5, <1>6, ControlStep
<1>11. ActiveInv'
  <2>1. \A x \in DOMAIN active' : x \in DOMAIN active /\ x # cur'
    BY <1>2
  <2>2. cur' \in Conn => Open(cur')
    BY <1>2, <1>3, Distinct
  <2> QED
    BY <1>1, <1>4, <1>5, <2>1, <2>2 DEF CoreInv, ActiveInv, Open
<1>12. AcceptInv'
  BY <1>1 DEF CoreInv, AcceptInv, Alive, P!Live
<1> QED
  BY <1>7, <1>8, <1>9, <1>10, <1>11, <1>12 DEF CoreInv

(* The guard of a dispatch is never the last reference: the map or a queued *)
(* connectDestroyed still holds the connection.                             *)
LEMMA EndDispatchStep ==
    ASSUME CoreInv, EndDispatch
    PROVE  CoreInv'
<1>1. /\ pc = "events" /\ todo = <<>> /\ cur' = NoChan /\ pc' = "dispatch"
      /\ UNCHANGED <<started_, connections_, nextConnId_, state_, pendingFuntors_>>
      /\ UNCHANGED <<batch, pos, active, eventListSize, todo, under, after, self>>
      /\ UNCHANGED <<backlog, ups, downs>>
  BY DEF EndDispatch, server, objects, queue, caller, kernel, history
<1>2. /\ after = "none" /\ under = "none" /\ self = NoChan
      /\ InDispatch /\ ~InDispatch' /\ ~InFunctors /\ ~InFunctors'
      /\ ~Destroying /\ ~Destroying'
  BY <1>1 DEF CoreInv, PhaseInv, InDispatch, InFunctors, Destroying
<1>3. poller' = poller
  <2>1. cur \in Conn \cup {Acceptor}
    BY <1>2 DEF CoreInv, PhaseInv, TypeLoop, Chans
  <2>2. cur \in connections_ \cup {Acceptor} \/ Held(Pending, cur)
    BY <2>1 DEF CoreInv, ActiveInv, Ending, Held, Ends, IsStrong
  <2> QED
    BY <2>2, HoldsHeld DEF EndDispatch, Reap
<1>4. Pending' = Pending /\ Batch' = Batch /\ Waiting' = Waiting
  BY <1>1 DEF Pending, Batch, Waiting
<1>5. TypeServer' /\ TypeQueue' /\ TypeLoop'
  BY <1>1 DEF CoreInv, TypeServer, TypeQueue, TypeLoop
<1>6. PP!Good(poller)'
  BY <1>3, GoodPrime DEF CoreInv
<1>7. PhaseInv'
  BY <1>1, <1>2 DEF CoreInv, PhaseInv
<1>8. LifeInv' /\ StateInv'
  BY <1>1, <1>2, <1>3, <1>4, ControlStep
<1>9. ActiveInv' /\ AcceptInv'
  <2>1. NoChan \notin DOMAIN active /\ NoChan \notin Conn
    BY ServerAssumption, Distinct DEF CoreInv, TypeLoop
  <2> QED
    BY <1>1, <1>3, <1>4, <2>1 DEF CoreInv, ActiveInv, AcceptInv, Open, Alive, P!Live
<1> QED
  BY <1>5, <1>6, <1>7, <1>8, <1>9 DEF CoreInv

(* The swap: what was queued becomes the batch. *)
LEMMA BeginFunctorsStep ==
    ASSUME CoreInv, BeginFunctors
    PROVE  CoreInv'
<1>1. /\ pc = "dispatch" /\ pc' = "functors" /\ DOMAIN active = {}
      /\ batch' = pendingFuntors_ /\ pendingFuntors_' = <<>>
      /\ UNCHANGED <<poller, started_, connections_, nextConnId_, state_, pos>>
      /\ UNCHANGED <<active, eventListSize, cur, todo, under, after, self>>
      /\ UNCHANGED <<backlog, ups, downs>>
  BY DEF BeginFunctors, server, objects, events, caller, kernel, history
<1>2. /\ after = "none" /\ under = "none" /\ self = NoChan /\ cur = NoChan
      /\ batch = <<>> /\ pos = 1
      /\ ~InDispatch /\ ~InDispatch' /\ ~InFunctors /\ InFunctors'
      /\ ~Destroying /\ ~Destroying'
  BY <1>1 DEF CoreInv, PhaseInv, InDispatch, InFunctors, Destroying
<1>3. Pending' = {} /\ Batch = {}
  BY <1>1, <1>2 DEF Pending, Batch, Range
<1>4. Batch' = Pending
  BY <1>1 DEF Pending, Batch
<1>5. Waiting' = Pending
  BY <1>1, <1>2 DEF CoreInv, TypeQueue, Pending, Waiting, Range
<1>6. TypeServer' /\ TypeQueue' /\ TypeLoop'
  BY <1>1 DEF CoreInv, TypeServer, TypeQueue, TypeLoop
<1>7. PP!Good(poller)'
  BY <1>1, GoodPrime DEF CoreInv
<1>8. PhaseInv'
  BY <1>1, <1>2 DEF CoreInv, PhaseInv
<1>9. LifeInv'
  <2>1. Referenced'
    BY <1>1, <1>2, <1>3, <1>4 DEF CoreInv, LifeInv, Referenced, Held, Alive, P!Live
  <2>2. EndsOnce'
    BY <1>1, <1>3, <1>4 DEF CoreInv, LifeInv, EndsOnce
  <2>3. RemovedFirst'
    <3>1. Waiting = {}
      BY <1>3, FunctorsTyped DEF CoreInv
    <3> QED
      BY <1>1, <1>2, <1>3, <1>5, <3>1
      DEF CoreInv, LifeInv, RemovedFirst, Ending, Alive, P!Live
  <2>4. Guarded'
    <3>1. \A c : Ending(Pending, c) => Held(Pending, c)
      BY DEF Ending, Held, Ends, IsStrong
    <3> QED
      BY <1>1, <1>2, <1>3, <1>4, <1>5, <3>1 DEF CoreInv, LifeInv, Guarded
  <2> QED
    BY <2>1, <2>2, <2>3, <2>4 DEF LifeInv
<1>10. StateInv'
  BY <1>1, <1>2 DEF CoreInv, StateInv, Counted, Mapped, Watched, Alive, P!Live, Born
<1>11. ActiveInv' /\ AcceptInv'
  BY <1>1, <1>2, Distinct DEF CoreInv, ActiveInv, AcceptInv, Open, Alive, P!Live
<1> QED
  BY <1>6, <1>7, <1>8, <1>9, <1>10, <1>11 DEF CoreInv

-----------------------------------------------------------------------------
(* User code and the peer *)

(* A connection is waiting to be accepted. *)
LEMMA PeerConnectsStep ==
    ASSUME CoreInv, PeerConnects
    PROVE  CoreInv'
<1>1. /\ backlog' = 1 /\ nextConnId_ <= MaxConns
      /\ UNCHANGED <<poller, started_, connections_, nextConnId_, state_, pendingFuntors_>>
      /\ UNCHANGED <<batch, pos, active, eventListSize, cur, todo, pc, under, after, self>>
      /\ UNCHANGED <<ups, downs>>
  BY DEF PeerConnects, server, objects, queue, events, caller, history
<1>2. Pending' = Pending /\ Batch' = Batch /\ Waiting' = Waiting
  BY <1>1 DEF Pending, Batch, Waiting
<1>3. InDispatch' = InDispatch /\ InFunctors' = InFunctors /\ Destroying' = Destroying
  BY <1>1 DEF InDispatch, InFunctors, Destroying
<1>4. TypeServer' /\ TypeQueue' /\ TypeLoop'
  BY <1>1 DEF CoreInv, TypeServer, TypeQueue, TypeLoop
<1>5. PP!Good(poller)'
  BY <1>1, GoodPrime DEF CoreInv
<1>6. PhaseInv'
  BY <1>1, <1>3 DEF CoreInv, PhaseInv
<1>7. LifeInv'
  BY <1>1, <1>2, <1>3
  DEF CoreInv, LifeInv, Referenced, EndsOnce, RemovedFirst, Guarded, Alive, P!Live
<1>8. StateInv'
  BY <1>1, <1>3 DEF CoreInv, StateInv, Counted, Mapped, Watched, Alive, P!Live, Born
<1>9. ActiveInv' /\ AcceptInv'
  BY <1>1, <1>2 DEF CoreInv, ActiveInv, AcceptInv, Open, Alive, P!Live
<1> QED
  BY <1>4, <1>5, <1>6, <1>7, <1>8, <1>9 DEF CoreInv

(* Functors that do not end an open connection c are queued for it, its     *)
(* mask may change but keeps EPOLLIN, and state_ may move between           *)
(* kConnected and kDisConnecting: send, shutdown and handleWrite.           *)
LEMMA OpenStep ==
    ASSUME CoreInv, NEW c \in Conn, Open(c),
           NEW st \in {"kConnected", "kDisConnecting"}, state_' = [state_ EXCEPT ![c] = st],
           NEW fns \in Seq(FunctorSet),
           \A fn \in Range(fns) : fn.c = c /\ ~Ends(fn),
           pendingFuntors_' = pendingFuntors_ \o fns,
           poller'.fd_ = poller.fd_,
           \A d \in Conn : d # c => /\ poller'.index_[d] = poller.index_[d]
                                    /\ poller'.events_[d] = poller.events_[d],
           poller'.index_[c] = P!kAdded, "IN" \in poller'.events_[c],
           UNCHANGED <<connections_, nextConnId_, batch, pos, pc, under, after, self>>,
           UNCHANGED <<ups, downs>>
    PROVE  /\ TypeQueue' /\ LifeInv' /\ StateInv'
           /\ \A d \in Conn : Open(d)' <=> Open(d)
           /\ \A d \in Conn : Ending(Pending, d) => Ending(Pending, d)'
<1>1. TypeQueue'
  BY RangeConcat DEF CoreInv, TypeQueue
<1>2. Batch' = Batch /\ Waiting' = Waiting
  BY DEF Batch, Waiting
<1>3. Pending' = Pending \cup Range(fns)
  BY RangeConcat DEF CoreInv, TypeQueue, Pending
<1>4. \A d \in Conn : Ending(Pending', d) <=> Ending(Pending, d)
  BY <1>3 DEF Ending
<1>5. \A d \in Conn : d # c => (Held(Pending', d) <=> Held(Pending, d))
  BY <1>3 DEF Held
<1>6. /\ InDispatch' = InDispatch /\ Destroying' = Destroying
      /\ \A d \in Conn : Alive(d)' <=> Alive(d)
  BY DEF InDispatch, Destroying, Alive, P!Live
<1>7. /\ state_'[c] = st /\ state_'[c] # "kDisConnected" /\ state_[c] # "kDisConnected"
      /\ \A d \in Conn : d # c => state_'[d] = state_[d]
      /\ c \in connections_
  BY DEF Open, CoreInv, TypeServer
<1>8. Referenced'
  BY <1>2, <1>5, <1>6, <1>7 DEF CoreInv, LifeInv, Referenced
<1>9. EndsOnce'
  <2>1. \A fn \in Pending' \cup Batch' : Ends(fn) => fn \in Pending \cup Batch /\ fn.c \in Conn
    BY <1>2, <1>3, FunctorsTyped DEF CoreInv
  <2>2. \A fn \in Pending' : Ends(fn) => fn \in Pending
    BY <1>3
  <2> QED
    BY <1>6, <1>7, <2>1, <2>2 DEF CoreInv, LifeInv, EndsOnce
<1>10. RemovedFirst'
  BY <1>2, <1>4, <1>6, <1>7 DEF CoreInv, LifeInv, RemovedFirst
<1>11. Guarded'
  <2>1. \A fn \in Pending' : fn \in Pending \/ fn.c = c
    BY <1>3
  <2>2. \A fn \in Pending : fn.c \in Conn
    BY FunctorsTyped DEF CoreInv
  <2> QED
    BY <1>2, <1>4, <1>6, <1>7, <2>1, <2>2 DEF CoreInv, LifeInv, Guarded
<1>12. Counted'
  <2>1. Born(c)
    BY <1>7 DEF CoreInv, LifeInv, Referenced, StateInv, Counted
  <2> QED
    BY <1>6, <1>7, <2>1 DEF CoreInv, StateInv, Counted, Born
<1>13. Mapped'
  BY <1>6, <1>7 DEF CoreInv, StateInv, Mapped, Born
<1>14. Watched'
  BY <1>6, <1>7 DEF CoreInv, StateInv, Watched
<1>15. \A d \in Conn : Open(d)' <=> Open(d)
  BY <1>7 DEF Open
<1>16. \A d \in Conn : Ending(Pending, d) => Ending(Pending, d)'
  BY <1>4 DEF Ending
<1> QED
  BY <1>1, <1>8, <1>9, <1>10, <1>11, <1>12, <1>13, <1>14, <1>15, <1>16 DEF LifeInv, StateInv

(* shutdown() on a connection that is open. *)
LEMMA ShutdownStep ==
    ASSUME CoreInv, NEW c \in Conn, Shutdown(c)
    PROVE  CoreInv'
<1> DEFINE fns == <<Functor("shutdownInLoop", c)>>
<1>1. /\ state_[c] = "kConnected" /\ state_' = [state_ EXCEPT ![c] = "kDisConnecting"]
      /\ pendingFuntors_' = pendingFuntors_ \o fns
      /\ UNCHANGED <<poller, started_, connections_, nextConnId_>>
      /\ UNCHANGED <<batch, pos, active, eventListSize, cur, todo, pc, under, after, self>>
      /\ UNCHANGED <<backlog, ups, downs>>
  BY DEF Shutdown, QueueInLoop, server, events, caller, kernel, history
<1>2. Open(c)
  BY <1>1 DEF Open, CoreInv, StateInv, Mapped
<1>3. fns \in Seq(FunctorSet) /\ \A fn \in Range(fns) : fn.c = c /\ ~Ends(fn)
  <2>1. Functor("shutdownInLoop", c) \in FunctorSet /\ Functor("shutdownInLoop", c).c = c
        /\ ~Ends(Functor("shutdownInLoop", c))
    BY DEF Functor, FunctorSet, Ends
  <2> QED
    BY <2>1 DEF Range
<1>4. poller.index_[c] = P!kAdded /\ "IN" \in poller.events_[c]
  BY <1>2 DEF Open, CoreInv, StateInv, Watched
<1> HIDE DEF fns
<1>5. /\ TypeQueue' /\ LifeInv' /\ StateInv'
      /\ \A d \in Conn : Open(d)' <=> Open(d)
      /\ \A d \in Conn : Ending(Pending, d) => Ending(Pending, d)'
  BY <1>1, <1>2, <1>3, <1>4, OpenStep
<1>6. TypeServer' /\ TypeLoop'
  BY <1>1 DEF CoreInv, TypeServer, TypeLoop
<1>7. PP!Good(poller)'
  BY <1>1, GoodPrime DEF CoreInv
<1>8. PhaseInv'
  BY <1>1 DEF CoreInv, PhaseInv, InDispatch, InFunctors
<1>9. ActiveInv'
  <2>1. \A ch \in DOMAIN active : ch = Acceptor \/ ch \in Conn
    BY DEF CoreInv, TypeLoop, Chans
  <2> QED
    BY <1>1, <1>5, <2>1 DEF CoreInv, ActiveInv
<1>10. AcceptInv'
  BY <1>1 DEF CoreInv, AcceptInv, Alive, P!Live
<1> QED
  BY <1>5, <1>6, <1>7, <1>8, <1>9, <1>10 DEF CoreInv

(* send() on a connection that is open. *)
LEMMA SendStep ==
    ASSUME CoreInv, NEW c \in Conn, NEW len \in 1..MaxSend[c], Send(c, len)
    PROVE  CoreInv'
<1>1. /\ state_[c] = "kConnected"
      /\ UNCHANGED <<started_, connections_, nextConnId_, state_>>
      /\ UNCHANGED <<batch, pos, active, eventListSize, cur, todo, pc, under, after, self>>
      /\ UNCHANGED <<backlog, ups, downs>>
  BY DEF Send, server, events, caller
<1>2. PICK w \in BOOLEAN, h \in BOOLEAN :
        /\ poller' \in {poller, P!EnableWriting(poller, c)}
        /\ pendingFuntors_' = pendingFuntors_ \o
             ((IF w THEN <<Functor("writeComplete", c)>> ELSE <<>>)
              \o (IF h THEN <<Functor("highWaterMark", c)>> ELSE <<>>))
  BY DEF Send, QueueInLoop
<1> DEFINE fns == (IF w THEN <<Functor("writeComplete", c)>> ELSE <<>>)
                  \o (IF h THEN <<Functor("highWaterMark", c)>> ELSE <<>>)
<1>3. Open(c) /\ Alive(c)
  BY <1>1 DEF Open, CoreInv, StateInv, Mapped, LifeInv, Referenced
<1>4. fns \in Seq(FunctorSet) /\ \A fn \in Range(fns) : fn.c = c /\ ~Ends(fn)
  <2>1. /\ \A f \in {"writeComplete", "highWaterMark"} :
             Functor(f, c) \in FunctorSet /\ Functor(f, c).c = c /\ ~Ends(Functor(f, c))
    BY DEF Functor, FunctorSet, Ends
  <2> HIDE DEF fns
  <2> DEFINE g == IF w THEN <<Functor("writeComplete", c)>> ELSE <<>>
             k == IF h THEN <<Functor("highWaterMark", c)>> ELSE <<>>
  <2>2. g \in Seq(FunctorSet) /\ \A fn \in Range(g) : fn.c = c /\ ~Ends(fn)
    BY <2>1 DEF Range
  <2>3. k \in Seq(FunctorSet) /\ \A fn \in Range(k) : fn.c = c /\ ~Ends(fn)
    BY <2>1 DEF Range
  <2>4. fns = g \o k
    BY DEF fns
  <2> HIDE DEF g, k
  <2> QED
    BY <2>2, <2>3, <2>4, RangeConcat
<1>5. pendingFuntors_' = pendingFuntors_ \o fns
  BY <1>2
<1> HIDE DEF fns
<1>6. poller.index_[c] = P!kAdded /\ "IN" \in poller.events_[c]
  BY <1>3 DEF Open, CoreInv, StateInv, Watched
<1>7. /\ PP!Good(poller') /\ poller'.fd_ = poller.fd_
      /\ \A d \in Conn : d # c => /\ poller'.index_[d] = poller.index_[d]
                                  /\ poller'.events_[d] = poller.events_[d]
      /\ poller'.index_[c] = P!kAdded /\ "IN" \in poller'.events_[c]
  <2>1. CASE poller' = poller
    BY <1>6, <2>1 DEF CoreInv
  <2>2. CASE poller' = P!EnableWriting(poller, c)
    <3> DEFINE ev == poller.events_[c] \cup {"OUT"}
    <3>1. /\ poller' = P!UpdateChannel(P!SetEvents(poller, c, ev), c)
      BY <2>2 DEF P!EnableWriting
    <3>2. /\ PP!Good(poller) /\ c \in Chans /\ P!Live(poller, c)
          /\ poller.events_ \in [Chans -> SUBSET {"IN", "OUT"}]
      BY <1>3, GoodTypes, Distinct DEF CoreInv, Alive
    <3>3. ev \in SUBSET {"IN", "OUT"} /\ ev # {} /\ "IN" \in ev
      BY <1>6, <3>2
    <3> HIDE DEF ev
    <3>4. /\ PP!Good(poller') /\ poller'.fd_ = poller.fd_
          /\ poller'.events_ = [poller.events_ EXCEPT ![c] = ev]
          /\ \A d \in Chans : d # c => poller'.index_[d] = poller.index_[d]
          /\ poller'.index_[c] = P!kAdded
      BY <1>6, <3>1, <3>2, <3>3, UpdateOK
    <3> QED
      BY <3>2, <3>3, <3>4, Distinct
  <2> QED
    BY <1>2, <2>1, <2>2
<1>8. "kConnected" \in {"kConnected", "kDisConnecting"}
      /\ state_' = [state_ EXCEPT ![c] = "kConnected"]
  BY <1>1 DEF CoreInv, TypeServer
<1>9. /\ TypeQueue' /\ LifeInv' /\ StateInv'
      /\ \A d \in Conn : Open(d)' <=> Open(d)
      /\ \A d \in Conn : Ending(Pending, d) => Ending(Pending, d)'
  BY <1>1, <1>3, <1>4, <1>5, <1>7, <1>8, OpenStep
<1>10. TypeServer' /\ TypeLoop'
  BY <1>1 DEF CoreInv, TypeServer, TypeLoop
<1>11. PP!Good(poller)'
  BY <1>7, GoodPrime
<1>12. PhaseInv'
  BY <1>1 DEF CoreInv, PhaseInv, InDispatch, InFunctors
<1>13. ActiveInv'
  <2>1. \A ch \in DOMAIN active : ch = Acceptor \/ ch \in Conn
    BY DEF CoreInv, TypeLoop, Chans
  <2> QED
    BY <1>1, <1>9, <2>1 DEF CoreInv, ActiveInv
<1>14. AcceptInv'
  BY <1>1, <1>7 DEF CoreInv, AcceptInv, Alive, P!Live
<1> QED
  BY <1>9, <1>10, <1>11, <1>12, <1>13, <1>14 DEF CoreInv

(* handleClose's closeCallback_ after the connection callback: the map lets *)
(* go of the connection and connectDestroyed keeps it.                      *)
LEMMA ReturnToClose ==
    ASSUME CoreInv, ReturnFromUser, after = "close"
    PROVE  CoreInv'
<1> DEFINE fn == Functor("connectDestroyed", self)
<1>1. /\ pc = "user" /\ pc' = under /\ under' = "none" /\ after' = "none"
      /\ self' = IF under = "destroying" THEN self ELSE NoChan
      /\ connections_' = connections_ \ {self}
      /\ pendingFuntors_' = pendingFuntors_ \o <<fn>>
      /\ UNCHANGED <<poller, started_, nextConnId_, state_>>
      /\ UNCHANGED <<batch, pos, active, eventListSize, cur, todo, backlog, ups, downs>>
  BY DEF ReturnFromUser, RemoveConnection, QueueInLoop, objects, events, kernel, history
<1>2. under = "events" /\ self \in Conn /\ self = cur /\ pc' = "events" /\ self' = NoChan
  BY <1>1 DEF CoreInv, PhaseInv
<1>3. /\ InDispatch /\ InDispatch' /\ ~InFunctors /\ ~InFunctors'
      /\ ~Destroying /\ ~Destroying'
  BY <1>1, <1>2 DEF InDispatch, InFunctors, Destroying
<1>4. self \in connections_ /\ state_[self] = "kDisConnected"
  BY <1>2 DEF CoreInv, StateInv, Mapped
<1>5. fn \in FunctorSet /\ fn.c = self /\ Ends(fn) /\ IsStrong(fn)
  BY <1>2 DEF Functor, FunctorSet, Ends, IsStrong
<1> HIDE DEF fn
<1>6. TypeQueue' /\ Pending' = Pending \cup {fn} /\ fn \in Pending'
  <2>1. <<fn>> \in Seq(FunctorSet) /\ Range(<<fn>>) = {fn}
    BY <1>5 DEF Range
  <2>2. /\ pendingFuntors_ \o <<fn>> \in Seq(FunctorSet)
        /\ Range(pendingFuntors_ \o <<fn>>) = Pending \cup {fn}
    BY <2>1, RangeConcat DEF CoreInv, TypeQueue, Pending
  <2>3. TypeQueue'
    BY <1>1, <2>2 DEF CoreInv, TypeQueue
  <2> QED
    BY <1>1, <2>2, <2>3 DEF Pending
<1>7. Batch' = Batch /\ Waiting' = Waiting /\ Batch = {} /\ Waiting = {}
  BY <1>1, <1>3, FunctorsTyped DEF Batch, Waiting, CoreInv, PhaseInv, Range
<1>8. /\ Held(Pending', self) /\ Ending(Pending', self)
      /\ \A d \in Conn : d # self => /\ Held(Pending', d) <=> Held(Pending, d)
                                     /\ Ending(Pending', d) <=> Ending(Pending, d)
  BY <1>5, <1>6 DEF Held, Ending
<1>9. TypeServer' /\ TypeLoop'
  BY <1>1, <1>2 DEF CoreInv, TypeServer, TypeLoop
<1>10. PP!Good(poller)'
  BY <1>1, GoodPrime DEF CoreInv
<1>11. PhaseInv'
  BY <1>1, <1>2, <1>3 DEF CoreInv, PhaseInv
<1>12. LifeInv'
  <2>1. Referenced'
    BY <1>1, <1>3, <1>4, <1>7, <1>8 DEF CoreInv, LifeInv, Referenced, Alive, P!Live
  <2>2. EndsOnce'
    BY <1>1, <1>3, <1>4, <1>5, <1>6, <1>7 DEF CoreInv, LifeInv, EndsOnce
  <2>3. RemovedFirst'
    BY <1>1, <1>7, <1>8 DEF CoreInv, LifeInv, RemovedFirst, Alive, P!Live
  <2>4. Guarded'
    <3>1. \A x \in Pending : x.c \in Conn
      BY FunctorsTyped DEF CoreInv
    <3> QED
      BY <1>1, <1>3, <1>5, <1>6, <1>7, <1>8, <3>1 DEF CoreInv, LifeInv, Guarded
  <2> QED
    BY <2>1, <2>2, <2>3, <2>4 DEF LifeInv
<1>13. StateInv'
  <2>1. Counted' /\ Watched'
    BY <1>1 DEF CoreInv, StateInv, Counted, Watched, Alive, P!Live, Born
  <2>2. Mapped'
    BY <1>1, <1>3, <1>4 DEF CoreInv, StateInv, Mapped, Born
  <2> QED
    BY <2>1, <2>2 DEF StateInv
<1>14. ActiveInv'
  <2>1. \A ch \in DOMAIN active : ch # self
    BY <1>2 DEF CoreInv, ActiveInv
  <2>2. OneCloses(todo) /\ NoneCloses(todo)
    BY <1>2, <1>4 DEF CoreInv, ActiveInv, Open
  <2>3. \A ch \in DOMAIN active' : ch = Acceptor \/ Open(ch)'
    BY <1>1, <2>1 DEF CoreInv, ActiveInv, Open
  <2>4. Ending(Pending, cur)'
    BY <1>1, <1>2, <1>8 DEF Ending
  <2> QED
    BY <1>1, <2>2, <2>3, <2>4 DEF CoreInv, ActiveInv
<1>15. AcceptInv'
  BY <1>1, <1>2 DEF CoreInv, AcceptInv, Alive, P!Live
<1> QED
  BY <1>6, <1>9, <1>10, <1>11, <1>12, <1>13, <1>14, <1>15 DEF CoreInv

(* connectDestroyed's channel_->remove() after the connection callback: the *)
(* destructor's shared_ptr keeps the connection.                            *)
LEMMA ReturnToRemove ==
    ASSUME CoreInv, ReturnFromUser, after = "remove"
    PROVE  CoreInv'
<1>1. /\ pc = "user" /\ pc' = under /\ under' = "none" /\ after' = "none"
      /\ self' = IF under = "destroying" THEN self ELSE NoChan
      /\ poller' = P!RemoveChannel(poller, self)
      /\ UNCHANGED <<started_, connections_, nextConnId_, state_, pendingFuntors_>>
      /\ UNCHANGED <<batch, pos, active, eventListSize, cur, todo, backlog, ups, downs>>
  BY DEF ReturnFromUser, objects, events, kernel, history
<1>2. /\ under = "destroying" /\ self \in Conn /\ pc' = "destroying" /\ self' = self
  BY <1>1 DEF CoreInv, PhaseInv
<1>3. /\ ~InDispatch /\ ~InDispatch' /\ ~InFunctors /\ ~InFunctors'
      /\ Destroying /\ Destroying'
  BY <1>1, <1>2 DEF InDispatch, InFunctors, Destroying
<1>4. Alive(self) /\ self \notin connections_ /\ self \in Chans
  BY <1>2, <1>3, Distinct DEF CoreInv, LifeInv, Referenced, StateInv, Mapped
<1>5. /\ PP!Good(poller') /\ poller'.fd_ = poller.fd_ /\ poller'.events_ = poller.events_
      /\ poller'.index_ = [poller.index_ EXCEPT ![self] = P!kNew]
  BY <1>1, <1>4, RemoveOK DEF CoreInv, Alive
<1>6. /\ poller'.index_[self] = P!kNew
      /\ \A d \in Conn : d # self => poller'.index_[d] = poller.index_[d]
      /\ \A d \in Chans : Alive(d)' <=> Alive(d)
  BY <1>4, <1>5, GoodTypes, Distinct DEF CoreInv, Alive, P!Live
<1>7. Pending' = Pending /\ Batch' = Batch /\ Waiting' = Waiting
  BY <1>1 DEF Pending, Batch, Waiting
<1>8. TypeServer' /\ TypeQueue' /\ TypeLoop'
  BY <1>1, <1>2 DEF CoreInv, TypeServer, TypeQueue, TypeLoop
<1>9. PP!Good(poller)'
  BY <1>5, GoodPrime
<1>10. PhaseInv'
  BY <1>1, <1>2, <1>3 DEF CoreInv, PhaseInv
<1>11. LifeInv'
  <2>1. Referenced'
    BY <1>1, <1>2, <1>3, <1>6, <1>7, Distinct DEF CoreInv, LifeInv, Referenced
  <2>2. EndsOnce'
    BY <1>1, <1>2, <1>3, <1>7 DEF CoreInv, LifeInv, EndsOnce
  <2>3. RemovedFirst'
    BY <1>1, <1>6, <1>7, Distinct DEF CoreInv, LifeInv, RemovedFirst
  <2> QED
    BY <1>3, <2>1, <2>2, <2>3 DEF LifeInv, Guarded
<1>12. StateInv'
  <2>1. Counted'
    BY <1>1, <1>6, Distinct DEF CoreInv, StateInv, Counted, Born
  <2>2. Mapped'
    BY <1>1, <1>2, <1>3 DEF CoreInv, StateInv, Mapped, Born
  <2>3. Watched'
    BY <1>1, <1>4, <1>5, <1>6, Distinct DEF CoreInv, StateInv, Watched
  <2> QED
    BY <2>1, <2>2, <2>3 DEF StateInv
<1>13. ActiveInv'
  BY <1>1, <1>7 DEF CoreInv, ActiveInv, Open
<1>14. AcceptInv'
  BY <1>1, <1>2, <1>6, Distinct DEF CoreInv, AcceptInv
<1> QED
  BY <1>8, <1>9, <1>10, <1>11, <1>12, <1>13, <1>14 DEF CoreInv

(* User code returns to a caller that has nothing left to do. *)
LEMMA ReturnToNothing ==
    ASSUME CoreInv, ReturnFromUser, after = "none"
    PROVE  CoreInv'
<1>1. /\ pc = "user" /\ pc' = under /\ under' = "none" /\ after' = "none"
      /\ self' = IF under = "destroying" THEN self ELSE NoChan
      /\ UNCHANGED <<poller, started_, connections_, nextConnId_, state_, pendingFuntors_>>
      /\ UNCHANGED <<batch, pos, active, eventListSize, cur, todo, backlog, ups, downs>>
  BY DEF ReturnFromUser, objects, events, kernel, history
<1>2. under \in {"events", "functors", "destroying"}
  BY <1>1 DEF CoreInv, PhaseInv, TypeLoop
<1>3. InDispatch' = InDispatch /\ InFunctors' = InFunctors /\ Destroying' = Destroying
  BY <1>1, <1>2 DEF InDispatch, InFunctors, Destroying
<1>4. Pending' = Pending /\ Batch' = Batch /\ Waiting' = Waiting
  BY <1>1 DEF Pending, Batch, Waiting
<1>5. Destroying <=> under = "destroying"
  BY <1>1 DEF Destroying
<1>6. TypeServer' /\ TypeQueue' /\ TypeLoop'
  BY <1>1, <1>2 DEF CoreInv, TypeServer, TypeQueue, TypeLoop
<1>7. PP!Good(poller)'
  BY <1>1, GoodPrime DEF CoreInv
<1>8. PhaseInv'
  BY <1>1, <1>2, <1>3 DEF CoreInv, PhaseInv
<1>9. LifeInv' /\ StateInv'
  BY <1>1, <1>3, <1>4, <1>5, Distinct, ControlStep
<1>10. ActiveInv' /\ AcceptInv'
  BY <1>1, <1>2, <1>4 DEF CoreInv, ActiveInv, AcceptInv, Open, Alive, P!Live
<1> QED
  BY <1>6, <1>7, <1>8, <1>9, <1>10 DEF CoreInv

LEMMA ReturnStep ==
    ASSUME CoreInv, ReturnFromUser
    PROVE  CoreInv'
  BY ReturnToClose, ReturnToRemove, ReturnToNothing DEF CoreInv, TypeLoop

-----------------------------------------------------------------------------
(* The owner: start() and the destructor *)

LEMMA StartStep ==
    ASSUME CoreInv, Start
    PROVE  CoreInv'
<1>1. /\ pc = "outside" /\ started_' = TRUE /\ poller' = P!EnableReading(poller, Acceptor)
      /\ UNCHANGED <<connections_, nextConnId_, state_, pendingFuntors_>>
      /\ UNCHANGED <<batch, pos, active, eventListSize, cur, todo, pc, under, after, self>>
      /\ UNCHANGED <<backlog, ups, downs>>
  BY DEF Start, objects, queue, events, caller, kernel, history
<1>2. /\ PP!Good(poller') /\ poller'.fd_ = poller.fd_
      /\ \A d \in Conn : /\ poller'.index_[d] = poller.index_[d]
                         /\ poller'.events_[d] = poller.events_[d]
  <2> DEFINE ev == poller.events_[Acceptor] \cup {"IN"}
  <2>1. /\ PP!Good(poller) /\ P!Live(poller, Acceptor)
        /\ poller.events_ \in [Chans -> SUBSET {"IN", "OUT"}]
    BY <1>1, GoodTypes DEF CoreInv, AcceptInv, Alive
  <2>2. ev \in SUBSET {"IN", "OUT"}
    BY <2>1, Distinct
  <2>3. poller' = P!UpdateChannel(P!SetEvents(poller, Acceptor, ev), Acceptor)
    BY <1>1 DEF P!EnableReading
  <2> HIDE DEF ev
  <2>4. /\ PP!Good(poller') /\ poller'.fd_ = poller.fd_
        /\ poller'.events_ = [poller.events_ EXCEPT ![Acceptor] = ev]
        /\ \A d \in Chans : d # Acceptor => poller'.index_[d] = poller.index_[d]
    BY <2>1, <2>2, <2>3, UpdateOK, Distinct
  <2> QED
    BY <2>1, <2>4, Distinct
<1>3. \A d \in Chans : Alive(d)' <=> Alive(d)
  BY <1>2 DEF Alive, P!Live
<1>4. Pending' = Pending /\ Batch' = Batch /\ Waiting' = Waiting
  BY <1>1 DEF Pending, Batch, Waiting
<1>5. InDispatch' = InDispatch /\ InFunctors' = InFunctors /\ Destroying' = Destroying
  BY <1>1 DEF InDispatch, InFunctors, Destroying
<1>6. TypeServer' /\ TypeQueue' /\ TypeLoop'
  BY <1>1 DEF CoreInv, TypeServer, TypeQueue, TypeLoop
<1>7. PP!Good(poller)'
  BY <1>2, GoodPrime
<1>8. PhaseInv'
  BY <1>1, <1>5 DEF CoreInv, PhaseInv
<1>9. LifeInv'
  <2>1. Referenced'
    BY <1>1, <1>3, <1>4, <1>5, Distinct DEF CoreInv, LifeInv, Referenced
  <2>2. EndsOnce' /\ Guarded'
    BY <1>1, <1>4, <1>5 DEF CoreInv, LifeInv, EndsOnce, Guarded
  <2>3. RemovedFirst'
    BY <1>1, <1>2, <1>3, <1>4, Distinct DEF CoreInv, LifeInv, RemovedFirst
  <2> QED
    BY <2>1, <2>2, <2>3 DEF LifeInv
<1>10. StateInv'
  BY <1>1, <1>2, <1>3, <1>5, Distinct DEF CoreInv, StateInv, Counted, Mapped, Watched, Born
<1>11. ActiveInv' /\ AcceptInv'
  BY <1>1, <1>3, <1>4, Distinct DEF CoreInv, ActiveInv, AcceptInv, Open
<1> QED
  BY <1>6, <1>7, <1>8, <1>9, <1>10, <1>11 DEF CoreInv

(* ~TcpServer takes over a connection and calls connectDestroyed. *)
LEMMA DestroyConnectionStep ==
    ASSUME CoreInv, NEW c \in Conn, DestroyConnection(c)
    PROVE  CoreInv'
<1>1. /\ pc = "destroying" /\ self = NoChan /\ c \in connections_
      /\ connections_' = connections_ \ {c} /\ self' = c
      /\ UNCHANGED <<started_, nextConnId_, pendingFuntors_, batch, pos>>
      /\ UNCHANGED <<active, eventListSize, cur, todo, backlog, ups>>
  BY DEF DestroyConnection, ConnectDestroyed, CallUser, queue, events, kernel
<1>2. \/ /\ state_[c] = "kConnected" /\ state_' = [state_ EXCEPT ![c] = "kDisConnected"]
         /\ poller' = P!DisableAll(poller, c) /\ downs' = [downs EXCEPT ![c] = @ + 1]
         /\ pc' = "user" /\ under' = "destroying" /\ after' = "remove"
      \/ /\ state_[c] # "kConnected" /\ poller' = P!RemoveChannel(poller, c)
         /\ UNCHANGED <<state_, downs, pc, under, after>>
  BY DEF DestroyConnection, ConnectDestroyed, CallUser
<1>3. /\ after = "none" /\ under = "none" /\ cur = NoChan /\ DOMAIN active = {}
      /\ batch = <<>> /\ pos = 1
      /\ ~InDispatch /\ ~InDispatch' /\ ~InFunctors /\ ~InFunctors'
      /\ Destroying /\ Destroying'
  BY <1>1, <1>2 DEF CoreInv, PhaseInv, InDispatch, InFunctors, Destroying
<1>4. state_[c] # "kDisConnected" /\ state_[c] # "kConnecting" /\ Alive(c) /\ c \in Chans
  BY <1>1, <1>3, Distinct DEF CoreInv, LifeInv, Referenced, StateInv, Counted, Mapped
<1>5. /\ PP!Good(poller') /\ poller'.fd_ = poller.fd_
      /\ \A d \in Conn : d # c => /\ poller'.index_[d] = poller.index_[d]
                                  /\ poller'.events_[d] = poller.events_[d]
      /\ poller'.index_[c] = P!kNew \/ after' = "remove"
      /\ poller'.events_[c] = {} \/ state_'[c] # "kDisConnected"
  <2>1. /\ PP!Good(poller) /\ P!Live(poller, c)
        /\ poller.events_ \in [Chans -> SUBSET {"IN", "OUT"}]
        /\ poller.index_ \in [Chans -> {P!kNew, P!kAdded, P!kDeleted}]
    BY <1>4, GoodTypes DEF CoreInv, Alive
  <2>2. CASE state_[c] = "kConnected"
    <3>1. poller' = P!UpdateChannel(P!SetEvents(poller, c, {}), c)
      BY <1>2, <2>2 DEF P!DisableAll
    <3>2. /\ PP!Good(poller') /\ poller'.fd_ = poller.fd_
          /\ poller'.events_ = [poller.events_ EXCEPT ![c] = {}]
          /\ \A d \in Chans : d # c => poller'.index_[d] = poller.index_[d]
      BY <1>4, <2>1, <3>1, UpdateOK
    <3> QED
      BY <1>2, <1>4, <2>1, <2>2, <3>2, Distinct
  <2>3. CASE state_[c] # "kConnected"
    <3>1. poller' = P!RemoveChannel(poller, c) /\ state_' = state_
      BY <1>2, <2>3
    <3>2. /\ PP!Good(poller') /\ poller'.fd_ = poller.fd_ /\ poller'.events_ = poller.events_
          /\ poller'.index_ = [poller.index_ EXCEPT ![c] = P!kNew]
      BY <1>4, <2>1, <3>1, RemoveOK
    <3> QED
      BY <1>4, <2>1, <3>1, <3>2, Distinct
  <2> QED
    BY <2>2, <2>3
<1>6. \A d \in Chans : Alive(d)' <=> Alive(d)
  BY <1>5 DEF Alive, P!Live
<1>7. /\ \A d \in Conn : d # c => state_'[d] = state_[d] /\ downs'[d] = downs[d]
      /\ \/ state_'[c] = state_[c] /\ downs'[c] = downs[c] /\ state_[c] = "kDisConnecting"
         \/ state_'[c] = "kDisConnected" /\ downs'[c] = downs[c] + 1
      /\ state_' \in [Conn -> {"kConnecting", "kConnected", "kDisConnecting", "kDisConnected"}]
      /\ downs' \in [Conn -> Nat]
  BY <1>2, <1>4 DEF CoreInv, TypeServer
<1>8. Pending' = Pending /\ Batch' = Batch /\ Waiting' = Waiting /\ Batch = {} /\ Waiting = {}
  BY <1>1, <1>3, FunctorsTyped DEF CoreInv, Pending, Batch, Waiting, Range
<1>9. TypeServer' /\ TypeQueue'
  BY <1>1, <1>7 DEF CoreInv, TypeServer, TypeQueue
<1>10. TypeLoop' /\ PhaseInv'
  BY <1>1, <1>2, <1>3 DEF CoreInv, TypeLoop, PhaseInv
<1>11. PP!Good(poller)'
  BY <1>5, GoodPrime
<1>12. LifeInv'
  <2>1. Referenced'
    BY <1>1, <1>3, <1>4, <1>6, <1>8, Distinct DEF CoreInv, LifeInv, Referenced
  <2>2. EndsOnce'
    <3>1. \A fn \in Pending \cup Batch : fn.c \in Conn
      BY FunctorsTyped DEF CoreInv
    <3>2. \A fn \in Pending \cup Batch : Ends(fn) => fn.c # c
      BY <1>1 DEF CoreInv, LifeInv, EndsOnce
    <3>3. \A fn \in Pending : ~Ends(fn)
      BY <1>1, <1>3 DEF CoreInv, LifeInv, EndsOnce
    <3> QED
      BY <1>1, <1>7, <1>8, <3>1, <3>2, <3>3 DEF CoreInv, LifeInv, EndsOnce
  <2>3. RemovedFirst'
    BY <1>1, <1>3, <1>5, <1>6, <1>8, Distinct DEF CoreInv, LifeInv, RemovedFirst
  <2> QED
    BY <1>3, <2>1, <2>2, <2>3 DEF LifeInv, Guarded
<1>13. StateInv'
  <2>1. Counted'
    BY <1>1, <1>4, <1>6, <1>7, Distinct DEF CoreInv, StateInv, Counted, Born
  <2>2. Mapped'
    BY <1>1, <1>2, <1>3, <1>4, <1>7 DEF CoreInv, StateInv, Mapped, Born
  <2>3. Watched'
    BY <1>1, <1>5, <1>6, <1>7, Distinct DEF CoreInv, StateInv, Watched
  <2> QED
    BY <2>1, <2>2, <2>3 DEF StateInv
<1>14. ActiveInv' /\ AcceptInv'
  BY <1>1, <1>2, <1>3, <1>6, Distinct DEF CoreInv, ActiveInv, AcceptInv
<1> QED
  BY <1>9, <1>10, <1>11, <1>12, <1>13, <1>14 DEF CoreInv

(* The destructor's shared_ptr goes out of scope: the channel has been      *)
(* removed from the poller, whether or not this was the last reference.     *)
LEMMA DropConnectionStep ==
    ASSUME CoreInv, DropConnection
    PROVE  CoreInv'
<1>1. /\ pc = "destroying" /\ self # NoChan /\ self' = NoChan
      /\ poller' = Reap(poller, self, Holds(pendingFuntors_, self))
      /\ UNCHANGED <<started_, connections_, nextConnId_, state_, pendingFuntors_>>
      /\ UNCHANGED <<batch, pos, active, eventListSize, cur, todo, pc, under, after>>
      /\ UNCHANGED <<backlog, ups, downs>>
  BY DEF DropConnection, server, objects, queue, events, kernel, history
<1>2. /\ self \in Conn /\ self \in Chans /\ after = "none" /\ under = "none" /\ batch = <<>>
      /\ ~InDispatch /\ ~InDispatch' /\ ~InFunctors /\ ~InFunctors'
      /\ Destroying /\ Destroying'
  BY <1>1, Distinct DEF CoreInv, TypeLoop, PhaseInv, InDispatch, InFunctors, Destroying
<1>0. PICK c \in Conn : c = self /\ c \in Chans
  BY <1>2
<1>3. Alive(c) /\ c \notin connections_
  BY <1>0, <1>2 DEF CoreInv, LifeInv, Referenced, StateInv, Mapped
<1>4. Pending' = Pending /\ Batch' = Batch /\ Waiting' = Waiting /\ Batch = {} /\ Waiting = {}
  BY <1>1, <1>2, FunctorsTyped DEF CoreInv, Pending, Batch, Waiting, Range
<1>5. poller.index_[c] = P!kNew
  <2>1. ~Ending(Pending, c) /\ ~Ending(Waiting, c)
    BY <1>1, <1>2, <1>4 DEF CoreInv, LifeInv, EndsOnce, Ending
  <2> QED
    BY <1>0, <1>2, <1>3, <2>1 DEF CoreInv, LifeInv, RemovedFirst
<1>6. /\ PP!Good(poller')
      /\ poller'.events_ = poller.events_ /\ poller'.index_ = poller.index_
      /\ \A d \in Chans : d # c => (Alive(d)' <=> Alive(d))
      /\ Alive(c)' <=> Held(Pending, c)
  <2>1. CASE Held(Pending, c)
    <3>1. poller' = poller
      BY <1>0, <1>1, <2>1, HoldsHeld DEF Reap
    <3> QED
      BY <1>1, <1>3, <2>1, <3>1 DEF CoreInv, Alive, P!Live
  <2>2. CASE ~Held(Pending, c)
    <3>1. poller' = P!Destroy(poller, c)
      BY <1>0, <1>1, <2>2, HoldsHeld DEF Reap
    <3>2. /\ PP!Good(poller') /\ poller'.fd_ = [poller.fd_ EXCEPT ![c] = NoFd]
          /\ poller'.events_ = poller.events_ /\ poller'.index_ = poller.index_
      BY <1>0, <1>3, <1>5, <3>1, DestroyOK DEF CoreInv, Alive
    <3>3. poller.fd_ \in [Chans -> Fd \cup {NoFd}]
      BY GoodTypes DEF CoreInv
    <3>4. /\ poller'.fd_[c] = NoFd
          /\ \A d \in Chans : d # c => poller'.fd_[d] = poller.fd_[d]
      BY <1>0, <3>2, <3>3
    <3> QED
      BY <2>2, <3>2, <3>4 DEF Alive, P!Live
  <2> QED
    BY <2>1, <2>2
<1>7. TypeServer' /\ TypeQueue' /\ TypeLoop' /\ PhaseInv'
  BY <1>1, <1>2 DEF CoreInv, TypeServer, TypeQueue, TypeLoop, PhaseInv
<1>8. PP!Good(poller)'
  BY <1>6, GoodPrime
<1>9. \A d \in Conn : d # c => (Alive(d)' <=> Alive(d))
  BY <1>6, Distinct
<1>10. LifeInv'
  <2>1. Referenced'
    <3> SUFFICES ASSUME NEW d \in Conn
                 PROVE  Alive(d)' <=> d \in connections_ \/ Held(Pending, d)
      BY <1>1, <1>2, <1>4, Distinct DEF Referenced, Held
    <3>1. CASE d = c
      BY <1>3, <1>6, <3>1
    <3>2. CASE d # c
      BY <1>0, <1>2, <1>4, <1>9, <3>2 DEF CoreInv, LifeInv, Referenced, Held
    <3> QED
      BY <3>1, <3>2
  <2>2. EndsOnce'
    BY <1>1, <1>2, <1>4 DEF CoreInv, LifeInv, EndsOnce
  <2>3. RemovedFirst'
    BY <1>1, <1>2, <1>4, <1>5, <1>6, <1>9 DEF CoreInv, LifeInv, RemovedFirst
  <2> QED
    BY <1>2, <2>1, <2>2, <2>3 DEF LifeInv, Guarded
<1>11. StateInv'
  <2>1. \A d \in Conn : Alive(d)' => Alive(d)
    BY <1>3, <1>9
  <2> QED
    BY <1>1, <1>2, <1>6, <2>1, Distinct DEF CoreInv, StateInv, Counted, Mapped, Watched, Born
<1>12. ActiveInv' /\ AcceptInv'
  <2>1. Alive(Acceptor)' <=> Alive(Acceptor)
    BY <1>0, <1>6, Distinct
  <2> QED
    BY <1>1, <1>4, <2>1 DEF CoreInv, ActiveInv, AcceptInv, Open
<1> QED
  BY <1>7, <1>8, <1>10, <1>11, <1>12 DEF CoreInv

(* ~Acceptor. *)
LEMMA DestroyAcceptorStep ==
    ASSUME CoreInv, DestroyAcceptor
    PROVE  CoreInv'
<1>1. /\ pc = "destroying" /\ self = NoChan /\ connections_ = {} /\ pc' = "gone"
      /\ UNCHANGED <<started_, connections_, nextConnId_, state_, pendingFuntors_>>
      /\ UNCHANGED <<batch, pos, active, eventListSize, cur, todo, under, after, self>>
      /\ UNCHANGED <<backlog, ups, downs>>
  BY DEF DestroyAcceptor, server, objects, queue, events, caller, kernel, history
<1>2. /\ after = "none" /\ under = "none" /\ batch = <<>> /\ cur = NoChan
      /\ ~InDispatch /\ ~InDispatch' /\ ~InFunctors /\ ~InFunctors'
      /\ Destroying /\ Destroying'
  BY <1>1 DEF CoreInv, PhaseInv, InDispatch, InFunctors, Destroying
<1>3. /\ PP!Good(poller')
      /\ \A d \in Conn : /\ poller'.fd_[d] = poller.fd_[d]
                         /\ poller'.index_[d] = poller.index_[d]
                         /\ poller'.events_[d] = poller.events_[d]
  <2> DEFINE p1 == P!UpdateChannel(P!SetEvents(poller, Acceptor, {}), Acceptor)
             p2 == P!RemoveChannel(p1, Acceptor)
  <2>1. poller' = P!Destroy(p2, Acceptor)
    BY DEF DestroyAcceptor, P!DisableAll
  <2>2. PP!Good(poller) /\ P!Live(poller, Acceptor) /\ Acceptor \in Chans
    BY <1>1, Distinct DEF CoreInv, AcceptInv, Alive
  <2> HIDE DEF p1, p2
  <2>3. /\ PP!Good(p1) /\ p1.fd_ = poller.fd_
        /\ p1.events_ = [poller.events_ EXCEPT ![Acceptor] = {}]
        /\ \A d \in Chans : d # Acceptor => p1.index_[d] = poller.index_[d]
    BY <2>2, UpdateOK DEF p1
  <2>4. /\ PP!Good(p2) /\ p2.fd_ = p1.fd_ /\ p2.events_ = p1.events_
        /\ p2.index_ = [p1.index_ EXCEPT ![Acceptor] = P!kNew]
    BY <2>2, <2>3, RemoveOK DEF p2, P!Live
  <2>5. p1.index_ \in [Chans -> {P!kNew, P!kAdded, P!kDeleted}]
    BY <2>3, GoodTypes
  <2>6. /\ PP!Good(poller') /\ poller'.fd_ = [p2.fd_ EXCEPT ![Acceptor] = NoFd]
        /\ poller'.events_ = p2.events_ /\ poller'.index_ = p2.index_
    BY <2>1, <2>2, <2>3, <2>4, <2>5, DestroyOK DEF P!Live
  <2>7. /\ poller.fd_ \in [Chans -> Fd \cup {NoFd}]
        /\ poller.events_ \in [Chans -> SUBSET {"IN", "OUT"}]
    BY <2>2, GoodTypes
  <2> QED
    BY <2>3, <2>4, <2>5, <2>6, <2>7, Distinct
<1>4. \A d \in Conn : Alive(d)' <=> Alive(d)
  BY <1>3 DEF Alive, P!Live
<1>5. Pending' = Pending /\ Batch' = Batch /\ Waiting' = Waiting
  BY <1>1 DEF Pending, Batch, Waiting
<1>6. TypeServer' /\ TypeQueue' /\ TypeLoop' /\ PhaseInv'
  BY <1>1, <1>2 DEF CoreInv, TypeServer, TypeQueue, TypeLoop, PhaseInv
<1>7. PP!Good(poller)'
  BY <1>3, GoodPrime
<1>8. LifeInv'
  <2>1. Referenced'
    BY <1>1, <1>2, <1>4, <1>5 DEF CoreInv, LifeInv, Referenced
  <2>2. EndsOnce'
    BY <1>1, <1>2, <1>5 DEF CoreInv, LifeInv, EndsOnce
  <2>3. RemovedFirst'
    BY <1>1, <1>3, <1>4, <1>5 DEF CoreInv, LifeInv, RemovedFirst
  <2> QED
    BY <1>2, <2>1, <2>2, <2>3 DEF LifeInv, Guarded
<1>9. StateInv'
  BY <1>1, <1>2, <1>3, <1>4 DEF CoreInv, StateInv, Counted, Mapped, Watched, Born
<1>10. ActiveInv' /\ AcceptInv'
  <2>1. DOMAIN active = {} /\ cur \notin Conn
    BY <1>1, <1>2, Distinct DEF CoreInv, PhaseInv
  <2> QED
    BY <1>1, <2>1 DEF CoreInv, ActiveInv, AcceptInv
<1> QED
  BY <1>6, <1>7, <1>8, <1>9, <1>10 DEF CoreInv

-----------------------------------------------------------------------------
(* doPendingFunctors *)

(* connectDestroyed finds the connection closed, and removes its channel;   *)
(* shutdownInLoop leaves the core alone; the others call user code.         *)
LEMMA RunFunctorStep ==
    ASSUME CoreInv, RunFunctor
    PROVE  CoreInv'
<1> DEFINE fn == batch[pos]
<1>1. /\ pc = "functors" /\ pos <= Len(batch) /\ pos' = pos + 1
      /\ UNCHANGED <<started_, connections_, nextConnId_, pendingFuntors_, batch>>
      /\ UNCHANGED <<active, eventListSize, cur, todo, backlog, ups>>
  BY DEF RunFunctor, server, events
<1>2. \/ fn.f = "connectDestroyed" /\ ConnectDestroyed(fn.c, "functors")
      \/ fn.f = "shutdownInLoop" /\ UNCHANGED <<poller, state_, downs, pc, under, after, self>>
      \/ /\ fn.f \notin {"connectDestroyed", "shutdownInLoop"}
         /\ CallUser("functors", "none", fn.c) /\ UNCHANGED <<poller, state_, downs>>
  BY DEF RunFunctor, caller
<1>3. /\ after = "none" /\ under = "none" /\ self = NoChan /\ cur = NoChan
      /\ DOMAIN active = {} /\ ~InDispatch /\ InFunctors /\ ~Destroying
  BY <1>1 DEF CoreInv, PhaseInv, InDispatch, InFunctors, Destroying
<1>4. fn \in Waiting /\ fn \in Batch /\ fn.c \in Conn /\ fn.c \in Chans
  <2>1. pos \in pos..Len(batch)
    BY <1>1 DEF CoreInv, TypeQueue
  <2>2. fn \in Waiting
    BY <2>1 DEF Waiting
  <2> QED
    BY <2>2, FunctorsTyped, Distinct DEF CoreInv
<1>5. Pending' = Pending /\ Batch' = Batch /\ Waiting = Waiting' \cup {fn}
  <2>1. Pending' = Pending /\ Batch' = Batch
    BY <1>1 DEF Pending, Batch
  <2>2. Waiting' = {batch[i] : i \in (pos + 1)..Len(batch)}
    BY <1>1 DEF Waiting
  <2>3. pos..Len(batch) = {pos} \cup ((pos + 1)..Len(batch))
    BY <1>1 DEF CoreInv, TypeQueue
  <2>4. Waiting = {batch[i] : i \in {pos} \cup ((pos + 1)..Len(batch))}
    BY <2>3 DEF Waiting
  <2> QED
    BY <2>1, <2>2, <2>4
<1> HIDE DEF fn
<1>6. TypeQueue'
  BY <1>1 DEF CoreInv, TypeQueue
<1>7. CASE Ends(fn)
  <2>1. fn.c \notin connections_ /\ state_[fn.c] = "kDisConnected" /\ Alive(fn.c)
    <3>1. Held(Batch, fn.c)
      BY <1>4, <1>7 DEF Held, Ends, IsStrong
    <3> QED
      BY <1>4, <1>7, <3>1 DEF CoreInv, LifeInv, EndsOnce, Referenced
  <2>2. /\ poller' = P!RemoveChannel(poller, fn.c) /\ self' = NoChan
        /\ UNCHANGED <<state_, downs, pc, under, after>>
    BY <1>2, <1>7, <2>1 DEF ConnectDestroyed, Ends
  <2> PICK c \in Conn : c = fn.c
    BY <1>4
  <2>3. /\ PP!Good(poller') /\ poller'.fd_ = poller.fd_ /\ poller'.events_ = poller.events_
        /\ poller'.index_ = [poller.index_ EXCEPT ![c] = P!kNew]
    BY <1>4, <2>1, <2>2, RemoveOK DEF CoreInv, Alive
  <2>4. /\ poller'.index_[c] = P!kNew
        /\ \A d \in Conn : d # c => poller'.index_[d] = poller.index_[d]
        /\ \A d \in Chans : Alive(d)' <=> Alive(d)
    BY <2>3, GoodTypes, Distinct DEF CoreInv, Alive, P!Live
  <2>5. /\ ~InDispatch' /\ InFunctors' /\ ~Destroying'
    BY <1>1, <1>3, <2>2 DEF InDispatch, InFunctors, Destroying
  <2>6. TypeServer' /\ TypeLoop' /\ PhaseInv'
    BY <1>1, <1>3, <2>2, <2>5 DEF CoreInv, TypeServer, TypeLoop, PhaseInv
  <2>7. PP!Good(poller)'
    BY <2>3, GoodPrime
  <2>8. LifeInv'
    <3>1. Referenced'
      BY <1>1, <1>3, <1>5, <2>4, <2>5, Distinct DEF CoreInv, LifeInv, Referenced
    <3>2. EndsOnce'
      BY <1>1, <1>3, <1>5, <2>2, <2>5 DEF CoreInv, LifeInv, EndsOnce
    <3>3. \A d \in Conn : d # c => (Ending(Waiting', d) <=> Ending(Waiting, d))
      BY <1>5 DEF Ending
    <3>4. RemovedFirst'
      BY <1>1, <1>3, <1>5, <2>2, <2>4, <3>3, Distinct DEF CoreInv, LifeInv, RemovedFirst
    <3>5. Guarded'
      BY <1>1, <1>3, <1>5, <2>5 DEF CoreInv, LifeInv, Guarded
    <3> QED
      BY <3>1, <3>2, <3>4, <3>5 DEF LifeInv
  <2>9. StateInv'
    <3>1. Counted'
      BY <1>1, <2>2, <2>4, Distinct DEF CoreInv, StateInv, Counted, Born
    <3>2. Mapped'
      BY <1>1, <1>3, <2>2, <2>5 DEF CoreInv, StateInv, Mapped, Born
    <3>3. Watched'
      BY <1>1, <2>1, <2>2, <2>3, <2>4, Distinct DEF CoreInv, StateInv, Watched
    <3> QED
      BY <3>1, <3>2, <3>3 DEF StateInv
  <2>10. ActiveInv' /\ AcceptInv'
    BY <1>1, <1>3, <2>2, <2>4, Distinct DEF CoreInv, ActiveInv, AcceptInv
  <2> QED
    BY <1>6, <2>6, <2>7, <2>8, <2>9, <2>10 DEF CoreInv
<1>8. CASE ~Ends(fn)
  <2>1. /\ UNCHANGED <<poller, state_, downs>> /\ after' = "none"
        /\ \/ UNCHANGED <<pc, under, self>>
           \/ pc' = "user" /\ under' = "functors" /\ self' = fn.c
    BY <1>2, <1>3, <1>8 DEF CallUser, Ends
  <2>2. ~InDispatch' /\ InFunctors' /\ ~Destroying'
    BY <1>1, <1>3, <2>1 DEF InDispatch, InFunctors, Destroying
  <2>3. \A c \in Conn : Ending(Waiting, c) => Ending(Waiting', c)
    BY <1>5, <1>8 DEF Ending
  <2>4. TypeServer' /\ TypeLoop' /\ PhaseInv'
    BY <1>1, <1>3, <1>4, <2>1, <2>2 DEF CoreInv, TypeServer, TypeLoop, PhaseInv
  <2>5. PP!Good(poller)'
    BY <2>1, GoodPrime DEF CoreInv
  <2>6. LifeInv' /\ StateInv'
    BY <1>1, <1>3, <1>5, <2>1, <2>2, <2>3, ControlStep
  <2>7. ActiveInv' /\ AcceptInv'
    BY <1>1, <1>3, <2>1, Distinct DEF CoreInv, ActiveInv, AcceptInv, Alive, P!Live
  <2> QED
    BY <1>6, <2>4, <2>5, <2>6, <2>7 DEF CoreInv
<1> QED
  BY <1>7, <1>8

(* A functor that has run is released: where it held the last reference,    *)
(* the channel has been removed from the poller.                            *)
LEMMA ReleaseFunctorStep ==
    ASSUME CoreInv, ReleaseFunctor
    PROVE  CoreInv'
<1>1. /\ pc = "functors" /\ pos > Len(batch) /\ batch # <<>> /\ batch' = Tail(batch)
      /\ UNCHANGED <<started_, connections_, nextConnId_, state_, pendingFuntors_, pos>>
      /\ UNCHANGED <<active, eventListSize, cur, todo, pc, under, after, self>>
      /\ UNCHANGED <<backlog, ups, downs>>
  BY DEF ReleaseFunctor, server, objects, events, caller, kernel, history
<1>2. /\ after = "none" /\ under = "none" /\ self = NoChan /\ cur = NoChan
      /\ DOMAIN active = {} /\ ~InDispatch /\ ~InDispatch' /\ InFunctors /\ InFunctors'
      /\ ~Destroying /\ ~Destroying'
  BY <1>1 DEF CoreInv, PhaseInv, InDispatch, InFunctors, Destroying
<1>3. TypeQueue' /\ Pending' = Pending
  BY <1>1 DEF CoreInv, TypeQueue, Pending
<1>4. Waiting = {} /\ Waiting' = {}
  BY <1>1 DEF CoreInv, TypeQueue, Waiting
<1>5. Batch = Batch' \cup {Head(batch)}
  <2>1. /\ Len(batch) \in Nat /\ Len(batch) >= 1 /\ Head(batch) = batch[1]
        /\ DOMAIN batch = 1..Len(batch) /\ DOMAIN Tail(batch) = 1..(Len(batch) - 1)
        /\ \A i \in 1..(Len(batch) - 1) : Tail(batch)[i] = batch[i + 1]
    BY <1>1 DEF CoreInv, TypeQueue
  <2>2. Batch' = {batch[i + 1] : i \in 1..(Len(batch) - 1)}
    BY <1>1, <2>1 DEF Batch, Range
  <2>3. \A i \in 2..Len(batch) : i - 1 \in 1..(Len(batch) - 1) /\ (i - 1) + 1 = i
    BY <2>1
  <2>4. \A i \in 1..Len(batch) : i = 1 \/ i \in 2..Len(batch)
    BY <2>1
  <2>5. Batch = {batch[i] : i \in 1..Len(batch)} /\ 1 \in 1..Len(batch)
    BY <2>1 DEF Batch, Range
  <2>6. \A i \in 1..(Len(batch) - 1) : i + 1 \in 1..Len(batch)
    BY <2>1
  <2> QED
    BY <2>1, <2>2, <2>3, <2>4, <2>5, <2>6
<1>6. PICK c \in Conn : c = Head(batch).c /\ c \in Chans
  BY <1>5, FunctorsTyped, Distinct DEF CoreInv
<1>7. Holds(Tail(batch), c) <=> Held(Batch', c)
  BY <1>1 DEF Holds, Held, Batch, Range
<1> DEFINE last == /\ IsStrong(Head(batch)) /\ Alive(c)
                   /\ ~(c \in connections_ \/ Held(Batch', c) \/ Held(Pending, c))
<1>8. poller' = IF last THEN P!Destroy(poller, c) ELSE poller
  BY <1>6, <1>7, HoldsHeld DEF ReleaseFunctor, Reap
<1>9. /\ PP!Good(poller')
      /\ poller'.events_ = poller.events_ /\ poller'.index_ = poller.index_
      /\ \A d \in Chans : d # c => (Alive(d)' <=> Alive(d))
      /\ Alive(c)' <=> Alive(c) /\ ~last
  <2>1. CASE last
    <3>1. ~Ending(Pending, c)
      BY <2>1 DEF Ending, Held, Ends, IsStrong
    <3>2. ~Ending(Waiting, c)
      BY <1>4 DEF Ending
    <3>3. poller.index_[c] = P!kNew
      BY <1>2, <2>1, <3>1, <3>2 DEF CoreInv, LifeInv, RemovedFirst
    <3>4. PP!Good(poller) /\ P!Live(poller, c) /\ poller' = P!Destroy(poller, c)
      BY <1>8, <2>1 DEF CoreInv, Alive
    <3>5. /\ PP!Good(poller') /\ poller'.fd_ = [poller.fd_ EXCEPT ![c] = NoFd]
          /\ poller'.events_ = poller.events_ /\ poller'.index_ = poller.index_
      BY <1>6, <3>3, <3>4, DestroyOK
    <3>6. poller.fd_ \in [Chans -> Fd \cup {NoFd}]
      BY <3>4, GoodTypes
    <3>7. /\ poller'.fd_[c] = NoFd
          /\ \A d \in Chans : d # c => poller'.fd_[d] = poller.fd_[d]
      BY <1>6, <3>5, <3>6
    <3> QED
      BY <2>1, <3>5, <3>7 DEF Alive, P!Live
  <2>2. CASE ~last
    BY <1>8, <2>2 DEF CoreInv, Alive, P!Live
  <2> QED
    BY <2>1, <2>2
<1>10. \A d \in Conn : d # c => (Alive(d)' <=> Alive(d))
  BY <1>9, Distinct
<1>11. TypeServer' /\ TypeLoop' /\ PhaseInv'
  BY <1>1, <1>2 DEF CoreInv, TypeServer, TypeLoop, PhaseInv
<1>12. PP!Good(poller)'
  BY <1>9, GoodPrime
<1>13. LifeInv'
  <2>1. Referenced'
    <3> SUFFICES ASSUME NEW d \in Conn
                 PROVE  Alive(d)' <=> d \in connections_ \/ Held(Pending, d) \/ Held(Batch', d)
      BY <1>1, <1>2, <1>3 DEF Referenced, Held
    <3>1. Alive(d) <=> d \in connections_ \/ Held(Pending, d) \/ Held(Batch, d)
      BY <1>2 DEF CoreInv, LifeInv, Referenced
    <3>2. Held(Batch, d) <=> Held(Batch', d) \/ (d = c /\ IsStrong(Head(batch)))
      BY <1>5, <1>6 DEF Held
    <3>3. CASE d = c
      BY <1>9, <3>1, <3>2, <3>3
    <3>4. CASE d # c
      BY <1>10, <3>1, <3>2, <3>4
    <3> QED
      BY <3>3, <3>4
  <2>2. EndsOnce'
    BY <1>1, <1>2, <1>3, <1>5 DEF CoreInv, LifeInv, EndsOnce
  <2>3. RemovedFirst'
    BY <1>1, <1>2, <1>3, <1>4, <1>9, <1>10 DEF CoreInv, LifeInv, RemovedFirst
  <2>4. Guarded'
    BY <1>1, <1>2, <1>3, <1>4 DEF CoreInv, LifeInv, Guarded
  <2> QED
    BY <2>1, <2>2, <2>3, <2>4 DEF LifeInv
<1>14. StateInv'
  <2>1. \A d \in Conn : Alive(d)' => Alive(d)
    BY <1>9, <1>10
  <2> QED
    BY <1>1, <1>2, <1>9, <2>1 DEF CoreInv, StateInv, Counted, Mapped, Watched, Born
<1>15. ActiveInv' /\ AcceptInv'
  <2>1. Alive(Acceptor)' <=> Alive(Acceptor)
    BY <1>9, Distinct
  <2> QED
    BY <1>1, <1>2, <2>1, Distinct DEF CoreInv, ActiveInv, AcceptInv
<1> QED
  BY <1>3, <1>11, <1>12, <1>13, <1>14, <1>15 DEF CoreInv

-----------------------------------------------------------------------------
(* The callbacks of a channel in dispatch *)

(* What holds when a callback is called, and of the callbacks after it. *)
LEMMA InCallBack ==
    ASSUME CoreInv, pc = "events", todo # <<>>, todo' = Tail(todo)
    PROVE  /\ after = "none" /\ under = "none" /\ self = NoChan
           /\ cur \in Chans /\ cur # NoChan /\ batch = <<>>
           /\ InDispatch /\ ~InFunctors /\ ~Destroying
           /\ todo' \in Seq(CallbackSet)
           /\ cur \in Conn => OneCloses(todo') /\ (Open(cur) \/ NoneCloses(todo'))
           /\ cur \in Conn /\ MayClose(Head(todo)) => Open(cur) /\ NoneCloses(todo')
<1>1. /\ after = "none" /\ under = "none" /\ self = NoChan
      /\ InDispatch /\ ~InFunctors /\ ~Destroying
  BY DEF CoreInv, PhaseInv, InDispatch, InFunctors, Destroying
<1>2. cur \in Chans /\ cur # NoChan /\ batch = <<>>
  BY <1>1 DEF CoreInv, PhaseInv, TypeLoop
<1>3. todo \in Seq(CallbackSet)
  BY DEF CoreInv, TypeLoop, CallbackSet
<1>4. cur \in Conn => OneCloses(todo) /\ (Open(cur) \/ NoneCloses(todo))
  BY DEF CoreInv, ActiveInv
<1> QED
  BY <1>1, <1>2, <1>3, <1>4, TailCloses

(* A callback that leaves the core alone: handleError, handleRead that      *)
(* fails, handleWrite of a channel that is not writing, accept4 that fails; *)
(* or one that only calls user code: handleRead with data.                  *)
LEMMA PlainCallBack ==
    ASSUME CoreInv, pc = "events", todo # <<>>, todo' = Tail(todo),
           UNCHANGED <<poller, started_, connections_, nextConnId_, state_, pendingFuntors_>>,
           UNCHANGED <<batch, pos, active, eventListSize, cur, backlog, ups, downs>>,
           \/ UNCHANGED <<pc, under, after, self>>
           \/ cur \in Conn /\ CallUser("events", "none", cur)
    PROVE  CoreInv'
<1>1. /\ after = "none" /\ under = "none" /\ self = NoChan
      /\ cur \in Chans /\ cur # NoChan /\ batch = <<>>
      /\ InDispatch /\ ~InFunctors /\ ~Destroying
      /\ todo' \in Seq(CallbackSet)
      /\ cur \in Conn => OneCloses(todo') /\ (Open(cur) \/ NoneCloses(todo'))
  BY InCallBack
<1>2. /\ after' = "none"
      /\ \/ pc' = "events" /\ under' = "none" /\ self' = NoChan
         \/ pc' = "user" /\ under' = "events" /\ self' = cur /\ cur \in Conn
  BY <1>1 DEF CallUser
<1>3. InDispatch' /\ ~InFunctors' /\ ~Destroying'
  BY <1>2 DEF InDispatch, InFunctors, Destroying
<1>4. Pending' = Pending /\ Batch' = Batch /\ Waiting' = Waiting
  BY DEF Pending, Batch, Waiting
<1>5. TypeServer' /\ TypeQueue' /\ TypeLoop'
  BY <1>1, <1>2 DEF CoreInv, TypeServer, TypeQueue, TypeLoop, CallbackSet
<1>6. PP!Good(poller)'
  BY GoodPrime DEF CoreInv
<1>7. PhaseInv'
  BY <1>1, <1>2, <1>3 DEF CoreInv, PhaseInv
<1>8. LifeInv' /\ StateInv'
  BY <1>1, <1>2, <1>3, <1>4, ControlStep
<1>9. ActiveInv' /\ AcceptInv'
  BY <1>1, <1>2, <1>4 DEF CoreInv, ActiveInv, AcceptInv, Open, Alive, P!Live
<1> QED
  BY <1>5, <1>6, <1>7, <1>8, <1>9 DEF CoreInv

(* handleClose: the only callback that could close the connection again is  *)
(* behind it.                                                               *)
LEMMA HandleCloseStep ==
    ASSUME CoreInv, pc = "events", todo # <<>>, todo' = Tail(todo), MayClose(Head(todo)),
           UNCHANGED <<active, eventListSize, cur>>,
           cur # Acceptor, HandleClose(cur)
    PROVE  CoreInv'
<1>1. /\ state_' = [state_ EXCEPT ![cur] = "kDisConnected"]
      /\ poller' = P!DisableAll(poller, cur) /\ downs' = [downs EXCEPT ![cur] = @ + 1]
      /\ pc' = "user" /\ under' = "events" /\ after' = "close" /\ self' = cur
      /\ UNCHANGED <<started_, connections_, nextConnId_, pendingFuntors_, batch, pos>>
      /\ UNCHANGED <<backlog, ups>>
  BY DEF HandleClose, CallUser, server, queue, kernel
<1>2. /\ after = "none" /\ under = "none" /\ self = NoChan
      /\ cur \in Chans /\ cur # NoChan /\ batch = <<>>
      /\ InDispatch /\ ~InFunctors /\ ~Destroying /\ todo' \in Seq(CallbackSet)
      /\ cur \in Conn => OneCloses(todo')
      /\ cur \in Conn => Open(cur) /\ NoneCloses(todo')
  BY InCallBack
<1>3. cur \in Conn /\ Open(cur) /\ Alive(cur) /\ Born(cur)
  BY <1>2 DEF Chans, Open, CoreInv, LifeInv, Referenced, StateInv, Counted
<1>4. PICK c \in Conn : c = cur /\ cur' = c /\ c \in Chans
  BY <1>2, <1>3
<1>5. /\ PP!Good(poller') /\ poller'.fd_ = poller.fd_
      /\ poller'.events_[c] = {}
      /\ \A d \in Conn : d # c => /\ poller'.index_[d] = poller.index_[d]
                                  /\ poller'.events_[d] = poller.events_[d]
  <2>1. poller' = P!UpdateChannel(P!SetEvents(poller, c, {}), c)
    BY <1>1, <1>4 DEF P!DisableAll
  <2>2. /\ PP!Good(poller) /\ P!Live(poller, c)
        /\ poller.events_ \in [Chans -> SUBSET {"IN", "OUT"}]
    BY <1>3, <1>4, GoodTypes DEF CoreInv, Alive
  <2>3. /\ PP!Good(poller') /\ poller'.fd_ = poller.fd_
        /\ poller'.events_ = [poller.events_ EXCEPT ![c] = {}]
        /\ \A d \in Chans : d # c => poller'.index_[d] = poller.index_[d]
    <3> DEFINE ev == {}
    <3>1. ev \in SUBSET {"IN", "OUT"} /\ c \in Chans
      BY <1>4
    <3>2. poller' = P!UpdateChannel(P!SetEvents(poller, c, ev), c)
      BY <2>1
    <3> HIDE DEF ev
    <3>3. /\ PP!Good(poller') /\ poller'.fd_ = poller.fd_
          /\ poller'.events_ = [poller.events_ EXCEPT ![c] = ev]
          /\ \A d \in Chans : d # c => poller'.index_[d] = poller.index_[d]
      BY <2>2, <3>1, <3>2, UpdateOK
    <3> QED
      BY <3>3 DEF ev
  <2> QED
    BY <1>4, <2>2, <2>3, Distinct
<1>6. \A d \in Chans : Alive(d)' <=> Alive(d)
  BY <1>5 DEF Alive, P!Live
<1>7. /\ state_'[c] = "kDisConnected" /\ downs'[c] = downs[c] + 1
      /\ \A d \in Conn : d # c => state_'[d] = state_[d] /\ downs'[d] = downs[d]
      /\ c \in connections_ /\ state_[c] # "kDisConnected"
      /\ state_' \in [Conn -> {"kConnecting", "kConnected", "kDisConnecting", "kDisConnected"}]
      /\ downs' \in [Conn -> Nat]
  BY <1>1, <1>3, <1>4 DEF CoreInv, TypeServer, Open
<1>8. Pending' = Pending /\ Batch' = Batch /\ Waiting' = Waiting
  BY <1>1 DEF Pending, Batch, Waiting
<1>9. InDispatch' /\ ~InFunctors' /\ ~Destroying'
  BY <1>1 DEF InDispatch, InFunctors, Destroying
<1>10. TypeServer' /\ TypeQueue'
  BY <1>1, <1>7 DEF CoreInv, TypeServer, TypeQueue
<1>11. TypeLoop' /\ PhaseInv'
  BY <1>1, <1>2, <1>3, <1>9 DEF CoreInv, TypeLoop, PhaseInv, CallbackSet
<1>12. PP!Good(poller)'
  BY <1>5, GoodPrime
<1>13. LifeInv'
  <2>1. Referenced'
    BY <1>1, <1>2, <1>6, <1>8, <1>9, Distinct DEF CoreInv, LifeInv, Referenced
  <2>2. EndsOnce'
    <3>1. \A fn \in Pending \cup Batch : fn.c \in Conn
      BY FunctorsTyped DEF CoreInv
    <3> QED
      BY <1>1, <1>7, <1>8, <1>9, <3>1 DEF CoreInv, LifeInv, EndsOnce
  <2>3. RemovedFirst'
    BY <1>1, <1>2, <1>5, <1>6, <1>7, <1>8, Distinct DEF CoreInv, LifeInv, RemovedFirst
  <2>4. Guarded'
    BY <1>1, <1>2, <1>8, <1>9 DEF CoreInv, LifeInv, Guarded
  <2> QED
    BY <2>1, <2>2, <2>3, <2>4 DEF LifeInv
<1>14. StateInv'
  <2>1. Counted'
    BY <1>1, <1>3, <1>4, <1>6, <1>7, Distinct DEF CoreInv, StateInv, Counted, Born
  <2>2. Mapped'
    BY <1>1, <1>2, <1>4, <1>7, <1>9 DEF CoreInv, StateInv, Mapped, Born
  <2>3. Watched'
    BY <1>1, <1>5, <1>6, <1>7, Distinct DEF CoreInv, StateInv, Watched
  <2> QED
    BY <2>1, <2>2, <2>3 DEF StateInv
<1>15. ActiveInv'
  <2>1. \A ch \in DOMAIN active : ch = Acceptor \/ (Open(ch) /\ ch \in Conn /\ ch # c)
    BY <1>4 DEF CoreInv, ActiveInv, TypeLoop, Chans
  <2>2. \A ch \in DOMAIN active' : ch = Acceptor \/ Open(ch)'
    BY <1>1, <1>7, <2>1 DEF Open
  <2> QED
    BY <1>1, <1>2, <1>4, <1>7, <2>2 DEF CoreInv, ActiveInv
<1>16. AcceptInv'
  BY <1>1, <1>6, Distinct DEF CoreInv, AcceptInv
<1> QED
  BY <1>10, <1>11, <1>12, <1>13, <1>14, <1>15, <1>16 DEF CoreInv

(* handleWrite of a channel that is writing, which is that of an open       *)
(* connection.                                                              *)
LEMMA HandleWriteStep ==
    ASSUME CoreInv, pc = "events", todo # <<>>, todo' = Tail(todo),
           UNCHANGED <<active, eventListSize, cur>>,
           cur # Acceptor, HandleWrite(cur), P!IsWriting(poller, cur)
    PROVE  CoreInv'
<1>1. UNCHANGED <<started_, connections_, nextConnId_, state_, batch, pos, pc, under,
                  after, self, backlog, ups, downs>>
  BY DEF HandleWrite, server, caller, history
<1>2. PICK done \in BOOLEAN :
        /\ poller' = IF done THEN P!DisableWriting(poller, cur) ELSE poller
        /\ pendingFuntors_' = pendingFuntors_ \o
             (IF done THEN <<Functor("writeComplete", cur)>> ELSE <<>>)
  BY DEF HandleWrite, QueueInLoop
<1>3. /\ after = "none" /\ under = "none" /\ self = NoChan
      /\ cur \in Chans /\ cur # NoChan /\ batch = <<>>
      /\ InDispatch /\ ~InFunctors /\ ~Destroying /\ todo' \in Seq(CallbackSet)
      /\ cur \in Conn => OneCloses(todo') /\ (Open(cur) \/ NoneCloses(todo'))
  BY InCallBack
<1>4. PICK c \in Conn : c = cur /\ c \in Chans
  BY <1>3 DEF Chans
<1>5. Alive(c) /\ Open(c)
  <2>1. c \in connections_ \/ Held(Pending, c)
    BY <1>4 DEF CoreInv, ActiveInv, Ending, Held, Ends, IsStrong
  <2>2. Alive(c) /\ Born(c)
    BY <2>1 DEF CoreInv, LifeInv, Referenced, StateInv, Counted
  <2>3. state_[c] # "kDisConnected"
    BY <1>4, <2>2 DEF P!IsWriting, CoreInv, StateInv, Watched
  <2> QED
    BY <1>3, <2>2, <2>3 DEF CoreInv, StateInv, Mapped, Open
<1>6. poller.index_[c] = P!kAdded /\ "IN" \in poller.events_[c]
  BY <1>5 DEF Open, CoreInv, StateInv, Watched
<1>7. /\ PP!Good(poller') /\ poller'.fd_ = poller.fd_
      /\ \A d \in Conn : d # c => /\ poller'.index_[d] = poller.index_[d]
                                  /\ poller'.events_[d] = poller.events_[d]
      /\ poller'.index_[c] = P!kAdded /\ "IN" \in poller'.events_[c]
  <2>1. CASE ~done
    BY <1>2, <1>6, <2>1 DEF CoreInv
  <2>2. CASE done
    <3> DEFINE ev == poller.events_[c] \ {"OUT"}
    <3>1. /\ poller' = P!UpdateChannel(P!SetEvents(poller, c, ev), c)
      BY <1>2, <1>4, <2>2 DEF P!DisableWriting
    <3>2. /\ PP!Good(poller) /\ P!Live(poller, c)
          /\ poller.events_ \in [Chans -> SUBSET {"IN", "OUT"}]
      BY <1>5, GoodTypes DEF CoreInv, Alive
    <3>3. ev \in SUBSET {"IN", "OUT"} /\ ev # {} /\ "IN" \in ev
      BY <1>4, <1>6, <3>2
    <3> HIDE DEF ev
    <3>4. /\ PP!Good(poller') /\ poller'.fd_ = poller.fd_
          /\ poller'.events_ = [poller.events_ EXCEPT ![c] = ev]
          /\ \A d \in Chans : d # c => poller'.index_[d] = poller.index_[d]
          /\ poller'.index_[c] = P!kAdded
      BY <1>4, <1>6, <3>1, <3>2, <3>3, UpdateOK
    <3> QED
      BY <1>4, <3>2, <3>3, <3>4, Distinct
  <2> QED
    BY <2>1, <2>2
<1>8. PICK st \in {"kConnected", "kDisConnecting"} : state_' = [state_ EXCEPT ![c] = st]
  <2>1. state_[c] \in {"kConnected", "kDisConnecting"}
    BY <1>5 DEF CoreInv, TypeServer, StateInv, Counted, Open
  <2> QED
    BY <1>1, <2>1 DEF CoreInv, TypeServer
<1>9. PICK fns \in Seq(FunctorSet) : /\ \A fn \in Range(fns) : fn.c = c /\ ~Ends(fn)
                                     /\ pendingFuntors_' = pendingFuntors_ \o fns
  <2> DEFINE fns == IF done THEN <<Functor("writeComplete", c)>> ELSE <<>>
  <2>1. /\ Functor("writeComplete", c) \in FunctorSet /\ Functor("writeComplete", c).c = c
        /\ ~Ends(Functor("writeComplete", c))
    BY DEF Functor, FunctorSet, Ends
  <2>2. fns \in Seq(FunctorSet) /\ \A fn \in Range(fns) : fn.c = c /\ ~Ends(fn)
    BY <2>1 DEF Range
  <2>3. pendingFuntors_' = pendingFuntors_ \o fns
    BY <1>2, <1>4
  <2> HIDE DEF fns
  <2> QED
    BY <2>2, <2>3
<1>10. /\ TypeQueue' /\ LifeInv' /\ StateInv'
       /\ \A d \in Conn : Open(d)' <=> Open(d)
       /\ \A d \in Conn : Ending(Pending, d) => Ending(Pending, d)'
  BY <1>1, <1>5, <1>7, <1>8, <1>9, OpenStep
<1>11. TypeServer' /\ TypeLoop'
  BY <1>1, <1>3 DEF CoreInv, TypeServer, TypeLoop, CallbackSet
<1>12. PP!Good(poller)'
  BY <1>7, GoodPrime
<1>13. PhaseInv'
  BY <1>1, <1>3 DEF CoreInv, PhaseInv, InDispatch, InFunctors
<1>14. ActiveInv'
  <2>1. \A ch \in DOMAIN active : ch = Acceptor \/ ch \in Conn
    BY DEF CoreInv, TypeLoop, Chans
  <2>2. \A ch \in DOMAIN active' : ch = Acceptor \/ Open(ch)'
    BY <1>10, <2>1 DEF CoreInv, ActiveInv
  <2>3. c \in connections_' /\ Open(c)'
    BY <1>1, <1>5, <1>10 DEF Open
  <2> QED
    BY <1>3, <1>4, <2>2, <2>3 DEF CoreInv, ActiveInv
<1>15. AcceptInv'
  BY <1>1, <1>7 DEF CoreInv, AcceptInv, Alive, P!Live
<1> QED
  BY <1>10, <1>11, <1>12, <1>13, <1>14, <1>15 DEF CoreInv

(* newConnection and connectEstablished: the connection enters the map,     *)
(* the poller and the kernel together.                                      *)
LEMMA NewConnectionStep ==
    ASSUME CoreInv, pc = "events", todo # <<>>, todo' = Tail(todo),
           UNCHANGED <<active, eventListSize, cur>>, cur = Acceptor, backlog > 0,
           NEW f \in P!FreeFds(poller), NewConnection(nextConnId_, f)
    PROVE  CoreInv'
<1>1. PICK c \in Conn : c = nextConnId_ /\ c \in Chans
  <2>1. nextConnId_ \in 1..MaxConns
    BY ServerAssumption DEF CoreInv, TypeServer, AcceptInv
  <2> QED
    BY <2>1, Distinct DEF Conn
<1>2. /\ backlog' = backlog - 1 /\ nextConnId_' = nextConnId_ + 1
      /\ connections_' = connections_ \cup {c}
      /\ state_' = [state_ EXCEPT ![c] = "kConnected"]
      /\ poller' = P!EnableReading(P!Construct(poller, c, f), c)
      /\ ups' = [ups EXCEPT ![c] = @ + 1]
      /\ pc' = "user" /\ under' = "events" /\ after' = "none" /\ self' = c
      /\ UNCHANGED <<started_, pendingFuntors_, batch, pos, downs>>
  BY <1>1 DEF NewConnection, CallUser, queue
<1>3. /\ after = "none" /\ under = "none" /\ self = NoChan
      /\ cur \in Chans /\ cur # NoChan /\ batch = <<>>
      /\ InDispatch /\ ~InFunctors /\ ~Destroying /\ todo' \in Seq(CallbackSet)
  BY InCallBack
<1>4. InDispatch' /\ ~InFunctors' /\ ~Destroying'
  BY <1>2 DEF InDispatch, InFunctors, Destroying
<1>5. /\ ~Born(c) /\ ~Alive(c) /\ state_[c] = "kConnecting" /\ ups[c] = 0
      /\ \A d \in Conn : d # c => (Born(d)' <=> Born(d))
      /\ Born(c)'
  <2>1. nextConnId_ \in Nat /\ Conn \subseteq Nat
    BY DEF CoreInv, TypeServer, Conn
  <2>2. ~Born(c) /\ Born(c)' /\ \A d \in Conn : d # c => (Born(d)' <=> Born(d))
    BY <1>1, <1>2, <2>1 DEF Born
  <2> QED
    BY <2>2 DEF CoreInv, StateInv, Counted
<1>6. /\ c \notin connections_ /\ ~Held(Pending, c) /\ ~Held(Batch, c)
  BY <1>5 DEF CoreInv, LifeInv, Referenced
<1>7. /\ PP!Good(poller') /\ poller'.index_[c] = P!kAdded /\ poller'.events_[c] = {"IN"}
      /\ poller'.fd_[c] # NoFd
      /\ \A d \in Chans : d # c => /\ poller'.fd_[d] = poller.fd_[d]
                                   /\ poller'.index_[d] = poller.index_[d]
                                   /\ poller'.events_[d] = poller.events_[d]
  <2>1. PP!Good(poller) /\ ~P!Live(poller, c) /\ c \in Chans
    BY <1>1, <1>5 DEF CoreInv, Alive
  <2> QED
    BY <1>2, <2>1, EstablishOK
<1>8. Alive(c)' /\ \A d \in Chans : d # c => (Alive(d)' <=> Alive(d))
  BY <1>7 DEF Alive, P!Live
<1>9. Pending' = Pending /\ Batch' = Batch /\ Waiting' = Waiting
  BY <1>2 DEF Pending, Batch, Waiting
<1>10. /\ state_'[c] = "kConnected" /\ ups'[c] = 1
       /\ \A d \in Conn : d # c => state_'[d] = state_[d] /\ ups'[d] = ups[d]
       /\ state_' \in [Conn -> {"kConnecting", "kConnected", "kDisConnecting", "kDisConnected"}]
       /\ ups' \in [Conn -> Nat]
  BY <1>2, <1>5 DEF CoreInv, TypeServer
<1>11. TypeServer'
  <2>1. nextConnId_' \in 1..MaxConns + 1 /\ backlog' \in 0..1
    BY <1>1, <1>2, ServerAssumption DEF CoreInv, TypeServer, Conn
  <2> QED
    BY <1>2, <1>10, <2>1 DEF CoreInv, TypeServer
<1>12. TypeQueue' /\ TypeLoop' /\ PhaseInv'
  BY <1>2, <1>3, <1>4 DEF CoreInv, TypeQueue, TypeLoop, PhaseInv, CallbackSet
<1>13. PP!Good(poller)'
  BY <1>7, GoodPrime
<1>14. LifeInv'
  <2>1. Referenced'
    BY <1>2, <1>3, <1>4, <1>8, <1>9, Distinct DEF CoreInv, LifeInv, Referenced
  <2>2. EndsOnce'
    <3>1. \A fn \in Pending \cup Batch : fn.c \in Conn
      BY FunctorsTyped DEF CoreInv
    <3>2. \A fn \in Pending \cup Batch : Ends(fn) => fn.c # c
      BY <1>6 DEF Held, Ends, IsStrong
    <3> QED
      BY <1>2, <1>4, <1>9, <1>10, <3>1, <3>2 DEF CoreInv, LifeInv, EndsOnce
  <2>3. RemovedFirst'
    BY <1>2, <1>3, <1>7, <1>8, <1>9, Distinct DEF CoreInv, LifeInv, RemovedFirst
  <2>4. Guarded'
    BY <1>2, <1>3, <1>4, <1>9 DEF CoreInv, LifeInv, Guarded
  <2> QED
    BY <2>1, <2>2, <2>3, <2>4 DEF LifeInv
<1>15. StateInv'
  <2>1. Counted'
    <3> SUFFICES ASSUME NEW d \in Conn
                 PROVE  /\ Born(d)' <=> state_'[d] # "kConnecting"
                        /\ ups'[d] = (IF Born(d)' THEN 1 ELSE 0)
                        /\ downs'[d] = (IF state_'[d] = "kDisConnected" THEN 1 ELSE 0)
                        /\ ~Born(d)' => ~Alive(d)'
      BY DEF Counted
    <3>1. CASE d = c
      BY <1>2, <1>5, <1>10, <3>1 DEF CoreInv, StateInv, Counted
    <3>2. CASE d # c
      <4>1. /\ Born(d)' <=> Born(d)
            /\ state_'[d] = state_[d] /\ ups'[d] = ups[d] /\ downs'[d] = downs[d]
            /\ Alive(d)' <=> Alive(d)
        BY <1>2, <1>5, <1>8, <1>10, <3>2, Distinct
      <4>2. /\ Born(d) <=> state_[d] # "kConnecting"
            /\ ups[d] = (IF Born(d) THEN 1 ELSE 0)
            /\ downs[d] = (IF state_[d] = "kDisConnected" THEN 1 ELSE 0)
            /\ ~Born(d) => ~Alive(d)
        BY DEF CoreInv, StateInv, Counted
      <4> HIDE DEF CoreInv
      <4> QED
        BY <4>1, <4>2
    <3> QED
      BY <3>1, <3>2
  <2>2. Mapped'
    BY <1>2, <1>3, <1>4, <1>5, <1>10 DEF CoreInv, StateInv, Mapped
  <2>3. Watched'
    BY <1>2, <1>7, <1>8, <1>10, Distinct DEF CoreInv, StateInv, Watched
  <2> QED
    BY <2>1, <2>2, <2>3 DEF StateInv
<1>16. ActiveInv'
  <2>1. \A ch \in DOMAIN active : ch = Acceptor \/ (Open(ch) /\ ch \in Conn)
    BY DEF CoreInv, ActiveInv, TypeLoop, Chans
  <2>2. \A ch \in DOMAIN active' : ch = Acceptor \/ Open(ch)'
    BY <1>2, <1>6, <1>10, <2>1 DEF Open
  <2> QED
    BY <2>2, Distinct DEF CoreInv, ActiveInv
<1>17. AcceptInv'
  <2>1. backlog' = 0
    BY <1>2 DEF CoreInv, TypeServer
  <2>2. Alive(Acceptor)' <=> Alive(Acceptor)
    BY <1>8, Distinct
  <2> QED
    BY <2>1, <2>2 DEF CoreInv, AcceptInv
<1> QED
  BY <1>11, <1>12, <1>13, <1>14, <1>15, <1>16, <1>17 DEF CoreInv

LEMMA CallBackStep ==
    ASSUME CoreInv, CallBack
    PROVE  CoreInv'
<1>1. /\ pc = "events" /\ todo # <<>> /\ todo' = Tail(todo)
      /\ UNCHANGED <<active, eventListSize, cur>>
  BY DEF CallBack
<1>2. cur \in Chans /\ (cur # Acceptor => cur \in Conn)
  BY <1>1, InCallBack DEF Chans
<1>3. CASE cur = Acceptor /\ AcceptRead
  <2>1. CASE backlog > 0 /\ \E f \in P!FreeFds(poller) : NewConnection(nextConnId_, f)
    BY <1>1, <1>3, <2>1, NewConnectionStep
  <2>2. CASE UNCHANGED <<poller, server, objects, queue, pc, caller, kernel, history>>
    BY <1>1, <2>2, PlainCallBack DEF server, objects, queue, caller, kernel, history
  <2> QED
    BY <1>3, <2>1, <2>2 DEF AcceptRead
<1>4. CASE cur # Acceptor /\ Head(todo) = "close" /\ HandleClose(cur)
  BY <1>1, <1>4, HandleCloseStep DEF MayClose
<1>5. ASSUME cur # Acceptor, HandleError(cur) PROVE CoreInv'
  BY <1>1, <1>5, PlainCallBack DEF HandleError, server, objects, queue, caller, history
<1>6. CASE cur # Acceptor /\ Head(todo) = "read" /\ HandleRead(cur)
  <2>1. CASE rx[cur] > 0
    BY <1>1, <1>2, <1>6, <2>1, PlainCallBack DEF HandleRead, server, objects, queue, history
  <2>2. CASE ~(rx[cur] > 0) /\ (fin[cur] \/ (rst[cur] /\ ~err[cur]))
    BY <1>1, <1>6, <2>2, HandleCloseStep DEF HandleRead, MayClose
  <2>3. CASE ~(rx[cur] > 0) /\ ~(fin[cur] \/ (rst[cur] /\ ~err[cur]))
    BY <1>5, <1>6, <2>3 DEF HandleRead
  <2> QED
    BY <2>1, <2>2, <2>3
<1>7. CASE cur # Acceptor /\ Head(todo) = "write" /\ HandleWrite(cur)
  <2>1. CASE P!IsWriting(poller, cur)
    BY <1>1, <1>7, <2>1, HandleWriteStep
  <2>2. CASE ~P!IsWriting(poller, cur)
    BY <1>1, <1>7, <2>2, PlainCallBack
    DEF HandleWrite, server, objects, queue, caller, kernel, history
  <2> QED
    BY <2>1, <2>2
<1> QED
  BY <1>3, <1>4, <1>5, <1>6, <1>7 DEF CallBack

-----------------------------------------------------------------------------
(* The peer's bytes, FIN and RST. *)
LEMMA PeerStep ==
    ASSUME CoreInv, Peer
    PROVE  CoreInv'
<1>1. CASE PeerConnects
  BY <1>1, PeerConnectsStep
<1>2. CASE \E c \in Conn : PeerSends(c) \/ \E reset \in BOOLEAN : PeerCloses(c, reset)
  <2>1. UNCHANGED coreVars
    BY <1>2 DEF PeerSends, PeerCloses, coreVars, objects, history
  <2> QED
    BY <2>1, CoreFrame
<1> QED
  BY <1>1, <1>2 DEF Peer

LEMMA CoreStep ==
    ASSUME CoreInv, [Next]_vars
    PROVE  CoreInv'
<1>1. CASE UNCHANGED vars
  <2>1. UNCHANGED coreVars
    BY <1>1 DEF vars, coreVars, objects, kernel, history
  <2> QED
    BY <2>1, CoreFrame
<1>2. CASE Peer
  BY <1>2, PeerStep
<1>3. CASE User
  BY <1>3, ShutdownStep, SendStep DEF User
<1>4. CASE LoopThread
  BY <1>4, PollStep, DispatchStep, CallBackStep, EndDispatchStep, BeginFunctorsStep,
     RunFunctorStep, ReleaseFunctorStep, EndIterationStep, ReturnStep DEF LoopThread
<1>5. CASE Owner
  BY <1>5, StartStep, EnterStep, DropConnectionStep, DestroyAcceptorStep,
     DestroyConnectionStep DEF Owner
<1> QED
  BY <1>1, <1>2, <1>3, <1>4, <1>5 DEF Next

-----------------------------------------------------------------------------
(* The kernel's side *)

(* The flags and the receive queues keep their types. *)
LEMMA KernelStep ==
    ASSUME TypeKernel, [Next]_vars
    PROVE  TypeKernel'
<1>1. ASSUME UNCHANGED <<rx, fin, rst, err, wrClosed>> PROVE TypeKernel'
  BY <1>1 DEF TypeKernel
<1>2. CASE UNCHANGED vars
  BY <1>1, <1>2 DEF vars, kernel
<1>3. CASE Peer
  <2>1. CASE PeerConnects
    BY <1>1, <2>1 DEF PeerConnects
  <2>2. ASSUME NEW c \in Conn, PeerSends(c) PROVE TypeKernel'
    <3>1. rx[c] < MaxRx /\ rx' = [rx EXCEPT ![c] = @ + 1] /\ UNCHANGED <<fin, rst, err, wrClosed>>
      BY <2>2 DEF PeerSends
    <3>2. rx' \in [Conn -> 0..MaxRx]
      BY <3>1, ServerAssumption DEF TypeKernel
    <3> QED
      BY <3>1, <3>2 DEF TypeKernel
  <2>3. ASSUME NEW c \in Conn, NEW reset \in BOOLEAN, PeerCloses(c, reset) PROVE TypeKernel'
    BY <2>3 DEF PeerCloses, TypeKernel
  <2> QED
    BY <1>3, <2>1, <2>2, <2>3 DEF Peer
<1>4. CASE User
  <2>1. ASSUME NEW c \in Conn, Shutdown(c) PROVE TypeKernel'
    BY <1>1, <2>1 DEF Shutdown, kernel
  <2>2. ASSUME NEW c \in Conn, NEW len \in 1..MaxSend[c], Send(c, len) PROVE TypeKernel'
    <3>1. PICK failed \in BOOLEAN : err' = [err EXCEPT ![c] = @ /\ ~failed]
      BY <2>2 DEF Send
    <3>2. UNCHANGED <<rx, fin, rst, wrClosed>>
      BY <2>2 DEF Send
    <3>3. err' \in [Conn -> BOOLEAN]
      BY <3>1 DEF TypeKernel
    <3> QED
      BY <3>2, <3>3 DEF TypeKernel
  <2> QED
    BY <1>4, <2>1, <2>2 DEF User
<1>5. CASE CallBack
  <2>1. CASE AcceptRead
    BY <1>1, <2>1 DEF AcceptRead, NewConnection, kernel
  <2>2. CASE HandleClose(cur)
    BY <1>1, <2>2 DEF HandleClose, kernel
  <2>3. CASE HandleError(cur)
    <3>1. err' = [err EXCEPT ![cur] = FALSE] /\ UNCHANGED <<rx, fin, rst, wrClosed>>
      BY <2>3 DEF HandleError
    <3> QED
      BY <3>1 DEF TypeKernel
  <2>4. CASE HandleRead(cur)
    <3>1. CASE rx[cur] > 0
      <4>1. PICK n \in 1..rx[cur] : rx' = [rx EXCEPT ![cur] = @ - n]
        BY <2>4, <3>1 DEF HandleRead
      <4>2. UNCHANGED <<fin, rst, err, wrClosed>>
        BY <2>4, <3>1 DEF HandleRead
      <4>3. rx' \in [Conn -> 0..MaxRx]
        <5>1. CASE cur \in Conn
          <6>1. rx[cur] \in 0..MaxRx
            BY <5>1 DEF TypeKernel
          <6>2. rx[cur] - n \in 0..MaxRx
            BY <6>1, ServerAssumption
          <6> QED
            BY <4>1, <6>2 DEF TypeKernel
        <5>2. CASE cur \notin Conn
          BY <4>1, <5>2 DEF TypeKernel
        <5> QED
          BY <5>1, <5>2
      <4> QED
        BY <4>2, <4>3 DEF TypeKernel
    <3> QED
      BY <2>2, <2>3, <2>4, <3>1 DEF HandleRead
  <2>5. CASE HandleWrite(cur)
    <3>1. CASE P!IsWriting(poller, cur)
      <4>1. PICK b \in BOOLEAN : wrClosed' = [wrClosed EXCEPT ![cur] = @ \/ b]
        BY <2>5, <3>1 DEF HandleWrite
      <4>2. UNCHANGED <<rx, fin, rst, err>>
        BY <2>5, <3>1 DEF HandleWrite
      <4>3. wrClosed' \in [Conn -> BOOLEAN]
        BY <4>1 DEF TypeKernel
      <4> QED
        BY <4>2, <4>3 DEF TypeKernel
    <3>2. CASE ~P!IsWriting(poller, cur)
      BY <1>1, <2>5, <3>2 DEF HandleWrite, kernel
    <3> QED
      BY <3>1, <3>2
  <2> QED
    BY <1>5, <2>1, <2>2, <2>3, <2>4, <2>5 DEF CallBack
<1>6. CASE RunFunctor
  <2>1. \/ UNCHANGED wrClosed
        \/ \E c, b : b \in BOOLEAN /\ wrClosed' = [wrClosed EXCEPT ![c] = @ \/ b]
    BY <1>6 DEF RunFunctor, ShutdownInLoop
  <2>2. UNCHANGED <<rx, fin, rst, err>>
    BY <1>6 DEF RunFunctor
  <2>3. wrClosed' \in [Conn -> BOOLEAN]
    BY <2>1 DEF TypeKernel
  <2> QED
    BY <2>2, <2>3 DEF TypeKernel
<1>7. CASE Poll \/ Dispatch \/ EndDispatch \/ BeginFunctors \/ ReleaseFunctor \/ EndIteration
           \/ ReturnFromUser
  BY <1>1, <1>7 DEF Poll, Dispatch, EndDispatch, BeginFunctors, ReleaseFunctor,
     EndIteration, ReturnFromUser, kernel
<1>8. CASE Owner
  BY <1>1, <1>8 DEF Owner, Start, EnterLoop, DestroyServer, DropConnection,
     DestroyAcceptor, DestroyConnection, kernel
<1> QED
  BY <1>2, <1>3, <1>4, <1>5, <1>6, <1>7, <1>8 DEF Next, LoopThread

-----------------------------------------------------------------------------
(* The bytes *)

(* A sequence cut in two. *)
LEMMA CutSeq ==
    ASSUME NEW T, NEW s \in Seq(T), NEW n \in 0..Len(s)
    PROVE  /\ SubSeq(s, 1, n) \in Seq(T) /\ SubSeq(s, n + 1, Len(s)) \in Seq(T)
           /\ SubSeq(s, 1, n) \o SubSeq(s, n + 1, Len(s)) = s
<1>1. /\ Len(s) \in Nat /\ n \in Int /\ n + 1 \in Int /\ Len(s) \in Int
      /\ \A i \in 1..n : s[i] \in T
      /\ \A i \in (n + 1)..Len(s) : s[i] \in T
  BY ElementOfSeq
<1>2. SubSeq(s, 1, n) \in Seq(T) /\ SubSeq(s, n + 1, Len(s)) \in Seq(T)
  BY <1>1, SubSeqProperties
<1>3. 1 \in 1..Len(s) + 1 /\ n \in (1 - 1)..Len(s) /\ Len(s) \in n..Len(s)
  BY <1>1
<1>4. SubSeq(s, 1, n) \o SubSeq(s, n + 1, Len(s)) = SubSeq(s, 1, Len(s))
  BY <1>3, ConcatAdjacentSubSeq
<1> QED
  BY <1>2, <1>4, SubSeqFull

(* The numbers of the bytes sent so far, and of those sent now. *)
LEMMA CountOn ==
    ASSUME NEW m \in Nat, NEW len \in Nat, NEW k \in Nat, m + len <= k
    PROVE  /\ [i \in 1..len |-> m + i] \in Seq(1..k)
           /\ Len([i \in 1..len |-> m + i]) = len
           /\ [i \in 1..m |-> i] \o [i \in 1..len |-> m + i] = [i \in 1..(m + len) |-> i]
<1> DEFINE a == [i \in 1..m |-> i]
           d == [i \in 1..len |-> m + i]
           all == [i \in 1..(m + len) |-> i]
<1>1. /\ a \in Seq(1..k) /\ Len(a) = m /\ d \in Seq(1..k) /\ Len(d) = len
      /\ all \in Seq(1..k) /\ Len(all) = m + len
  OBVIOUS
<1>2. /\ a \o d \in Seq(1..k) /\ Len(a \o d) = m + len
      /\ \A i \in 1..(m + len) : (a \o d)[i] = IF i <= m THEN a[i] ELSE d[i - m]
  BY <1>1, ConcatProperties
<1>3. \A i \in 1..(m + len) : (a \o d)[i] = all[i]
  <2> SUFFICES ASSUME NEW i \in 1..(m + len) PROVE (a \o d)[i] = i
    OBVIOUS
  <2>1. CASE i <= m
    BY <1>2, <2>1
  <2>2. CASE i > m
    <3>1. i - m \in 1..len /\ ~(i <= m)
      BY <2>2
    <3>2. d[i - m] = m + (i - m)
      BY <3>1
    <3> QED
      BY <1>2, <3>1, <3>2
  <2> QED
    BY <2>1, <2>2
<1> HIDE DEF a, d, all
<1>4. a \o d = all
  BY <1>1, <1>2, <1>3, SeqEqual
<1> QED
  BY <1>1, <1>4 DEF a, d, all

(* send() numbers its bytes on from nsent and loses none unless write(2)    *)
(* fails.                                                                   *)
LEMMA SendBytes ==
    ASSUME TypeStream, StreamInOrder,
           NEW c \in Conn, NEW len \in 1..MaxSend[c], Send(c, len)
    PROVE  TypeStream' /\ StreamInOrder'
<1> DEFINE data == [i \in 1..len |-> nsent[c] + i]
           failed == WritesDirectly(c) /\ rst[c]
           Rest(n) == IF failed THEN <<>> ELSE SubSeq(data, n + 1, len)
<1>1. PICK n \in IF WritesDirectly(c) /\ ~rst[c] THEN 0..len ELSE {0} :
        /\ stream' = [stream EXCEPT ![c] = @ \o SubSeq(data, 1, n)]
        /\ oututBuffer_' = [oututBuffer_ EXCEPT ![c] = @ \o Rest(n)]
        /\ fault' = [fault EXCEPT ![c] = @ \/ failed]
        /\ nsent' = [nsent EXCEPT ![c] = @ + len]
  BY DEF Send
<1> DEFINE k == MaxSend[c]
           head == SubSeq(data, 1, n)
           rest == Rest(n)
<1>2. /\ k \in Nat /\ len \in Nat /\ nsent[c] \in Nat /\ nsent[c] + len <= k
      /\ nsent[c] + len \in 0..k
      /\ stream[c] \in Seq(1..k) /\ oututBuffer_[c] \in Seq(1..k)
  <2>1. k \in Nat /\ len \in Nat
    BY ServerAssumption
  <2>2. nsent[c] \in 0..k /\ stream[c] \in Seq(1..k) /\ oututBuffer_[c] \in Seq(1..k)
    BY DEF TypeStream
  <2>3. nsent[c] + len <= k
    BY DEF Send
  <2> HIDE DEF k
  <2> QED
    BY <2>1, <2>2, <2>3
<1>3. /\ data \in Seq(1..k) /\ Len(data) = len
      /\ [i \in 1..nsent[c] |-> i] \o data = [i \in 1..(nsent[c] + len) |-> i]
  BY <1>2, CountOn
<1>4. n \in 0..len
  BY <1>2
<1>5. /\ head \in Seq(1..k) /\ rest \in Seq(1..k)
      /\ ~failed => head \o rest = data
      /\ head = <<>> \/ oututBuffer_[c] = <<>>
  <2> HIDE DEF data
  <2>1. /\ SubSeq(data, 1, n) \in Seq(1..k) /\ SubSeq(data, n + 1, len) \in Seq(1..k)
        /\ SubSeq(data, 1, n) \o SubSeq(data, n + 1, len) = data
    BY <1>3, <1>4, CutSeq
  <2>2. rest \in Seq(1..k) /\ (~failed => rest = SubSeq(data, n + 1, len))
    <3>1. <<>> \in Seq(1..k)
      OBVIOUS
    <3> HIDE DEF failed, k
    <3> QED
      BY <2>1, <3>1
  <2>3. WritesDirectly(c) => oututBuffer_[c] = <<>>
    BY DEF WritesDirectly
  <2>4. ~WritesDirectly(c) => SubSeq(data, 1, n) = <<>>
    BY SubSeqEmpty
  <2> QED
    BY <2>1, <2>2, <2>3, <2>4
<1> HIDE DEF data, head, rest, Rest, failed
<1>6. /\ stream' = [stream EXCEPT ![c] = @ \o head]
      /\ oututBuffer_' = [oututBuffer_ EXCEPT ![c] = @ \o rest]
      /\ fault' = [fault EXCEPT ![c] = @ \/ failed]
      /\ nsent' = [nsent EXCEPT ![c] = @ + len]
  BY <1>1 DEF head, rest
<1>7. /\ stream'[c] = stream[c] \o head /\ oututBuffer_'[c] = oututBuffer_[c] \o rest
      /\ nsent'[c] = nsent[c] + len
      /\ ~fault'[c] => ~fault[c] /\ ~failed
      /\ fault' \in [Conn -> BOOLEAN]
      /\ DOMAIN stream' = Conn /\ DOMAIN oututBuffer_' = Conn /\ DOMAIN nsent' = Conn
      /\ \A d \in Conn : d # c => /\ stream'[d] = stream[d]
                                  /\ oututBuffer_'[d] = oututBuffer_[d]
                                  /\ nsent'[d] = nsent[d] /\ fault'[d] = fault[d]
  BY <1>6 DEF TypeStream
<1>8. stream'[c] \in Seq(1..k) /\ oututBuffer_'[c] \in Seq(1..k) /\ nsent'[c] \in 0..k
  BY <1>2, <1>5, <1>7, ConcatProperties
<1>9. TypeStream'
  BY <1>7, <1>8 DEF TypeStream
<1>10. ~fault'[c] => stream'[c] \o oututBuffer_'[c] = [i \in 1..nsent'[c] |-> i]
  <2> SUFFICES ASSUME ~fault[c], ~failed
               PROVE  stream'[c] \o oututBuffer_'[c] = [i \in 1..nsent'[c] |-> i]
    BY <1>7
  <2>1. (stream[c] \o head) \o (oututBuffer_[c] \o rest) =
        (stream[c] \o oututBuffer_[c]) \o (head \o rest)
    <3> HIDE DEF k
    <3> DEFINE s == stream[c]
               b == oututBuffer_[c]
    <3>1. /\ s \in Seq(1..k) /\ b \in Seq(1..k) /\ head \in Seq(1..k) /\ rest \in Seq(1..k)
          /\ head = <<>> \/ b = <<>>
      BY <1>2, <1>5
    <3>2. \A x, y, z \in Seq(1..k) : (x \o y) \o z = x \o (y \o z)
      BY ConcatAssociative
    <3>3. \A x \in Seq(1..k) : x \o <<>> = x /\ <<>> \o x = x
      BY ConcatEmptySeq
    <3> HIDE DEF s, b
    <3>4. CASE head = <<>>
      <4>1. s \o head = s /\ head \o rest = rest
        BY <3>1, <3>3, <3>4
      <4>2. s \o (b \o rest) = (s \o b) \o rest
        BY <3>1, <3>2, Zenon
      <4> QED
        BY <4>1, <4>2, Zenon DEF s, b
    <3>5. CASE b = <<>>
      <4>1. s \o b = s /\ b \o rest = rest
        BY <3>1, <3>3, <3>5
      <4>2. (s \o head) \o rest = s \o (head \o rest)
        BY <3>1, <3>2, Zenon
      <4> QED
        BY <4>1, <4>2, Zenon DEF s, b
    <3> QED
      BY <3>1, <3>4, <3>5
  <2>2. stream[c] \o oututBuffer_[c] = [i \in 1..nsent[c] |-> i]
    BY DEF StreamInOrder
  <2> QED
    BY <1>3, <1>5, <1>7, <2>1, <2>2
<1> QED
  BY <1>7, <1>9, <1>10 DEF StreamInOrder

(* handleWrite moves bytes from the front of the buffer to the stream. *)
LEMMA WriteBytes ==
    ASSUME TypeStream, StreamInOrder, NEW c \in Conn, HandleWrite(c)
    PROVE  TypeStream' /\ StreamInOrder'
<1>1. CASE ~P!IsWriting(poller, c)
  BY <1>1 DEF HandleWrite, objects, kernel, history, TypeStream, StreamInOrder
<1>2. CASE P!IsWriting(poller, c)
  <2> DEFINE b == oututBuffer_[c]
             k == MaxSend[c]
  <2>1. PICK n \in IF rst[c] THEN {0} ELSE 0..Len(b) :
          /\ oututBuffer_' = [oututBuffer_ EXCEPT ![c] = SubSeq(b, n + 1, Len(b))]
          /\ stream' = [stream EXCEPT ![c] = @ \o SubSeq(b, 1, n)]
    BY <1>2 DEF HandleWrite
  <2>2. UNCHANGED <<nsent, fault>>
    BY <1>2 DEF HandleWrite, history
  <2>3. b \in Seq(1..k) /\ stream[c] \in Seq(1..k) /\ n \in 0..Len(b)
    BY DEF TypeStream
  <2> DEFINE head == SubSeq(b, 1, n)
             rest == SubSeq(b, n + 1, Len(b))
  <2>4. head \in Seq(1..k) /\ rest \in Seq(1..k) /\ head \o rest = b
    BY <2>3, CutSeq
  <2>5. oututBuffer_' = [oututBuffer_ EXCEPT ![c] = rest]
        /\ stream' = [stream EXCEPT ![c] = @ \o head]
    BY <2>1
  <2> HIDE DEF head, rest
  <2>6. /\ stream'[c] = stream[c] \o head /\ oututBuffer_'[c] = rest
        /\ DOMAIN stream' = Conn /\ DOMAIN oututBuffer_' = Conn
        /\ \A d \in Conn : d # c => /\ stream'[d] = stream[d]
                                    /\ oututBuffer_'[d] = oututBuffer_[d]
    BY <2>5 DEF TypeStream
  <2>7. stream'[c] \in Seq(1..k) /\ oututBuffer_'[c] \in Seq(1..k)
    BY <2>3, <2>4, <2>6, ConcatProperties
  <2>8. TypeStream'
    BY <2>2, <2>6, <2>7 DEF TypeStream
  <2>9. stream'[c] \o oututBuffer_'[c] = stream[c] \o oututBuffer_[c]
    <3>1. (stream[c] \o head) \o rest = stream[c] \o (head \o rest)
      <4>1. \A x, y, z \in Seq(1..k) : (x \o y) \o z = x \o (y \o z)
        BY ConcatAssociative
      <4> QED
        BY <2>3, <2>4, <4>1, Zenon
    <3> QED
      BY <2>4, <2>6, <3>1
  <2> QED
    BY <2>2, <2>6, <2>8, <2>9 DEF StreamInOrder
<1> QED
  BY <1>1, <1>2

LEMMA StreamStep ==
    ASSUME CoreInv, TypeStream, StreamInOrder, [Next]_vars
    PROVE  TypeStream' /\ StreamInOrder'
<1>1. ASSUME UNCHANGED <<oututBuffer_, stream, nsent, fault>>
      PROVE  TypeStream' /\ StreamInOrder'
  BY <1>1 DEF TypeStream, StreamInOrder
<1>2. CASE UNCHANGED vars
  BY <1>1, <1>2 DEF vars, objects, kernel, history
<1>3. CASE Peer
  BY <1>1, <1>3 DEF Peer, PeerConnects, PeerSends, PeerCloses, objects, history
<1>4. CASE User
  <2>1. ASSUME NEW c \in Conn, Shutdown(c) PROVE UNCHANGED <<oututBuffer_, stream, nsent, fault>>
    BY <2>1 DEF Shutdown, kernel, history
  <2> QED
    BY <1>1, <1>4, <2>1, SendBytes DEF User
<1>5. CASE CallBack
  <2>1. CASE AcceptRead
    BY <1>1, <2>1 DEF AcceptRead, NewConnection, objects, kernel, history
  <2>2. CASE HandleClose(cur)
    BY <1>1, <2>2 DEF HandleClose, kernel
  <2>3. CASE HandleError(cur)
    BY <1>1, <2>3 DEF HandleError, objects, history
  <2>4. CASE HandleRead(cur)
    <3>1. CASE rx[cur] > 0
      BY <1>1, <2>4, <3>1 DEF HandleRead, objects, history
    <3> QED
      BY <2>2, <2>3, <2>4, <3>1 DEF HandleRead
  <2>5. CASE cur # Acceptor /\ HandleWrite(cur)
    <3>1. cur \in Conn
      BY <1>5, <2>5, InCallBack DEF CallBack, Chans
    <3> QED
      BY <2>5, <3>1, WriteBytes
  <2> QED
    BY <1>5, <2>1, <2>2, <2>3, <2>4, <2>5 DEF CallBack
<1>6. CASE RunFunctor
  BY <1>1, <1>6 DEF RunFunctor
<1>7. CASE Poll \/ Dispatch \/ EndDispatch \/ BeginFunctors \/ ReleaseFunctor \/ EndIteration
           \/ ReturnFromUser
  BY <1>1, <1>7 DEF Poll, Dispatch, EndDispatch, BeginFunctors, ReleaseFunctor,
     EndIteration, ReturnFromUser, objects, kernel, history
<1>8. CASE Owner
  BY <1>1, <1>8 DEF Owner, Start, EnterLoop, DestroyServer, DropConnection,
     DestroyAcceptor, DestroyConnection, objects, kernel, history
<1> QED
  BY <1>2, <1>3, <1>4, <1>5, <1>6, <1>7, <1>8 DEF Next, LoopThread

-----------------------------------------------------------------------------
(* The invariant *)

(* The acceptor's channel is the first in the poller. *)
LEMMA FirstChannel ==
    ASSUME NEW f \in Fd, NEW p, p = P!EmptyPoller,
           NEW q, q = P!Construct(p, Acceptor, f)
    PROVE  PP!Good(q) /\ P!Live(q, Acceptor) /\ \A c \in Conn : ~P!Live(q, c)
<1>1. PP!Good(p)
  BY SameOperators, PP!EmptyGood, PollerAssumed
<1>2. p.fd_ = [c \in Chans |-> NoFd]
  BY DEF P!EmptyPoller, P!State
<1>3. ~P!Live(p, Acceptor) /\ f \in P!FreeFds(p) /\ Acceptor \in Chans
  BY <1>2, Distinct, ServerAssumption DEF P!Live, P!FreeFds
<1>4. PP!Good(q) /\ f # NoFd /\ q.fd_ = [p.fd_ EXCEPT ![Acceptor] = f]
  <2>1. PP!Good(q)
    BY <1>1, <1>3, PollerAssumed, SameOperators, PP!ConstructGood
  <2>2. f # NoFd /\ q.fd_ = [p.fd_ EXCEPT ![Acceptor] = f]
    BY ServerAssumption DEF P!Construct, P!State
  <2> QED
    BY <2>1, <2>2
<1> QED
  BY <1>2, <1>4, Distinct DEF P!Live

LEMMA InitOK == Init => ServerInv
<1> SUFFICES ASSUME Init PROVE ServerInv
  OBVIOUS
<1>1. PICK f \in Fd : poller = P!Construct(P!EmptyPoller, Acceptor, f)
  BY DEF Init
<1>2. /\ PP!Good(poller) /\ Alive(Acceptor) /\ \A c \in Conn : ~Alive(c)
  BY <1>1, FirstChannel DEF Alive
<1>3. Pending = {} /\ Batch = {} /\ Waiting = {}
  BY DEF Init, Pending, Batch, Waiting, Range
<1>4. ~InDispatch /\ ~InFunctors /\ ~Destroying /\ DOMAIN active = {}
  BY DEF Init, InDispatch, InFunctors, Destroying
<1>5. TypeServer
  <2>1. eventListSize \in Nat \ {0} /\ nextConnId_ \in 1..MaxConns + 1 /\ backlog \in 0..1
    BY ServerAssumption DEF Init
  <2>2. /\ started_ \in BOOLEAN /\ connections_ \subseteq Conn
        /\ state_ \in [Conn -> {"kConnecting", "kConnected", "kDisConnecting", "kDisConnected"}]
        /\ ups \in [Conn -> Nat] /\ downs \in [Conn -> Nat]
    BY DEF Init
  <2> QED
    BY <2>1, <2>2 DEF TypeServer
<1>6. TypeQueue /\ TypeLoop /\ PhaseInv
  BY <1>4 DEF Init, TypeQueue, TypeLoop, PhaseInv
<1>7. LifeInv
  BY <1>2, <1>3, <1>4
  DEF Init, LifeInv, Referenced, EndsOnce, RemovedFirst, Guarded, Held, Ending
<1>8. StateInv
  <2>1. \A c \in Conn : ~Born(c)
    BY ServerAssumption DEF Init, Born, Conn
  <2> QED
    BY <1>2, <1>4, <2>1 DEF Init, StateInv, Counted, Mapped, Watched
<1>9. ActiveInv /\ AcceptInv
  BY <1>2, <1>4, Distinct DEF Init, ActiveInv, AcceptInv
<1>10. TypeKernel
  BY ServerAssumption DEF Init, TypeKernel
<1>11. TypeStream /\ StreamInOrder
  <2> SUFFICES ASSUME NEW c \in Conn
               PROVE  /\ oututBuffer_[c] \in Seq(1..MaxSend[c])
                      /\ stream[c] \in Seq(1..MaxSend[c])
                      /\ nsent[c] \in 0..MaxSend[c]
                      /\ stream[c] \o oututBuffer_[c] = [i \in 1..nsent[c] |-> i]
    BY DEF Init, TypeStream, StreamInOrder
  <2>1. oututBuffer_[c] = <<>> /\ stream[c] = <<>> /\ nsent[c] = 0 /\ MaxSend[c] \in Nat
    BY ServerAssumption DEF Init
  <2>2. <<>> \o <<>> = <<>> /\ [i \in 1..0 |-> i] = <<>>
    OBVIOUS
  <2> QED
    BY <2>1, <2>2
<1> QED
  BY <1>2, <1>5, <1>6, <1>7, <1>8, <1>9, <1>10, <1>11 DEF ServerInv, CoreInv

LEMMA ServerInductive == Spec => []ServerInv
<1>1. ServerInv /\ [Next]_vars => ServerInv'
  BY CoreStep, KernelStep, StreamStep DEF ServerInv
<1> QED
  BY InitOK, <1>1, PTL DEF Spec

-----------------------------------------------------------------------------
(* The theorems *)

(* Type correctness, the poller's part included. *)
THEOREM TcpServerTypeOK == Spec => []TypeOK
<1>1. ServerInv => TypeOK
  <2> SUFFICES ASSUME ServerInv PROVE TypeOK
    OBVIOUS
  <2>1. P!TypeOK
    BY DEF ServerInv, CoreInv, PP!Good, PP!IsPoller, PP!Interest, PP!kNew, PP!kAdded,
           PP!kDeleted, P!TypeOK, P!Interest, P!kNew, P!kAdded, P!kDeleted
  <2>2. \A b \in {fin, rst, err, wrClosed, fault} : b \in [Conn -> BOOLEAN]
    BY DEF ServerInv, TypeKernel, TypeStream
  <2>3. /\ DOMAIN oututBuffer_ = Conn /\ DOMAIN stream = Conn
        /\ \A c \in Conn : {oututBuffer_[c], stream[c]} \subseteq Seq(1..MaxSend[c])
        /\ \A c \in Conn : nsent[c] \in 0..MaxSend[c]
    BY DEF ServerInv, TypeStream
  <2>4. TypeServer /\ TypeQueue /\ TypeLoop /\ rx \in [Conn -> 0..MaxRx]
    BY DEF ServerInv, CoreInv, TypeKernel
  <2> QED
    BY <2>1, <2>2, <2>3, <2>4 DEF TypeOK, TypeServer, TypeQueue, TypeLoop
<1> QED
  BY <1>1, ServerInductive, PTL

(* Through accept, close, destruction and descriptor reuse, the handlers    *)
(* never make epoll_ctl fail fatally, leave no pointer to a destroyed       *)
(* channel behind, and keep the kernel's masks those the channels ask for.  *)
THEOREM TcpServerPollerSound == Spec => []PollerSound
<1>1. ServerInv => PollerSound
  <2> SUFFICES ASSUME PP!Good(poller) PROVE PollerSound
    BY DEF ServerInv, CoreInv
  <2>1. P!NeverFatal
    BY DEF PP!Good, P!NeverFatal
  <2>2. P!NoDanglingChannel
    BY DEF PP!Good, PP!Pointers, P!NoDanglingChannel
  <2>3. P!KernelAgrees
    BY DEF PP!Good, PP!Index, P!KernelAgrees, P!Live, PP!kAdded, P!kAdded
  <2> QED
    BY <2>1, <2>2, <2>3 DEF PollerSound
<1> QED
  BY <1>1, ServerInductive, PTL

(* The raw pointers of activeChannels_ lead to channels that exist when     *)
(* handleEvemt is called on them, and for as long as it runs.               *)
THEOREM TcpServerActiveChannelsLive == Spec => []ActiveChannelsLive
<1>1. ServerInv => ActiveChannelsLive
  <2> SUFFICES ASSUME CoreInv, NEW ch \in DOMAIN active \cup ({cur} \ {NoChan})
               PROVE  Alive(ch)
    BY DEF ServerInv, ActiveChannelsLive
  <2>1. pc # "gone"
    BY DEF CoreInv, PhaseInv, InDispatch
  <2>2. ch = Acceptor \/ ch \in Conn
    BY DEF CoreInv, TypeLoop, Chans
  <2>3. ch \in Conn => ch \in connections_ \/ Held(Pending, ch)
    BY Distinct DEF CoreInv, ActiveInv, Open, Ending, Held, Ends, IsStrong
  <2> QED
    BY <2>1, <2>2, <2>3 DEF CoreInv, AcceptInv, LifeInv, Referenced
<1> QED
  BY <1>1, ServerInductive, PTL

(* While the loop runs, the connection of every functor still to be run     *)
(* exists, that of a shutdownInLoop with its raw this included.             *)
THEOREM TcpServerFunctorsLive == Spec => []FunctorsLive
<1>1. ServerInv => FunctorsLive
  <2> SUFFICES ASSUME CoreInv, InLoop
               PROVE  /\ \A i \in DOMAIN pendingFuntors_ : Alive(pendingFuntors_[i].c)
                      /\ \A i \in DOMAIN batch : i >= pos => Alive(batch[i].c)
    BY DEF ServerInv, FunctorsLive
  <2>1. ~Destroying
    BY DEF InLoop, Destroying, CoreInv, PhaseInv
  <2>2. \A fn \in Pending \cup Batch : fn.c \in Conn
    BY FunctorsTyped DEF CoreInv
  <2>3. ASSUME NEW fn \in Pending PROVE Alive(fn.c)
    <3>1. fn.c \in connections_ \/ Held(Pending, fn.c)
      BY <2>1, <2>3 DEF CoreInv, LifeInv, Guarded, Ending, Held, Ends, IsStrong
    <3> QED
      BY <2>2, <2>3, <3>1 DEF CoreInv, LifeInv, Referenced
  <2>4. ASSUME NEW fn \in Waiting PROVE Alive(fn.c)
    <3>1. fn \in Batch
      BY <2>4, FunctorsTyped DEF CoreInv
    <3>2. fn.c \in connections_ \/ Held(Batch, fn.c)
      BY <2>1, <2>4 DEF CoreInv, LifeInv, Guarded
    <3> QED
      BY <2>2, <3>1, <3>2 DEF CoreInv, LifeInv, Referenced
  <2>5. \A i \in DOMAIN pendingFuntors_ : pendingFuntors_[i] \in Pending
    BY DEF Pending, Range
  <2>6. \A i \in DOMAIN batch : i >= pos => batch[i] \in Waiting
    BY DEF CoreInv, TypeQueue, Waiting
  <2> QED
    BY <2>3, <2>4, <2>5, <2>6
<1> QED
  BY <1>1, ServerInductive, PTL

(* connectionCallback_ is called once for the connection and at most once   *)
(* for its end, and a connection destroyed by the loop has had both calls.  *)
THEOREM TcpServerCallbacksPair == Spec => []CallbacksPair
<1>1. ServerInv => CallbacksPair
  <2> SUFFICES ASSUME CoreInv, NEW c \in Conn
               PROVE  /\ ups[c] = (IF c < nextConnId_ THEN 1 ELSE 0)
                      /\ downs[c] <= ups[c]
                      /\ ups[c] = 1 /\ ~Alive(c) /\ state_[c] # "kDisConnecting" => downs[c] = 1
                      /\ ups[c] = 1 /\ ~Alive(c) /\ InLoop => downs[c] = 1
    BY DEF ServerInv, CallbacksPair
  <2>1. /\ Born(c) <=> state_[c] # "kConnecting"
        /\ ups[c] = (IF Born(c) THEN 1 ELSE 0)
        /\ downs[c] = (IF state_[c] = "kDisConnected" THEN 1 ELSE 0)
    BY DEF CoreInv, StateInv, Counted
  <2>2. ~Alive(c) => c \notin connections_
    BY DEF CoreInv, LifeInv, Referenced
  <2>3. ~Alive(c) => state_[c] # "kConnected"
    BY <2>2 DEF CoreInv, StateInv, Mapped
  <2>4. InLoop => ~Destroying
    BY DEF InLoop, Destroying, CoreInv, PhaseInv
  <2>5. Born(c) /\ ~Alive(c) /\ InLoop => state_[c] = "kDisConnected"
    BY <2>2, <2>4 DEF CoreInv, StateInv, Mapped
  <2>6. state_[c] \in {"kConnecting", "kConnected", "kDisConnecting", "kDisConnected"}
    BY DEF CoreInv, TypeServer
  <2>7. ups[c] = (IF c < nextConnId_ THEN 1 ELSE 0) /\ (ups[c] = 1 => Born(c))
    BY <2>1 DEF Born
  <2>8. downs[c] <= ups[c]
    BY <2>1
  <2> QED
    BY <2>1, <2>3, <2>5, <2>6, <2>7, <2>8
<1> QED
  BY <1>1, ServerInductive, PTL

(* When the loop polls, the connections that exist are those of the map,    *)
(* and each is registered for reading.                                      *)
THEOREM TcpServerNoZombieAtPoll == Spec => []NoZombieAtPoll
<1>1. ServerInv => NoZombieAtPoll
  <2> SUFFICES ASSUME CoreInv, pc = "poll", NEW c \in Conn
               PROVE  /\ Alive(c) <=> c \in connections_
                      /\ Alive(c) => poller.index_[c] = 1 /\ "IN" \in poller.events_[c]
    BY DEF ServerInv, NoZombieAtPoll
  <2>1. Alive(c) => Open(c)
    BY LiveAtPoll, Distinct
  <2>2. c \in connections_ => Alive(c)
    BY DEF CoreInv, LifeInv, Referenced
  <2>3. Open(c) => poller.index_[c] = 1 /\ "IN" \in poller.events_[c]
    BY DEF Open, CoreInv, StateInv, Watched, P!kAdded
  <2> QED
    BY <2>1, <2>2, <2>3 DEF Open
<1> QED
  BY <1>1, ServerInductive, PTL

(* Unless a write failed under send(), the bytes the kernel took followed   *)
(* by those in oututBuffer_ are the bytes sent, in order.                   *)
THEOREM TcpServerStreamInOrder == Spec => []StreamInOrder
  BY ServerInductive, PTL DEF ServerInv
=============================================================================

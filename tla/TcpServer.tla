----------------------------- MODULE TcpServer -----------------------------
(***************************************************************************)
(* net/TcpServer, net/Acceptor, net/TcpConnection and Channel's event      *)
(* dispatch on one EventLoop.  (EventLoopThreadPool::setThreadNum stores   *)
(* nothing, so the pool has no threads and getNextLoop always returns the  *)
(* base loop.)  The loop thread polls, dispatches the reported channels    *)
(* with the revents_ poll gave them, and runs the queued functors; user    *)
(* code runs inside callbacks and may call send and shutdown on any        *)
(* connection that is alive.  Connections live as long as something holds  *)
(* a shared_ptr to them: the map connections_, a functor bound to one, or  *)
(* the guard of the dispatch in progress.                                  *)
(*                                                                         *)
(* The kernel's side (the peer, the receive queue, SO_ERROR, the stream    *)
(* write(2) accepted) is external and nondeterministic.                    *)
(***************************************************************************)
EXTENDS Integers, Sequences, FiniteSets

CONSTANTS
    Acceptor,            \* acceptChannel_
    Fd, NoFd, NoChan,    \* as in EpollPoller
    kInitEventListSize,  \* 16 in the code
    highWaterMark_,      \* 64M bytes in the code
    MaxConns,            \* bound: connections accepted in one behaviour
    MaxSend,             \* bound: bytes user code sends, per connection
    MaxRx                \* bound: unread runs in one receive queue

Conn == 1..MaxConns
Chans == Conn \cup {Acceptor}

ASSUME ServerAssumption ==
    /\ MaxConns \in Nat /\ MaxSend \in [Conn -> Nat] /\ MaxRx \in Nat
    /\ kInitEventListSize \in Nat \ {0} /\ highWaterMark_ \in Nat
    /\ Acceptor \notin Conn /\ NoChan \notin Chans /\ NoFd \notin Fd

VARIABLES
    poller,          \* the poller, its channels and the epoll set
    eventListSize,   \* the size of the vector events_ that epoll_wait fills
    started_, connections_, nextConnId_,      \* TcpServer
    state_, oututBuffer_,                     \* TcpConnection, per connection
    pendingFuntors_, batch, pos,              \* EventLoop: queued functors, the
                                              \* batch being run, and the next one
    active,                                   \* activeChannels_ still to dispatch,
                                              \* each with its revents_
    pc, cur, todo,                            \* the loop thread: phase, channel in
                                              \* dispatch, callbacks it has to call
    under, after, self,                       \* user code: the phase it was called
                                              \* from, what its caller does next
    backlog, rx, fin, rst, err, wrClosed, stream,   \* kernel
    nsent, fault, ups, downs                  \* history, per connection

server  == <<started_, connections_, nextConnId_>>
objects == <<state_, oututBuffer_>>
queue   == <<pendingFuntors_, batch, pos>>
events  == <<active, eventListSize, cur, todo>>
caller  == <<under, after, self>>
kernel  == <<backlog, rx, fin, rst, err, wrClosed, stream>>
history == <<nsent, fault, ups, downs>>
vars    == <<poller, server, objects, queue, events, pc, caller, kernel, history>>

P == INSTANCE EpollPoller WITH Chan <- Chans

Alive(c) == P!Live(poller, c)

-----------------------------------------------------------------------------
(* The kernel: what epoll_wait reports for a descriptor, from the socket's  *)
(* condition and the registered mask.                                       *)
Condition(ch) ==
    IF ch = Acceptor THEN IF backlog > 0 THEN {"IN"} ELSE {}
    ELSE {"OUT"}
         \cup (IF rx[ch] > 0 \/ fin[ch] \/ rst[ch] THEN {"IN"} ELSE {})
         \cup (IF rst[ch] \/ (fin[ch] /\ wrClosed[ch]) THEN {"HUP"} ELSE {})
         \cup (IF err[ch] THEN {"ERR"} ELSE {})

Mask(f) == Condition(poller.ptr[f]) \cap (poller.watched[f] \cup {"HUP", "ERR"})

ReadyFds == {f \in Fd : poller.ptr[f] # NoChan /\ Mask(f) # {}}

PeerConnects ==
    /\ started_ /\ Alive(Acceptor) /\ backlog = 0 /\ nextConnId_ <= MaxConns
    /\ backlog' = 1
    /\ UNCHANGED <<poller, server, objects, queue, events, pc, caller, history,
                   rx, fin, rst, err, wrClosed, stream>>

PeerSends(c) ==
    /\ Alive(c) /\ ~fin[c] /\ ~rst[c] /\ rx[c] < MaxRx
    /\ rx' = [rx EXCEPT ![c] = @ + 1]
    /\ UNCHANGED <<poller, server, objects, queue, events, pc, caller, history,
                   backlog, fin, rst, err, wrClosed, stream>>

(* The peer closes (FIN) or resets (RST) the connection. *)
PeerCloses(c, reset) ==
    /\ Alive(c) /\ ~rst[c] /\ (reset \/ ~fin[c])
    /\ fin' = [fin EXCEPT ![c] = @ \/ ~reset]
    /\ rst' = [rst EXCEPT ![c] = reset]
    /\ err' = [err EXCEPT ![c] = reset]
    /\ UNCHANGED <<poller, server, objects, queue, events, pc, caller, history,
                   backlog, rx, wrClosed, stream>>

-----------------------------------------------------------------------------
(* Functors: the bound member function and the connection.  shutdown()      *)
(* binds the raw this; the others bind a shared_ptr.                        *)
Functor(f, c) == [f |-> f, c |-> c]

IsStrong(fn) == fn.f # "shutdownInLoop"

Holds(q, c) == \E i \in DOMAIN q : q[i].c = c /\ IsStrong(q[i])

QueueInLoop(fns) == pendingFuntors_' = pendingFuntors_ \o fns

(* User code is entered from phase ph; when it returns, its caller still    *)
(* has to do what (on connection c).                                        *)
CallUser(ph, what, c) ==
    pc' = "user" /\ under' = ph /\ after' = what /\ self' = c

(* A connection whose last reference is dropped is destroyed with its       *)
(* channel and its socket.                                                  *)
Reap(p, c, held) == IF held THEN p ELSE P!Destroy(p, c)

-----------------------------------------------------------------------------
(* TcpServer and Acceptor *)

(* start(): the first call listens and registers the accept channel. *)
Start ==
    /\ pc = "outside" /\ ~started_
    /\ started_' = TRUE
    /\ poller' = P!EnableReading(poller, Acceptor)
    /\ UNCHANGED <<connections_, nextConnId_, objects, queue, events, pc, caller,
                   kernel, history>>

(* Acceptor::handleRead with a connection to accept and a free descriptor:  *)
(* TcpServer::newConnection, then connectEstablished at once (runInLoop in  *)
(* the loop's thread), up to the connection callback.                       *)
NewConnection(c, f) ==
    /\ backlog' = backlog - 1
    /\ nextConnId_' = nextConnId_ + 1
    /\ connections_' = connections_ \cup {c}
    /\ state_' = [state_ EXCEPT ![c] = "kConnected"]
    /\ poller' = P!EnableReading(P!Construct(poller, c, f), c)
    /\ ups' = [ups EXCEPT ![c] = @ + 1]
    /\ CallUser("events", "none", c)
    /\ UNCHANGED <<started_, oututBuffer_, queue, rx, fin, rst, err, wrClosed,
                   stream, nsent, fault, downs>>

(* accept4 succeeds, or fails: no pending connection, or no descriptor left *)
(* (EMFILE), since this server or other code of the process holds them.     *)
AcceptRead ==
    \/ /\ backlog > 0
       /\ \E f \in P!FreeFds(poller) : NewConnection(nextConnId_, f)
    \/ UNCHANGED <<poller, server, objects, queue, pc, caller, kernel, history>>

(* Destroys the connection at once in place of queueing connectDestroyed. *)
RemoveConnectionMutant(c) ==
    /\ connections_' = connections_ \ {c}
    /\ poller' = P!Destroy(P!RemoveChannel(poller, c), c)
    /\ UNCHANGED pendingFuntors_

(* Queues connectDestroyed but keeps the map's reference. *)
RemoveConnectionEraseMutant(c) ==
    /\ QueueInLoop(<<Functor("connectDestroyed", c)>>)
    /\ UNCHANGED <<poller, connections_>>

(* removeConnection, which runs removeConnectionInLoop at once: the map     *)
(* lets go of the connection and connectDestroyed is queued.                *)
RemoveConnection(c) ==
    /\ connections_' = connections_ \ {c}
    /\ QueueInLoop(<<Functor("connectDestroyed", c)>>)
    /\ UNCHANGED poller

-----------------------------------------------------------------------------
(* TcpConnection's handlers *)

(* handleClose up to the connection callback; closeCallback_ comes after. *)
HandleClose(c) ==
    /\ state_' = [state_ EXCEPT ![c] = "kDisConnected"]
    /\ poller' = P!DisableAll(poller, c)
    /\ downs' = [downs EXCEPT ![c] = @ + 1]
    /\ CallUser("events", "close", c)
    /\ UNCHANGED <<server, oututBuffer_, queue, kernel, nsent, fault, ups>>

(* handleError: getsockopt(SO_ERROR) clears the error. *)
HandleError(c) ==
    /\ err' = [err EXCEPT ![c] = FALSE]
    /\ UNCHANGED <<poller, server, objects, queue, pc, caller, history, backlog, rx,
                   fin, rst, wrClosed, stream>>

(* Takes end of file for an error: n <= 0 goes to handleError. *)
HandleReadMutant(c) ==
    IF rx[c] > 0
    THEN /\ \E n \in 1..rx[c] : rx' = [rx EXCEPT ![c] = @ - n]
         /\ CallUser("events", "none", c)
         /\ UNCHANGED <<poller, server, objects, queue, history, backlog, fin, rst,
                        err, wrClosed, stream>>
    ELSE HandleError(c)

(* handleRead: read(2) gives data, then end of file after a FIN, then the   *)
(* pending error of a reset, then end of file.  A failed read is only      *)
(* logged and clears the error.                                            *)
HandleRead(c) ==
    IF rx[c] > 0
    THEN /\ \E n \in 1..rx[c] : rx' = [rx EXCEPT ![c] = @ - n]
         /\ CallUser("events", "none", c)
         /\ UNCHANGED <<poller, server, objects, queue, history, backlog, fin, rst,
                        err, wrClosed, stream>>
    ELSE IF fin[c] \/ (rst[c] /\ ~err[c])
    THEN HandleClose(c)
    ELSE HandleError(c)

(* handleWrite: hands the buffer to write(2); once it is empty, stops       *)
(* watching for EPOLLOUT and finishes a shutdown() that had to wait.        *)
HandleWrite(c) ==
    /\ IF P!IsWriting(poller, c)
       THEN \E n \in IF rst[c] THEN {0} ELSE 0..Len(oututBuffer_[c]) :
              LET rest == SubSeq(oututBuffer_[c], n + 1, Len(oututBuffer_[c]))
                  done == n > 0 /\ rest = <<>>
              IN /\ oututBuffer_' = [oututBuffer_ EXCEPT ![c] = rest]
                 /\ stream' = [stream EXCEPT ![c] =
                                 @ \o SubSeq(oututBuffer_[c], 1, n)]
                 /\ poller' = IF done THEN P!DisableWriting(poller, c) ELSE poller
                 /\ QueueInLoop(IF done THEN <<Functor("writeComplete", c)>> ELSE <<>>)
                 /\ wrClosed' = [wrClosed EXCEPT ![c] =
                                   @ \/ (done /\ state_[c] = "kDisConnecting")]
                 /\ UNCHANGED <<server, state_, batch, pos, backlog, rx, fin, rst,
                                err, history>>
       ELSE UNCHANGED <<poller, server, objects, queue, kernel, history>>
    /\ UNCHANGED <<pc, caller>>

(* The test of isWriting is inverted. *)
ShutdownInLoopMutant(c) ==
    wrClosed' = [wrClosed EXCEPT ![c] = @ \/ P!IsWriting(poller, c)]

(* shutdownInLoop: half-closes when the channel is not writing. *)
ShutdownInLoop(c) ==
    wrClosed' = [wrClosed EXCEPT ![c] = @ \/ ~P!IsWriting(poller, c)]

-----------------------------------------------------------------------------
(* Calls of user code, in a callback *)

(* Writes directly even when earlier bytes are still in the buffer. *)
WritesDirectlyMutant(c) == ~P!IsWriting(poller, c)

WritesDirectly(c) == ~P!IsWriting(poller, c) /\ oututBuffer_[c] = <<>>

(* send: sendInLoop runs at once.  write(2) takes the first n bytes (n = 0  *)
(* also stands for EWOULDBLOCK) and fails on a connection that was reset,   *)
(* which clears the pending error; otherwise the rest is buffered.          *)
(* enableWriting is called only if the channel is writing already.          *)
Send(c, len) ==
    /\ pc = "user" /\ Alive(c) /\ state_[c] = "kConnected"
    /\ nsent[c] + len <= MaxSend[c]
    /\ \E n \in IF WritesDirectly(c) /\ ~rst[c] THEN 0..len ELSE {0} :
         LET data   == [i \in 1..len |-> nsent[c] + i]
             failed == WritesDirectly(c) /\ rst[c]
             rest   == IF failed THEN <<>> ELSE SubSeq(data, n + 1, len)
             oldLen == Len(oututBuffer_[c])
             crosses == /\ rest # <<>> /\ oldLen < highWaterMark_
                        /\ oldLen + Len(rest) >= highWaterMark_
         IN /\ stream' = [stream EXCEPT ![c] = @ \o SubSeq(data, 1, n)]
            /\ oututBuffer_' = [oututBuffer_ EXCEPT ![c] = @ \o rest]
            /\ poller' = IF rest # <<>> /\ P!IsWriting(poller, c)
                         THEN P!EnableWriting(poller, c) ELSE poller
            /\ QueueInLoop((IF n = len THEN <<Functor("writeComplete", c)>> ELSE <<>>)
                           \o (IF crosses THEN <<Functor("highWaterMark", c)>> ELSE <<>>))
            /\ err' = [err EXCEPT ![c] = @ /\ ~failed]
            /\ fault' = [fault EXCEPT ![c] = @ \/ failed]
            /\ nsent' = [nsent EXCEPT ![c] = @ + len]
    /\ UNCHANGED <<server, state_, batch, pos, events, pc, caller, backlog, rx, fin,
                   rst, wrClosed, ups, downs>>

(* Shuts down a connection that is closed already, too. *)
ShutdownMutant(c) ==
    /\ pc = "user" /\ Alive(c) /\ state_[c] # "kDisConnecting"
    /\ state_' = [state_ EXCEPT ![c] = "kDisConnecting"]
    /\ QueueInLoop(<<Functor("shutdownInLoop", c)>>)
    /\ UNCHANGED <<poller, server, oututBuffer_, batch, pos, events, pc, caller,
                   kernel, history>>

(* shutdown: queues shutdownInLoop, bound to the raw this. *)
Shutdown(c) ==
    /\ pc = "user" /\ Alive(c) /\ state_[c] = "kConnected"
    /\ state_' = [state_ EXCEPT ![c] = "kDisConnecting"]
    /\ QueueInLoop(<<Functor("shutdownInLoop", c)>>)
    /\ UNCHANGED <<poller, server, oututBuffer_, batch, pos, events, pc, caller,
                   kernel, history>>

(* User code returns and its caller finishes: closeCallback_ in handleClose, *)
(* channel_->remove() in connectDestroyed.                                  *)
ReturnFromUser ==
    /\ pc = "user"
    /\ pc' = under /\ under' = "none" /\ after' = "none"
    /\ self' = IF under = "destroying" THEN self ELSE NoChan
    /\ CASE after = "close"  -> RemoveConnection(self)
         [] after = "remove" -> /\ poller' = P!RemoveChannel(poller, self)
                                /\ UNCHANGED <<connections_, pendingFuntors_>>
         [] OTHER            -> UNCHANGED <<poller, connections_, pendingFuntors_>>
    /\ UNCHANGED <<started_, nextConnId_, objects, batch, pos, events, kernel,
                   history>>

(* Forgets channel_->remove() when the connection is closed already. *)
ConnectDestroyedMutant(c, ph) ==
    IF state_[c] = "kConnected"
    THEN /\ state_' = [state_ EXCEPT ![c] = "kDisConnected"]
         /\ poller' = P!DisableAll(poller, c)
         /\ downs' = [downs EXCEPT ![c] = @ + 1]
         /\ CallUser(ph, "remove", c)
    ELSE /\ self' = IF ph = "destroying" THEN c ELSE NoChan
         /\ UNCHANGED <<poller, state_, downs, pc, under, after>>

(* connectDestroyed, called from phase ph. *)
ConnectDestroyed(c, ph) ==
    IF state_[c] = "kConnected"
    THEN /\ state_' = [state_ EXCEPT ![c] = "kDisConnected"]
         /\ poller' = P!DisableAll(poller, c)
         /\ downs' = [downs EXCEPT ![c] = @ + 1]
         /\ CallUser(ph, "remove", c)
    ELSE /\ poller' = P!RemoveChannel(poller, c)
         /\ self' = IF ph = "destroying" THEN c ELSE NoChan
         /\ UNCHANGED <<state_, downs, pc, under, after>>

-----------------------------------------------------------------------------
(* The loop *)

EnterLoop ==
    /\ pc = "outside" /\ started_
    /\ pc' = "poll"
    /\ UNCHANGED <<poller, server, objects, queue, events, caller, kernel, history>>

MinNat(a, b) == IF a <= b THEN a ELSE b

(* Resizes the vector after every poll. *)
GrowMutant(n) == 2 * n

Grow(n) == IF n > 0 /\ n = eventListSize THEN 2 * n ELSE eventListSize

(* EpollPoller::poll and fillActiveChannels: as many of the ready           *)
(* descriptors as events_ has room for; a full vector is doubled.           *)
Poll ==
    /\ pc = "poll"
    /\ \E S \in SUBSET ReadyFds :
         /\ Cardinality(S) = MinNat(Cardinality(ReadyFds), eventListSize)
         /\ active' = [ch \in {poller.ptr[f] : f \in S} |-> Mask(poller.fd_[ch])]
         /\ eventListSize' = Grow(Cardinality(S))
    /\ pc' = "dispatch"
    /\ UNCHANGED <<poller, server, objects, queue, cur, todo, caller, kernel, history>>

(* Calls closeCallback_ on every EPOLLHUP, readable or not. *)
CallbacksMutant(ch, mask) ==
    LET Call(cb, wanted) == IF wanted THEN <<cb>> ELSE <<>>
        read == Call("read", "IN" \in mask)
    IN IF ch = Acceptor THEN read
       ELSE Call("close", "HUP" \in mask) \o Call("error", "ERR" \in mask)
            \o read \o Call("write", "OUT" \in mask)

(* handleEventWithGuard: the callbacks that revents_ asks for, in order.    *)
(* The accept channel only has a read callback.                             *)
Callbacks(ch, mask) ==
    LET Call(cb, wanted) == IF wanted THEN <<cb>> ELSE <<>>
        read == Call("read", "IN" \in mask)
    IN IF ch = Acceptor THEN read
       ELSE Call("close", "HUP" \in mask /\ "IN" \notin mask)
            \o Call("error", "ERR" \in mask)
            \o read \o Call("write", "OUT" \in mask)

(* Channel::handleEvemt: the guard locks tie_ for the whole dispatch. *)
Dispatch ==
    /\ pc = "dispatch"
    /\ \E ch \in DOMAIN active :
         /\ cur' = ch
         /\ todo' = Callbacks(ch, active[ch])
         /\ active' = [x \in DOMAIN active \ {ch} |-> active[x]]
    /\ pc' = "events"
    /\ UNCHANGED <<poller, server, objects, queue, eventListSize, caller, kernel,
                   history>>

CallBack ==
    /\ pc = "events" /\ todo # <<>>
    /\ todo' = Tail(todo)
    /\ \/ cur = Acceptor /\ AcceptRead
       \/ cur # Acceptor /\ Head(todo) = "close" /\ HandleClose(cur)
       \/ cur # Acceptor /\ Head(todo) = "error" /\ HandleError(cur)
       \/ cur # Acceptor /\ Head(todo) = "read" /\ HandleRead(cur)
       \/ cur # Acceptor /\ Head(todo) = "write" /\ HandleWrite(cur)
    /\ UNCHANGED <<active, eventListSize, cur>>

(* The guard goes out of scope. *)
EndDispatch ==
    /\ pc = "events" /\ todo = <<>>
    /\ poller' = Reap(poller, cur,
                   \/ cur \in connections_ \cup {Acceptor}
                   \/ Holds(pendingFuntors_, cur) \/ Holds(batch, cur))
    /\ cur' = NoChan
    /\ pc' = "dispatch"
    /\ UNCHANGED <<server, objects, queue, active, eventListSize, todo, caller,
                   kernel, history>>

(* doPendingFunctors: the swap. *)
BeginFunctors ==
    /\ pc = "dispatch" /\ DOMAIN active = {}
    /\ batch' = pendingFuntors_ /\ pendingFuntors_' = <<>>
    /\ pc' = "functors"
    /\ UNCHANGED <<pos, poller, server, objects, events, caller, kernel, history>>

RunFunctor ==
    /\ pc = "functors" /\ pos <= Len(batch)
    /\ pos' = pos + 1
    /\ LET fn == batch[pos]
       IN CASE fn.f = "connectDestroyed" ->
                 /\ ConnectDestroyed(fn.c, "functors")
                 /\ UNCHANGED wrClosed
            [] fn.f = "shutdownInLoop" ->
                 /\ ShutdownInLoop(fn.c)
                 /\ UNCHANGED <<poller, state_, downs, pc, caller>>
            [] OTHER ->
                 /\ CallUser("functors", "none", fn.c)
                 /\ UNCHANGED <<poller, state_, downs, wrClosed>>
    /\ UNCHANGED <<server, oututBuffer_, pendingFuntors_, batch, events, backlog, rx,
                   fin, rst, err, stream, nsent, fault, ups>>

(* The local vector functors is destroyed element by element, and with it   *)
(* the references its functors hold.                                        *)
ReleaseFunctor ==
    /\ pc = "functors" /\ pos > Len(batch) /\ batch # <<>>
    /\ LET c == Head(batch).c
       IN poller' = IF IsStrong(Head(batch)) /\ Alive(c)
                    THEN Reap(poller, c, c \in connections_ \/ Holds(Tail(batch), c)
                                         \/ Holds(pendingFuntors_, c))
                    ELSE poller
    /\ batch' = Tail(batch)
    /\ UNCHANGED <<server, objects, pendingFuntors_, pos, events, pc, caller, kernel,
                   history>>

(* The next iteration, or out of loop() after a quit(). *)
EndIteration ==
    /\ pc = "functors" /\ batch = <<>>
    /\ pos' = 1
    /\ pc' \in {"poll", "outside"}
    /\ UNCHANGED <<poller, server, objects, pendingFuntors_, batch, events, caller, kernel, history>>

-----------------------------------------------------------------------------
(* ~TcpServer, once the loop has been left for good *)

DestroyServer ==
    /\ pc = "outside"
    /\ pc' = "destroying"
    /\ UNCHANGED <<poller, server, objects, queue, events, caller, kernel, history>>

(* The next connection of the map: a local shared_ptr takes it over and     *)
(* connectDestroyed runs at once.                                           *)
DestroyConnection(c) ==
    /\ pc = "destroying" /\ self = NoChan /\ c \in connections_
    /\ connections_' = connections_ \ {c}
    /\ ConnectDestroyed(c, "destroying")
    /\ UNCHANGED <<started_, nextConnId_, oututBuffer_, queue, events, kernel, nsent,
                   fault, ups>>

(* The local shared_ptr goes out of scope. *)
DropConnection ==
    /\ pc = "destroying" /\ self # NoChan
    /\ poller' = Reap(poller, self, Holds(pendingFuntors_, self))
    /\ self' = NoChan
    /\ UNCHANGED <<server, objects, queue, events, pc, under, after, kernel, history>>

(* ~Acceptor *)
DestroyAcceptor ==
    /\ pc = "destroying" /\ self = NoChan /\ connections_ = {}
    /\ poller' = P!Destroy(P!RemoveChannel(P!DisableAll(poller, Acceptor), Acceptor),
                           Acceptor)
    /\ pc' = "gone"
    /\ UNCHANGED <<server, objects, queue, events, caller, kernel, history>>

-----------------------------------------------------------------------------
Init ==
    /\ \E f \in Fd : poller = P!Construct(P!EmptyPoller, Acceptor, f)
    /\ eventListSize = kInitEventListSize
    /\ started_ = FALSE /\ connections_ = {} /\ nextConnId_ = 1
    /\ state_ = [c \in Conn |-> "kConnecting"]
    /\ oututBuffer_ = [c \in Conn |-> <<>>]
    /\ pendingFuntors_ = <<>> /\ batch = <<>> /\ pos = 1
    /\ pc = "outside" /\ active = <<>> /\ cur = NoChan /\ todo = <<>>
    /\ under = "none" /\ after = "none" /\ self = NoChan
    /\ backlog = 0 /\ rx = [c \in Conn |-> 0]
    /\ fin = [c \in Conn |-> FALSE] /\ rst = [c \in Conn |-> FALSE]
    /\ err = [c \in Conn |-> FALSE] /\ wrClosed = [c \in Conn |-> FALSE]
    /\ stream = [c \in Conn |-> <<>>]
    /\ nsent = [c \in Conn |-> 0] /\ fault = [c \in Conn |-> FALSE]
    /\ ups = [c \in Conn |-> 0] /\ downs = [c \in Conn |-> 0]

Peer ==
    \/ PeerConnects
    \/ \E c \in Conn : \/ PeerSends(c)
                       \/ \E reset \in BOOLEAN : PeerCloses(c, reset)

User ==
    \E c \in Conn : Shutdown(c) \/ \E len \in 1..MaxSend[c] : Send(c, len)

LoopThread ==
    \/ Poll \/ Dispatch \/ CallBack \/ EndDispatch
    \/ BeginFunctors \/ RunFunctor \/ ReleaseFunctor \/ EndIteration
    \/ ReturnFromUser

Owner ==
    \/ Start \/ EnterLoop \/ DestroyServer \/ DropConnection \/ DestroyAcceptor
    \/ \E c \in Conn : DestroyConnection(c)

Next == Peer \/ User \/ LoopThread \/ Owner

Spec == Init /\ [][Next]_vars

(* The loop's thread keeps running, and callbacks return. *)
FairSpec == Spec /\ WF_vars(LoopThread)

-----------------------------------------------------------------------------
(* Properties *)

InLoop == pc \in {"poll", "dispatch", "events", "functors"}
          \/ (pc = "user" /\ under # "destroying")

FunctorSet ==
    [f : {"connectDestroyed", "shutdownInLoop", "writeComplete", "highWaterMark"},
     c : Conn]

(* Type invariant. *)
TypeOK ==
    /\ eventListSize \in Nat \ {0}
    /\ started_ \in BOOLEAN /\ connections_ \subseteq Conn /\ nextConnId_ \in 1..MaxConns + 1
    /\ state_ \in [Conn -> {"kConnecting", "kConnected", "kDisConnecting", "kDisConnected"}]
    /\ DOMAIN oututBuffer_ = Conn /\ DOMAIN stream = Conn
    /\ \A c \in Conn : {oututBuffer_[c], stream[c]} \subseteq Seq(1..MaxSend[c])
    /\ pendingFuntors_ \in Seq(FunctorSet) /\ batch \in Seq(FunctorSet) /\ pos \in Nat \ {0}
    /\ DOMAIN active \subseteq Chans
    /\ \A ch \in DOMAIN active : active[ch] \subseteq {"IN", "OUT", "HUP", "ERR"}
    /\ cur \in Chans \cup {NoChan} /\ self \in Conn \cup {NoChan}
    /\ todo \in Seq({"close", "error", "read", "write"})
    /\ pc \in {"outside", "poll", "dispatch", "events", "functors", "user",
               "destroying", "gone"}
    /\ under \in {"none", "events", "functors", "destroying"}
    /\ after \in {"none", "close", "remove"}
    /\ backlog \in 0..1 /\ rx \in [Conn -> 0..MaxRx]
    /\ \A b \in {fin, rst, err, wrClosed, fault} : b \in [Conn -> BOOLEAN]
    /\ (\A c \in Conn : nsent[c] \in 0..MaxSend[c]) /\ ups \in [Conn -> Nat] /\ downs \in [Conn -> Nat]
    /\ P!TypeOK

(* The handlers keep the poller's books straight: through accept, close,    *)
(* destruction and descriptor reuse, no epoll_ctl fails fatally, the kernel *)
(* holds no pointer to a destroyed channel, and each registered channel is  *)
(* watched with the mask it asked for.                                      *)
PollerSound == P!NeverFatal /\ P!NoDanglingChannel /\ P!KernelAgrees

(* handleEvemt never runs on a destroyed channel: whatever the callbacks of *)
(* the channels before it in activeChannels_ did, each channel still to be  *)
(* dispatched, and the one in dispatch, exists.  (activeChannels_ holds raw *)
(* pointers.)                                                               *)
ActiveChannelsLive == \A ch \in DOMAIN active \cup ({cur} \ {NoChan}) : Alive(ch)

(* shutdown() binds a raw this: as long as the loop runs, the connection of *)
(* every functor still to be run exists, although no reference guards it.   *)
FunctorsLive ==
    InLoop =>
        /\ \A i \in DOMAIN pendingFuntors_ : Alive(pendingFuntors_[i].c)
        /\ \A i \in DOMAIN batch : i >= pos => Alive(batch[i].c)

(* connectionCallback_ is called once for the connection and at most once   *)
(* for its end; a connection destroyed by the loop has had both calls.      *)
(* (~TcpServer makes no second call for a connection in kDisConnecting.)    *)
CallbacksPair ==
    \A c \in Conn :
        /\ ups[c] = (IF c < nextConnId_ THEN 1 ELSE 0)
        /\ downs[c] <= ups[c]
        /\ ups[c] = 1 /\ ~Alive(c) /\ state_[c] # "kDisConnecting" => downs[c] = 1
        /\ ups[c] = 1 /\ ~Alive(c) /\ InLoop => downs[c] = 1

(* When the loop goes to sleep in epoll_wait, the connections that exist    *)
(* are those of connections_, each of them watched for EPOLLIN: no closed   *)
(* connection is kept, and no open one is deaf.                             *)
NoZombieAtPoll ==
    pc = "poll" => \A c \in Conn :
        /\ Alive(c) <=> c \in connections_
        /\ Alive(c) => poller.index_[c] = 1 /\ "IN" \in poller.events_[c]

(* What the kernel took and what oututBuffer_ keeps is what user code sent, *)
(* in order and without loss, unless the connection was reset under a send. *)
StreamInOrder ==
    \A c \in Conn : ~fault[c] =>
        stream[c] \o oututBuffer_[c] = [i \in 1..nsent[c] |-> i]

(* A connection whose peer has closed or reset it is destroyed, unless the  *)
(* loop is left.                                                            *)
ClosedIsDestroyed ==
    \A c \in Conn : (Alive(c) /\ (fin[c] \/ rst[c])) ~> (~Alive(c) \/ ~InLoop)

(* shutdown() reaches the socket: the write side is half-closed, unless the *)
(* connection ends or the loop is left first.                               *)
ShutdownHalfCloses ==
    \A c \in Conn : (state_[c] = "kDisConnecting") ~>
        (wrClosed[c] \/ state_[c] = "kDisConnected" \/ ~InLoop)

(* sendInLoop's comment: the channel must be registered for EPOLLOUT when   *)
(* bytes are left in oututBuffer_, or the poller will not report it.        *)
BufferedIsWatched ==
    \A c \in Conn :
        Alive(c) /\ state_[c] = "kConnected" /\ oututBuffer_[c] # <<>> =>
            "OUT" \in poller.events_[c]
=============================================================================

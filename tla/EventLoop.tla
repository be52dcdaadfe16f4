----------------------------- MODULE EventLoop -----------------------------
(***************************************************************************)
(* net/EventLoop.cc: one thread runs loop(), which polls, dispatches the   *)
(* active channels and runs the functors other code queued; any thread may *)
(* call runInLoop, queueInLoop and quit at any time.  queueInLoop is three *)
(* steps (push under the mutex, test the flag, write the eventfd), each    *)
(* open to interleaving with the loop and with other callers.              *)
(***************************************************************************)
EXTENDS Integers, Sequences

CONSTANTS
    LoopThread,   \* the thread that constructed the loop and runs loop()
    Callers,      \* other threads that hold a pointer to the loop
    Functors,     \* functors user code passes in, each at most once
    NoThread,     \* no thread
    Pid           \* the id of the process, what getpid returns

Threads == Callers \cup {LoopThread}

ASSUME EventLoopAssumption ==
    /\ LoopThread \notin Callers
    /\ NoThread \notin Threads

VARIABLES
    looping_, quit_, callingPendingFunctors_,
    pendingFuntors_,  \* queued functors (the member, guarded by mutex_)
    functors,         \* the batch doPendingFunctors still has to run
    wakeupFd_,        \* the eventfd's counter
    activeChannels_,  \* channels the last poll reported, not yet dispatched
    pc,               \* where the loop thread is
    call,             \* per thread: where it is inside queueInLoop or quit
    from,             \* per functor: who passed it in (history)
    ranBy,            \* per functor: the thread that ran it (history)
    executed          \* queued functors in the order they ran (history)

loopVars == <<looping_, quit_, callingPendingFunctors_, functors,
              activeChannels_, pc>>
callVars == <<pendingFuntors_, wakeupFd_, call>>
history  == <<from, ranBy, executed>>
vars     == <<looping_, quit_, callingPendingFunctors_, pendingFuntors_,
              functors, wakeupFd_, activeChannels_, pc, call, from, ranBy,
              executed>>

-----------------------------------------------------------------------------
(* CurrentThread::tid: the value is cached per thread, but it is obtained  *)
(* with SYS_getpid, so every thread of the process gets the same one.      *)
Tid(t) == Pid

threadId_ == Tid(LoopThread)

IsInLoopThread(t) == Tid(t) = threadId_

(* Thread t is executing user code and may call into the loop: the loop    *)
(* thread outside loop(), in a channel's callback or in a functor; another *)
(* thread whenever it has no call in progress.                             *)
UserCode(t) ==
    /\ call[t] = "none"
    /\ t = LoopThread => pc \in {"outside", "callback", "functor"}

Origin(t) ==
    IF t # LoopThread THEN "caller"
    ELSE IF pc = "outside" THEN "outside" ELSE "loop"

-----------------------------------------------------------------------------
(* Calls made by user code in any thread *)

(* queueInLoop, first step: the push, under mutex_. *)
Push(t, f) ==
    /\ pendingFuntors_' = Append(pendingFuntors_, f)
    /\ call' = [call EXCEPT ![t] = "queued"]
    /\ UNCHANGED <<loopVars, wakeupFd_, ranBy, executed>>

QueueInLoop(t, f) ==
    /\ UserCode(t) /\ from[f] = "none"
    /\ from' = [from EXCEPT ![f] = Origin(t)]
    /\ Push(t, f)

RunInLoop(t, f) ==
    /\ UserCode(t) /\ from[f] = "none"
    /\ from' = [from EXCEPT ![f] = Origin(t)]
    /\ IF IsInLoopThread(t)
       THEN /\ ranBy' = [ranBy EXCEPT ![f] = t]
            /\ UNCHANGED <<loopVars, callVars, executed>>
       ELSE Push(t, f)

(* Wakes the loop only for callers it takes to be other threads. *)
TestCallingMutant(t) ==
    /\ call[t] = "queued"
    /\ call' = [call EXCEPT ![t] = IF ~IsInLoopThread(t) THEN "wakeup" ELSE "none"]
    /\ UNCHANGED <<loopVars, pendingFuntors_, wakeupFd_, history>>

(* queueInLoop, second step: does the loop have to be woken? *)
TestCalling(t) ==
    /\ call[t] = "queued"
    /\ call' = [call EXCEPT ![t] =
                  IF ~IsInLoopThread(t) \/ callingPendingFunctors_
                  THEN "wakeup" ELSE "none"]
    /\ UNCHANGED <<loopVars, pendingFuntors_, wakeupFd_, history>>

(* wakeup: adds one to the eventfd. *)
Wakeup(t) ==
    /\ call[t] = "wakeup"
    /\ wakeupFd_' = wakeupFd_ + 1
    /\ call' = [call EXCEPT ![t] = "none"]
    /\ UNCHANGED <<loopVars, pendingFuntors_, history>>

Quit(t) ==
    /\ UserCode(t)
    /\ quit_' = TRUE
    /\ call' = [call EXCEPT ![t] = IF IsInLoopThread(t) THEN "none" ELSE "wakeup"]
    /\ UNCHANGED <<looping_, callingPendingFunctors_, pendingFuntors_, functors,
                   wakeupFd_, activeChannels_, pc, history>>

-----------------------------------------------------------------------------
(* The loop thread *)

(* loop() is entered; it forgets an earlier quit(). *)
StartLoop ==
    /\ pc = "outside" /\ call[LoopThread] = "none"
    /\ looping_' = TRUE /\ quit_' = FALSE
    /\ pc' = "while"
    /\ UNCHANGED <<callingPendingFunctors_, functors, activeChannels_, callVars,
                   history>>

(* Tests looping_ in place of quit_. *)
WhileMutant ==
    /\ pc = "while"
    /\ IF ~looping_
       THEN /\ pc' = "outside"
            /\ UNCHANGED <<looping_, activeChannels_>>
       ELSE /\ pc' = "poll" /\ activeChannels_' = {}
            /\ UNCHANGED looping_
    /\ UNCHANGED <<quit_, callingPendingFunctors_, functors, callVars, history>>

(* while (!quit_), and activeChannels_.clear(). *)
While ==
    /\ pc = "while"
    /\ IF quit_
       THEN /\ pc' = "outside" /\ looping_' = FALSE
            /\ UNCHANGED activeChannels_
       ELSE /\ pc' = "poll" /\ activeChannels_' = {}
            /\ UNCHANGED looping_
    /\ UNCHANGED <<quit_, callingPendingFunctors_, functors, callVars, history>>

(* No timeout: epoll_wait sleeps until the eventfd is written. *)
PollMutant ==
    /\ pc = "poll" /\ wakeupFd_ > 0
    /\ \E io \in SUBSET {"io"} : activeChannels_' = io \cup {"wakeup"}
    /\ pc' = "dispatch"
    /\ UNCHANGED <<looping_, quit_, callingPendingFunctors_, functors, callVars,
                   history>>

(* epoll_wait reports the eventfd whenever it is readable (level-triggered) *)
(* and the other channels as they come; it returns with none of them after *)
(* kPollTimeMs.                                                            *)
Poll ==
    /\ pc = "poll"
    /\ \E io \in SUBSET {"io"} :
         activeChannels_' = io \cup IF wakeupFd_ > 0 THEN {"wakeup"} ELSE {}
    /\ pc' = "dispatch"
    /\ UNCHANGED <<looping_, quit_, callingPendingFunctors_, functors, callVars,
                   history>>

(* handleRead of the wakeup channel: read(2) returns and clears the counter. *)
HandleRead ==
    /\ pc = "dispatch" /\ "wakeup" \in activeChannels_
    /\ wakeupFd_' = 0
    /\ activeChannels_' = activeChannels_ \ {"wakeup"}
    /\ UNCHANGED <<looping_, quit_, callingPendingFunctors_, functors, pc,
                   pendingFuntors_, call, history>>

(* handleEvemt of any other channel runs user code until ReturnToLoop. *)
HandleEvent ==
    /\ pc = "dispatch" /\ "io" \in activeChannels_
    /\ activeChannels_' = activeChannels_ \ {"io"}
    /\ pc' = "callback"
    /\ UNCHANGED <<looping_, quit_, callingPendingFunctors_, functors, callVars,
                   history>>

(* doPendingFunctors: the flag, the swap, the batch, the flag again. *)
BeginFunctors ==
    /\ pc = "dispatch" /\ activeChannels_ = {}
    /\ callingPendingFunctors_' = TRUE
    /\ pc' = "swap"
    /\ UNCHANGED <<looping_, quit_, functors, activeChannels_, callVars, history>>

(* Assigns the batch in place of swapping it: the functors stay queued. *)
SwapMutant ==
    /\ pc = "swap"
    /\ functors' = pendingFuntors_
    /\ pc' = "functors"
    /\ UNCHANGED <<looping_, quit_, callingPendingFunctors_, activeChannels_,
                   callVars, history>>

Swap ==
    /\ pc = "swap"
    /\ functors' = pendingFuntors_ /\ pendingFuntors_' = <<>>
    /\ pc' = "functors"
    /\ UNCHANGED <<looping_, quit_, callingPendingFunctors_, activeChannels_,
                   wakeupFd_, call, history>>

(* The next functor of the batch runs user code until ReturnToLoop. *)
RunFunctor ==
    /\ pc = "functors" /\ functors # <<>>
    /\ functors' = Tail(functors)
    /\ ranBy' = [ranBy EXCEPT ![Head(functors)] = LoopThread]
    /\ executed' = Append(executed, Head(functors))
    /\ pc' = "functor"
    /\ UNCHANGED <<looping_, quit_, callingPendingFunctors_, activeChannels_,
                   callVars, from>>

(* Leaves the flag set behind the batch. *)
EndFunctorsMutant ==
    /\ pc = "functors" /\ functors = <<>>
    /\ pc' = "while"
    /\ UNCHANGED <<looping_, quit_, callingPendingFunctors_, functors, activeChannels_,
                   callVars, history>>

EndFunctors ==
    /\ pc = "functors" /\ functors = <<>>
    /\ callingPendingFunctors_' = FALSE
    /\ pc' = "while"
    /\ UNCHANGED <<looping_, quit_, functors, activeChannels_, callVars, history>>

(* The user code of a callback or a functor returns. *)
ReturnToLoop ==
    /\ call[LoopThread] = "none"
    /\ \/ pc = "callback" /\ pc' = "dispatch"
       \/ pc = "functor" /\ pc' = "functors"
    /\ UNCHANGED <<looping_, quit_, callingPendingFunctors_, functors,
                   activeChannels_, callVars, history>>

-----------------------------------------------------------------------------
Init ==
    /\ looping_ = FALSE /\ quit_ = FALSE /\ callingPendingFunctors_ = FALSE
    /\ pendingFuntors_ = <<>> /\ functors = <<>>
    /\ wakeupFd_ = 0 /\ activeChannels_ = {}
    /\ pc = "outside"
    /\ call = [t \in Threads |-> "none"]
    /\ from = [f \in Functors |-> "none"]
    /\ ranBy = [f \in Functors |-> NoThread]
    /\ executed = <<>>

InLoop ==
    \/ While \/ Poll \/ HandleRead \/ HandleEvent
    \/ BeginFunctors \/ Swap \/ RunFunctor \/ EndFunctors
    \/ ReturnToLoop

InCall(t) == TestCalling(t) \/ Wakeup(t)

UserCall(t) ==
    \/ \E f \in Functors : QueueInLoop(t, f) \/ RunInLoop(t, f)
    \/ Quit(t)

Next ==
    \/ StartLoop \/ InLoop
    \/ \E t \in Threads : UserCall(t) \/ InCall(t)

Spec == Init /\ [][Next]_vars

(* The loop thread and a thread inside queueInLoop keep running, epoll_wait *)
(* returns within kPollTimeMs, and callbacks and functors return.  User     *)
(* code owes no call, and nobody owes a call of loop().                     *)
FairSpec ==
    /\ Spec
    /\ WF_vars(InLoop)
    /\ \A t \in Threads : WF_vars(InCall(t))

-----------------------------------------------------------------------------
(* Properties *)

Stages == {"outside", "while", "poll", "dispatch", "callback", "swap",
           "functors", "functor"}

(* Every variable has its type, and the two flags say where the loop thread *)
(* is: looping_ that it is inside loop(), callingPendingFunctors_ that it   *)
(* is inside doPendingFunctors, which queueInLoop relies on (loop,          *)
(* doPendingFunctors).                                                      *)
TypeOK ==
    /\ looping_ \in BOOLEAN /\ quit_ \in BOOLEAN /\ callingPendingFunctors_ \in BOOLEAN
    /\ looping_ <=> pc # "outside"
    /\ callingPendingFunctors_ <=> pc \in {"swap", "functors", "functor"}
    /\ pendingFuntors_ \in Seq(Functors)
    /\ functors \in Seq(Functors)
    /\ wakeupFd_ \in Nat
    /\ activeChannels_ \subseteq {"wakeup", "io"}
    /\ pc \in Stages
    /\ call \in [Threads -> {"none", "queued", "wakeup"}]
    /\ from \in [Functors -> {"none", "outside", "loop", "caller"}]
    /\ ranBy \in [Functors -> Threads \cup {NoThread}]
    /\ executed \in Seq(Functors)

(* A functor queued by a callback or by another functor never waits while   *)
(* the loop sleeps: when epoll_wait blocks, either such a functor is not    *)
(* pending or the eventfd is readable (the reason given for                 *)
(* callingPendingFunctors_ in queueInLoop).                                 *)
LoopQueuedIsWoken ==
    pc = "poll" /\ (\E i \in DOMAIN pendingFuntors_ :
                       from[pendingFuntors_[i]] = "loop")
    => wakeupFd_ > 0

(* Queued functors run once each and in the order they were queued, across  *)
(* the swaps and the batches, whichever threads queued them and whatever    *)
(* functors queue while a batch runs.                                       *)
Tasks == INSTANCE TaskQueue WITH
    Task <- Functors, todo <- functors \o pendingFuntors_, done <- executed

RunsInOrder == Tasks!TSpec

(* A functor that is queued while the loop runs is executed, or the loop is *)
(* left, even when nobody wakes the loop: epoll_wait times out.             *)
QueuedFunctorRuns ==
    \A f \in Functors :
        (pc # "outside" /\ \E i \in DOMAIN pendingFuntors_ : pendingFuntors_[i] = f)
        ~> (ranBy[f] = LoopThread \/ pc = "outside")

(* quit() on a running loop, from any thread and without a wakeup, ends it. *)
QuitEndsLoop == (quit_ /\ pc # "outside") ~> (pc = "outside")
=============================================================================

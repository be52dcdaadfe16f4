-------------------------- MODULE EventLoopProofs --------------------------
(***************************************************************************)
(* Proofs about EventLoop for any number of caller threads and functors:   *)
(* type correctness, no functor queued by the loop's own code sleeps       *)
(* through a poll, and queued functors run once each in order.             *)
(***************************************************************************)
EXTENDS EventLoop, SequenceTheorems, TLAPS

(* The loop thread is inside queueInLoop only when user code called it. *)
CallInv ==
    pc \notin {"outside", "callback", "functor"} => call[LoopThread] = "none"

(* There is a batch only while it is being run. *)
BatchInv == pc \notin {"functors", "functor"} => functors = <<>>

(* A queued functor was passed in by someone, so it is not passed in again. *)
FromInv ==
    \A i \in DOMAIN pendingFuntors_ : from[pendingFuntors_[i]] # "none"

LoopQueued ==
    \E i \in DOMAIN pendingFuntors_ : from[pendingFuntors_[i]] = "loop"

(* A functor queued by the loop's own code is covered: the eventfd is       *)
(* readable, or this iteration has not swapped yet, or the loop thread is   *)
(* still inside the queueInLoop that will write the eventfd.                *)
WakeInv ==
    LoopQueued =>
        \/ wakeupFd_ > 0
        \/ pc \in {"dispatch", "callback", "swap"}
        \/ call[LoopThread] = "wakeup"
        \/ call[LoopThread] = "queued" /\ callingPendingFunctors_

LoopInv == TypeOK /\ CallInv /\ BatchInv /\ FromInv /\ WakeInv

(* The initial state satisfies the inductive invariant. *)
LEMMA LoopInvInit == Init => LoopInv
<1> SUFFICES ASSUME Init PROVE LoopInv
  OBVIOUS
<1>1. TypeOK
  <2>1. /\ looping_ \in BOOLEAN /\ quit_ \in BOOLEAN /\ callingPendingFunctors_ \in BOOLEAN
        /\ looping_ <=> pc # "outside"
        /\ callingPendingFunctors_ <=> pc \in {"swap", "functors", "functor"}
    BY DEF Init
  <2>2. /\ pendingFuntors_ \in Seq(Functors) /\ functors \in Seq(Functors)
        /\ wakeupFd_ \in Nat /\ activeChannels_ \subseteq {"wakeup", "io"}
        /\ pc \in Stages /\ executed \in Seq(Functors)
    BY DEF Init, Stages
  <2>3. /\ call \in [Threads -> {"none", "queued", "wakeup"}]
        /\ from \in [Functors -> {"none", "outside", "loop", "caller"}]
        /\ ranBy \in [Functors -> Threads \cup {NoThread}]
    BY DEF Init
  <2> QED
    BY <2>1, <2>2, <2>3 DEF TypeOK
<1>2. CallInv /\ BatchInv /\ FromInv
  BY DEF Init, CallInv, BatchInv, FromInv, Threads
<1>3. WakeInv
  BY DEF Init, WakeInv, LoopQueued
<1> QED
  BY <1>1, <1>2, <1>3 DEF LoopInv

(* The type invariant is inductive by itself. *)
LEMMA TypeStep == TypeOK /\ [Next]_vars => TypeOK'
<1> SUFFICES ASSUME TypeOK, [Next]_vars PROVE TypeOK'
  OBVIOUS
<1> USE EventLoopAssumption DEF TypeOK, Stages, Threads
<1>1. CASE UNCHANGED vars
  BY <1>1 DEF vars
<1>2. CASE StartLoop
  BY <1>2 DEF StartLoop, callVars, history
<1>3. CASE While
  BY <1>3 DEF While, callVars, history
<1>4. CASE Poll
  BY <1>4 DEF Poll, callVars, history
<1>5. CASE HandleRead
  BY <1>5 DEF HandleRead, history
<1>6. CASE HandleEvent
  BY <1>6 DEF HandleEvent, callVars, history
<1>7. CASE BeginFunctors
  BY <1>7 DEF BeginFunctors, callVars, history
<1>8. CASE Swap
  BY <1>8 DEF Swap, history
<1>9. CASE RunFunctor
  <2>1. Head(functors) \in Functors /\ Tail(functors) \in Seq(Functors)
    BY <1>9 DEF RunFunctor
  <2> QED
    BY <1>9, <2>1 DEF RunFunctor, callVars
<1>10. CASE EndFunctors
  BY <1>10 DEF EndFunctors, callVars, history
<1>11. CASE ReturnToLoop
  BY <1>11 DEF ReturnToLoop, callVars, history
<1>12. ASSUME NEW t \in Threads, NEW f \in Functors, QueueInLoop(t, f) PROVE TypeOK'
  BY <1>12 DEF QueueInLoop, Push, Origin, loopVars
<1>13. ASSUME NEW t \in Threads, NEW f \in Functors, RunInLoop(t, f) PROVE TypeOK'
  <2>1. IsInLoopThread(t)
    BY DEF IsInLoopThread, threadId_, Tid
  <2> QED
    BY <1>13, <2>1 DEF RunInLoop, Origin, loopVars, callVars
<1>14. ASSUME NEW t \in Threads, Quit(t) PROVE TypeOK'
  BY <1>14 DEF Quit, history
<1>15. ASSUME NEW t \in Threads, TestCalling(t) PROVE TypeOK'
  BY <1>15 DEF TestCalling, loopVars, history
<1>16. ASSUME NEW t \in Threads, Wakeup(t) PROVE TypeOK'
  BY <1>16 DEF Wakeup, loopVars, history
<1> QED
  BY <1>1, <1>2, <1>3, <1>4, <1>5, <1>6, <1>7, <1>8, <1>9, <1>10, <1>11, <1>12,
     <1>13, <1>14, <1>15, <1>16
  DEF Next, InLoop, UserCall, InCall

(* What the loop thread does to CallInv, BatchInv and WakeInv. *)
LEMMA LoopStep ==
    ASSUME LoopInv, StartLoop \/ InLoop
    PROVE  CallInv' /\ BatchInv' /\ FromInv' /\ WakeInv'
<1> USE DEF LoopInv, TypeOK, CallInv, BatchInv, FromInv, WakeInv, LoopQueued,
            callVars, history
<1>1. CASE StartLoop
  BY <1>1 DEF StartLoop
<1>2. CASE While
  BY <1>2 DEF While
<1>3. CASE Poll
  BY <1>3 DEF Poll
<1>4. CASE HandleRead
  BY <1>4 DEF HandleRead
<1>5. CASE HandleEvent
  BY <1>5 DEF HandleEvent
<1>6. CASE BeginFunctors
  BY <1>6 DEF BeginFunctors
<1>7. CASE Swap
  BY <1>7 DEF Swap
<1>8. CASE RunFunctor
  BY <1>8 DEF RunFunctor
<1>9. CASE EndFunctors
  BY <1>9 DEF EndFunctors
<1>10. CASE ReturnToLoop
  BY <1>10 DEF ReturnToLoop
<1> QED
  BY <1>1, <1>2, <1>3, <1>4, <1>5, <1>6, <1>7, <1>8, <1>9, <1>10 DEF InLoop

(* What calls of user code do to them, whichever thread makes the call. *)
LEMMA CallStep ==
    ASSUME LoopInv, NEW t \in Threads, UserCall(t) \/ InCall(t)
    PROVE  CallInv' /\ BatchInv' /\ FromInv' /\ WakeInv'
<1> USE EventLoopAssumption
    DEF LoopInv, TypeOK, CallInv, BatchInv, FromInv, WakeInv, LoopQueued,
        callVars, loopVars, history, Threads
<1>1. ASSUME NEW f \in Functors, UserCode(t), Push(t, f),
             from' = [from EXCEPT ![f] = Origin(t)], from[f] = "none"
      PROVE  CallInv' /\ BatchInv' /\ FromInv' /\ WakeInv'
  <2>1. CallInv' /\ BatchInv'
    BY <1>1 DEF Push, UserCode
  <2>0. /\ DOMAIN pendingFuntors_ = 1..Len(pendingFuntors_)
        /\ DOMAIN pendingFuntors_' = 1..(Len(pendingFuntors_) + 1)
        /\ \A j \in 1..Len(pendingFuntors_) :
               pendingFuntors_'[j] = pendingFuntors_[j]
        /\ pendingFuntors_'[Len(pendingFuntors_) + 1] = f
        /\ Len(pendingFuntors_) \in Nat
    BY <1>1 DEF Push
  <2>3. FromInv'
    <3>1. Origin(t) # "none"
      BY DEF Origin
    <3>2. ASSUME NEW i \in DOMAIN pendingFuntors_' PROVE from'[pendingFuntors_'[i]] # "none"
      <4>1. CASE i \in 1..Len(pendingFuntors_)
        BY <1>1, <2>0, <3>1, <4>1
      <4>2. CASE i = Len(pendingFuntors_) + 1
        BY <1>1, <2>0, <3>1, <4>2
      <4> DEFINE n == Len(pendingFuntors_)
      <4>3. n \in Nat /\ i \in 1..(n + 1)
        BY <2>0
      <4>4. i \in 1..n \/ i = n + 1
        <5> HIDE DEF n
        <5> QED
          BY ONLY <4>3
      <4> QED
        BY <4>1, <4>2, <4>4
    <3> QED
      BY <3>2
  <2>2. WakeInv'
    <3> SUFFICES ASSUME LoopQueued' PROVE WakeInv'
      BY DEF WakeInv
    <3>1. CASE t = LoopThread /\ pc # "outside"
      BY <1>1, <3>1 DEF Push, UserCode
    <3>2. CASE t # LoopThread \/ pc = "outside"
      <4>1. from'[f] # "loop"
        BY <1>1, <3>2 DEF Origin
      <4>2. LoopQueued
        <5>1. PICK i \in DOMAIN pendingFuntors_' :
                from'[pendingFuntors_'[i]] = "loop"
          OBVIOUS
        <5>3. i \in 1..Len(pendingFuntors_)
          BY <2>0, <4>1, <5>1
        <5>4. from[pendingFuntors_[i]] = "loop"
          BY <1>1, <2>0, <4>1, <5>1, <5>3
        <5> QED
          BY <2>0, <5>3, <5>4
      <4>3. \/ wakeupFd_ > 0
            \/ pc \in {"dispatch", "callback", "swap"}
            \/ call[LoopThread] = "wakeup"
            \/ call[LoopThread] = "queued" /\ callingPendingFunctors_
        BY <4>2
      <4>4. t = LoopThread => call[LoopThread] = "none"
        BY <1>1 DEF UserCode
      <4> QED
        BY <1>1, <4>3, <4>4 DEF Push
    <3> QED
      BY <3>1, <3>2
  <2> QED
    BY <2>1, <2>2, <2>3
<1>2. ASSUME NEW f \in Functors, QueueInLoop(t, f)
      PROVE  CallInv' /\ BatchInv' /\ FromInv' /\ WakeInv'
  BY <1>1, <1>2 DEF QueueInLoop
<1>3. ASSUME NEW f \in Functors, RunInLoop(t, f)
      PROVE  CallInv' /\ BatchInv' /\ FromInv' /\ WakeInv'
  <2>1. IsInLoopThread(t)
    BY DEF IsInLoopThread, threadId_, Tid
  <2>2. UNCHANGED <<loopVars, callVars>>
    BY <1>3, <2>1 DEF RunInLoop
  <2>3. Origin(t) # "none"
    BY DEF Origin
  <2>4. ASSUME NEW i \in DOMAIN pendingFuntors_
        PROVE  from'[pendingFuntors_[i]] = from[pendingFuntors_[i]]
    <3>1. pendingFuntors_[i] \in Functors /\ pendingFuntors_[i] # f
      BY <1>3 DEF RunInLoop
    <3> QED
      BY <1>3, <3>1 DEF RunInLoop
  <2>5. CallInv' /\ BatchInv'
    BY <2>2
  <2>6. pendingFuntors_' = pendingFuntors_
    BY <2>2
  <2>7. FromInv' /\ (LoopQueued' <=> LoopQueued)
    BY <2>4, <2>6
  <2>8. WakeInv'
    BY <2>2, <2>7
  <2> QED
    BY <2>5, <2>7, <2>8
<1>4. CASE Quit(t)
  BY <1>4 DEF Quit, UserCode, IsInLoopThread, threadId_, Tid
<1>5. CASE TestCalling(t)
  BY <1>5 DEF TestCalling, IsInLoopThread, threadId_, Tid
<1>6. CASE Wakeup(t)
  BY <1>6 DEF Wakeup
<1> QED
  BY <1>2, <1>3, <1>4, <1>5, <1>6 DEF UserCall, InCall

(* LoopInv is inductive. *)
LEMMA LoopInvInductive == LoopInv /\ [Next]_vars => LoopInv'
<1> SUFFICES ASSUME LoopInv, [Next]_vars PROVE LoopInv'
  OBVIOUS
<1>1. TypeOK'
  BY TypeStep DEF LoopInv
<1>2. CASE UNCHANGED vars
  BY <1>1, <1>2
  DEF LoopInv, CallInv, BatchInv, FromInv, WakeInv, LoopQueued, vars
<1>3. CASE Next
  BY <1>1, <1>3, LoopStep, CallStep DEF Next, LoopInv
<1> QED
  BY <1>2, <1>3

(* Type correctness of EventLoop. *)
THEOREM EventLoopTypeOK == Spec => []TypeOK
<1>1. LoopInv => TypeOK
  BY DEF LoopInv
<1> QED
  BY <1>1, LoopInvInit, LoopInvInductive, PTL DEF Spec

(* No functor queued from a callback or a functor waits while the loop is   *)
(* blocked in epoll_wait with nothing to wake it.                           *)
THEOREM EventLoopWakes == Spec => []LoopQueuedIsWoken
<1>1. LoopInv => LoopQueuedIsWoken
  BY DEF LoopInv, CallInv, WakeInv, LoopQueued, LoopQueuedIsWoken
<1> QED
  BY <1>1, LoopInvInit, LoopInvInductive, PTL DEF Spec

(* Head and tail of a concatenation whose first part is not empty. *)
LEMMA HeadTailConcat ==
    ASSUME NEW s \in Seq(Functors), NEW u \in Seq(Functors), s # <<>>
    PROVE  /\ s \o u # <<>>
           /\ Head(s \o u) = Head(s)
           /\ Tail(s \o u) = Tail(s) \o u
<1>1. /\ Len(s) \in Nat /\ Len(s) > 0 /\ Len(u) \in Nat
      /\ Tail(s) \in Seq(Functors) /\ Len(Tail(s)) = Len(s) - 1
      /\ \A i \in 1..(Len(s) - 1) : Tail(s)[i] = s[i + 1]
  OBVIOUS
<1> DEFINE v == s \o u
           w == Tail(s) \o u
<1>2. /\ v \in Seq(Functors) /\ Len(v) = Len(s) + Len(u)
      /\ \A i \in 1..(Len(s) + Len(u)) :
            v[i] = IF i <= Len(s) THEN s[i] ELSE u[i - Len(s)]
  BY ConcatProperties
<1>3. /\ w \in Seq(Functors) /\ Len(w) = Len(s) - 1 + Len(u)
      /\ \A i \in 1..(Len(s) - 1 + Len(u)) :
            w[i] = IF i <= Len(s) - 1 THEN Tail(s)[i] ELSE u[i - (Len(s) - 1)]
  BY <1>1, ConcatProperties
<1> HIDE DEF v, w
<1>4. v # <<>> /\ Head(v) = s[1]
  BY <1>1, <1>2
<1>5. /\ Tail(v) \in Seq(Functors) /\ Len(Tail(v)) = Len(s) + Len(u) - 1
      /\ \A i \in 1..(Len(s) + Len(u) - 1) : Tail(v)[i] = v[i + 1]
  BY <1>1, <1>2, <1>4
<1>6. ASSUME NEW i \in 1..(Len(s) + Len(u) - 1) PROVE Tail(v)[i] = w[i]
  <2>1. CASE i <= Len(s) - 1
    BY <1>1, <1>2, <1>3, <1>5, <2>1
  <2>2. CASE i > Len(s) - 1
    <3>1. (i + 1) - Len(s) = i - (Len(s) - 1) /\ ~(i + 1 <= Len(s))
      BY <1>1, <2>2
    <3>2. v[i + 1] = u[(i + 1) - Len(s)]
      BY <1>1, <1>2, <3>1
    <3>3. w[i] = u[i - (Len(s) - 1)]
      BY <1>1, <1>3, <2>2
    <3> QED
      BY <1>5, <3>1, <3>2, <3>3
  <2>3. i <= Len(s) - 1 \/ i > Len(s) - 1
    BY <1>1
  <2> QED
    BY <2>1, <2>2, <2>3
<1>7. Tail(v) = w
  BY <1>1, <1>3, <1>5, <1>6, SeqEqual
<1>8. Head(s) = s[1]
  BY <1>1
<1> QED
  BY <1>4, <1>7, <1>8 DEF v, w

(* Queued functors run once each and in order: functors, then               *)
(* pendingFuntors_, is the abstract queue, and executed what has left it.   *)
THEOREM EventLoopRunsInOrder == Spec => RunsInOrder
<1>1. Init => Tasks!TInit
  BY DEF Init, Tasks!TInit
<1>2. ASSUME LoopInv, [Next]_vars PROVE [Tasks!TNext]_(Tasks!tvars)
  <2>0. /\ pendingFuntors_ \in Seq(Functors) /\ functors \in Seq(Functors)
        /\ pc = "swap" => functors = <<>>
    BY <1>2 DEF LoopInv, TypeOK, BatchInv
  <2>1. ASSUME functors' = functors, pendingFuntors_' = pendingFuntors_,
               executed' = executed
        PROVE  UNCHANGED Tasks!tvars
    BY <2>1 DEF Tasks!tvars
  <2>2. ASSUME NEW t \in Threads, NEW f \in Functors, Push(t, f)
        PROVE  Tasks!Submit
    <3>1. /\ functors' = functors /\ executed' = executed
          /\ pendingFuntors_' = Append(pendingFuntors_, f)
      BY <2>2 DEF Push, loopVars
    <3>2. functors \o Append(pendingFuntors_, f) =
            Append(functors \o pendingFuntors_, f)
      <4>1. /\ Append(pendingFuntors_, f) = pendingFuntors_ \o <<f>>
            /\ <<f>> \in Seq(Functors)
        BY <2>0
      <4>2. functors \o (pendingFuntors_ \o <<f>>) =
              (functors \o pendingFuntors_) \o <<f>>
        BY <2>0, <4>1, ConcatAssociative
      <4>3. functors \o pendingFuntors_ \in Seq(Functors)
        BY <2>0
      <4>4. (functors \o pendingFuntors_) \o <<f>> =
              Append(functors \o pendingFuntors_, f)
        BY <4>3, AppendIsConcat
      <4> QED
        BY <4>1, <4>2, <4>4
    <3>3. (functors \o pendingFuntors_)' = Append(functors \o pendingFuntors_, f)
      BY <3>1, <3>2
    <3> QED
      BY <3>1, <3>3 DEF Tasks!Submit
  <2>3. CASE Swap
    <3>1. /\ functors' \o pendingFuntors_' = pendingFuntors_ \o <<>>
          /\ functors \o pendingFuntors_ = <<>> \o pendingFuntors_
          /\ executed' = executed
      BY <2>0, <2>3 DEF Swap, history
    <3>2. pendingFuntors_ \o <<>> = <<>> \o pendingFuntors_
      BY <2>0, ConcatEmptySeq
    <3> QED
      BY <3>1, <3>2 DEF Tasks!tvars
  <2>4. CASE RunFunctor
    <3>1. /\ functors # <<>> /\ functors' = Tail(functors)
          /\ pendingFuntors_' = pendingFuntors_
          /\ executed' = Append(executed, Head(functors))
      BY <2>4 DEF RunFunctor, callVars
    <3> DEFINE todo == functors \o pendingFuntors_
    <3>2. /\ todo # <<>> /\ Head(todo) = Head(functors)
          /\ Tail(todo) = Tail(functors) \o pendingFuntors_
      BY <2>0, <3>1, HeadTailConcat
    <3>3. (functors \o pendingFuntors_)' = Tail(todo)
      BY <3>1, <3>2
    <3>4. Tasks!Execute
      BY <3>1, <3>2, <3>3 DEF Tasks!Execute
    <3> QED
      BY <3>4 DEF Tasks!TNext
  <2>5. ASSUME NEW t \in Threads, UserCall(t)
        PROVE  Tasks!Submit \/ UNCHANGED Tasks!tvars
    <3>1. ASSUME NEW f \in Functors, QueueInLoop(t, f) PROVE Push(t, f)
      BY <3>1 DEF QueueInLoop
    <3>2. ASSUME NEW f \in Functors, RunInLoop(t, f)
          PROVE  UNCHANGED <<functors, pendingFuntors_, executed>>
      BY <3>2 DEF RunInLoop, IsInLoopThread, threadId_, Tid, loopVars, callVars
    <3>3. Quit(t) => UNCHANGED <<functors, pendingFuntors_, executed>>
      BY DEF Quit, history
    <3> QED
      BY <2>1, <2>2, <2>5, <3>1, <3>2, <3>3 DEF UserCall
  <2>6. ASSUME NEW t \in Threads, InCall(t) PROVE UNCHANGED Tasks!tvars
    BY <2>1, <2>6 DEF InCall, TestCalling, Wakeup, loopVars, history
  <2>7. CASE StartLoop \/ While \/ Poll \/ HandleRead \/ HandleEvent
    BY <2>1, <2>7
    DEF StartLoop, While, Poll, HandleRead, HandleEvent, callVars, history
  <2>8. CASE BeginFunctors \/ EndFunctors \/ ReturnToLoop
    BY <2>1, <2>8 DEF BeginFunctors, EndFunctors, ReturnToLoop, callVars, history
  <2>9. CASE UNCHANGED vars
    BY <2>1, <2>9 DEF vars
  <2>10. CASE InLoop
    BY <2>3, <2>4, <2>7, <2>8, <2>10 DEF InLoop, Tasks!TNext
  <2>11. ASSUME NEW t \in Threads, UserCall(t) \/ InCall(t)
         PROVE  [Tasks!TNext]_(Tasks!tvars)
    BY <2>5, <2>6, <2>11 DEF Tasks!TNext
  <2>12. CASE StartLoop
    BY <2>7, <2>12
  <2> QED
    BY <1>2, <2>9, <2>10, <2>11, <2>12 DEF Next
<1>3. Spec => []LoopInv
  BY LoopInvInit, LoopInvInductive, PTL DEF Spec
<1> QED
  BY <1>1, <1>2, <1>3, PTL DEF Spec, RunsInOrder, Tasks!TSpec
=============================================================================

-------------------------- MODULE TimerQueueProofs --------------------------
(***************************************************************************)
(* Proofs about TimerQueue, for every number of timers, every scale        *)
(* between seconds and microseconds and every bound.                       *)
(*                                                                         *)
(* QueueInv is inductive.  Owned is EntriesMatch with disjointness in the  *)
(* place of cardinalities; Due, RunsInv and ArmedInv carry the other       *)
(* properties across handleRead, whose batch outlives several steps.       *)
(***************************************************************************)
EXTENDS TimerQueue, FiniteSetTheorems, TLAPS

EntrySet == [when : Nat, timer : Timer]

(* Each object that exists has one entry, under its expiration. *)
Owned ==
    /\ timers_ \subseteq EntrySet /\ expired \subseteq EntrySet
    /\ timers_ \cap expired = {}
    /\ alive = {e.timer : e \in timers_ \cup expired}
    /\ \A e \in timers_ \cup expired : expiration_[e.timer] = e.when

(* The objects are the ones created so far. *)
Fresh ==
    \A t \in Timer : t > created => t \notin alive /\ runs[t] = 0

(* The batch of handleRead exists only there, and all of it is due. *)
Due ==
    /\ pc # "calling" => expired = {}
    /\ \A e \in expired : e.when <= clock

(* A timer that waits, or is still to be called, may run once more. *)
RunsInv ==
    /\ \A e \in timers_ \cup todo :
         runs[e.timer] < MaxRuns /\ (interval_[e.timer] = 0 => runs[e.timer] = 0)
    /\ OneShotOnce

(* ArmedForEarliest, also in a handleRead that found nothing expired. *)
ArmedInv ==
    (pc = "loop" \/ expired = {}) /\ alarm # Off /\ timers_ # {} =>
        \E e \in timers_ : IsEarliest(e, timers_) /\ target = e.when

QueueInv == TypeOK /\ Owned /\ Fresh /\ Due /\ RunsInv /\ ArmedInv

-----------------------------------------------------------------------------
LEMMA QueueInvInit == Init => QueueInv
<1> SUFFICES ASSUME Init PROVE QueueInv
  OBVIOUS
<1>1. TypeOK
  <2>1. 0 \in 0..MaxClock /\ 0 \in 0..MaxTimers /\ 0 \in 0..MaxRuns
    BY TimerQueueAssumption
  <2>2. expiration_ \in [Timer -> Nat] /\ interval_ \in [Timer -> Nat]
    BY DEF Init
  <2>3. runs \in [Timer -> 0..MaxRuns]
    BY <2>1 DEF Init
  <2> QED
    BY <2>1, <2>2, <2>3, Zenon DEF Init, TypeOK
<1>2. Owned
  BY DEF Init, Owned
<1>3. Fresh
  BY DEF Init, Fresh
<1>4. Due /\ RunsInv /\ ArmedInv
  BY DEF Init, Due, RunsInv, OneShotOnce, ArmedInv
<1> QED
  BY <1>1, <1>2, <1>3, <1>4 DEF QueueInv

(* Time moves forward, and the delay of the timerfd is not negative. *)
LEMMA Times ==
    ASSUME NEW now \in Nat
    PROVE  /\ \A s \in Nat : AddTime(now, s) \in Nat
           /\ \A when \in Nat :
                when > now => now + (when - now) \div kMicroSecondsPerSecond \in Nat
<1>1. kMicroSecondsPerSecond \in Nat \ {0}
  BY TimerQueueAssumption
<1>2. \A s \in Nat : s * kMicroSecondsPerSecond \in Nat
  BY <1>1
<1>3. \A n \in Nat : n \div kMicroSecondsPerSecond \in Nat
  BY <1>1
<1> QED
  BY <1>2, <1>3 DEF AddTime

LEMMA ResetTimerfdType ==
    ASSUME NEW when \in Nat, clock \in Nat, ResetTimerfd(when)
    PROVE  /\ alarm' \in Nat /\ target' = when /\ readable' = FALSE
           /\ alarm' # Off
<1>1. alarm' \in Nat
  BY Times DEF ResetTimerfd
<1> QED
  BY <1>1 DEF ResetTimerfd, Off

(* An entry is determined by its timer. *)
LEMMA OneEntry ==
    ASSUME Owned, NEW e \in timers_ \cup expired, NEW f \in timers_ \cup expired,
           e.timer = f.timer
    PROVE  e = f
  BY DEF Owned, EntrySet

-----------------------------------------------------------------------------
(* addTimer: a new object, its entry, and the timerfd if it is the earliest. *)
LEMMA AddTimerStep ==
    ASSUME QueueInv, NEW when \in Nat, NEW interval \in Nat, AddTimer(when, interval)
    PROVE  QueueInv'
<1> DEFINE t == created + 1
           n == Entry(when, t)
<1>0. /\ created \in Nat /\ MaxTimers \in Nat /\ clock \in Nat
      /\ created < MaxTimers /\ t \in Timer /\ t > created
  BY TimerQueueAssumption DEF QueueInv, TypeOK, AddTimer, Timer
<1>1. /\ created' = t /\ alive' = alive \cup {t} /\ timers_' = timers_ \cup {n}
      /\ expiration_' = [expiration_ EXCEPT ![t] = when]
      /\ interval_' = [interval_ EXCEPT ![t] = interval]
      /\ UNCHANGED <<clock, reported, pc, expired, todo, runs>>
  BY DEF AddTimer, local
<1>2. \/ EarliestChanged(when) /\ ResetTimerfd(when)
      \/ ~EarliestChanged(when) /\ UNCHANGED <<alarm, target, readable>>
  BY DEF AddTimer, timerfd
<1>3. n \in EntrySet /\ n.when = when /\ n.timer = t
  BY <1>0 DEF Entry, EntrySet
<1>4. t \notin alive /\ runs[t] = 0
  BY <1>0 DEF QueueInv, Fresh
<1>5. \A e \in timers_ \cup expired : e.timer # t /\ e.timer \in Timer /\ e.when \in Nat
  BY <1>4 DEF QueueInv, Owned, EntrySet
<1>6. /\ \A e \in timers_ \cup expired :
            /\ expiration_'[e.timer] = expiration_[e.timer]
            /\ interval_'[e.timer] = interval_[e.timer]
      /\ expiration_'[t] = when /\ interval_'[t] = interval
      /\ \A u \in Timer : u # t => interval_'[u] = interval_[u]
      /\ expiration_' \in [Timer -> Nat] /\ interval_' \in [Timer -> Nat]
  BY <1>0, <1>1, <1>5 DEF QueueInv, TypeOK
<1> HIDE DEF n
<1>7. TypeOK'
  <2>1. alarm' \in Nat \cup {Off} /\ target' \in Nat \cup {Off} /\ readable' \in BOOLEAN
    BY <1>0, <1>2, ResetTimerfdType DEF QueueInv, TypeOK
  <2>2. \A e \in timers_' \cup expired' : e.when \in Nat /\ e.timer \in Timer
    BY <1>0, <1>1, <1>3, <1>5
  <2>3. alive' \subseteq Timer /\ created' \in 0..MaxTimers
    BY <1>0, <1>1 DEF QueueInv, TypeOK
  <2> QED
    BY <1>1, <1>6, <2>1, <2>2, <2>3 DEF QueueInv, TypeOK
<1>8. Owned'
  <2>1. timers_' \subseteq EntrySet /\ expired' \subseteq EntrySet
    BY <1>1, <1>3 DEF QueueInv, Owned
  <2>2. timers_' \cap expired' = {}
    BY <1>1, <1>3, <1>5 DEF QueueInv, Owned
  <2>3. alive' = {e.timer : e \in timers_' \cup expired'}
    BY <1>1, <1>3 DEF QueueInv, Owned
  <2>4. \A e \in timers_' \cup expired' : expiration_'[e.timer] = e.when
    BY <1>1, <1>3, <1>6 DEF QueueInv, Owned
  <2> QED
    BY <2>1, <2>2, <2>3, <2>4 DEF Owned
<1>9. Fresh'
  BY <1>0, <1>1 DEF QueueInv, Fresh, Timer
<1>10. Due'
  BY <1>1 DEF QueueInv, Due
<1>11. RunsInv'
  <2>1. 0 < MaxRuns
    BY TimerQueueAssumption
  <2>2. \A e \in timers_' \cup todo' :
          runs'[e.timer] < MaxRuns /\ (interval_'[e.timer] = 0 => runs'[e.timer] = 0)
    BY <1>1, <1>3, <1>4, <1>6, <2>1 DEF QueueInv, RunsInv, TypeOK
  <2>3. OneShotOnce'
    BY <1>1, <1>4, <1>6 DEF QueueInv, RunsInv, OneShotOnce
  <2> QED
    BY <2>2, <2>3 DEF RunsInv
<1>12. ArmedInv'
  <2> SUFFICES ASSUME pc = "loop" \/ expired = {}, alarm' # Off
               PROVE  \E e \in timers_' : IsEarliest(e, timers_') /\ target' = e.when
    BY <1>1 DEF ArmedInv
  <2>1. CASE EarliestChanged(when) /\ ResetTimerfd(when)
    <3>1. target' = n.when
      BY <1>0, <1>3, <2>1, ResetTimerfdType
    <3>2. \A f \in timers_ : when < f.when /\ f.when \in Nat
      BY <1>5, <2>1 DEF EarliestChanged
    <3>3. \A f \in timers_ \cup {n} : n.when <= f.when
      BY <1>3, <3>2
    <3> QED
      BY <1>1, <3>1, <3>3 DEF IsEarliest
  <2>2. CASE ~EarliestChanged(when) /\ UNCHANGED <<alarm, target, readable>>
    <3>1. PICK f \in timers_ : ~(when < f.when)
      BY <2>2 DEF EarliestChanged
    <3>2. PICK e \in timers_ : IsEarliest(e, timers_) /\ target = e.when
      BY <2>2, <3>1 DEF QueueInv, ArmedInv
    <3>3. e.when <= when
      BY <1>5, <3>1, <3>2 DEF IsEarliest
    <3>4. IsEarliest(e, timers_')
      BY <1>1, <1>3, <3>2, <3>3 DEF IsEarliest
    <3> QED
      BY <1>1, <2>2, <3>2, <3>4
  <2> QED
    BY <1>2, <2>1, <2>2
<1> QED
  BY <1>7, <1>8, <1>9, <1>10, <1>11, <1>12 DEF QueueInv

(* The clock, the timerfd and the poll. *)
LEMMA OutsideStep ==
    ASSUME QueueInv, Tick \/ Fire \/ Poll \/ UNCHANGED vars
    PROVE  QueueInv'
<1> USE DEF QueueInv, Owned, Fresh, Due, RunsInv, OneShotOnce, ArmedInv
<1>1. CASE Tick
  <2>1. /\ clock' = clock + 1 /\ clock \in Nat /\ clock' \in 0..MaxClock
        /\ UNCHANGED <<timers_, expiration_, interval_, alive, created, alarm, target,
                       readable, reported, pc, expired, todo, runs>>
    BY <1>1, TimerQueueAssumption DEF Tick, TypeOK, objects, timerfd, local
  <2>2. TypeOK'
    BY <2>1 DEF TypeOK
  <2>3. \A e \in expired : e.when <= clock'
    BY <2>1 DEF TypeOK
  <2> QED
    BY <2>1, <2>2, <2>3
<1>2. CASE Fire
  BY <1>2 DEF Fire, TypeOK, objects, local
<1>3. CASE Poll
  BY <1>3 DEF Poll, TypeOK, objects, timerfd, local
<1>4. CASE UNCHANGED vars
  BY <1>4 DEF vars, TypeOK, objects, timerfd, local
<1> QED
  BY <1>1, <1>2, <1>3, <1>4

(* handleRead moves the entries that are due from timers_ to its batch. *)
LEMMA HandleReadStep ==
    ASSUME QueueInv, HandleRead
    PROVE  QueueInv'
<1>1. /\ pc = "loop" /\ pc' = "calling" /\ reported' = FALSE /\ readable' = FALSE
      /\ expired' = GetExpired(clock) /\ todo' = expired'
      /\ timers_' = timers_ \ expired'
      /\ UNCHANGED <<clock, expiration_, interval_, alive, created, alarm, target, runs>>
  BY DEF HandleRead, objects
<1>2. /\ expired = {} /\ expired' \subseteq timers_
      /\ timers_' \cup expired' = timers_ \cup expired
      /\ timers_' \cup todo' = timers_ /\ timers_' \cap expired' = {}
      /\ \A e \in expired' : e.when <= clock
  BY <1>1 DEF GetExpired, QueueInv, Due
<1>3. TypeOK'
  BY <1>1, <1>2 DEF QueueInv, TypeOK
<1>4. Owned'
  <2>1. timers_' \subseteq EntrySet /\ expired' \subseteq EntrySet
    BY <1>1, <1>2 DEF QueueInv, Owned
  <2> QED
    BY <1>1, <1>2, <2>1 DEF QueueInv, Owned
<1>5. Fresh' /\ Due'
  BY <1>1, <1>2 DEF QueueInv, Fresh, Due
<1>6. RunsInv'
  BY <1>1, <1>2 DEF QueueInv, RunsInv, OneShotOnce
<1>7. ArmedInv'
  BY <1>1 DEF QueueInv, ArmedInv
<1> QED
  BY <1>3, <1>4, <1>5, <1>6, <1>7 DEF QueueInv

(* A callback runs: the entry is due, and leaves todo. *)
LEMMA RunTimerStep ==
    ASSUME QueueInv, RunTimer
    PROVE  QueueInv'
<1>1. /\ pc = "calling"
      /\ UNCHANGED <<clock, timers_, expiration_, interval_, alive, created, alarm,
                     target, readable, reported, pc, expired>>
  BY DEF RunTimer, objects, timerfd
<1>2. PICK e \in todo :
         /\ todo' = todo \ {e}
         /\ runs' = [runs EXCEPT ![e.timer] = @ + 1]
  BY DEF RunTimer
<1>3. /\ e \in expired /\ e.timer \in Timer /\ e.timer \in alive
      /\ runs[e.timer] < MaxRuns /\ (interval_[e.timer] = 0 => runs[e.timer] = 0)
      /\ runs \in [Timer -> 0..MaxRuns] /\ MaxRuns \in Nat
  BY TimerQueueAssumption DEF QueueInv, TypeOK, Owned, RunsInv
<1>4. /\ runs' \in [Timer -> 0..MaxRuns] /\ runs'[e.timer] = runs[e.timer] + 1
      /\ \A t \in Timer : t # e.timer => runs'[t] = runs[t]
  BY <1>2, <1>3
<1>5. \A f \in timers_ \cup todo' : f.timer \in Timer /\ f.timer # e.timer
  BY <1>2, <1>3, OneEntry DEF QueueInv, TypeOK, Owned
<1>6. TypeOK'
  BY <1>1, <1>2, <1>4 DEF QueueInv, TypeOK
<1>7. Owned' /\ Due' /\ ArmedInv'
  BY <1>1 DEF QueueInv, Owned, Due, ArmedInv
<1>8. Fresh'
  BY <1>1, <1>3, <1>4 DEF QueueInv, Fresh
<1>9. RunsInv'
  <2>1. OneShotOnce'
    BY <1>1, <1>3, <1>4 DEF QueueInv, RunsInv, OneShotOnce
  <2>2. \A f \in timers_' \cup todo' :
          runs'[f.timer] < MaxRuns /\ (interval_'[f.timer] = 0 => runs'[f.timer] = 0)
    BY <1>1, <1>2, <1>4, <1>5 DEF QueueInv, RunsInv
  <2> QED
    BY <2>1, <2>2 DEF RunsInv
<1> QED
  BY <1>6, <1>7, <1>8, <1>9 DEF QueueInv

(* reset: the survivors get new expirations, and entries under them. *)
LEMMA ResetStep ==
    ASSUME QueueInv, Reset
    PROVE  QueueInv'
<1> DEFINE restarted(t) == \E e \in Survivors : e.timer = t
<1>1. /\ pc = "calling" /\ todo = {} /\ expired' = {} /\ pc' = "loop"
      /\ \A e \in Survivors : runs[e.timer] < MaxRuns
      /\ alive' = alive \ {e.timer : e \in expired \ Survivors}
      /\ expiration_' = [t \in Timer |-> IF restarted(t) THEN AddTime(clock, interval_[t])
                                        ELSE expiration_[t]]
      /\ timers_' = timers_ \cup {Entry(expiration_'[e.timer], e.timer) : e \in Survivors}
      /\ UNCHANGED <<clock, interval_, created, reported, todo, runs>>
  BY DEF Reset
<1>2. \/ /\ expired # {} /\ timers_' # {}
         /\ \E e \in timers_' : IsEarliest(e, timers_') /\ ResetTimerfd(e.when)
      \/ (expired = {} \/ timers_' = {}) /\ UNCHANGED <<alarm, target, readable>>
  BY DEF Reset, timerfd
<1>3. /\ clock \in Nat /\ interval_ \in [Timer -> Nat] /\ expiration_ \in [Timer -> Nat]
      /\ timers_ \subseteq EntrySet /\ expired \subseteq EntrySet
      /\ \A e \in timers_ \cup expired : e.when \in Nat /\ e.timer \in Timer
  BY DEF QueueInv, TypeOK, Owned
<1>4. Survivors \subseteq expired /\ \A e \in Survivors : interval_[e.timer] > 0
  BY DEF Survivors, Repeats
<1>5. expiration_' \in [Timer -> Nat]
  <2>1. \A t \in Timer : AddTime(clock, interval_[t]) \in Nat
    BY <1>3, Times
  <2> QED
    BY <1>1, <1>3, <2>1
<1>6. \A e \in Survivors :
         /\ Entry(expiration_'[e.timer], e.timer) \in EntrySet
         /\ Entry(expiration_'[e.timer], e.timer).timer = e.timer
         /\ Entry(expiration_'[e.timer], e.timer).when = expiration_'[e.timer]
  BY <1>3, <1>4, <1>5 DEF Entry, EntrySet
<1>7. \A e \in timers_ : ~restarted(e.timer) /\ expiration_'[e.timer] = e.when
  <2> SUFFICES ASSUME NEW e \in timers_
               PROVE  ~restarted(e.timer) /\ expiration_'[e.timer] = e.when
    OBVIOUS
  <2>1. ~restarted(e.timer)
    BY <1>4, OneEntry DEF QueueInv, Owned
  <2>2. expiration_[e.timer] = e.when /\ e.timer \in Timer
    BY <1>3 DEF QueueInv, Owned
  <2> HIDE DEF restarted
  <2> QED
    BY <1>1, <2>1, <2>2
(* An entry after the reset is an old one of timers_ or one of a survivor. *)
<1>8. \A f \in timers_' :
         /\ f \in EntrySet /\ expiration_'[f.timer] = f.when
         /\ f \in timers_ \/ \E e \in Survivors : f.timer = e.timer
  <2>1. ASSUME NEW f \in timers_
        PROVE  f \in EntrySet /\ expiration_'[f.timer] = f.when
    BY <1>3, <1>7
  <2>2. ASSUME NEW e \in Survivors, NEW f, f = Entry(expiration_'[e.timer], e.timer)
        PROVE  /\ f \in EntrySet /\ expiration_'[f.timer] = f.when
               /\ f.timer = e.timer
    BY <1>6, <2>2
  <2>3. timers_' = timers_ \cup {Entry(expiration_'[e.timer], e.timer) : e \in Survivors}
    BY <1>1
  <2>4. \A f \in timers_' :
          f \in timers_ \/ \E e \in Survivors : f = Entry(expiration_'[e.timer], e.timer)
    BY <2>3
  <2> QED
    BY <2>1, <2>2, <2>4
<1>9. /\ \A e \in timers_ : e \in timers_'
      /\ \A e \in Survivors : \E f \in timers_' : f.timer = e.timer
  <2>1. \A e \in Survivors : Entry(expiration_'[e.timer], e.timer) \in timers_'
    BY <1>1
  <2>2. \A e \in timers_ : e \in timers_'
    BY <1>1
  <2>3. ASSUME NEW e \in Survivors PROVE \E f \in timers_' : f.timer = e.timer
    <3> USE <2>1
    <3> WITNESS Entry(expiration_'[e.timer], e.timer) \in timers_'
    <3> QED
      BY <1>6
  <2> QED
    BY <2>2, <2>3
<1> HIDE DEF restarted
<1>0. \A f \in EntrySet : f.when \in Nat /\ f.timer \in Timer
  BY DEF EntrySet
<1>10. TypeOK'
  <2>1. alarm' \in Nat \cup {Off} /\ target' \in Nat \cup {Off} /\ readable' \in BOOLEAN
    <3>1. \A e \in timers_' : e.when \in Nat
      BY <1>0, <1>8
    <3> QED
      BY <1>2, <1>3, <3>1, ResetTimerfdType DEF QueueInv, TypeOK
  <2>2. \A e \in timers_' \cup expired' : e.when \in Nat /\ e.timer \in Timer
    BY <1>0, <1>1, <1>8
  <2>3. alive' \subseteq Timer
    BY <1>1 DEF QueueInv, TypeOK
  <2> QED
    BY <1>1, <1>5, <2>1, <2>2, <2>3 DEF QueueInv, TypeOK
<1>11. Owned'
  <2>1. alive' = {f.timer : f \in timers_'}
    <3>1. alive = {e.timer : e \in timers_ \cup expired}
      BY DEF QueueInv, Owned
    <3>2. ASSUME NEW t \in alive' PROVE \E f \in timers_' : f.timer = t
      <4>1. PICK e \in timers_ \cup expired : e.timer = t
        BY <1>1, <3>1
      <4>2. e \in timers_ \/ e \in Survivors
        BY <1>1, <3>2, <4>1
      <4> QED
        BY <1>9, <4>1, <4>2
    <3>3. ASSUME NEW f \in timers_' PROVE f.timer \in alive'
      <4>1. PICK e \in timers_ \cup Survivors : e.timer = f.timer
        BY <1>8
      <4>2. f.timer \in alive
        BY <1>4, <3>1, <4>1
      <4>3. \A g \in expired \ Survivors : g.timer # e.timer
        BY <1>4, <4>1, OneEntry DEF QueueInv, Owned
      <4> QED
        BY <1>1, <4>1, <4>2, <4>3
    <3> QED
      BY <3>2, <3>3
  <2>2. timers_' \subseteq EntrySet /\ \A f \in timers_' : expiration_'[f.timer] = f.when
    BY <1>8
  <2>3. timers_' \cup expired' = timers_' /\ timers_' \cap expired' = {}
    BY <1>1
  <2>4. expired' \subseteq EntrySet
    BY <1>1
  <2> QED
    BY <2>1, <2>2, <2>3, <2>4 DEF Owned
<1>12. Fresh' /\ Due'
  BY <1>1 DEF QueueInv, Fresh, Due
<1>13. RunsInv'
  <2>1. OneShotOnce'
    BY <1>1 DEF QueueInv, RunsInv, OneShotOnce
  <2>2. ASSUME NEW f \in timers_'
        PROVE  runs[f.timer] < MaxRuns /\ (interval_[f.timer] = 0 => runs[f.timer] = 0)
    <3>1. CASE f \in timers_
      BY <3>1 DEF QueueInv, RunsInv
    <3>2. ASSUME NEW e \in Survivors, f.timer = e.timer
          PROVE  runs[f.timer] < MaxRuns /\ interval_[f.timer] # 0
      BY <1>1, <1>3, <1>4, <3>2
    <3> QED
      BY <1>8, <3>1, <3>2
  <2> QED
    BY <1>1, <2>1, <2>2 DEF RunsInv
<1>14. ArmedInv'
  <2>1. CASE \E e \in timers_' : IsEarliest(e, timers_') /\ ResetTimerfd(e.when)
    BY <2>1 DEF ArmedInv, ResetTimerfd
  <2>2. CASE expired = {} /\ UNCHANGED <<alarm, target, readable>>
    <3>1. timers_' = timers_
      BY <1>1, <1>4, <2>2
    <3> QED
      BY <2>2, <3>1 DEF QueueInv, ArmedInv
  <2>3. CASE timers_' = {}
    BY <2>3 DEF ArmedInv
  <2> QED
    BY <1>2, <2>1, <2>2, <2>3
<1> QED
  BY <1>10, <1>11, <1>12, <1>13, <1>14 DEF QueueInv

(* ~TimerQueue deletes every object that is left. *)
LEMMA DestroyStep ==
    ASSUME QueueInv, DestroyTimerQueue
    PROVE  QueueInv' /\ alive' = {}
<1>1. /\ pc = "loop" /\ pc' = "destroyed" /\ timers_' = {} /\ alarm' = Off
      /\ readable' = FALSE /\ alive' = alive \ {e.timer : e \in timers_}
      /\ UNCHANGED <<clock, expiration_, interval_, created, target, reported, expired,
                     todo, runs>>
  BY DEF DestroyTimerQueue
<1>2. expired = {} /\ todo = {}
  BY <1>1 DEF QueueInv, Due, TypeOK
<1>3. alive' = {}
  BY <1>1, <1>2 DEF QueueInv, Owned
<1>4. TypeOK'
  BY <1>1, <1>2, <1>3 DEF QueueInv, TypeOK
<1>5. Owned'
  BY <1>1, <1>2, <1>3 DEF Owned
<1>6. Fresh' /\ Due' /\ RunsInv' /\ ArmedInv'
  BY <1>1, <1>2, <1>3 DEF QueueInv, Fresh, Due, RunsInv, OneShotOnce, ArmedInv
<1> QED
  BY <1>3, <1>4, <1>5, <1>6 DEF QueueInv

LEMMA QueueInvInductive == QueueInv /\ [Next]_vars => QueueInv'
<1> SUFFICES ASSUME QueueInv, [Next]_vars PROVE QueueInv'
  OBVIOUS
<1>1. CASE RunAt
  <2>1. PICK when \in 0..MaxClock : AddTimer(when, 0)
    BY <1>1 DEF RunAt
  <2> QED
    BY <2>1, AddTimerStep, TimerQueueAssumption
<1>2. ASSUME NEW s \in Seconds PROVE s \in Nat /\ AddTime(clock, s) \in Nat
  <2>1. clock \in Nat
    BY DEF QueueInv, TypeOK
  <2>2. s \in Nat
    BY TimerQueueAssumption
  <2> QED
    BY <2>1, <2>2, Times
<1>3. CASE RunAfter
  BY <1>2, <1>3, AddTimerStep DEF RunAfter
<1>4. CASE RunEvery
  BY <1>2, <1>4, AddTimerStep DEF RunEvery
<1> QED
  BY <1>1, <1>3, <1>4, OutsideStep, HandleReadStep, RunTimerStep, ResetStep, DestroyStep
  DEF Next

-----------------------------------------------------------------------------
(* The cardinalities of EntriesMatch: the timers of the entries are as many *)
(* as the entries.                                                          *)
LEMMA EntriesCounted ==
    ASSUME TypeOK, Owned
    PROVE  Cardinality(alive) = Cardinality(timers_) + Cardinality(expired)
<1> DEFINE E == timers_ \cup expired
           f == [e \in E |-> e.timer]
<1>1. IsFiniteSet(alive)
  <2>1. IsFiniteSet(Timer)
    BY FS_Interval, TimerQueueAssumption DEF Timer
  <2> QED
    BY <2>1, FS_Subset DEF TypeOK
<1>2. f \in [E -> alive] /\ \A a, b \in E : f[a] = f[b] => a = b
  BY OneEntry DEF Owned
<1>3. f \in Injection(E, alive)
  BY <1>2 DEF Injection, IsInjective
<1>4. \A t \in alive : \E e \in E : f[e] = t
  BY DEF Owned
<1>5. f \in Surjection(E, alive)
  BY <1>2, <1>4 DEF Surjection
<1>6. IsFiniteSet(E) /\ Cardinality(E) = Cardinality(alive)
  BY <1>1, <1>3, <1>5, FS_Injection
<1>7. IsFiniteSet(timers_) /\ IsFiniteSet(expired)
  BY <1>6, FS_Subset
<1>8. timers_ \cap expired = {} /\ Cardinality({}) = 0
  BY FS_EmptySet DEF Owned
<1>9. Cardinality(E) = Cardinality(timers_) + Cardinality(expired) - Cardinality({})
  BY <1>7, <1>8, FS_Union
<1>10. Cardinality(timers_) \in Nat /\ Cardinality(expired) \in Nat
  BY <1>7, FS_CardinalityType
<1> QED
  BY <1>6, <1>8, <1>9, <1>10

(* Every reachable state has the types of TypeOK. *)
THEOREM TimerQueueTypeOK == Spec => []TypeOK
<1>1. QueueInv => TypeOK
  BY DEF QueueInv
<1> QED
  BY <1>1, QueueInvInit, QueueInvInductive, PTL DEF Spec

(* Each Timer object has one entry, in timers_ or in the batch of           *)
(* handleRead, under its expiration: none is leaked, deleted twice or       *)
(* deleted while an entry still points to it.                               *)
THEOREM TimerQueueEntriesMatch == Spec => []EntriesMatch
<1>1. QueueInv => EntriesMatch
  BY EntriesCounted DEF QueueInv, Owned, EntriesMatch
<1> QED
  BY <1>1, QueueInvInit, QueueInvInductive, PTL DEF Spec

(* A one-shot timer runs at most once. *)
THEOREM TimerQueueOneShotOnce == Spec => []OneShotOnce
<1>1. QueueInv => OneShotOnce
  BY DEF QueueInv, RunsInv
<1> QED
  BY <1>1, QueueInvInit, QueueInvInductive, PTL DEF Spec

(* An armed timerfd is armed for the earliest timer. *)
THEOREM TimerQueueArmedForEarliest == Spec => []ArmedForEarliest
<1>1. QueueInv => ArmedForEarliest
  BY DEF QueueInv, ArmedInv, ArmedForEarliest
<1> QED
  BY <1>1, QueueInvInit, QueueInvInductive, PTL DEF Spec

(* No callback runs before its time: handleRead took only entries that were *)
(* due, under keys that are still the expirations of their timers.          *)
THEOREM TimerQueueNeverEarly == Spec => NeverEarly
<1> DEFINE Step == \A t \in Timer : runs'[t] > runs[t] => expiration_[t] <= clock
<1>1. ASSUME QueueInv, [Next]_vars PROVE [Step]_vars
  <2>0. \A t \in Timer : ~(runs[t] > runs[t])
    BY <1>1 DEF QueueInv, TypeOK
  <2>1. CASE RunTimer
    <3>1. PICK e \in todo : runs' = [runs EXCEPT ![e.timer] = @ + 1]
      BY <2>1 DEF RunTimer
    <3>2. e.when <= clock /\ expiration_[e.timer] = e.when
      BY <1>1 DEF QueueInv, TypeOK, Owned, Due
    <3>3. \A t \in Timer : t # e.timer => runs'[t] = runs[t]
      BY <1>1, <3>1 DEF QueueInv, TypeOK
    <3> QED
      BY <2>0, <3>2, <3>3
  <2>2. CASE UNCHANGED runs
    BY <2>0, <2>2
  <2>3. RunAt \/ RunAfter \/ RunEvery \/ Tick \/ Fire \/ Poll => UNCHANGED runs
    BY DEF RunAt, RunAfter, RunEvery, AddTimer, Tick, Fire, Poll
  <2>4. HandleRead \/ Reset \/ DestroyTimerQueue => UNCHANGED runs
    BY DEF HandleRead, Reset, DestroyTimerQueue
  <2> QED
    BY <1>1, <2>1, <2>2, <2>3, <2>4 DEF Next
<1> HIDE DEF Step
<1>2. Spec => []QueueInv
  BY QueueInvInit, QueueInvInductive, PTL DEF Spec
<1>3. Spec => [][Step]_vars
  BY <1>1, <1>2, PTL DEF Spec
<1> QED
  BY <1>3 DEF NeverEarly, Step
=============================================================================

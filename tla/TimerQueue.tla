----------------------------- MODULE TimerQueue -----------------------------
(***************************************************************************)
(* timer/TimerQueue.cc with Timer and Timestamp: timers kept in a set      *)
(* ordered by expiration, one timerfd armed for the earliest.  A Timestamp *)
(* is called microseconds everywhere, but Timestamp::now() fills it with   *)
(* time(NULL), which counts seconds; addTime and resetTimerfd convert with *)
(* kMicroSecondsPerSecond.  clock is that time(NULL).                      *)
(***************************************************************************)
EXTENDS Integers, FiniteSets

CONSTANTS
    kMicroSecondsPerSecond,   \* 1000000 in the code
    Seconds,                  \* the delays and intervals user code asks for
    MaxTimers,                \* bound: timers added in one behaviour
    MaxClock,                 \* bound: the last second modelled
    MaxRuns                   \* bound: runs of one repeating timer

Timer == 1..MaxTimers

ASSUME TimerQueueAssumption ==
    /\ kMicroSecondsPerSecond \in Nat \ {0}
    /\ MaxTimers \in Nat /\ MaxClock \in Nat /\ MaxRuns \in Nat \ {0}
    /\ Seconds \subseteq Nat \ {0}

VARIABLES
    clock,                    \* time(NULL)
    timers_,                  \* set of entries [when, timer]
    expiration_, interval_,   \* the Timer objects
    alive,                    \* the Timer objects that exist
    created,                  \* the number of Timer objects made so far
    alarm, target,            \* timerfd: when it expires (Off: disarmed), and
                              \* the expiration it was armed for (history)
    readable,                 \* timerfd: it has expired and was not read
    reported,                 \* the timerfd's channel is in activeChannels_
    pc,                       \* "loop", "calling" inside handleRead, or "destroyed"
    expired, todo,            \* its entries that expired, and those not run yet
    runs                      \* per timer: calls of its callback (history)

Off == -1

timerfd == <<alarm, target, readable>>
objects == <<expiration_, interval_, alive, created>>
local   == <<pc, expired, todo>>
vars    == <<clock, timers_, objects, timerfd, reported, local, runs>>

Entry(when, t) == [when |-> when, timer |-> t]

(* Subtracts the delay. *)
AddTimeMutant(timestamp, seconds) == timestamp - seconds * kMicroSecondsPerSecond

AddTime(timestamp, seconds) == timestamp + seconds * kMicroSecondsPerSecond

IsEarliest(e, S) == \A f \in S : e.when <= f.when

-----------------------------------------------------------------------------
(* resetTimerfd: a delay of when - now "microseconds", at once if that is   *)
(* past.  timerfd_settime forgets an expiration that was not read.          *)
ResetTimerfd(when) ==
    /\ alarm' = IF when <= clock THEN clock
                ELSE clock + (when - clock) \div kMicroSecondsPerSecond
    /\ target' = when
    /\ readable' = FALSE

(* Compares with nothing once there is a timer. *)
EarliestChangedMutant(when) == timers_ = {}

(* insert's result: the new timer is earlier than all the others. *)
EarliestChanged(when) == \A e \in timers_ : when < e.when

(* addTimer, and addTimerInLoop at once in the loop's thread. *)
AddTimer(when, interval) ==
    /\ pc = "loop" \/ expired # todo      \* in a callback: one has been called
    /\ created < MaxTimers
    /\ LET t == created + 1
       IN /\ created' = t
          /\ alive' = alive \cup {t}
          /\ expiration_' = [expiration_ EXCEPT ![t] = when]
          /\ interval_' = [interval_ EXCEPT ![t] = interval]
          /\ timers_' = timers_ \cup {Entry(when, t)}
          /\ IF EarliestChanged(when) THEN ResetTimerfd(when) ELSE UNCHANGED timerfd
    /\ UNCHANGED <<clock, reported, local, runs>>

RunAt == \E when \in 0..MaxClock : AddTimer(when, 0)

RunAfter == \E s \in Seconds : AddTimer(AddTime(clock, s), 0)

RunEvery ==
    \E s \in Seconds : AddTimer(AddTime(clock, s), s)

-----------------------------------------------------------------------------
(* The clock, the timerfd and the poll of the loop are external *)

Tick ==
    /\ clock < MaxClock
    /\ clock' = clock + 1
    /\ UNCHANGED <<timers_, objects, timerfd, reported, local, runs>>

Fire ==
    /\ alarm # Off /\ alarm <= clock
    /\ alarm' = Off /\ readable' = TRUE
    /\ UNCHANGED <<clock, timers_, objects, target, reported, local, runs>>

(* Callbacks of other channels may run, and add timers, before handleRead. *)
Poll ==
    /\ pc = "loop" /\ readable /\ ~reported
    /\ reported' = TRUE
    /\ UNCHANGED <<clock, timers_, objects, timerfd, local, runs>>

-----------------------------------------------------------------------------
(* Takes the first entry that is not due as well. *)
GetExpiredMutant(t) == {e \in timers_ : e.when <= t + 1}

(* lower_bound of the sentry (now, UINTPTR_MAX). *)
GetExpired(t) == {e \in timers_ : e.when <= t}

(* Reads the expired entries but leaves them in timers_. *)
HandleReadMutant ==
    /\ pc = "loop" /\ reported
    /\ reported' = FALSE /\ readable' = FALSE
    /\ expired' = GetExpired(clock) /\ todo' = expired'
    /\ pc' = "calling"
    /\ UNCHANGED <<clock, timers_, objects, alarm, target, runs>>

(* handleRead up to the callbacks: the read clears the timerfd (or finds it *)
(* cleared by a timerfd_settime since the poll) and leaves its alarm alone. *)
HandleRead ==
    /\ pc = "loop" /\ reported
    /\ reported' = FALSE /\ readable' = FALSE
    /\ expired' = GetExpired(clock) /\ todo' = expired'
    /\ timers_' = timers_ \ expired'
    /\ pc' = "calling"
    /\ UNCHANGED <<clock, objects, alarm, target, runs>>

(* The callback of the next entry; entries of the same time are ordered by  *)
(* address.                                                                 *)
RunTimer ==
    /\ pc = "calling"
    /\ \E e \in todo :
         /\ IsEarliest(e, todo)
         /\ todo' = todo \ {e}
         /\ runs' = [runs EXCEPT ![e.timer] = @ + 1]
    /\ UNCHANGED <<clock, timers_, objects, timerfd, reported, pc, expired>>

Repeats(e) == interval_[e.timer] > 0

(* Deletes only the timers that repeat. *)
SurvivorsMutant == {e \in expired : ~Repeats(e)}

(* The expired timers that are restarted and not deleted. *)
Survivors == {e \in expired : Repeats(e)}

(* reset: one-shot timers are deleted, the others restarted and inserted;   *)
(* the timerfd is armed for the earliest timer, if any timer has expired.   *)
(* (MaxRuns ends the behaviour of a repeating timer.)                       *)
Reset ==
    /\ pc = "calling" /\ todo = {}
    /\ \A e \in Survivors : runs[e.timer] < MaxRuns
    /\ alive' = alive \ {e.timer : e \in expired \ Survivors}
    /\ expiration_' = [t \in Timer |->
                         IF \E e \in Survivors : e.timer = t
                         THEN AddTime(clock, interval_[t]) ELSE expiration_[t]]
    /\ timers_' = timers_ \cup {Entry(expiration_'[e.timer], e.timer) : e \in Survivors}
    /\ IF expired # {} /\ timers_' # {}
       THEN \E e \in timers_' : IsEarliest(e, timers_') /\ ResetTimerfd(e.when)
       ELSE UNCHANGED timerfd
    /\ expired' = {} /\ pc' = "loop"
    /\ UNCHANGED <<clock, interval_, created, reported, todo, runs>>

(* ~TimerQueue, when the loop has ended: the timerfd is closed and the      *)
(* timers still in timers_ are deleted, which leaves no Timer behind.       *)
DestroyTimerQueue ==
    /\ pc = "loop" /\ ~reported
    /\ alive' = alive \ {e.timer : e \in timers_}
    /\ timers_' = {}
    /\ alarm' = Off /\ readable' = FALSE
    /\ pc' = "destroyed"
    /\ UNCHANGED <<clock, expiration_, interval_, created, target, reported, expired, todo, runs>>

-----------------------------------------------------------------------------
Init ==
    /\ clock = 0 /\ timers_ = {}
    /\ expiration_ = [t \in Timer |-> 0] /\ interval_ = [t \in Timer |-> 0]
    /\ alive = {} /\ created = 0
    /\ alarm = Off /\ target = Off /\ readable = FALSE /\ reported = FALSE
    /\ pc = "loop" /\ expired = {} /\ todo = {}
    /\ runs = [t \in Timer |-> 0]

Next ==
    \/ RunAt \/ RunAfter \/ RunEvery
    \/ Tick \/ Fire \/ Poll
    \/ HandleRead \/ RunTimer \/ Reset \/ DestroyTimerQueue

Spec == Init /\ [][Next]_vars

-----------------------------------------------------------------------------
(* Properties *)

(* Type invariant. *)
TypeOK ==
    /\ clock \in 0..MaxClock
    /\ \A e \in timers_ \cup expired : e.when \in Nat /\ e.timer \in Timer
    /\ todo \subseteq expired
    /\ expiration_ \in [Timer -> Nat] /\ interval_ \in [Timer -> Nat]
    /\ alive \subseteq Timer /\ created \in 0..MaxTimers
    /\ alarm \in Nat \cup {Off} /\ target \in Nat \cup {Off}
    /\ readable \in BOOLEAN /\ reported \in BOOLEAN
    /\ pc \in {"loop", "calling", "destroyed"}
    /\ runs \in [Timer -> 0..MaxRuns]

(* Each Timer object that exists is in timers_ or in the batch of           *)
(* handleRead, never in both and never twice, under the key that is its     *)
(* expiration; no entry points to a deleted one.  Deleting in reset and     *)
(* re-inserting a restarted timer rest on it, and ~TimerQueue frees them    *)
(* all because of it.                                                       *)
EntriesMatch ==
    /\ alive = {e.timer : e \in timers_ \cup expired}
    /\ Cardinality(alive) = Cardinality(timers_) + Cardinality(expired)
    /\ \A e \in timers_ \cup expired : expiration_[e.timer] = e.when

(* No callback runs before the time its timer was set for.                  *)
NeverEarly ==
    [][\A t \in Timer : runs'[t] > runs[t] => expiration_[t] <= clock]_vars

(* A one-shot timer runs at most once, whatever its own and other callbacks *)
(* add in between.                                                          *)
OneShotOnce == \A t \in Timer : interval_[t] = 0 => runs[t] <= 1

(* While the timerfd is armed it is armed for the earliest timer: an add    *)
(* between poll and handleRead, or in a callback, never leaves it set for a *)
(* later one.                                                               *)
ArmedForEarliest ==
    pc = "loop" /\ alarm # Off /\ timers_ # {} =>
        \E e \in timers_ : IsEarliest(e, timers_) /\ target = e.when

(* resetTimerfd's comment: the timerfd wakes the loop when a timer expires. *)
(* So a timer that is due has the timerfd armed, expired or reported.       *)
DueTimerIsArmed ==
    pc = "loop" /\ (\E e \in timers_ : e.when <= clock)
    => alarm # Off \/ readable \/ reported
=============================================================================

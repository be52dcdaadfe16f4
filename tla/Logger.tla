------------------------------- MODULE Logger -------------------------------
(***************************************************************************)
(* logger/: the LOG_ macros of any thread push messages into a LockQueue   *)
(* (mutex and condition variable); one detached thread opens the file of   *)
(* the day, pops a message, waiting for one if it must, and writes it.     *)
(* LOG_FAT ends the process after its push, and so does a failing fopen.   *)
(* Messages are numbered in the order of their Push.                       *)
(***************************************************************************)
EXTENDS Naturals, Sequences

CONSTANTS
    Threads,      \* the threads that log
    MaxMessages,  \* bound: messages logged
    MaxDay        \* bound: the last day

LogLevel == {"INFO", "ERROR", "FATAL", "DEBUG"}

ASSUME LoggerAssumption ==
    /\ MaxMessages \in Nat
    /\ MaxDay \in Nat

VARIABLES
    loglevel_,
    m_queue,
    call,     \* per thread: the level of the macro it is in, or "exit"
    pc,       \* where the writing thread is
    pf,       \* the day whose file is open
    msg,      \* the popped message, a sequence of at most one
    day,      \* today
    files,    \* the lines written: message, file, day of writing
    exited    \* exit() was called

vars == <<loglevel_, m_queue, call, pc, pf, msg, day, files, exited>>

-----------------------------------------------------------------------------
(* The logging threads *)

(* A LOG_ macro begins: the level is stored without a lock. *)
setLogLevel(t, level) ==
    /\ ~exited /\ call[t] = "none"
    /\ loglevel_' = level
    /\ call' = [call EXCEPT ![t] = level]
    /\ UNCHANGED <<m_queue, pc, pf, msg, day, files, exited>>

Logged == Len(files) + Len(msg) + Len(m_queue)

AfterLog(level) == IF level = "FATAL" THEN "exit" ELSE "none"

(* Push without notify_one. *)
PushMutant(t) ==
    /\ ~exited /\ call[t] \in LogLevel
    /\ Logged < MaxMessages
    /\ m_queue' = Append(m_queue, Logged + 1)
    /\ call' = [call EXCEPT ![t] = AfterLog(call[t])]
    /\ UNCHANGED <<loglevel_, pc, pf, msg, day, files, exited>>

(* log, LockQueue::Push: under the mutex, the message is queued and a       *)
(* waiting writer is notified.                                              *)
Push(t) ==
    /\ ~exited /\ call[t] \in LogLevel
    /\ Logged < MaxMessages
    /\ m_queue' = Append(m_queue, Logged + 1)
    /\ pc' = IF pc = "waiting" THEN "pop" ELSE pc
    /\ call' = [call EXCEPT ![t] = AfterLog(call[t])]
    /\ UNCHANGED <<loglevel_, pf, msg, day, files, exited>>

(* The last line of LOG_FAT: the process ends, whatever is still queued. *)
Exit(t) ==
    /\ ~exited /\ call[t] = "exit"
    /\ exited' = TRUE
    /\ UNCHANGED <<loglevel_, m_queue, call, pc, pf, msg, day, files>>

-----------------------------------------------------------------------------
(* The writing thread *)

(* Computes the file name only the first time. *)
OpenMutant ==
    /\ ~exited /\ pc = "open"
    /\ \/ /\ pf' = IF files = <<>> THEN day ELSE pf
          /\ pc' = "pop" /\ UNCHANGED exited
       \/ exited' = TRUE /\ UNCHANGED <<pf, pc>>
    /\ UNCHANGED <<loglevel_, m_queue, call, msg, day, files>>

(* The file of today is opened for appending; if that fails, exit. *)
Open ==
    /\ ~exited /\ pc = "open"
    /\ \/ pf' = day /\ pc' = "pop" /\ UNCHANGED exited
       \/ exited' = TRUE /\ UNCHANGED <<pf, pc>>
    /\ UNCHANGED <<loglevel_, m_queue, call, msg, day, files>>

(* Takes the back of the queue. *)
TakeMutant ==
    /\ msg' = <<m_queue[Len(m_queue)]>>
    /\ m_queue' = SubSeq(m_queue, 1, Len(m_queue) - 1)

Take == msg' = <<Head(m_queue)>> /\ m_queue' = Tail(m_queue)

(* Tests the queue with if and not with while: a spurious wakeup pops from  *)
(* an empty queue.                                                          *)
PopMutant ==
    /\ ~exited /\ pc = "pop"
    /\ IF m_queue # <<>>
       THEN Take /\ pc' = "write"
       ELSE \/ pc' = "waiting" /\ UNCHANGED <<msg, m_queue>>
            \/ msg' = <<0>> /\ pc' = "write" /\ UNCHANGED m_queue
    /\ UNCHANGED <<loglevel_, call, pf, day, files, exited>>

(* LockQueue::Pop, holding the mutex: the front of the queue, or wait.      *)
Pop ==
    /\ ~exited /\ pc = "pop"
    /\ IF m_queue # <<>>
       THEN Take /\ pc' = "write"
       ELSE pc' = "waiting" /\ UNCHANGED <<msg, m_queue>>
    /\ UNCHANGED <<loglevel_, call, pf, day, files, exited>>

(* wait may return without a notification; the while tests again. *)
SpuriousWakeup ==
    /\ ~exited /\ pc = "waiting"
    /\ pc' = "pop"
    /\ UNCHANGED <<loglevel_, m_queue, call, pf, msg, day, files, exited>>

(* The message, stamped with the time of now, is written to the open file, *)
(* which is closed.                                                         *)
Write ==
    /\ ~exited /\ pc = "write"
    /\ files' = Append(files, [line |-> Head(msg), file |-> pf, day |-> day])
    /\ msg' = <<>>
    /\ pc' = "open"
    /\ UNCHANGED <<loglevel_, m_queue, call, pf, day, exited>>

(* External: time(2) passes midnight. *)
Midnight ==
    /\ ~exited /\ day < MaxDay
    /\ day' = day + 1
    /\ UNCHANGED <<loglevel_, m_queue, call, pc, pf, msg, files, exited>>

-----------------------------------------------------------------------------
(* The instance is constructed by the first macro: its thread starts. *)
Init ==
    /\ loglevel_ \in LogLevel
    /\ m_queue = <<>> /\ msg = <<>> /\ files = <<>>
    /\ call = [t \in Threads |-> "none"]
    /\ pc = "open" /\ pf = 0 /\ day = 0
    /\ exited = FALSE

Writer == Open \/ Pop \/ Write

Next ==
    \/ \E t \in Threads :
         \/ \E level \in LogLevel : setLogLevel(t, level)
         \/ Push(t)
         \/ Exit(t)
    \/ Writer
    \/ SpuriousWakeup
    \/ Midnight

Spec == Init /\ [][Next]_vars

(* The writing thread is scheduled and gets the mutex, which is only held   *)
(* for a push.  Nobody owes a message, a spurious wakeup or a midnight.     *)
FairSpec == Spec /\ WF_vars(Writer)

-----------------------------------------------------------------------------
(* Properties *)

Message == 1 .. MaxMessages

(* Type invariant; a message is in hand exactly while it is being written. *)
TypeOK ==
    /\ loglevel_ \in LogLevel
    /\ m_queue \in Seq(Message)
    /\ call \in [Threads -> LogLevel \cup {"none", "exit"}]
    /\ pc \in {"open", "pop", "waiting", "write"}
    /\ pf \in 0 .. MaxDay /\ day \in 0 .. MaxDay
    /\ msg \in Seq(Message) /\ Len(msg) = (IF pc = "write" THEN 1 ELSE 0)
    /\ files \in Seq([line : Message, file : 0 .. MaxDay, day : 0 .. MaxDay])
    /\ exited \in BOOLEAN

(* The log is a FIFO queue: each message is written at most once and in the *)
(* order of the pushes of all threads, through waits, spurious wakeups and  *)
(* changes of file; what an exit loses is the end of the log.               *)
Lines == INSTANCE TaskQueue WITH
    Task <- Message,
    todo <- msg \o m_queue,
    done <- [i \in 1 .. Len(files) |-> files[i].line]

WrittenInOrder == Lines!TSpec

(* The file is opened before Pop waits, so a message can be written to an   *)
(* earlier day's file; but only the first one after a midnight: the file of *)
(* each message is at least of the day on which the one before was written. *)
MisdatedAtMostOnce ==
    \A i \in 1 .. Len(files) - 1 : files[i + 1].file >= files[i].day

(* Every message that is queued is written, unless the process ends. *)
EveryMessageWritten ==
    \A m \in Message :
        (\E i \in DOMAIN m_queue : m_queue[i] = m)
        ~> (exited \/ \E i \in DOMAIN files : files[i].line = m)
=============================================================================

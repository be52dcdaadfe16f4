---------------------------- MODULE LoggerProofs ----------------------------
(***************************************************************************)
(* Proofs about Logger, for every set of threads and every bound.          *)
(*                                                                         *)
(* MisdatedAtMostOnce compares a line with the one before it, so it is not *)
(* inductive: DayInv adds what the writing thread knows while it holds an  *)
(* open file.  The type of a new message rests on Numbered.                *)
(***************************************************************************)
EXTENDS Logger, SequenceTheorems, TLAPS

(* The next message has a number of Message. *)
Numbered == Logged <= MaxMessages

(* Days only pass; a file that is open was opened after the last line was   *)
(* written.                                                                 *)
DayInv ==
    /\ pf <= day
    /\ \A i \in 1 .. Len(files) : files[i].day <= day
    /\ pc # "open" /\ files # <<>> => files[Len(files)].day <= pf
    /\ MisdatedAtMostOnce

LogInv == TypeOK /\ Numbered /\ DayInv

-----------------------------------------------------------------------------
Line == [line : Message, file : 0 .. MaxDay, day : 0 .. MaxDay]

LEMMA LogInvInit == Init => LogInv
<1> SUFFICES ASSUME Init PROVE LogInv
  OBVIOUS
<1>1. TypeOK
  <2>1. /\ 0 \in 0 .. MaxDay /\ <<>> \in Seq(Message) /\ Len(<<>>) = 0
        /\ <<>> \in Seq([line : Message, file : 0 .. MaxDay, day : 0 .. MaxDay])
    BY LoggerAssumption
  <2>2. call \in [Threads -> LogLevel \cup {"none", "exit"}]
    BY DEF Init
  <2>3. m_queue = <<>> /\ msg = <<>> /\ files = <<>> /\ pf = 0 /\ day = 0
    BY DEF Init
  <2>4. pc = "open" /\ exited \in BOOLEAN /\ loglevel_ \in LogLevel
    BY DEF Init
  <2>5. Len(msg) = (IF pc = "write" THEN 1 ELSE 0)
    BY <2>1, <2>3, <2>4
  <2> QED
    BY <2>1, <2>2, <2>3, <2>4, <2>5, Zenon DEF TypeOK
<1>2. Numbered
  BY LoggerAssumption DEF Init, Numbered, Logged
<1>3. DayInv
  BY DEF Init, DayInv, MisdatedAtMostOnce
<1> QED
  BY <1>1, <1>2, <1>3 DEF LogInv

(* What is known of the sequences, in terms the provers use. *)
LEMMA SequencesKnown ==
    ASSUME LogInv
    PROVE  /\ m_queue \in Seq(Message) /\ msg \in Seq(Message) /\ files \in Seq(Line)
           /\ Len(m_queue) \in Nat /\ Len(msg) \in Nat /\ Len(files) \in Nat
           /\ Len(msg) = (IF pc = "write" THEN 1 ELSE 0)
           /\ Len(files) + Len(msg) + Len(m_queue) <= MaxMessages
  BY DEF LogInv, TypeOK, Numbered, Logged, Line

(* A push, the only step that makes a message. *)
LEMMA PushStep ==
    ASSUME LogInv, NEW t \in Threads, Push(t)
    PROVE  LogInv'
<1>0. /\ Logged \in Nat /\ Logged < MaxMessages /\ MaxMessages \in Nat
      /\ Logged + 1 \in Message
  BY LoggerAssumption, SequencesKnown DEF Push, Logged, Message
<1>1. /\ m_queue' = Append(m_queue, Logged + 1) /\ m_queue' \in Seq(Message)
      /\ Len(m_queue') = Len(m_queue) + 1
  BY <1>0, SequencesKnown DEF Push
<1>2. call' \in [Threads -> LogLevel \cup {"none", "exit"}]
  BY DEF Push, AfterLog, LogInv, TypeOK
<1>3. TypeOK'
  BY <1>1, <1>2 DEF Push, LogInv, TypeOK
<1>4. Numbered'
  BY <1>0, <1>1, SequencesKnown DEF Push, Numbered, Logged
<1>5. DayInv'
  BY DEF Push, LogInv, TypeOK, DayInv, MisdatedAtMostOnce
<1> QED
  BY <1>3, <1>4, <1>5 DEF LogInv

(* The front of the queue becomes the message in hand. *)
LEMMA PopStep ==
    ASSUME LogInv, Pop
    PROVE  LogInv'
<1>1. CASE m_queue # <<>>
  <2>1. /\ msg' = <<Head(m_queue)>> /\ m_queue' = Tail(m_queue) /\ pc' = "write"
        /\ UNCHANGED <<loglevel_, call, pf, day, files, exited>> /\ pc = "pop"
    BY <1>1 DEF Pop, Take
  <2>2. /\ Head(m_queue) \in Message
        /\ m_queue' \in Seq(Message) /\ Len(m_queue') = Len(m_queue) - 1
    BY <1>1, <2>1, SequencesKnown
  <2>3. msg' \in Seq(Message) /\ Len(msg') = 1
    BY <2>1, <2>2
  <2>4. TypeOK'
    BY <2>1, <2>2, <2>3 DEF LogInv, TypeOK
  <2>5. Numbered'
    BY <2>1, <2>2, <2>3, SequencesKnown DEF Numbered, Logged
  <2>6. DayInv'
    BY <2>1 DEF LogInv, DayInv, MisdatedAtMostOnce
  <2> QED
    BY <2>4, <2>5, <2>6 DEF LogInv
<1>2. CASE m_queue = <<>>
  <2>1. /\ pc = "pop" /\ pc' = "waiting"
        /\ UNCHANGED <<loglevel_, m_queue, call, msg, pf, day, files, exited>>
    BY <1>2 DEF Pop
  <2> QED
    BY <2>1 DEF LogInv, TypeOK, Numbered, Logged, DayInv, MisdatedAtMostOnce
<1> QED
  BY <1>1, <1>2

(* The line that is written goes to a file at least as late as the line     *)
(* before it.                                                               *)
LEMMA WriteStep ==
    ASSUME LogInv, Write
    PROVE  LogInv'
<1> DEFINE r == [line |-> Head(msg), file |-> pf, day |-> day]
<1>1. /\ pc = "write" /\ pc' = "open" /\ msg' = <<>>
      /\ files' = Append(files, r)
      /\ UNCHANGED <<loglevel_, m_queue, call, pf, day, exited>>
  BY DEF Write
<1>2. r \in Line /\ r.file = pf /\ r.day = day
  <2>1. Len(msg) = 1 /\ msg \in Seq(Message)
    BY <1>1, SequencesKnown
  <2>2. Head(msg) \in Message
    BY <2>1
  <2> QED
    BY <2>2 DEF LogInv, TypeOK, Line
<1> HIDE DEF r
<1>3. /\ files' \in Seq(Line) /\ Len(files') = Len(files) + 1
      /\ files'[Len(files) + 1] = r
      /\ \A i \in 1 .. Len(files) : files'[i] = files[i]
  BY <1>1, <1>2, SequencesKnown, AppendProperties
<1>4. TypeOK'
  BY <1>1, <1>3 DEF LogInv, TypeOK, Line
<1>5. Numbered'
  <2>1. Len(msg) = 1 /\ Len(msg') = 0 /\ Len(m_queue') = Len(m_queue)
    BY <1>1, SequencesKnown
  <2> QED
    BY <1>3, <2>1, SequencesKnown DEF Numbered, Logged
<1>6. pf \in Nat /\ day \in Nat /\ pf <= day
  BY DEF LogInv, TypeOK, DayInv
<1>7. \A i \in 1 .. Len(files') : files'[i].day <= day
  BY <1>2, <1>3, <1>6, SequencesKnown DEF LogInv, DayInv
<1>8. MisdatedAtMostOnce'
  <2> SUFFICES ASSUME NEW i \in 1 .. Len(files') - 1
               PROVE  files'[i + 1].file >= files'[i].day
    BY DEF MisdatedAtMostOnce
  <2>0. i \in 1 .. Len(files) /\ files'[i] = files[i]
    BY <1>3, SequencesKnown
  <2>1. CASE i < Len(files)
    <3>1. i \in 1 .. Len(files) - 1 /\ i + 1 \in 1 .. Len(files)
      BY <2>0, <2>1, SequencesKnown
    <3>2. files'[i + 1] = files[i + 1]
      BY <1>3, <3>1
    <3> QED
      BY <2>0, <3>1, <3>2 DEF LogInv, DayInv, MisdatedAtMostOnce
  <2>2. CASE i = Len(files)
    <3>1. files[Len(files)].day <= pf
      BY <1>1, <2>0, <2>2, SequencesKnown DEF LogInv, DayInv
    <3>2. files[Len(files)] \in Line
      BY <2>0, <2>2, SequencesKnown
    <3>3. files[Len(files)].day \in Nat
      BY <3>2 DEF Line
    <3> QED
      BY <1>2, <1>3, <1>6, <2>0, <2>2, <3>1, <3>3
  <2> QED
    BY <2>0, <2>1, <2>2, SequencesKnown
<1>9. DayInv'
  BY <1>1, <1>6, <1>7, <1>8 DEF DayInv
<1> QED
  BY <1>4, <1>5, <1>9 DEF LogInv

(* The steps that change no sequence. *)
LEMMA QuietStep ==
    ASSUME LogInv
    PROVE  /\ \A t \in Threads, level \in LogLevel : setLogLevel(t, level) => LogInv'
           /\ \A t \in Threads : Exit(t) => LogInv'
           /\ Open => LogInv'
           /\ SpuriousWakeup => LogInv'
           /\ Midnight => LogInv'
           /\ UNCHANGED vars => LogInv'
<1> USE DEF LogInv, Numbered, Logged, DayInv, MisdatedAtMostOnce
<1>1. ASSUME NEW t \in Threads, NEW level \in LogLevel, setLogLevel(t, level)
      PROVE  LogInv'
  BY <1>1 DEF setLogLevel, TypeOK
<1>2. ASSUME NEW t \in Threads, Exit(t) PROVE LogInv'
  BY <1>2 DEF Exit, TypeOK
<1>3. CASE Open
  <2>1. CASE pf' = day /\ pc' = "pop" /\ UNCHANGED exited
    <3>1. pc = "open" /\ UNCHANGED <<loglevel_, m_queue, call, msg, day, files>>
      BY <1>3 DEF Open
    <3>2. TypeOK' /\ Numbered'
      BY <2>1, <3>1 DEF TypeOK
    <3>3. DayInv'
      <4>1. files # <<>> => Len(files) \in 1 .. Len(files)
        BY SequencesKnown
      <4> QED
        BY <2>1, <3>1, <4>1 DEF TypeOK
    <3> QED
      BY <3>2, <3>3
  <2>2. CASE exited' = TRUE /\ UNCHANGED <<pf, pc>>
    BY <1>3, <2>2 DEF Open, TypeOK
  <2> QED
    BY <1>3, <2>1, <2>2 DEF Open
<1>4. CASE SpuriousWakeup
  BY <1>4 DEF SpuriousWakeup, TypeOK
<1>5. CASE Midnight
  <2>1. /\ day < MaxDay /\ day' = day + 1 /\ day \in 0 .. MaxDay /\ pf \in 0 .. MaxDay
        /\ UNCHANGED <<loglevel_, m_queue, call, pc, pf, msg, files, exited>>
    BY <1>5 DEF Midnight, TypeOK
  <2>2. TypeOK'
    BY <2>1, LoggerAssumption DEF TypeOK
  <2>3. \A i \in 1 .. Len(files) : files[i].day \in Nat
    <3> SUFFICES ASSUME NEW i \in 1 .. Len(files) PROVE files[i].day \in Nat
      OBVIOUS
    <3>1. files[i] \in Line
      BY SequencesKnown
    <3> QED
      BY <3>1 DEF Line
  <2>4. DayInv'
    BY <2>1, <2>3, LoggerAssumption
  <2> QED
    BY <2>1, <2>2, <2>4
<1>6. CASE UNCHANGED vars
  BY <1>6 DEF vars, TypeOK
<1> QED
  BY <1>1, <1>2, <1>3, <1>4, <1>5, <1>6

LEMMA LogInvInductive == LogInv /\ [Next]_vars => LogInv'
  BY PushStep, PopStep, WriteStep, QuietStep DEF Next, Writer

-----------------------------------------------------------------------------
(* Every reachable state has the types of TypeOK: a message is in hand      *)
(* exactly while the writer is about to write it.                           *)
THEOREM LoggerTypeOK == Spec => []TypeOK
<1>1. LogInv => TypeOK
  BY DEF LogInv
<1> QED
  BY <1>1, LogInvInit, LogInvInductive, PTL DEF Spec

(* At most the first line after a midnight goes to the file of an earlier   *)
(* day, however long Pop waited with the file open.                         *)
THEOREM LoggerMisdatedAtMostOnce == Spec => []MisdatedAtMostOnce
<1>1. LogInv => MisdatedAtMostOnce
  BY DEF LogInv, DayInv
<1> QED
  BY <1>1, LogInvInit, LogInvInductive, PTL DEF Spec

-----------------------------------------------------------------------------
(* The lines of files, as WrittenInOrder sees them. *)
Written(f) == [i \in 1 .. Len(f) |-> f[i].line]

LEMMA WrittenAppend ==
    ASSUME NEW f \in Seq(Line), NEW r \in Line
    PROVE  Written(Append(f, r)) = Append(Written(f), r.line)
<1> DEFINE g == Append(f, r)
           w == Written(f)
           a == Append(w, r.line)
<1>1. /\ Len(f) \in Nat /\ Len(g) = Len(f) + 1 /\ g[Len(f) + 1] = r
      /\ \A i \in 1 .. Len(f) : g[i] = f[i]
  BY AppendProperties
<1>2. /\ w \in Seq(Message) /\ Len(w) = Len(f)
      /\ \A i \in 1 .. Len(f) : w[i] = f[i].line
  <2>1. \A i \in 1 .. Len(f) : f[i].line \in Message
    <3> SUFFICES ASSUME NEW i \in 1 .. Len(f) PROVE f[i].line \in Message
      OBVIOUS
    <3>1. f[i] \in Line
      OBVIOUS
    <3> QED
      BY <3>1 DEF Line
  <2>2. w \in [1 .. Len(f) -> Message]
    BY <2>1 DEF Written
  <2> QED
    BY <1>1, <2>2 DEF Written
<1>3. r.line \in Message
  BY DEF Line
<1> HIDE DEF w
<1>4. /\ a \in Seq(Message) /\ Len(a) = Len(f) + 1 /\ a[Len(f) + 1] = r.line
      /\ \A i \in 1 .. Len(f) : a[i] = w[i]
  BY <1>2, <1>3, AppendProperties
<1> HIDE DEF a, g
<1>5. DOMAIN a = 1 .. Len(f) + 1 /\ a = [i \in 1 .. Len(f) + 1 |-> a[i]]
  BY <1>1, <1>4
<1>6. Written(g) = [i \in 1 .. Len(f) + 1 |-> g[i].line]
  BY <1>1 DEF Written
<1>7. \A i \in 1 .. Len(f) + 1 : g[i].line = a[i]
  BY <1>1, <1>2, <1>4
<1>8. Written(g) = a
  BY <1>5, <1>6, <1>7
<1> QED
  BY <1>8 DEF g, a, w

(* The log is a FIFO queue: each message is written at most once and in the *)
(* order of the pushes.  A push submits, a write executes, and a pop moves  *)
(* the front of the queue to msg without changing msg \o m_queue.           *)
THEOREM LoggerWrittenInOrder == Spec => WrittenInOrder
<1>1. Init => Lines!TInit
  BY DEF Init, Lines!TInit
<1>2. ASSUME LogInv, [Next]_vars PROVE [Lines!TNext]_(Lines!tvars)
  <2>0. /\ m_queue \in Seq(Message) /\ msg \in Seq(Message) /\ files \in Seq(Line)
        /\ pc # "write" => msg = <<>>
    BY <1>2, SequencesKnown
  <2>1. ASSUME msg' = msg, m_queue' = m_queue, files' = files
        PROVE  UNCHANGED Lines!tvars
    BY <2>1 DEF Lines!tvars
  <2>2. ASSUME NEW t \in Threads, Push(t) PROVE Lines!Submit
    <3> DEFINE m == Logged + 1
    <3>1. /\ msg' = msg /\ files' = files /\ m_queue' = Append(m_queue, m)
      BY <2>2 DEF Push
    <3>2. m \in Message
      BY <1>2, <2>2, LoggerAssumption, SequencesKnown DEF Push, Logged, Message
    <3> HIDE DEF m
    <3>3. /\ Append(m_queue, m) = m_queue \o <<m>> /\ <<m>> \in Seq(Message)
          /\ msg \o m_queue \in Seq(Message)
      BY <2>0, <3>2
    <3>4. msg \o (m_queue \o <<m>>) = (msg \o m_queue) \o <<m>>
      BY <2>0, <3>3, ConcatAssociative
    <3>5. (msg \o m_queue) \o <<m>> = Append(msg \o m_queue, m)
      BY <3>2, <3>3, AppendIsConcat
    <3>6. (msg \o m_queue)' = Append(msg \o m_queue, m)
      BY <3>1, <3>3, <3>4, <3>5
    <3> QED
      BY <3>1, <3>2, <3>6 DEF Lines!Submit
  <2>3. CASE Pop
    <3>0. CASE m_queue = <<>>
      BY <2>1, <2>3, <3>0 DEF Pop
    <3>1. CASE m_queue # <<>>
      <4>1. /\ msg = <<>> /\ files' = files
            /\ msg' = <<Head(m_queue)>> /\ m_queue' = Tail(m_queue)
        BY <2>0, <2>3, <3>1 DEF Pop, Take
      <4>2. <<>> \o m_queue = m_queue
        BY <2>0, ConcatEmptySeq
      <4>3. <<Head(m_queue)>> \o Tail(m_queue) = m_queue
        BY <2>0, <3>1
      <4> QED
        BY <4>1, <4>2, <4>3 DEF Lines!tvars
    <3> QED
      BY <3>0, <3>1
  <2>4. CASE Write
    <3> DEFINE x == Head(msg)
               r == [line |-> x, file |-> pf, day |-> day]
    <3>1. files' = Append(files, r) /\ msg' = <<>> /\ m_queue' = m_queue
      BY <2>4 DEF Write
    <3>2. Len(msg) = 1
      BY <1>2, <2>4, SequencesKnown DEF Write
    <3>3. x \in Message /\ msg = <<x>>
      <4>1. x \in Message /\ x = msg[1]
        BY <2>0, <3>2
      <4>2. <<x>> \in Seq(Message) /\ Len(<<x>>) = 1 /\ <<x>>[1] = x
        BY <4>1
      <4>3. msg = <<x>>
        BY <2>0, <3>2, <4>1, <4>2, SeqEqual
      <4> QED
        BY <4>1, <4>3
    <3>4. r \in Line /\ r.line = x
      BY <1>2, <3>3 DEF LogInv, TypeOK, Line
    <3> HIDE DEF x, r
    <3>5. Written(files') = Append(Written(files), x)
      BY <2>0, <3>1, <3>4, WrittenAppend
    <3> DEFINE todo == <<x>> \o m_queue
    <3>6. todo # <<>> /\ Head(todo) = x /\ Tail(todo) = m_queue
      BY <2>0, <3>3
    <3>7. /\ (msg \o m_queue)' = Tail(todo) /\ msg \o m_queue = todo
      BY <2>0, <3>1, <3>3, <3>6, ConcatEmptySeq
    <3> HIDE DEF todo
    <3>8. Lines!Execute
      BY <3>5, <3>6, <3>7 DEF Lines!Execute, Written
    <3> QED
      BY <3>8 DEF Lines!TNext
  <2>5. ASSUME NEW t \in Threads, NEW level \in LogLevel, setLogLevel(t, level)
        PROVE  UNCHANGED Lines!tvars
    BY <2>1, <2>5 DEF setLogLevel
  <2>6. ASSUME NEW t \in Threads, Exit(t) PROVE UNCHANGED Lines!tvars
    BY <2>1, <2>6 DEF Exit
  <2>7. CASE Open \/ SpuriousWakeup \/ Midnight \/ UNCHANGED vars
    BY <2>1, <2>7 DEF Open, SpuriousWakeup, Midnight, vars
  <2> QED
    BY <1>2, <2>2, <2>3, <2>4, <2>5, <2>6, <2>7 DEF Next, Writer, Lines!TNext
<1>3. Spec => []LogInv
  BY LogInvInit, LogInvInductive, PTL DEF Spec
<1> QED
  BY <1>1, <1>2, <1>3, PTL DEF Spec, WrittenInOrder, Lines!TSpec
=============================================================================

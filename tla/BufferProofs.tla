---------------------------- MODULE BufferProofs ----------------------------
(***************************************************************************)
(* Proofs about Buffer for every prepend, initial size, extrabuf and run   *)
(* length: the index order is kept, the vector grows only when it is full, *)
(* and the buffer implements a FIFO queue of bytes.  Each member function  *)
(* has a lemma that says what it does to a well-formed buffer; the theorems*)
(* cite the lemmas and look at no member function themselves.              *)
(***************************************************************************)
EXTENDS Buffer, SequenceTheorems, TLAPS

(* A well-formed Buffer object. *)
IsBuffer(b) ==
    /\ b.size \in Nat
    /\ b.buffer_ \in [0..(b.size - 1) -> Byte]
    /\ b.readerIndex_ \in Nat
    /\ b.writerIndex_ \in Nat
    /\ kCheapPrepend <= b.readerIndex_
    /\ b.readerIndex_ <= b.writerIndex_
    /\ b.writerIndex_ <= b.size

(* The readable region of a well-formed buffer is a sequence of bytes as    *)
(* long as readableBytes() says.                                            *)
LEMMA ReadableIsSeq ==
    ASSUME NEW b, IsBuffer(b)
    PROVE  /\ Readable(b) \in Seq(Byte)
           /\ Len(Readable(b)) = ReadableBytes(b)
           /\ ReadableBytes(b) \in Nat
<1>1. ReadableBytes(b) \in Nat
  BY DEF IsBuffer, ReadableBytes
<1>2. \A i \in 1..ReadableBytes(b) : b.buffer_[b.readerIndex_ + i - 1] \in Byte
  BY BufferAssumption, SMTT(60) DEF IsBuffer, ReadableBytes
<1>3. Readable(b) \in [1..ReadableBytes(b) -> Byte]
  BY <1>2 DEF Readable
<1> QED
  BY <1>1, <1>3 DEF Readable

(* The constructor makes a well-formed, empty buffer. *)
LEMMA NewBufferOK ==
    /\ IsBuffer(NewBuffer)
    /\ ReadableBytes(NewBuffer) = 0
BY BufferAssumption DEF IsBuffer, NewBuffer, Object, ReadableBytes

(* retrieve drops a prefix of the readable bytes, and all of them when      *)
(* asked for too many.                                                      *)
LEMMA RetrieveOK ==
    ASSUME NEW b, IsBuffer(b), NEW len \in Nat
    PROVE  /\ IsBuffer(Retrieve(b, len))
           /\ Retrieve(b, len).size = b.size
           /\ len < ReadableBytes(b) =>
                Readable(Retrieve(b, len)) =
                  SubSeq(Readable(b), len + 1, ReadableBytes(b))
           /\ len >= ReadableBytes(b) =>
                Readable(Retrieve(b, len)) = <<>>
<1> DEFINE c == Retrieve(b, len)
<1>1. CASE len < ReadableBytes(b)
  <2>1. /\ c.buffer_ = b.buffer_ /\ c.size = b.size
        /\ c.readerIndex_ = b.readerIndex_ + len
        /\ c.writerIndex_ = b.writerIndex_
        /\ IsBuffer(c)
    BY <1>1, BufferAssumption DEF IsBuffer, Retrieve, Object, ReadableBytes
  <2>2. ReadableBytes(c) = ReadableBytes(b) - len
    BY <2>1 DEF IsBuffer, ReadableBytes
  <2>3. Readable(c) =
          [i \in 1..(ReadableBytes(b) - len) |->
             b.buffer_[b.readerIndex_ + len + i - 1]]
    BY <2>1, <2>2 DEF Readable
  <2>4. SubSeq(Readable(b), len + 1, ReadableBytes(b)) =
          [i \in 1..(ReadableBytes(b) - len) |-> Readable(b)[i + len]]
    BY ReadableIsSeq, <1>1
  <2>5. ASSUME NEW i \in 1..(ReadableBytes(b) - len)
        PROVE  Readable(b)[i + len] = b.buffer_[b.readerIndex_ + len + i - 1]
    <3>1. i + len \in 1..ReadableBytes(b)
      BY ReadableIsSeq
    <3>2. b.readerIndex_ + (i + len) - 1 = b.readerIndex_ + len + i - 1
      BY DEF IsBuffer
    <3> QED
      BY <3>1, <3>2 DEF Readable
  <2> QED
    BY <1>1, <2>1, <2>3, <2>4, <2>5, ReadableIsSeq
<1>2. CASE ~(len < ReadableBytes(b))
  <2>1. /\ c.buffer_ = b.buffer_ /\ c.size = b.size
        /\ c.readerIndex_ = kCheapPrepend
        /\ c.writerIndex_ = kCheapPrepend
        /\ IsBuffer(c)
    BY <1>2, BufferAssumption DEF IsBuffer, Retrieve, RetrieveAll, Object
  <2>2. ReadableBytes(c) = 0
    BY <2>1, BufferAssumption DEF ReadableBytes
  <2>3. Readable(c) = <<>>
    BY <2>2 DEF Readable
  <2> QED
    BY <1>2, <2>1, <2>3, ReadableIsSeq
<1> QED
  BY <1>1, <1>2

(* Growing the vector keeps the readable bytes where they are. *)
LEMMA ResizeOK ==
    ASSUME NEW b, IsBuffer(b), NEW n \in Nat, n >= b.size
    PROVE  /\ IsBuffer(Resize(b, n))
           /\ Readable(Resize(b, n)) = Readable(b)
           /\ Resize(b, n).size = n
           /\ WritableBytes(Resize(b, n)) = n - b.writerIndex_
           /\ ReadableBytes(Resize(b, n)) = ReadableBytes(b)
<1> DEFINE c == Resize(b, n)
<1>1. /\ c.size = n
      /\ c.readerIndex_ = b.readerIndex_
      /\ c.writerIndex_ = b.writerIndex_
      /\ c.buffer_ = [i \in 0..(n - 1) |->
                        IF i < b.size THEN b.buffer_[i] ELSE NUL]
  BY DEF Resize, Object
<1>2. c.buffer_ \in [0..(n - 1) -> Byte]
  <2>1. \A i \in 0..(n - 1) :
          (IF i < b.size THEN b.buffer_[i] ELSE NUL) \in Byte
    BY BufferAssumption DEF IsBuffer
  <2> HIDE DEF c
  <2> QED
    BY <1>1, <2>1
<1>3. IsBuffer(c)
  <2> HIDE DEF c
  <2> QED
    BY <1>1, <1>2 DEF IsBuffer
<1>4. ReadableBytes(c) = ReadableBytes(b)
  BY <1>1 DEF ReadableBytes
<1>5. ASSUME NEW i \in 1..ReadableBytes(b)
      PROVE  c.buffer_[b.readerIndex_ + i - 1] = b.buffer_[b.readerIndex_ + i - 1]
  <2>1. /\ b.readerIndex_ + i - 1 \in 0..(n - 1)
        /\ b.readerIndex_ + i - 1 < b.size
    BY BufferAssumption DEF IsBuffer, ReadableBytes
  <2> HIDE DEF c
  <2> QED
    BY <1>1, <2>1
<1>6. Readable(c) = Readable(b)
  <2> HIDE DEF c
  <2> QED
    BY <1>1, <1>4, <1>5 DEF Readable
<1> QED
  BY <1>1, <1>3, <1>4, <1>6 DEF WritableBytes

(* Moving the readable bytes to the front frees everything after them. *)
LEMMA MoveToFrontOK ==
    ASSUME NEW b, IsBuffer(b)
    PROVE  /\ IsBuffer(MoveToFront(b))
           /\ Readable(MoveToFront(b)) = Readable(b)
           /\ MoveToFront(b).size = b.size
           /\ ReadableBytes(MoveToFront(b)) = ReadableBytes(b)
           /\ WritableBytes(MoveToFront(b)) =
                WritableBytes(b) + PrependableBytes(b) - kCheapPrepend
<1> DEFINE c == MoveToFront(b)
           end == kCheapPrepend + ReadableBytes(b)
<1>1. /\ c.size = b.size
      /\ c.readerIndex_ = kCheapPrepend
      /\ c.writerIndex_ = end
      /\ c.buffer_ = [i \in 0..(b.size - 1) |->
                        IF kCheapPrepend <= i /\ i < end
                        THEN b.buffer_[b.readerIndex_ + i - kCheapPrepend]
                        ELSE b.buffer_[i]]
  BY DEF MoveToFront, Object
<1>2. /\ ReadableBytes(b) \in Nat /\ end \in Nat
      /\ end <= b.size /\ b.readerIndex_ + ReadableBytes(b) = b.writerIndex_
  BY BufferAssumption DEF IsBuffer, ReadableBytes
<1>3. c.buffer_ \in [0..(b.size - 1) -> Byte]
  <2>1. ASSUME NEW i \in 0..(b.size - 1)
        PROVE  (IF kCheapPrepend <= i /\ i < end
                THEN b.buffer_[b.readerIndex_ + i - kCheapPrepend]
                ELSE b.buffer_[i]) \in Byte
    <3> HIDE DEF end
    <3>1. kCheapPrepend <= i /\ i < end =>
            b.readerIndex_ + i - kCheapPrepend \in 0..(b.size - 1)
      BY <1>2, BufferAssumption DEF IsBuffer, end
    <3> QED
      BY <3>1 DEF IsBuffer
  <2> HIDE DEF c, end
  <2> QED
    BY <1>1, <2>1
<1>4. IsBuffer(c)
  <2> HIDE DEF c
  <2> QED
    BY <1>1, <1>2, <1>3, BufferAssumption DEF IsBuffer
<1>5. ReadableBytes(c) = ReadableBytes(b)
  <2> HIDE DEF c
  <2> QED
    BY <1>1, <1>2, BufferAssumption DEF ReadableBytes
<1>6. ASSUME NEW i \in 1..ReadableBytes(b)
      PROVE  c.buffer_[c.readerIndex_ + i - 1] = b.buffer_[b.readerIndex_ + i - 1]
  <2> DEFINE j == kCheapPrepend + i - 1
  <2>1. /\ j \in 0..(b.size - 1) /\ kCheapPrepend <= j /\ j < end
        /\ b.readerIndex_ + j - kCheapPrepend = b.readerIndex_ + i - 1
    BY <1>2, BufferAssumption DEF IsBuffer
  <2>2. c.readerIndex_ + i - 1 = j
    BY <1>1
  <2> HIDE DEF c, end, j
  <2>3. c.buffer_[j] = b.buffer_[b.readerIndex_ + j - kCheapPrepend]
    BY <1>1, <2>1
  <2> QED
    BY <2>1, <2>2, <2>3
<1>7. Readable(c) = Readable(b)
  <2> HIDE DEF c
  <2> QED
    BY <1>5, <1>6 DEF Readable
<1>8. WritableBytes(c) = WritableBytes(b) + PrependableBytes(b) - kCheapPrepend
  <2> HIDE DEF c
  <2> QED
    BY <1>1, <1>2, BufferAssumption
    DEF IsBuffer, WritableBytes, PrependableBytes, ReadableBytes
<1> QED
  BY <1>1, <1>4, <1>5, <1>7, <1>8

(* ensureWritableBytes makes room for len bytes and leaves the readable     *)
(* bytes as they were; it grows the vector only when moving them to the     *)
(* front would not have been enough.                                        *)
LEMMA EnsureWritableBytesOK ==
    ASSUME NEW b, IsBuffer(b), NEW len \in Nat
    PROVE  LET c == EnsureWritableBytes(b, len)
           IN /\ IsBuffer(c)
              /\ Readable(c) = Readable(b)
              /\ ReadableBytes(c) = ReadableBytes(b)
              /\ WritableBytes(c) >= len
              /\ c.size # b.size =>
                    /\ c.size > b.size
                    /\ b.size < kCheapPrepend + ReadableBytes(b) + len
                    /\ c.size <= b.size + len
<1> DEFINE full == WritableBytes(b) + PrependableBytes(b) < len + kCheapPrepend
<1>1. /\ WritableBytes(b) \in Nat /\ PrependableBytes(b) \in Nat
      /\ ReadableBytes(b) \in Nat /\ b.size \in Nat /\ b.writerIndex_ \in Nat
      /\ b.size = ReadableBytes(b) + WritableBytes(b) + PrependableBytes(b)
      /\ b.size = b.writerIndex_ + WritableBytes(b)
  BY DEF IsBuffer, WritableBytes, PrependableBytes, ReadableBytes
<1>2. CASE WritableBytes(b) >= len
  <2>1. EnsureWritableBytes(b, len) = b
    BY <1>1, <1>2 DEF EnsureWritableBytes
  <2> QED
    BY <1>2, <2>1
<1>3. CASE WritableBytes(b) < len /\ full
  <2>1. EnsureWritableBytes(b, len) = Resize(b, b.writerIndex_ + len)
    BY <1>3 DEF EnsureWritableBytes, MakeSpace
  <2>2. b.writerIndex_ + len \in Nat /\ b.writerIndex_ + len > b.size
    BY <1>1, <1>3
  <2>3. b.size < kCheapPrepend + ReadableBytes(b) + len
    BY <1>1, <1>3, BufferAssumption
  <2>4. b.writerIndex_ + len <= b.size + len
    BY <1>1
  <2>5. (b.writerIndex_ + len) - b.writerIndex_ = len
    BY <1>1
  <2> HIDE DEF full
  <2> QED
    BY <1>1, <2>1, <2>2, <2>3, <2>4, <2>5, ResizeOK
<1>4. CASE WritableBytes(b) < len /\ ~full
  <2>1. EnsureWritableBytes(b, len) = MoveToFront(b)
    BY <1>4 DEF EnsureWritableBytes, MakeSpace
  <2>2. WritableBytes(b) + PrependableBytes(b) - kCheapPrepend >= len
    BY <1>1, <1>4, BufferAssumption
  <2> QED
    BY <2>1, <2>2, MoveToFrontOK
<1> QED
  BY <1>1, <1>2, <1>3, <1>4

(* Storing a run that fits adds it after the readable bytes. *)
LEMMA WriteAtOK ==
    ASSUME NEW b, IsBuffer(b), NEW data \in Seq(Byte),
           Len(data) <= WritableBytes(b)
    PROVE  /\ IsBuffer(WriteAt(b, data))
           /\ Readable(WriteAt(b, data)) = Readable(b) \o data
           /\ ReadableBytes(WriteAt(b, data)) = ReadableBytes(b) + Len(data)
           /\ WritableBytes(WriteAt(b, data)) = WritableBytes(b) - Len(data)
           /\ WriteAt(b, data).size = b.size
<1> DEFINE c == WriteAt(b, data)
           end == b.writerIndex_ + Len(data)
<1>1. /\ c.size = b.size
      /\ c.readerIndex_ = b.readerIndex_
      /\ c.writerIndex_ = end
      /\ c.buffer_ = [i \in 0..(b.size - 1) |->
                        IF b.writerIndex_ <= i /\ i < end
                        THEN data[i - b.writerIndex_ + 1] ELSE b.buffer_[i]]
  BY DEF WriteAt, Object
<1>2. /\ Len(data) \in Nat /\ end \in Nat /\ end <= b.size
      /\ ReadableBytes(b) \in Nat
      /\ b.readerIndex_ + ReadableBytes(b) = b.writerIndex_
  BY DEF IsBuffer, ReadableBytes, WritableBytes
<1>3. c.buffer_ \in [0..(b.size - 1) -> Byte]
  <2>1. ASSUME NEW i \in 0..(b.size - 1)
        PROVE  (IF b.writerIndex_ <= i /\ i < end
                THEN data[i - b.writerIndex_ + 1] ELSE b.buffer_[i]) \in Byte
    <3>1. b.writerIndex_ <= i /\ i < end =>
            i - b.writerIndex_ + 1 \in 1..Len(data)
      BY <1>2, SMTT(60) DEF IsBuffer
    <3> HIDE DEF end
    <3> QED
      BY <3>1 DEF IsBuffer
  <2> HIDE DEF c, end
  <2> QED
    BY <1>1, <2>1
<1>4. IsBuffer(c)
  <2> HIDE DEF c
  <2> QED
    BY <1>1, <1>2, <1>3 DEF IsBuffer
<1>5. ReadableBytes(c) = ReadableBytes(b) + Len(data)
  <2> HIDE DEF c
  <2> QED
    BY <1>1, <1>2 DEF IsBuffer, ReadableBytes
<1>0. b.readerIndex_ \in Nat /\ b.writerIndex_ \in Nat /\ b.size \in Nat
  BY DEF IsBuffer
<1>6. ASSUME NEW i \in 1..ReadableBytes(b)
      PROVE  c.buffer_[c.readerIndex_ + i - 1] = Readable(b)[i]
  <2> HIDE DEF c
  <2> DEFINE j == b.readerIndex_ + i - 1
  <2>1. j \in 0..(b.size - 1) /\ ~(b.writerIndex_ <= j)
    BY <1>0, <1>2, SMTT(60)
  <2> HIDE DEF end
  <2>2. c.buffer_[j] = b.buffer_[j]
    BY <1>1, <2>1
  <2> QED
    BY <1>1, <2>2 DEF Readable
<1>7. ASSUME NEW i \in 1..Len(data)
      PROVE  c.buffer_[c.readerIndex_ + (ReadableBytes(b) + i) - 1] = data[i]
  <2> HIDE DEF c
  <2> DEFINE j == b.writerIndex_ + i - 1
  <2>1. i \in Nat /\ 1 <= i /\ i <= Len(data)
    BY <1>2
  <2>2. j \in 0..(b.size - 1) /\ b.writerIndex_ <= j /\ j < end
    BY <1>0, <1>2, <2>1
  <2>3. j - b.writerIndex_ + 1 = i
    BY <1>0, <2>1
  <2>4. b.readerIndex_ + (ReadableBytes(b) + i) - 1 = j
    BY <1>0, <1>2, <2>1
  <2> HIDE DEF end, j
  <2> QED
    BY <1>1, <2>2, <2>3, <2>4
<1>8. Readable(c) = Readable(b) \o data
  <2> HIDE DEF c, end
  <2> DEFINE r == Readable(b)
             n == ReadableBytes(b)
             d == Readable(c)
  <2>1. r \in Seq(Byte) /\ Len(r) = n /\ d \in Seq(Byte) /\ Len(d) = n + Len(data)
    BY <1>4, <1>5, ReadableIsSeq
  <2>2. \A i \in 1..(n + Len(data)) : d[i] = c.buffer_[c.readerIndex_ + i - 1]
    BY <1>5 DEF Readable
  <2>3. \A i \in 1..n : d[i] = r[i]
    BY <1>2, <1>6, <2>2
  <2>4. \A i \in 1..Len(data) : d[n + i] = data[i]
    BY <1>2, <1>7, <2>2
  <2>5. ASSUME NEW i \in 1..(n + Len(data)) PROVE d[i] = (r \o data)[i]
    <3> HIDE DEF r, n, d
    <3>0. n \in Nat
      BY <1>2 DEF n
    <3>1. CASE i <= n
      BY <2>1, <2>3, <3>0, <3>1, <1>2
    <3>2. CASE i > n
      <4> DEFINE k == i - n
      <4>1. k \in 1..Len(data) /\ n + k = i
        BY <3>0, <3>2, <1>2
      <4> HIDE DEF k
      <4>2. d[i] = data[k]
        BY <2>4, <4>1
      <4>3. (r \o data)[i] = data[i - n]
        BY <2>1, <3>0, <3>2, <1>2
      <4> QED
        BY <4>2, <4>3 DEF k
    <3>3. i <= n \/ i > n
      BY <3>0, <1>2
    <3> QED
      BY <3>1, <3>2, <3>3
  <2> HIDE DEF r, n, d
  <2>6. r \o data \in Seq(Byte) /\ Len(r \o data) = Len(r) + Len(data)
    BY <2>1, ConcatProperties
  <2> DEFINE v == r \o data
  <2>7. v \in Seq(Byte) /\ Len(v) = n + Len(data)
    BY <2>1, <2>6
  <2>8. \A i \in 1..(n + Len(data)) : d[i] = v[i]
    BY <2>5
  <2> HIDE DEF v
  <2>9. d = v
    BY <2>1, <2>7, <2>8, SeqEqual
  <2> QED
    BY <2>9 DEF r, d, v
<1>9. WritableBytes(c) = WritableBytes(b) - Len(data)
  <2> HIDE DEF c
  <2> QED
    BY <1>1, <1>2 DEF IsBuffer, WritableBytes
<1> QED
  BY <1>1, <1>4, <1>5, <1>8, <1>9

(* A sequence is any prefix of it followed by the rest. *)
LEMMA ConcatSubSeq ==
    ASSUME NEW s \in Seq(Byte), NEW n \in Nat, n < Len(s)
    PROVE  SubSeq(s, 1, n) \o SubSeq(s, n + 1, Len(s)) = s
<1> DEFINE t == SubSeq(s, 1, n)
           u == SubSeq(s, n + 1, Len(s))
<1>1. /\ t \in Seq(Byte) /\ Len(t) = n /\ u \in Seq(Byte) /\ Len(u) = Len(s) - n
      /\ \A i \in 1..n : t[i] = s[i]
      /\ \A i \in 1..(Len(s) - n) : u[i] = s[n + i]
  OBVIOUS
<1>0. Len(s) \in Nat
  OBVIOUS
<1> HIDE DEF t, u
<1>2. t \o u \in Seq(Byte) /\ Len(t \o u) = Len(s)
  <2>1. Len(t) + Len(u) = Len(s)
    BY <1>0, <1>1
  <2>2. t \o u \in Seq(Byte) /\ Len(t \o u) = Len(t) + Len(u)
    BY <1>1, ConcatProperties
  <2> QED
    BY <2>1, <2>2
<1>3. ASSUME NEW i \in 1..Len(s) PROVE (t \o u)[i] = s[i]
  <2>1. CASE i <= n
    BY <1>1, <2>1
  <2>2. CASE i > n
    <3> DEFINE k == i - n
    <3>1. k \in 1..(Len(s) - n) /\ n + k = i
      BY <2>2
    <3>2. (t \o u)[i] = u[k]
      BY <1>1, <2>2
    <3> QED
      BY <1>1, <3>1, <3>2
  <2>3. i <= n \/ i > n
    BY <1>0
  <2> QED
    BY <2>1, <2>2, <2>3
<1>4. t \o u = s
  <2>1. \A i \in 1..Len(s) : (t \o u)[i] = s[i]
    BY <1>3
  <2> DEFINE v == t \o u
  <2> HIDE DEF v
  <2>2. v \in Seq(Byte) /\ Len(v) = Len(s) /\ \A i \in 1..Len(s) : v[i] = s[i]
    BY <1>2, <2>1 DEF v
  <2>3. v = s
    BY <2>2, SeqEqual
  <2> QED
    BY <2>3 DEF v
<1> QED
  BY <1>4 DEF t, u

(* append adds any run after the readable bytes. *)
LEMMA AppendBytesOK ==
    ASSUME NEW b, IsBuffer(b), NEW data \in Seq(Byte)
    PROVE  LET c == AppendBytes(b, data)
           IN /\ IsBuffer(c)
              /\ Readable(c) = Readable(b) \o data
              /\ ReadableBytes(c) = ReadableBytes(b) + Len(data)
              /\ c.size # b.size =>
                    /\ c.size > b.size
                    /\ b.size < kCheapPrepend + ReadableBytes(b) + Len(data)
                    /\ c.size <= b.size + Len(data)
<1> DEFINE e == EnsureWritableBytes(b, Len(data))
<1>1. Len(data) \in Nat
  OBVIOUS
<1>2. /\ IsBuffer(e)
      /\ Readable(e) = Readable(b)
      /\ ReadableBytes(e) = ReadableBytes(b)
      /\ WritableBytes(e) >= Len(data)
      /\ e.size # b.size =>
            /\ e.size > b.size
            /\ b.size < kCheapPrepend + ReadableBytes(b) + Len(data)
            /\ e.size <= b.size + Len(data)
  BY <1>1, EnsureWritableBytesOK
<1>3. AppendBytes(b, data) = WriteAt(e, data)
  BY DEF AppendBytes
<1> HIDE DEF e
<1>4. WritableBytes(e) \in Nat
  BY <1>2 DEF IsBuffer, WritableBytes
<1>5. Len(data) <= WritableBytes(e)
  BY <1>1, <1>2, <1>4
<1> QED
  BY <1>2, <1>3, <1>5, WriteAtOK

(* readFd adds the run readv delivered after the readable bytes, whether or *)
(* not part of it went through extrabuf.                                    *)
LEMMA ReadIntoOK ==
    ASSUME NEW b, IsBuffer(b), NEW data \in Seq(Byte)
    PROVE  LET c == ReadInto(b, data)
           IN /\ IsBuffer(c)
              /\ Readable(c) = Readable(b) \o data
              /\ ReadableBytes(c) = ReadableBytes(b) + Len(data)
              /\ c.size # b.size =>
                    /\ c.size > b.size
                    /\ b.size < kCheapPrepend + ReadableBytes(b) + Len(data)
                    /\ c.size <= b.size + Len(data)
<1> DEFINE w == WritableBytes(b)
           d1 == SubSeq(data, 1, w)
           d2 == SubSeq(data, w + 1, Len(data))
           m == WriteAt(b, d1)
<1>1. w \in Nat /\ Len(data) \in Nat /\ ReadableBytes(b) \in Nat /\ b.size \in Nat
  BY DEF IsBuffer, WritableBytes, ReadableBytes
<1>2. CASE Len(data) <= w
  <2>1. ReadInto(b, data) = WriteAt(b, data)
    BY <1>2 DEF ReadInto
  <2> QED
    BY <1>2, <2>1, WriteAtOK
<1>3. CASE ~(Len(data) <= w)
  <2>1. ReadInto(b, data) = AppendBytes(m, d2)
    BY <1>3 DEF ReadInto
  <2>2. /\ d1 \in Seq(Byte) /\ Len(d1) = w
        /\ d2 \in Seq(Byte) /\ Len(d2) = Len(data) - w
    BY <1>1, <1>3
  <2>3. d1 \o d2 = data
    <3>1. w < Len(data)
      BY <1>1, <1>3
    <3> HIDE DEF w
    <3> QED
      BY <1>1, <3>1, ConcatSubSeq
  <2> HIDE DEF w, d1, d2
  <2>4. /\ IsBuffer(m)
        /\ Readable(m) = Readable(b) \o d1
        /\ ReadableBytes(m) = ReadableBytes(b) + w
        /\ m.size = b.size
    BY <1>1, <2>2, WriteAtOK, SMTT(60) DEF w
  <2> HIDE DEF m
  <2> DEFINE c == AppendBytes(m, d2)
  <2>5. /\ IsBuffer(c)
        /\ Readable(c) = Readable(m) \o d2
        /\ ReadableBytes(c) = ReadableBytes(m) + Len(d2)
        /\ c.size # m.size =>
              /\ c.size > m.size
              /\ m.size < kCheapPrepend + ReadableBytes(m) + Len(d2)
              /\ c.size <= m.size + Len(d2)
    BY <2>2, <2>4, AppendBytesOK
  <2>6. Readable(c) = Readable(b) \o data
    <3>1. Readable(b) \in Seq(Byte)
      BY ReadableIsSeq
    <3>2. (Readable(b) \o d1) \o d2 = Readable(b) \o (d1 \o d2)
      <4> DEFINE r == Readable(b)
      <4>1. r \in Seq(Byte) /\ d1 \in Seq(Byte) /\ d2 \in Seq(Byte)
        BY <2>2, <3>1
      <4> HIDE DEF r
      <4>2. (r \o d1) \o d2 = r \o (d1 \o d2)
        BY <4>1, ConcatAssociative, SMTT(60)
      <4> QED
        BY <4>2 DEF r
    <3> HIDE DEF c
    <3> QED
      BY <2>3, <2>4, <2>5, <3>2
  <2> HIDE DEF c
  <2>7. c.size \in Nat
    BY <2>5 DEF IsBuffer
  <2>8. ReadableBytes(c) = ReadableBytes(b) + Len(data)
    BY <1>1, <2>2, <2>4, <2>5
  <2>9. c.size # b.size =>
          /\ c.size > b.size
          /\ b.size < kCheapPrepend + ReadableBytes(b) + Len(data)
          /\ c.size <= b.size + Len(data)
    BY <1>1, <2>2, <2>4, <2>5, <2>7, BufferAssumption, SMTT(60)
  <2> QED
    BY <2>1, <2>5, <2>6, <2>8, <2>9 DEF c
<1> QED
  BY <1>2, <1>3

-----------------------------------------------------------------------------
(* The specification *)

(* The inductive invariant: the object is well formed, given and out hold    *)
(* bytes.                                                                   *)
BufferInv == IsBuffer(buf) /\ given \in Seq(Byte) /\ out \in Seq(Byte)

(* Every run a caller or the kernel delivers is a sequence of bytes. *)
LEMMA RunsAreSeqs == Runs \subseteq Seq(Byte)
BY BufferAssumption DEF Runs

(* What each action does to a well-formed buffer and to out. *)
LEMMA ActionsOK ==
    ASSUME BufferInv, Next
    PROVE  \/ /\ out' = out
              /\ \E data \in Seq(Byte) :
                   /\ given' = data
                   /\ IsBuffer(buf')
                   /\ Readable(buf') = Readable(buf) \o data
                   /\ ReadableBytes(buf') = ReadableBytes(buf) + Len(data)
                   /\ buf'.size # buf.size =>
                        /\ buf'.size > buf.size
                        /\ buf.size < kCheapPrepend + ReadableBytes(buf) + Len(data)
                        /\ buf'.size <= buf.size + Len(data)
           \/ /\ \E len \in Nat : buf' = Retrieve(buf, len)
              /\ given' = <<>> /\ out' = out
           \/ \E len \in 0..ReadableBytes(buf) :
                   /\ out' = [i \in 1..len |-> Readable(buf)[i]]
                   /\ buf' = Retrieve(buf, len) \/ buf' = buf
                   /\ given' = <<>>
<1>1. CASE Append_
  BY <1>1, RunsAreSeqs, AppendBytesOK DEF Append_, BufferInv
<1>2. CASE Retrieve_
  BY <1>2, BufferAssumption DEF Retrieve_
<1>3. CASE RetrieveAsString
  BY <1>3 DEF RetrieveAsString
<1>4. CASE ReadFd
  BY <1>4, RunsAreSeqs, ReadIntoOK DEF ReadFd, BufferInv
<1>5. CASE WritFd
  BY <1>5 DEF WritFd
<1> QED
  BY <1>1, <1>2, <1>3, <1>4, <1>5 DEF Next

(* retrieve leaves the suffix of the readable bytes that starts after the   *)
(* first n, for some n.                                                     *)
LEMMA RetrieveIsSuffix ==
    ASSUME NEW b, IsBuffer(b), NEW len \in Nat
    PROVE  \E n \in 0..Len(Readable(b)) :
              /\ len <= Len(Readable(b)) => n = len
              /\ Readable(Retrieve(b, len)) =
                   SubSeq(Readable(b), n + 1, Len(Readable(b)))
<1> DEFINE r == Readable(b)
<1>1. r \in Seq(Byte) /\ Len(r) = ReadableBytes(b) /\ Len(r) \in Nat
  BY ReadableIsSeq
<1>2. CASE len < Len(r)
  <2>1. Readable(Retrieve(b, len)) = SubSeq(r, len + 1, Len(r))
    BY <1>1, <1>2, RetrieveOK
  <2>2. len \in 0..Len(r)
    BY <1>1, <1>2
  <2> QED
    BY <2>1, <2>2
<1>3. CASE ~(len < Len(r))
  <2>1. Readable(Retrieve(b, len)) = <<>>
    BY <1>1, <1>3, RetrieveOK
  <2>2. SubSeq(r, Len(r) + 1, Len(r)) = <<>>
    BY <1>1
  <2>3. Len(r) \in 0..Len(r) /\ (len <= Len(r) => Len(r) = len)
    BY <1>1, <1>3
  <2> QED
    BY <2>1, <2>2, <2>3
<1> QED
  BY <1>2, <1>3

(* BufferInv is inductive. *)
LEMMA BufferInvInductive ==
    /\ Init => BufferInv
    /\ BufferInv /\ [Next]_vars => BufferInv'
<1>1. Init => BufferInv
  BY NewBufferOK DEF Init, BufferInv
<1>2. ASSUME BufferInv, [Next]_vars PROVE BufferInv'
  <2>1. CASE UNCHANGED vars
    BY <1>2, <2>1 DEF vars, BufferInv, IsBuffer
  <2>2. CASE Next
    <3>1. ASSUME NEW len \in 0..ReadableBytes(buf),
                 out' = [i \in 1..len |-> Readable(buf)[i]]
          PROVE  out' \in Seq(Byte) /\ len \in Nat
      <4>1. /\ Readable(buf) \in Seq(Byte) /\ ReadableBytes(buf) \in Nat
            /\ Len(Readable(buf)) = ReadableBytes(buf)
        BY <1>2, ReadableIsSeq DEF BufferInv
      <4>2. \A i \in 1..len : Readable(buf)[i] \in Byte
        BY <4>1
      <4> QED
        BY <3>1, <4>1, <4>2
    <3>2. ASSUME NEW len \in Nat, buf' = Retrieve(buf, len) PROVE IsBuffer(buf')
      BY <1>2, <3>2, RetrieveOK DEF BufferInv
    <3>3. IsBuffer(buf') /\ out' \in Seq(Byte)
      BY <1>2, <2>2, <3>1, <3>2, ActionsOK DEF BufferInv
    <3>4. given' \in Seq(Byte)
      <4>1. <<>> \in Seq(Byte)
        OBVIOUS
      <4> QED
        BY <1>2, <2>2, <4>1, ActionsOK
    <3> QED
      BY <3>3, <3>4 DEF BufferInv, IsBuffer
  <2> QED
    BY <1>2, <2>1, <2>2
<1> QED
  BY <1>1, <1>2

(* Type correctness of Buffer, for every value of the constants. *)
THEOREM BufferTypeOK == Spec => []TypeOK
<1>1. BufferInv => TypeOK
  BY DEF BufferInv, IsBuffer, TypeOK
<1> QED
  BY <1>1, BufferInvInductive, PTL DEF Spec

(* The index order that every pointer expression of Buffer.h rests on holds *)
(* after any sequence of operations with runs of any length.                *)
THEOREM BufferIndexesInBounds == Spec => []IndexesInBounds
<1>1. BufferInv => IndexesInBounds
  BY DEF BufferInv, IsBuffer, IndexesInBounds
<1> QED
  BY <1>1, BufferInvInductive, PTL DEF Spec

(* append and readFd grow the vector only when the free space on both sides *)
(* of the readable bytes is too small, and by no more than they append.     *)
THEOREM BufferGrowsOnlyWhenFull == Spec => GrowsOnlyWhenFull
<1> DEFINE Grows ==
      buf'.size # buf.size =>
         /\ buf'.size > buf.size
         /\ buf.size < kCheapPrepend + ReadableBytes(buf')
         /\ buf'.size < kCheapPrepend + 2 * ReadableBytes(buf')
<1>1. ASSUME BufferInv, [Next]_vars PROVE [Grows]_vars
  <2> SUFFICES ASSUME Next PROVE Grows
    BY <1>1
  <2>1. ASSUME NEW data \in Seq(Byte), IsBuffer(buf'),
               ReadableBytes(buf') = ReadableBytes(buf) + Len(data),
               buf'.size # buf.size =>
                 /\ buf'.size > buf.size
                 /\ buf.size < kCheapPrepend + ReadableBytes(buf) + Len(data)
                 /\ buf'.size <= buf.size + Len(data)
        PROVE  Grows
    <3>1. /\ Len(data) \in Nat /\ ReadableBytes(buf) \in Nat
          /\ buf.size \in Nat /\ buf'.size \in Nat
      BY <1>1, <2>1, ReadableIsSeq DEF BufferInv, IsBuffer
    <3> QED
      BY <2>1, <3>1, BufferAssumption
  <2>2. ASSUME NEW len \in Nat, buf' = Retrieve(buf, len) PROVE Grows
    BY <1>1, <2>2, RetrieveOK DEF BufferInv
  <2>3. ASSUME NEW len \in 0..ReadableBytes(buf) PROVE len \in Nat
    BY <1>1, ReadableIsSeq DEF BufferInv
  <2> QED
    BY <1>1, <2>1, <2>2, <2>3, ActionsOK
<1>2. Spec => []BufferInv
  BY BufferInvInductive, PTL DEF Spec
<1> QED
  BY <1>1, <1>2, PTL DEF Spec, GrowsOnlyWhenFull

(* Buffer implements a FIFO queue of bytes: the readable region, in order,  *)
(* is the queue, whatever happens to the vector underneath it.              *)
THEOREM BufferIsByteQueue == Spec => IsByteQueue
<1>1. Init => Queue!QInit
  <2>1. ASSUME Init PROVE Readable(buf) = <<>> /\ given = <<>> /\ out = <<>>
    BY <2>1, NewBufferOK DEF Init, Readable
  <2> QED
    BY <2>1 DEF Queue!QInit
<1>2. ASSUME BufferInv, [Next]_vars PROVE [Queue!QNext]_(Queue!qvars)
  <2> DEFINE r == Readable(buf)
  <2>0. r \in Seq(Byte) /\ Len(r) = ReadableBytes(buf) /\ Len(r) \in Nat
    BY <1>2, ReadableIsSeq DEF BufferInv
  <2>1. CASE UNCHANGED vars
    <3>1. Readable(buf)' = Readable(buf) /\ given' = given /\ out' = out
      BY <2>1 DEF vars, Readable, ReadableBytes
    <3> QED
      BY <3>1 DEF Queue!qvars
  <2>2. ASSUME NEW data \in Seq(Byte), Readable(buf') = r \o data,
               given' = data, out' = out
        PROVE  Queue!Put
    <3>1. Readable(buf)' = r \o data
      BY <2>2 DEF Readable, ReadableBytes
    <3> QED
      BY <2>2, <3>1 DEF Queue!Put
  <2>3. ASSUME NEW len \in Nat, buf' = Retrieve(buf, len)
        PROVE  \E n \in 0..Len(r) :
                 /\ len <= Len(r) => n = len
                 /\ Readable(buf)' = SubSeq(r, n + 1, Len(r))
    <3>1. Readable(buf)' = Readable(Retrieve(buf, len))
      BY <2>3 DEF Readable, ReadableBytes
    <3> QED
      BY <1>2, <3>1, RetrieveIsSuffix DEF BufferInv
  <2>4. ASSUME NEW len \in Nat, buf' = Retrieve(buf, len), out' = out
        PROVE  Queue!Drop
    <3> HIDE DEF r
    <3> QED
      BY <2>3, <2>4 DEF Queue!Drop, Queue!Suffix, r
  <2>5. ASSUME NEW len \in 0..ReadableBytes(buf),
               out' = [i \in 1..len |-> r[i]],
               buf' = Retrieve(buf, len) \/ buf' = buf
        PROVE  Queue!Take \/ Queue!Peek
    <3>1. len \in Nat /\ len \in 0..Len(r) /\ len <= Len(r)
      BY <2>0
    <3>2. SubSeq(r, 1, len) = [i \in 1..len |-> r[i]]
      BY <2>0, <3>1
    <3>3. CASE buf' = Retrieve(buf, len)
      <4>1. Readable(buf)' = SubSeq(r, len + 1, Len(r))
        <5> HIDE DEF r
        <5> QED
          BY <2>3, <3>1, <3>3
      <4> HIDE DEF r
      <4> QED
        BY <2>5, <3>1, <3>2, <4>1 DEF Queue!Take, Queue!Prefix, Queue!Suffix, r
    <3>4. CASE buf' = buf
      <4>1. Readable(buf)' = r
        BY <3>4 DEF Readable, ReadableBytes
      <4> HIDE DEF r
      <4> QED
        BY <2>5, <3>1, <3>2, <4>1 DEF Queue!Peek, Queue!Prefix, r
    <3> QED
      BY <2>5, <3>3, <3>4
  <2> HIDE DEF r
  <2>6. CASE Next
    BY <1>2, <2>2, <2>4, <2>5, <2>6, ActionsOK DEF Queue!QNext, r
  <2> QED
    BY <1>2, <2>1, <2>6
<1>3. Spec => []BufferInv
  BY BufferInvInductive, PTL DEF Spec
<1> QED
  BY <1>1, <1>2, <1>3, PTL DEF Spec, IsByteQueue, Queue!QSpec
=============================================================================

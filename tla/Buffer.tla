------------------------------- MODULE Buffer -------------------------------
(***************************************************************************)
(* net/Buffer.h and net/Buffer.cc: the growable byte buffer of a           *)
(* connection.  A vector of bytes is split by two indexes into a           *)
(* prependable, a readable and a writable region.  Appending moves the     *)
(* readable bytes to the front when that makes enough room, and grows the  *)
(* vector otherwise.  Indexes and offsets count from 0 as in the code.     *)
(***************************************************************************)
EXTENDS Integers, Sequences

CONSTANTS
    Byte,            \* the values a char can take
    NUL,             \* the value-initialised char of vector<char>
    kCheapPrepend,   \* 8 in the code
    kInitialSize,    \* 1024 in the code
    ExtraSize,       \* sizeof(extrabuf), 65536 in the code
    MaxLen,          \* bound: the longest run one call appends or reads
    MaxReadable      \* bound: the most unread bytes the users let pile up

ASSUME BufferAssumption ==
    /\ NUL \in Byte
    /\ kCheapPrepend \in Nat
    /\ kInitialSize \in Nat
    /\ ExtraSize \in Nat
    /\ MaxLen \in Nat
    /\ MaxReadable \in Nat

VARIABLES
    buf,   \* the Buffer object: its vector and its two indexes
    given, \* the bytes the last call brought in (history)
    out    \* the last bytes handed to a caller or to write(2)

vars == <<buf, given, out>>

-----------------------------------------------------------------------------
(* Const member functions *)

ReadableBytes(b) == b.writerIndex_ - b.readerIndex_

WritableBytes(b) == b.size - b.writerIndex_

PrependableBytes(b) == b.readerIndex_

(* The bytes from peek() to beginWrite(). *)
Readable(b) ==
    [i \in 1..ReadableBytes(b) |-> b.buffer_[b.readerIndex_ + i - 1]]

-----------------------------------------------------------------------------
(* Member functions that change the object *)

Object(buffer_, size, readerIndex_, writerIndex_) ==
    [buffer_ |-> buffer_, size |-> size,
     readerIndex_ |-> readerIndex_, writerIndex_ |-> writerIndex_]

NewBuffer ==
    LET size == kCheapPrepend + kInitialSize
    IN Object([i \in 0..(size - 1) |-> NUL], size, kCheapPrepend, kCheapPrepend)

RetrieveAll(b) == Object(b.buffer_, b.size, kCheapPrepend, kCheapPrepend)

(* Moves readerIndex_ by len without looking at readableBytes(). *)
RetrieveMutant(b, len) ==
    Object(b.buffer_, b.size, b.readerIndex_ + len, b.writerIndex_)

Retrieve(b, len) ==
    IF len < ReadableBytes(b)
    THEN Object(b.buffer_, b.size, b.readerIndex_ + len, b.writerIndex_)
    ELSE RetrieveAll(b)

(* vector::resize to a larger size: new elements are value-initialised. *)
Resize(b, n) ==
    Object([i \in 0..(n - 1) |-> IF i < b.size THEN b.buffer_[i] ELSE NUL],
           n, b.readerIndex_, b.writerIndex_)

(* std::copy of the readable bytes down to the cheap prepend. *)
MoveToFront(b) ==
    LET end == kCheapPrepend + ReadableBytes(b)
    IN Object([i \in 0..(b.size - 1) |->
                  IF kCheapPrepend <= i /\ i < end
                  THEN b.buffer_[b.readerIndex_ + i - kCheapPrepend]
                  ELSE b.buffer_[i]],
              b.size, kCheapPrepend, end)

(* Forgets that the cheap prepend is not free space. *)
MakeSpaceMutant(b, len) ==
    IF WritableBytes(b) + PrependableBytes(b) < len
    THEN Resize(b, b.writerIndex_ + len)
    ELSE MoveToFront(b)

(* Never reuses the space in front of the readable bytes. *)
MakeSpaceGrowMutant(b, len) == Resize(b, b.writerIndex_ + len)

MakeSpace(b, len) ==
    IF WritableBytes(b) + PrependableBytes(b) < len + kCheapPrepend
    THEN Resize(b, b.writerIndex_ + len)
    ELSE MoveToFront(b)

EnsureWritableBytes(b, len) ==
    IF WritableBytes(b) < len THEN MakeSpace(b, len) ELSE b

(* Bytes stored at beginWrite(), writerIndex_ moved past them. *)
WriteAt(b, data) ==
    LET end == b.writerIndex_ + Len(data)
    IN Object([i \in 0..(b.size - 1) |->
                  IF b.writerIndex_ <= i /\ i < end
                  THEN data[i - b.writerIndex_ + 1] ELSE b.buffer_[i]],
              b.size, b.readerIndex_, end)

AppendBytes(b, data) == WriteAt(EnsureWritableBytes(b, Len(data)), data)

(* The most one readv(2) can take in: the second iovec is only offered     *)
(* while the vector has less room than extrabuf.                           *)
ReadCapacity(b) ==
    WritableBytes(b) + IF WritableBytes(b) < ExtraSize THEN ExtraSize ELSE 0

(* Appends what landed in extrabuf without first accounting for the bytes  *)
(* readv put into the vector.                                              *)
ReadIntoMutant(b, data) ==
    LET writable == WritableBytes(b)
    IN IF Len(data) <= writable
       THEN WriteAt(b, data)
       ELSE AppendBytes(b, SubSeq(data, writable + 1, Len(data)))

(* readv fills the writable region first; what did not fit is in extrabuf  *)
(* and is appended after it.                                               *)
ReadInto(b, data) ==
    LET writable == WritableBytes(b)
    IN IF Len(data) <= writable
       THEN WriteAt(b, data)
       ELSE AppendBytes(WriteAt(b, SubSeq(data, 1, writable)),
                        SubSeq(data, writable + 1, Len(data)))

-----------------------------------------------------------------------------
(* One action per public operation *)

(* The runs of bytes a caller or the kernel may deliver next. *)
Runs == {data \in UNION {[1..n -> Byte] : n \in 0..MaxLen} :
           Len(data) + ReadableBytes(buf) <= MaxReadable}

Init == buf = NewBuffer /\ given = <<>> /\ out = <<>>

Append_ ==
    \E data \in Runs :
        /\ buf' = AppendBytes(buf, data)
        /\ given' = data /\ UNCHANGED out

(* retrieve, retrieveUntil and retrieveAll: callers may ask for more than  *)
(* there is (HttpContext retrieves two bytes past the end of a line).      *)
Retrieve_ ==
    \E len \in 0..(MaxReadable + 1) :
        buf' = Retrieve(buf, len) /\ given' = <<>> /\ UNCHANGED out

(* retrieveAsString, with retrieveAllAsString as the longest case. *)
RetrieveAsString ==
    \E len \in 0..ReadableBytes(buf) :
        /\ out' = [i \in 1..len |-> Readable(buf)[i]]
        /\ buf' = Retrieve(buf, len)
        /\ given' = <<>>

(* readFd; a failed readv (n < 0) changes nothing and is a stutter. *)
ReadFd ==
    \E data \in Runs :
        /\ Len(data) <= ReadCapacity(buf)
        /\ buf' = ReadInto(buf, data)
        /\ given' = data /\ UNCHANGED out

(* writFd hands the readable bytes to write(2), which takes the first n.   *)
(* It does not retrieve them: the caller does (handleWrite, sendInLoop).   *)
WritFd ==
    \E n \in 0..ReadableBytes(buf) :
        /\ out' = [i \in 1..n |-> Readable(buf)[i]]
        /\ given' = <<>> /\ UNCHANGED buf

Next == Append_ \/ Retrieve_ \/ RetrieveAsString \/ ReadFd \/ WritFd

Spec == Init /\ [][Next]_vars

-----------------------------------------------------------------------------
(* Properties *)

(* Type invariant: the vector holds size bytes and the indexes are          *)
(* naturals; given and out are runs of bytes.                               *)
TypeOK ==
    /\ buf.size \in Nat
    /\ buf.buffer_ \in [0..(buf.size - 1) -> Byte]
    /\ buf.readerIndex_ \in Nat
    /\ buf.writerIndex_ \in Nat
    /\ given \in Seq(Byte) /\ out \in Seq(Byte)

(* The index order of the comment on class Buffer (Buffer.h:13-15), with    *)
(* the cheap prepend kept free.  Every unchecked pointer expression in      *)
(* Buffer.h and the size_t subtractions in readableBytes and writableBytes  *)
(* rest on it: no sequence of appends, reads and retrieves, whatever their  *)
(* lengths, may break it.                                                   *)
IndexesInBounds ==
    /\ kCheapPrepend <= buf.readerIndex_
    /\ buf.readerIndex_ <= buf.writerIndex_
    /\ buf.writerIndex_ <= buf.size

(* A Buffer is a FIFO queue of bytes: moving data to the front, growing the *)
(* vector and the detour through extrabuf neither lose, repeat nor reorder  *)
(* a byte.                                                                  *)
Queue == INSTANCE ByteQueue WITH bytes <- Readable(buf)

IsByteQueue == Queue!QSpec

(* Space in front of the readable bytes is reused: a step that grows the    *)
(* vector was short of room for the unread bytes, the cheap prepend and     *)
(* what was being appended, so the vector stays below the unread bytes plus *)
(* twice the appended run.                                                  *)
GrowsOnlyWhenFull ==
    [][buf'.size # buf.size =>
         /\ buf'.size > buf.size
         /\ buf.size < kCheapPrepend + ReadableBytes(buf')
         /\ buf'.size < kCheapPrepend + 2 * ReadableBytes(buf')]_vars
=============================================================================

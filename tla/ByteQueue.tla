----------------------------- MODULE ByteQueue -----------------------------
(***************************************************************************)
(* What a network buffer promises its users: a FIFO queue of bytes.  Bytes *)
(* arrive in runs (append, readFd) and leave from the front in runs        *)
(* (retrieve, retrieveAsString).  given is the run that has just arrived,  *)
(* out the last run handed to a reader.                                    *)
(***************************************************************************)
EXTENDS Naturals, Sequences

CONSTANT Byte

VARIABLES bytes, given, out

qvars == <<bytes, given, out>>

Prefix(s, n) == SubSeq(s, 1, n)

Suffix(s, n) == SubSeq(s, n + 1, Len(s))

QInit == bytes = <<>> /\ given = <<>> /\ out = <<>>

(* All of a run of bytes joins the back of the queue. *)
Put ==
    /\ given' \in Seq(Byte)
    /\ bytes' = bytes \o given'
    /\ out' = out

(* The first n bytes leave the queue unread. *)
Drop == \E n \in 0..Len(bytes) : bytes' = Suffix(bytes, n) /\ out' = out

(* The first n bytes are handed to a reader and leave the queue. *)
Take == \E n \in 0..Len(bytes) :
    /\ out' = Prefix(bytes, n)
    /\ bytes' = Suffix(bytes, n)

(* A reader is shown the first n bytes, which stay in the queue. *)
Peek == \E n \in 0..Len(bytes) : out' = Prefix(bytes, n) /\ bytes' = bytes

QNext == Put \/ (given' = <<>> /\ (Drop \/ Take \/ Peek))

QSpec == QInit /\ [][QNext]_qvars
=============================================================================

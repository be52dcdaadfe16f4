----------------------------- MODULE SizeClass -----------------------------
(***************************************************************************)
(* memory/common.hpp, classSize: which object size serves a request, and   *)
(* in which free list objects of that size are kept.  The tables are       *)
(* written twice in the code, in round_up and in index, and have to agree: *)
(* Allocate and deallocate meet in _freelist only through them.            *)
(***************************************************************************)
EXTENDS Integers

MAXBYTES  == 262144
NFREELIST == 208

(* A request that is served from a thread cache. *)
Bytes == {s \in Nat : 1 <= s /\ s <= MAXBYTES}

(* _round_up: adding alignNum - 1 and masking the low bits, alignNum being  *)
(* a power of two.                                                          *)
RoundTo(bytes, alignNum) == ((bytes + alignNum - 1) \div alignNum) * alignNum

round_up(size) ==
    CASE size <= 128   -> RoundTo(size, 8)
      [] 128 < size /\ size <= 1024    -> RoundTo(size, 16)
      [] 1024 < size /\ size <= 8192   -> RoundTo(size, 128)
      [] 8192 < size /\ size <= 65536  -> RoundTo(size, 1024)
      [] OTHER         -> RoundTo(size, 8192)

(* _index: which multiple of 2^align_shift, counted from 0. *)
IndexIn(bytes, align) == ((bytes + align - 1) \div align) - 1

index(bytes) ==
    CASE bytes <= 128  -> IndexIn(bytes, 8)
      [] 128 < bytes /\ bytes <= 1024   -> IndexIn(bytes - 128, 16) + 16
      [] 1024 < bytes /\ bytes <= 8192  -> IndexIn(bytes - 1024, 128) + 16 + 56
      [] 8192 < bytes /\ bytes <= 65536 -> IndexIn(bytes - 8192, 1024) + 16 + 56 + 56
      [] OTHER         -> IndexIn(bytes - 65536, 8192) + 16 + 56 + 56 + 56

-----------------------------------------------------------------------------
(* The object Allocate returns has room for the request, is one the pool    *)
(* serves, and above 128 bytes wastes at most a ninth ("about 10%" in the   *)
(* comment on classSize).                                                   *)
Fits(s) ==
    /\ round_up(s) \in Bytes /\ s <= round_up(s)
    /\ s > 128 => 9 * (round_up(s) - s) <= round_up(s)

(* index never leaves the array _freelist. *)
InArray(s) == index(s) \in Nat /\ index(s) < NFREELIST

(* deallocate, which knows the size of the object, finds the list Allocate  *)
(* took it from.                                                            *)
SameList(s) == index(round_up(s)) = index(s)

(* Two requests share a list exactly when they are served by objects of the *)
(* same size, and smaller requests have lower lists.                        *)
OneSizePerList(s, t) ==
    /\ index(s) = index(t) <=> round_up(s) = round_up(t)
    /\ s <= t => index(s) <= index(t)

-----------------------------------------------------------------------------
(* s is in the range (lo, hi], whose lists begin at first and whose objects *)
(* are the multiples of align.                                              *)
InRange(s, lo, hi, align, first) ==
    /\ lo < s /\ s <= hi
    /\ index(s) \in Nat /\ first <= index(s)
    /\ round_up(s) = lo + align * (index(s) + 1 - first)
    /\ round_up(s) - align < s /\ s <= round_up(s) /\ round_up(s) <= hi

(* The rows of the table in the comment on classSize. *)
Table(s) ==
    \/ InRange(s, 0, 128, 8, 0)
    \/ InRange(s, 128, 1024, 16, 16)
    \/ InRange(s, 1024, 8192, 128, 72)
    \/ InRange(s, 8192, 65536, 1024, 128)
    \/ InRange(s, 65536, 262144, 8192, 184)
=============================================================================

----------------------------- MODULE MemoryPool -----------------------------
(***************************************************************************)
(* memory/: the three-level pool.  Each thread takes objects from its      *)
(* ThreadCache; an empty cache is refilled from the span lists of          *)
(* CentralCache (one lock per size), and these from PageCache (one lock).  *)
(* PageCache's lock is a leaf: nothing is locked while it is held, so each *)
(* of its critical sections is one step.  A bucket's lock is a variable,   *)
(* since release_list_to_Spans keeps it while it takes the page lock again *)
(* and again.  The code is built with asserts (CMakeLists.txt) or without. *)
(*                                                                         *)
(* A thread's ThreadCache comes from one objectPool, TcPool, that no lock  *)
(* protects: each access of New() to it is a step.  When two threads leave *)
(* New() with the same cache, what becomes of its lists is undefined, and  *)
(* the model stops there (Running): what EachObjectOnce, UseCountExact and *)
(* SpansTile say of the pool, they say of it up to that moment.            *)
(*                                                                         *)
(* An object is the number of its first byte; a Span object is a number    *)
(* given out by the pool of Span objects, which reuses them.               *)
(***************************************************************************)
EXTENDS Integers, FiniteSets, SequencesExt

CONSTANTS
    Thread,
    Size,            \* object sizes: the values classSize::round_up returns
    Asks,            \* bound: the sizes a thread asks for, a set of <<t, size>>
    PageSize,        \* 2^PAGE_SHIFT
    NPAGES,          \* 129 in the code
    MAXBYTES,        \* 256K in the code
    MaxMove,         \* 512 in the code
    CachesPerBlock,  \* ThreadCaches in the 128K that New() asks sbrk for
    MaxBig,          \* bound: calls of sbrk for a span
    MaxGap,          \* bound: pages of others that sbrk leaves between two blocks
    MaxHeld          \* bound: objects users hold, or wait for, at a time

ASSUME PoolAssumption ==
    /\ Size \subseteq Nat \ {0} /\ Asks \subseteq Thread \X Size /\ PageSize \in Nat \ {0} /\ NPAGES \in Nat \ {0, 1}
    /\ CachesPerBlock \in Nat \ {0}
    /\ MAXBYTES \in Nat /\ MaxMove \in Nat \ {0, 1} /\ MaxBig \in Nat /\ MaxGap \in Nat /\ MaxHeld \in Nat

(* Pages are numbered from 1. *)
Page == 0..(MaxBig * (NPAGES - 1 + MaxGap) + 1)
SpanId == 1..(MaxBig * (NPAGES - 1))
null == 0

VARIABLES
    tls_threadcache, \* per thread: its ThreadCache, or nullptr
    TcPool,          \* the pool of ThreadCaches
    _freelist,       \* ThreadCache: per thread and size, the objects and _maxSize
    _spanlist, _mtx, \* CentralCache: per size, the spans and the bucket's lock
    _objlist, _usecount,       \* Span: the part the bucket's lock protects
    page,            \* PageCache, with the part of Span its lock protects
    pc, loc,         \* per thread: where it is in the code, and its locals
    held,            \* the objects users hold
    build            \* "Debug" or "NDEBUG"; "aborted" when the process has died

vars == <<tls_threadcache, TcPool, _freelist, _spanlist, _mtx, _objlist, _usecount, page,
          pc, loc, held, build>>

-----------------------------------------------------------------------------
(* classSize *)
num_move_size(size) == LET num == MAXBYTES \div size
                       IN  CASE num < 2 -> 2 [] num > MaxMove -> MaxMove [] OTHER -> num

num_move_page(size) == LET npage == (num_move_size(size) * size) \div PageSize
                       IN  IF npage = 0 THEN 1 ELSE npage

(* PageCache has a list for every number of pages it is asked for: 64 at    *)
(* most in the code, of 128.                                                *)
ASSUME SpanAssumption == \A size \in Size : num_move_page(size) < NPAGES

-----------------------------------------------------------------------------
(* PageCache.  Its state: the Span objects, the lists by number of pages,   *)
(* the page map, the free Span objects, the end of the last block that sbrk *)
(* returned and the number of blocks.                                       *)

(* objectPool<Span>::New and Delete.  Which of the free Span objects is      *)
(* reused makes no difference: the lowest.  What a deleted one holds is      *)
(* not told apart either.                                                    *)
NewSpanObject(p) == Min(p.free)

SpanOf(pageid, npage) == [_pageid |-> pageid, _npage |-> npage, _isUse |-> FALSE, _objsize |-> 0]

NewObject(p, s, r) == [p EXCEPT !.free = @ \ {s}, !.span[s] = r]

Delete(p, s) == [p EXCEPT !.free = @ \cup {s}, !.span[s] = SpanOf(0, 0)]

PushFront(p, s) == [p EXCEPT !.list[p.span[s]._npage] = <<s>> \o @]
Erase(p, s)     == [p EXCEPT !.list[p.span[s]._npage] = RemoveFirst(@, s)]

(* _id_span_map.set for every page of S. *)
SetMap(p, S, s) == [p EXCEPT !.map = [q \in Page |-> IF q \in S THEN s ELSE @[q]]]

Pages(r) == r._pageid..(r._pageid + r._npage - 1)
Ends(r)  == {r._pageid, r._pageid + r._npage - 1}

(* new_Span: a span of exactly n pages: its first page is mapped (n times). *)
TakeExact(p, n) ==
    LET s == Head(p.list[n])
    IN  [span |-> s, page |-> SetMap(Erase(p, s), {p.span[s]._pageid}, s)]

(* new_Span: the first n pages of a larger span; all of them are mapped,    *)
(* and the first and the last page of what is left.                         *)
TakeHead(p, n) ==
    LET i    == CHOOSE i \in (n + 1)..(NPAGES - 1) :
                  p.list[i] # <<>> /\ \A j \in (n + 1)..(i - 1) : p.list[j] = <<>>
        big  == Head(p.list[i])
        s    == NewSpanObject(p)
        head == SpanOf(p.span[big]._pageid, n)
        rest == [p.span[big] EXCEPT !._pageid = @ + n, !._npage = @ - n]
        cut  == [NewObject(Erase(p, big), s, head) EXCEPT !.span[big] = rest]
    IN  [span |-> s, page |-> SetMap(SetMap(PushFront(cut, big), Ends(rest), big),
                                     Pages(head), s)]

(* new_Span: a block from sbrk, for the largest list; its pages have not    *)
(* been mapped before.  gap: pages of others below it.  sbrk is taken to    *)
(* return the start of a page; the code truncates what it returns to one.   *)
AddBig(p, gap) ==
    LET s == NewSpanObject(p)
    IN  PushFront([NewObject(p, s, SpanOf(p.top + gap, NPAGES - 1)) EXCEPT
                     !.top = @ + gap + NPAGES - 1, !.blocks = @ + 1], s)

Take(p, n) == IF p.list[n] # <<>> THEN TakeExact(p, n) ELSE TakeHead(p, n)

CanTake(p, n) == \E i \in n..(NPAGES - 1) : p.list[i] # <<>>

new_Span(p, n, gap) == Take(IF CanTake(p, n) THEN p ELSE AddBig(p, gap), n)

(* relase_to_PageCache: one turn of the loop that merges s with the span    *)
(* before it, and of the loop that merges it with the one behind it; a turn *)
(* that changes nothing is the break.                                       *)
Mergeable(p, s, r) ==
    r # null /\ ~p.span[r]._isUse /\ p.span[r]._npage + p.span[s]._npage < NPAGES

MergePrev(p, s) ==
    LET r == p.map[p.span[s]._pageid - 1]
    IN  IF Mergeable(p, s, r)
        THEN [Delete(Erase(p, r), r) EXCEPT !.span[s]._pageid = p.span[r]._pageid,
                                            !.span[s]._npage = @ + p.span[r]._npage]
        ELSE p

MergeNextMutant(p, s) ==   \* leaves the span behind s in its list
    LET r == p.map[p.span[s]._pageid + p.span[s]._npage]
    IN  IF Mergeable(p, s, r) THEN [p EXCEPT !.span[s]._npage = @ + p.span[r]._npage] ELSE p

MergeNext(p, s) ==
    LET r == p.map[p.span[s]._pageid + p.span[s]._npage]
    IN  IF Mergeable(p, s, r)
        THEN [Delete(Erase(p, r), r) EXCEPT !.span[s]._npage = @ + p.span[r]._npage]
        ELSE p

(* The two loops: each turn makes s longer, so that NPAGES turns are enough. *)
MergeAllPrev(p, s) ==
    LET turn[i \in 0..NPAGES] == IF i = 0 THEN p ELSE MergePrev(turn[i - 1], s)
    IN  turn[NPAGES]

MergeAllNext(p, s) ==
    LET turn[i \in 0..NPAGES] == IF i = 0 THEN p ELSE MergeNext(turn[i - 1], s)
    IN  turn[NPAGES]

relase_to_PageCache(p, s) ==
    LET merged == MergeAllNext(MergeAllPrev(p, s), s)
        idle   == [PushFront(merged, s) EXCEPT !.span[s]._isUse = FALSE]
    IN  SetMap(idle, Ends(merged.span[s]), s)

map_object_to_Span(obj) == page.map[obj \div PageSize]

-----------------------------------------------------------------------------
(* ThreadCache and CentralCache *)

(* A new FreeList: the objects, and how many to ask for next time. *)
FreeList == [list |-> <<>>, maxSize |-> 1]

idleLoc == [size |-> 0, num |-> 0, span |-> null, list |-> <<>>, cache |-> null, remain |-> 0]

Goto(t, where, l) == pc' = [pc EXCEPT ![t] = where] /\ loc' = [loc EXCEPT ![t] = l]

Done(t) == Goto(t, "idle", idleLoc)

(* A thread between the first and the last access of New() to TcPool. *)
InNew(t) == pc[t] \in {"refill", "sbrk", "claim", "advance"}

(* Objects users hold, and threads that are about to get one. *)
Wanted == Cardinality(held)
          + Cardinality({t \in Thread : InNew(t) \/ pc[t] \in {"fetch", "newspan", "insert"}})

(* Whether the pool is still what the code takes it for: the process lives, *)
(* and no two threads have the same ThreadCache.                            *)
PrivateCaches ==
    \A t, u \in Thread :
      tls_threadcache[t] # null /\ tls_threadcache[t] = tls_threadcache[u] => t = u

Running == build # "aborted" /\ PrivateCaches

(* fetch_from_CentralCache: asks for one object more each time, up to       *)
(* num_move_size; what it does with them is in Give.                        *)
fetch_from_CentralCache(t, size) ==
    LET num == Min({num_move_size(size), _freelist[t][size].maxSize})
    IN  /\ _freelist' = [_freelist EXCEPT ![t][size].maxSize = IF num = @ THEN @ + 1 ELSE @]
        /\ Goto(t, "fetch", [idleLoc EXCEPT !.size = size, !.num = num])
        /\ UNCHANGED held

(* Allocate: from the cache, or from CentralCache. *)
Allocate(t, size) ==
    IF _freelist[t][size].list # <<>>
    THEN /\ held' = held \cup {Head(_freelist[t][size].list)}
         /\ _freelist' = [_freelist EXCEPT ![t][size].list = Tail(@)]
         /\ UNCHANGED <<pc, loc>>
    ELSE fetch_from_CentralCache(t, size)

(* ConcurrentAlloc, in a thread that has a cache. *)
ConcurrentAlloc(t, size) ==
    /\ pc[t] = "idle" /\ Wanted < MaxHeld /\ <<t, size>> \in Asks
    /\ tls_threadcache[t] # null
    /\ Allocate(t, size)
    /\ UNCHANGED <<tls_threadcache, TcPool, _spanlist, _mtx, _objlist, _usecount, page>>

(* ConcurrentAlloc, in a thread without one: TcPool.New().  Nothing is ever *)
(* deleted from TcPool, so that _freeList is empty.  Addresses and bytes    *)
(* are counted in ThreadCaches; remainBytes is unsigned, and once it has    *)
(* passed below zero it is not small any more.                              *)
NewCache(t, size) ==
    /\ pc[t] = "idle" /\ Wanted < MaxHeld /\ <<t, size>> \in Asks
    /\ tls_threadcache[t] = null
    /\ Goto(t, IF TcPool.remainBytes = 0 THEN "refill" ELSE "claim",
            [idleLoc EXCEPT !.size = size, !.remain = TcPool.remainBytes])
    /\ UNCHANGED <<tls_threadcache, TcPool, _freelist, _spanlist, _mtx, _objlist, _usecount,
                   page, held>>

(* remainBytes = 128K ... *)
RefillCaches(t) ==
    /\ pc[t] = "refill"
    /\ TcPool' = [TcPool EXCEPT !.remainBytes = CachesPerBlock]
    /\ Goto(t, "sbrk", [loc[t] EXCEPT !.remain = CachesPerBlock])
    /\ UNCHANGED <<tls_threadcache, _freelist, _spanlist, _mtx, _objlist, _usecount, page, held>>

(* ... and then _memory: a block behind the earlier ones. *)
SbrkCaches(t) ==
    /\ pc[t] = "sbrk"
    /\ TcPool' = [TcPool EXCEPT !._memory = TcPool.top + 1, !.top = @ + CachesPerBlock]
    /\ Goto(t, "claim", loc[t])
    /\ UNCHANGED <<tls_threadcache, _freelist, _spanlist, _mtx, _objlist, _usecount, page, held>>

(* obj = _memory, remainBytes -= objSize: the build may load remainBytes     *)
(* again, or use what it has read or written.                                *)
ClaimCache(t) ==
    /\ pc[t] = "claim" /\ TcPool._memory # null
    /\ \E r \in {TcPool.remainBytes, loc[t].remain} : TcPool' = [TcPool EXCEPT !.remainBytes = r - 1]
    /\ Goto(t, "advance", [loc[t] EXCEPT !.cache = TcPool._memory])
    /\ UNCHANGED <<tls_threadcache, _freelist, _spanlist, _mtx, _objlist, _usecount, page, held>>

(* _memory += objSize, likewise: the mutant forgets it. *)
AdvancedMutant(mem, obj) == {mem}
Advanced(mem, obj) == {mem + 1, obj + 1}

(* The rest of New() and of ConcurrentAlloc.  The cache's lists are new, so *)
(* that Allocate finds its list empty.                                      *)
AdvanceCache(t) ==
    /\ pc[t] = "advance"
    /\ \E m \in Advanced(TcPool._memory, loc[t].cache) : TcPool' = [TcPool EXCEPT !._memory = m]
    /\ tls_threadcache' = [tls_threadcache EXCEPT ![t] = loc[t].cache]
    /\ fetch_from_CentralCache(t, loc[t].size)
    /\ UNCHANGED <<_spanlist, _mtx, _objlist, _usecount, page>>

(* What fetch_range_obj leaves in the span: the mutant sets _objlist to end *)
(* instead of NEXT_OBJ(end).                                                *)
LeftMutant(objs, n) == SubSeq(objs, n, Len(objs))
Left(objs, n) == SubSeq(objs, n + 1, Len(objs))

(* The end of fetch_range_obj and of fetch_from_CentralCache: up to num     *)
(* objects leave span s, the first for the user, the others for the cache.  *)
GiveCountMutant(t, s) ==   \* adds Num instead of actualNum
    LET size == loc[t].size
        n    == Min({loc[t].num, Len(_objlist[s])})
    IN  /\ held' = held \cup {Head(_objlist[s])}
        /\ _freelist' = [_freelist EXCEPT ![t][size].list = SubSeq(_objlist[s], 2, n) \o @]
        /\ _objlist' = [_objlist EXCEPT ![s] = Left(@, n)]
        /\ _usecount' = [_usecount EXCEPT ![s] = @ + loc[t].num]
        /\ Done(t)
        /\ UNCHANGED <<tls_threadcache, TcPool, _mtx, page>>

Give(t, s) ==
    LET size == loc[t].size
        n    == Min({loc[t].num, Len(_objlist[s])})
    IN  /\ held' = held \cup {Head(_objlist[s])}
        /\ _freelist' = [_freelist EXCEPT ![t][size].list =
                                            SubSeq(_objlist[s], 2, n) \o @]
        /\ _objlist' = [_objlist EXCEPT ![s] = Left(@, n)]
        /\ _usecount' = [_usecount EXCEPT ![s] = @ + n]
        /\ Done(t)
        /\ UNCHANGED <<tls_threadcache, TcPool, _mtx, page>>

(* fetch_range_obj and get_one_Span under the bucket's lock: the first span *)
(* with an object... *)
HasObject(s) == _objlist[s] # <<>>

FetchHit(t) ==
    LET spans == _spanlist[loc[t].size]
    IN  /\ pc[t] = "fetch" /\ _mtx[loc[t].size] = null
        /\ \E i \in 1..Len(spans) : /\ HasObject(spans[i])
                                    /\ \A j \in 1..(i - 1) : ~HasObject(spans[j])
                                    /\ Give(t, spans[i])
        /\ UNCHANGED _spanlist

(* ... or none, and the lock is released before PageCache is asked. *)
FetchMiss(t) ==
    /\ pc[t] = "fetch" /\ _mtx[loc[t].size] = null
    /\ \A i \in 1..Len(_spanlist[loc[t].size]) : ~HasObject(_spanlist[loc[t].size][i])
    /\ Goto(t, "newspan", loc[t])
    /\ UNCHANGED <<tls_threadcache, TcPool, _freelist, _spanlist, _mtx, _objlist,
                   _usecount, page, held>>

(* The objects a span is cut into: one begins wherever there is a byte left *)
(* for it, though it may end behind the span.                               *)
Slots(r, size) ==
    [i \in 1..((r._npage * PageSize + size - 1) \div size) |-> r._pageid * PageSize + (i - 1) * size]

(* get_one_Span: a new span, cut into objects before anyone else sees it. *)
NewSpan(t) ==
    /\ pc[t] = "newspan"
    /\ \E gap \in 0..MaxGap :
         LET n == num_move_page(loc[t].size)
             r == new_Span(page, n, gap)
         IN  /\ CanTake(page, n) => gap = 0
             /\ CanTake(page, n) \/ page.blocks < MaxBig
             /\ page' = [r.page EXCEPT !.span[r.span]._isUse = TRUE,
                                       !.span[r.span]._objsize = loc[t].size]
             /\ _objlist' = [_objlist EXCEPT ![r.span] = Slots(r.page.span[r.span], loc[t].size)]
             /\ _usecount' = [_usecount EXCEPT ![r.span] = 0]
             /\ Goto(t, "insert", [loc[t] EXCEPT !.span = r.span])
    /\ UNCHANGED <<tls_threadcache, TcPool, _freelist, _spanlist, _mtx, held>>

(* get_one_Span locks the bucket again; the caller takes from this span. *)
InsertSpan(t) ==
    /\ pc[t] = "insert" /\ _mtx[loc[t].size] = null
    /\ _spanlist' = [_spanlist EXCEPT ![loc[t].size] = <<loc[t].span>> \o @]
    /\ Give(t, loc[t].span)

(* list_to_long takes _maxSize objects off a list that has grown longer     *)
(* than that (PopRange), for release_list_to_Spans.  PopRange asserts that  *)
(* the list is not longer, so with asserts it never gets past that.         *)
list_to_long(t, size, list) ==
    LET n == _freelist[t][size].maxSize
    IN  /\ build = "NDEBUG"
        /\ _freelist' = [_freelist EXCEPT ![t][size].list = SubSeq(list, n + 1, Len(list))]
        /\ Goto(t, "release", [idleLoc EXCEPT !.size = size, !.list = SubSeq(list, 1, n)])

deallocate(t, obj, size) ==
    LET list == <<obj>> \o _freelist[t][size].list
    IN  IF _freelist[t][size].maxSize < Len(list) THEN list_to_long(t, size, list)
        ELSE /\ _freelist' = [_freelist EXCEPT ![t][size].list = list]
             /\ UNCHANGED <<pc, loc>>

(* ConcurrentFree: the size comes from the span that the map names. *)
ConcurrentFree(t, obj) ==
    /\ pc[t] = "idle" /\ tls_threadcache[t] # null
    /\ held' = held \ {obj}
    /\ deallocate(t, obj, page.span[map_object_to_Span(obj)]._objsize)
    /\ UNCHANGED <<tls_threadcache, TcPool, _spanlist, _mtx, _objlist, _usecount, page>>

(* The process dies: at PopRange's assert; when a thread without a cache    *)
(* frees, at the assert or at nullptr; when New() constructs at nullptr.    *)
PopRangeAborts(t, obj) ==
    LET f == _freelist[t][page.span[map_object_to_Span(obj)]._objsize]
    IN  /\ build = "Debug" /\ pc[t] = "idle" /\ tls_threadcache[t] # null
        /\ Len(f.list) + 1 > f.maxSize

FreeAborts(t) == pc[t] = "idle" /\ tls_threadcache[t] = null /\ held # {}

NewAborts(t) == pc[t] = "claim" /\ TcPool._memory = null

Abort(t) ==
    /\ Running
    /\ (\E obj \in held : PopRangeAborts(t, obj)) \/ FreeAborts(t) \/ NewAborts(t)
    /\ build' = "aborted"
    /\ UNCHANGED <<tls_threadcache, TcPool, _freelist, _spanlist, _mtx, _objlist, _usecount,
                   page, pc, loc, held>>

(* release_list_to_Spans locks the bucket, at first and after each span it  *)
(* gave back.                                                               *)
ReleaseLock(t) ==
    /\ pc[t] = "release" /\ _mtx[loc[t].size] = null
    /\ IF loc[t].list = <<>> THEN Done(t) /\ UNCHANGED _mtx
       ELSE /\ _mtx' = [_mtx EXCEPT ![loc[t].size] = t]
            /\ Goto(t, "return", loc[t])
    /\ UNCHANGED <<tls_threadcache, TcPool, _freelist, _spanlist, _objlist, _usecount,
                   page, held>>

(* The bucket without a span that is returned: the mutant leaves it there. *)
EraseFromBucketMutant(spans, s) == spans
EraseFromBucket(spans, s) == RemoveFirst(spans, s)

(* One turn of its loop: an object goes back to the span the map names; a   *)
(* span that has them all leaves the bucket, whose lock is released.        *)
ReturnObject(t) ==
    LET size == loc[t].size
        obj  == Head(loc[t].list)
        s    == map_object_to_Span(obj)
        rest == [loc[t] EXCEPT !.list = Tail(@)]
    IN  /\ pc[t] = "return"
        /\ _usecount' = [_usecount EXCEPT ![s] = @ - 1]
        /\ IF _usecount[s] = 1
           THEN /\ _objlist' = [_objlist EXCEPT ![s] = <<>>]
                /\ _spanlist' = [_spanlist EXCEPT ![size] = EraseFromBucket(@, s)]
                /\ _mtx' = [_mtx EXCEPT ![size] = null]
                /\ Goto(t, "giveback", [rest EXCEPT !.span = s])
           ELSE /\ _objlist' = [_objlist EXCEPT ![s] = <<obj>> \o @]
                /\ UNCHANGED _spanlist
                /\ IF rest.list = <<>>
                   THEN _mtx' = [_mtx EXCEPT ![size] = null] /\ Done(t)
                   ELSE Goto(t, "return", rest) /\ UNCHANGED _mtx
        /\ UNCHANGED <<tls_threadcache, TcPool, _freelist, page, held>>

GiveBack(t) ==
    /\ pc[t] = "giveback"
    /\ page' = relase_to_PageCache(page, loc[t].span)
    /\ Goto(t, "release", [loc[t] EXCEPT !.span = null])
    /\ UNCHANGED <<tls_threadcache, TcPool, _freelist, _spanlist, _mtx, _objlist,
                   _usecount, held>>

Init ==
    /\ tls_threadcache = [t \in Thread |-> null]
    /\ TcPool = [_memory |-> null, remainBytes |-> 0, top |-> 0]
    /\ _freelist = [t \in Thread |-> [size \in Size |-> FreeList]]
    /\ _spanlist = [size \in Size |-> <<>>]
    /\ _mtx = [size \in Size |-> null]
    /\ _objlist = [s \in SpanId |-> <<>>]
    /\ _usecount = [s \in SpanId |-> 0]
    /\ page = [span |-> [s \in SpanId |-> SpanOf(0, 0)], list |-> [n \in 1..(NPAGES - 1) |-> <<>>],
               map |-> [q \in Page |-> null], free |-> SpanId, top |-> 1, blocks |-> 0]
    /\ pc = [t \in Thread |-> "idle"]
    /\ loc = [t \in Thread |-> idleLoc]
    /\ held = {}
    /\ build \in {"Debug", "NDEBUG"}

Step(t) ==
    /\ Running
    /\ UNCHANGED build
    /\ \/ \E size \in Size : ConcurrentAlloc(t, size) \/ NewCache(t, size)
       \/ RefillCaches(t) \/ SbrkCaches(t) \/ ClaimCache(t) \/ AdvanceCache(t)
       \/ FetchHit(t) \/ FetchMiss(t) \/ NewSpan(t) \/ InsertSpan(t)
       \/ \E obj \in held : ConcurrentFree(t, obj)
       \/ ReleaseLock(t) \/ ReturnObject(t) \/ GiveBack(t)

Stopped == ~Running /\ UNCHANGED vars

Next ==
    \/ \E t \in Thread : Step(t) \/ Abort(t)
    \/ Stopped

Spec == Init /\ [][Next]_vars

-----------------------------------------------------------------------------
(* The Span objects that stand for memory. *)
Live == SpanId \ page.free

InUse == {s \in Live : page.span[s]._isUse}

InTransit(t) == IF pc[t] = "giveback" THEN {loc[t].span} ELSE {}

(* The objects cut from the spans in use, but for those whose objects have  *)
(* all come back.                                                           *)
AllObjects ==
    UNION {ToSet(Slots(page.span[s], page.span[s]._objsize)) :
             s \in InUse \ UNION {InTransit(t) : t \in Thread}}

(* Every variable has its type. *)
TypeOK ==
    /\ build \in {"Debug", "NDEBUG", "aborted"}
    /\ tls_threadcache \in [Thread -> Nat]
    /\ TcPool \in [_memory : Nat, remainBytes : Int, top : Nat]
    /\ _mtx \in [Size -> Thread \cup {null}]
    /\ _usecount \in [SpanId -> Nat]
    /\ page.map \in [Page -> SpanId \cup {null}]
    /\ \A size \in Size : ToSet(_spanlist[size]) \subseteq InUse

(* Every object cut from a span is in exactly one place: its span, one      *)
(* thread's cache, one list being returned, or one user; and nothing else   *)
(* is (Allocate, fetch_range_obj, deallocate, release_list_to_Spans).       *)
EachObjectOnce ==
    LET count(o) ==
          Cardinality({s \in InUse : Contains(_objlist[s], o)})
          + Cardinality({x \in Thread \X Size : Contains(_freelist[x[1]][x[2]].list, o)})
          + Cardinality({t \in Thread : Contains(loc[t].list, o)})
          + (IF o \in held THEN 1 ELSE 0)
    IN  /\ \A o \in AllObjects : count(o) = 1
        /\ held \cup (UNION {ToSet(_objlist[s]) : s \in SpanId})
             \cup (UNION {ToSet(loc[t].list) : t \in Thread})
             \cup (UNION {ToSet(_freelist[t][size].list) : t \in Thread, size \in Size})
           \subseteq AllObjects
        /\ \A s \in InUse : IsInjective(_objlist[s])
        /\ \A t \in Thread, size \in Size : IsInjective(_freelist[t][size].list)

(* A span's use count is the number of its objects that are out, so that it *)
(* goes back to PageCache exactly when it has them all (fetch_range_obj,    *)
(* release_list_to_Spans).                                                  *)
UseCountExact ==
    \A s \in InUse \ UNION {InTransit(t) : t \in Thread} :
      _usecount[s] = Len(Slots(page.span[s], page.span[s]._objsize)) - Len(_objlist[s])

(* The live spans tile the blocks from sbrk: no page is in two spans and no *)
(* page is lost when spans are cut and merged; a span waits in the list of  *)
(* its length exactly when it is not in use (new_Span, relase_to_PageCache).*)
SpansTile ==
    /\ \A s, r \in Live : s # r => Pages(page.span[s]) \cap Pages(page.span[r]) = {}
    /\ Cardinality(UNION {Pages(page.span[s]) : s \in Live}) = page.blocks * (NPAGES - 1)
    /\ \A s \in Live, n \in 1..(NPAGES - 1) :
         Contains(page.list[n], s) <=> n = page.span[s]._npage /\ ~page.span[s]._isUse

(* As long as no two threads are in New() at a time, every thread's cache   *)
(* is its own ("the thread's own ThreadCache", ConcurrentAlloc.hpp:30), from *)
(* one block of caches to the next, and none is constructed at nullptr      *)
(* (ConcurrentAlloc, objectPool::New).                                      *)
OneNew == \A t, u \in Thread : InNew(t) /\ InNew(u) => t = u

CachesSound ==
    /\ PrivateCaches
    /\ \A t \in Thread : pc[t] = "claim" => TcPool._memory # null

OwnCaches == []OneNew => []CachesSound

(* The page map finds the owner: the page of every object outside its span  *)
(* maps to that span, and so do the first and the last page of every span,  *)
(* which merging looks up (map_object_to_Span's assert, relase_to_PageCache).*)
MapFindsOwner ==
    /\ \A s \in InUse : \A o \in ToSet(Slots(page.span[s], page.span[s]._objsize)) :
         ~Contains(_objlist[s], o) => page.map[o \div PageSize] = s
    /\ \A s \in Live : \A q \in Ends(page.span[s]) : page.map[q] = s

=============================================================================

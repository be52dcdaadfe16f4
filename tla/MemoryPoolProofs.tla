-------------------------- MODULE MemoryPoolProofs --------------------------
(***************************************************************************)
(* Proofs about the memory pool: the size classes and the page map, with   *)
(* the numbers of the code, the operations of PageCache, for every number  *)
(* and size of pages, and the pool with its three levels as a whole.       *)
(***************************************************************************)
EXTENDS MemoryPool, FiniteSetTheorems, SequenceTheorems, WellFoundedInduction,
        NaturalsInduction, TLAPS

SC == INSTANCE SizeClass
PM == INSTANCE PageMap

-----------------------------------------------------------------------------
(* round_up and index agree with the table. *)
LEMMA TableOK == \A s \in SC!Bytes : SC!Table(s)
<1> TAKE s \in SC!Bytes
<1> s \in Int /\ 1 <= s /\ s <= 262144
  BY SMTT(20) DEF SC!Bytes, SC!MAXBYTES
<1>1. CASE s <= 128
  BY <1>1, SMTT(30) DEF SC!Table, SC!InRange, SC!round_up, SC!index, SC!RoundTo, SC!IndexIn
<1>2. CASE 128 < s /\ s <= 1024
  <2> DEFINE q == (s - 128 + 15) \div 16
  <2>1. /\ q \in Int /\ 16 * (q - 1) < s - 128 /\ s - 128 <= 16 * q
        /\ (s + 15) \div 16 = q + 8
    BY <1>2, SMTT(30)
  <2>2. SC!round_up(s) = (q + 8) * 16
    BY <1>2, <2>1, SMTT(30) DEF SC!round_up, SC!RoundTo
  <2>3. SC!index(s) = q - 1 + 16
    BY <1>2, <2>1, SMTT(30) DEF SC!index, SC!IndexIn
  <2> HIDE DEF q
  <2> QED
    BY <1>2, <2>1, <2>2, <2>3, SMTT(30) DEF SC!Table, SC!InRange
<1>3. CASE 1024 < s /\ s <= 8192
  <2> DEFINE q == (s - 1024 + 127) \div 128
  <2>1. /\ q \in Int /\ 128 * (q - 1) < s - 1024 /\ s - 1024 <= 128 * q
        /\ (s + 127) \div 128 = q + 8
    BY <1>3, SMTT(30)
  <2>2. SC!round_up(s) = (q + 8) * 128
    BY <1>3, <2>1, SMTT(30) DEF SC!round_up, SC!RoundTo
  <2>3. SC!index(s) = q - 1 + 72
    BY <1>3, <2>1, SMTT(30) DEF SC!index, SC!IndexIn
  <2> HIDE DEF q
  <2> QED
    BY <1>3, <2>1, <2>2, <2>3, SMTT(30) DEF SC!Table, SC!InRange
<1>4. CASE 8192 < s /\ s <= 65536
  <2> DEFINE q == (s - 8192 + 1023) \div 1024
  <2>1. /\ q \in Int /\ 1024 * (q - 1) < s - 8192 /\ s - 8192 <= 1024 * q
        /\ (s + 1023) \div 1024 = q + 8
    BY <1>4, SMTT(30)
  <2>2. SC!round_up(s) = (q + 8) * 1024
    BY <1>4, <2>1, SMTT(30) DEF SC!round_up, SC!RoundTo
  <2>3. SC!index(s) = q - 1 + 128
    BY <1>4, <2>1, SMTT(30) DEF SC!index, SC!IndexIn
  <2> HIDE DEF q
  <2> QED
    BY <1>4, <2>1, <2>2, <2>3, SMTT(30) DEF SC!Table, SC!InRange
<1>5. CASE 65536 < s
  <2> DEFINE q == (s - 65536 + 8191) \div 8192
  <2>1. /\ q \in Int /\ 8192 * (q - 1) < s - 65536 /\ s - 65536 <= 8192 * q
        /\ (s + 8191) \div 8192 = q + 8
    BY <1>5, SMTT(30)
  <2>2. SC!round_up(s) = (q + 8) * 8192
    BY <1>5, <2>1, SMTT(30) DEF SC!round_up, SC!RoundTo
  <2>3. SC!index(s) = q - 1 + 184
    BY <1>5, <2>1, SMTT(30) DEF SC!index, SC!IndexIn
  <2> HIDE DEF q
  <2> QED
    BY <1>5, <2>1, <2>2, <2>3, SMTT(30) DEF SC!Table, SC!InRange
<1> QED
  BY <1>1, <1>2, <1>3, <1>4, <1>5, SMTT(30)

(* Every request is served by an object that is large enough, and the       *)
(* tables of classSize stay inside the array of free lists.                 *)
THEOREM SizeClassFits == \A s \in SC!Bytes : SC!Fits(s) /\ SC!InArray(s)
<1> TAKE s \in SC!Bytes
<1> s \in Int /\ 1 <= s /\ s <= 262144
  BY SMTT(20) DEF SC!Bytes, SC!MAXBYTES
<1>1. SC!Table(s)
  BY TableOK
<1>2. /\ SC!round_up(s) \in Nat /\ 1 <= SC!round_up(s) /\ SC!round_up(s) <= 262144
      /\ s <= SC!round_up(s)
      /\ SC!index(s) \in Nat /\ SC!index(s) < 208
  BY <1>1, SMTT(30) DEF SC!Table, SC!InRange
<1>3. s > 128 => 9 * (SC!round_up(s) - s) <= SC!round_up(s)
  BY <1>1, SMTT(30) DEF SC!Table, SC!InRange
<1> QED
  BY <1>2, <1>3, SMTT(20) DEF SC!Fits, SC!InArray, SC!Bytes, SC!MAXBYTES, SC!NFREELIST

(* An object is freed into the list of the size it was allocated with. *)
THEOREM SizeClassSameList == \A s \in SC!Bytes : SC!SameList(s)
<1> TAKE s \in SC!Bytes
<1>1. SC!round_up(s) \in SC!Bytes
  BY SizeClassFits DEF SC!Fits
<1>2. SC!Table(s) /\ SC!Table(SC!round_up(s))
  BY <1>1, TableOK
<1> s \in Int
  BY SMTT(20) DEF SC!Bytes
<1> QED
  BY <1>2, SMTT(60) DEF SC!SameList, SC!Table, SC!InRange

(* A free list holds objects of one size. *)
THEOREM SizeClassOneSize == \A s, t \in SC!Bytes : SC!OneSizePerList(s, t)
<1> TAKE s, t \in SC!Bytes
<1> s \in Int /\ t \in Int
  BY SMTT(20) DEF SC!Bytes
<1>1. SC!Table(s) /\ SC!Table(t)
  BY TableOK
<1> QED
  BY <1>1, SMTT(60) DEF SC!OneSizePerList, SC!Table, SC!InRange

-----------------------------------------------------------------------------
(* Two different keys differ in one of the three indexes. *)
LEMMA IndexesInjective ==
    ASSUME NEW k \in Nat, NEW j \in Nat, PM!Leaf(k) = PM!Leaf(j), PM!i3(k) = PM!i3(j)
    PROVE  k = j
<1>1. PM!i1(k) = PM!i1(j) /\ PM!i2(k) = PM!i2(j)
  BY DEF PM!Leaf
<1> QED BY <1>1 DEF PM!i1, PM!i2, PM!i3, PM!LEAF_LENGTH, PM!INTERIOR_LENGTH

LEMMA IndexTypes ==
    ASSUME NEW k \in Nat
    PROVE  PM!i1(k) \in Nat /\ PM!i2(k) \in Nat /\ PM!i3(k) \in PM!Entry
BY DEF PM!i1, PM!i2, PM!i3, PM!Entry, PM!LEAF_LENGTH, PM!INTERIOR_LENGTH

(* Visited is what the loop of Ensure visits: start, and from each key the  *)
(* next one, as long as it is in the range; and nothing else.               *)
LEMMA VisitedIsLoop ==
    ASSUME NEW start \in Nat, NEW n \in Nat
    PROVE  /\ n > 0 => start \in PM!Visited(start, n)
           /\ \A k \in PM!Visited(start, n) :
                PM!NextKey(k) < start + n => PM!NextKey(k) \in PM!Visited(start, n)
           /\ \A k \in PM!Visited(start, n) : k # start =>
                \E j \in PM!Visited(start, n) : PM!NextKey(j) = k
<1>1. n > 0 => start \in PM!Visited(start, n)
  BY DEF PM!Visited
<1>2. ASSUME NEW k \in PM!Visited(start, n), PM!NextKey(k) < start + n
      PROVE  PM!NextKey(k) \in PM!Visited(start, n)
  <2>1. k \in Nat /\ start <= k
    BY DEF PM!Visited
  <2>2. PM!NextKey(k) \in Nat /\ k < PM!NextKey(k) /\ PM!NextKey(k) % PM!LEAF_LENGTH = 0
    BY <2>1 DEF PM!NextKey, PM!LEAF_LENGTH
  <2> QED BY <1>2, <2>1, <2>2 DEF PM!Visited
<1>3. ASSUME NEW k \in PM!Visited(start, n), k # start
      PROVE  \E j \in PM!Visited(start, n) : PM!NextKey(j) = k
  <2>1. k \in Nat /\ start < k /\ k < start + n /\ k % PM!LEAF_LENGTH = 0
    BY <1>3 DEF PM!Visited
  <2>2. CASE start < k - PM!LEAF_LENGTH
    <3> DEFINE j == k - PM!LEAF_LENGTH
    <3>1. j \in Nat /\ j % PM!LEAF_LENGTH = 0 /\ PM!NextKey(j) = k
      BY <2>1, <2>2 DEF PM!NextKey, PM!LEAF_LENGTH
    <3>2. j \in PM!Visited(start, n)
      BY <2>1, <2>2, <3>1 DEF PM!Visited, PM!LEAF_LENGTH
    <3> QED BY <3>1, <3>2
  <2>3. CASE ~(start < k - PM!LEAF_LENGTH)
    <3>1. PM!NextKey(start) = k
      BY <2>1, <2>3 DEF PM!NextKey, PM!LEAF_LENGTH
    <3>2. start \in PM!Visited(start, n)
      BY <2>1 DEF PM!Visited
    <3> QED BY <3>1, <3>2
  <2> QED BY <2>2, <2>3
<1> QED BY <1>1, <1>2, <1>3

(* set stores s for page k and changes what get returns for no other page,  *)
(* provided the leaf exists (new_Span and relase_to_PageCache call it once  *)
(* for each page).                                                          *)
THEOREM PageMapSet ==
    ASSUME NEW tree, PM!IsMap(tree), NEW k \in PM!Key, NEW s \in Nat, PM!HasLeaf(tree, k)
    PROVE  /\ PM!IsMap(PM!set(tree, k, s))
           /\ \A j \in PM!Key : PM!get(PM!set(tree, k, s), j) = IF j = k THEN s ELSE PM!get(tree, j)
<1> DEFINE x == PM!Leaf(k)
           arr == [tree.span[x] EXCEPT ![PM!i3(k)] = s]
           sp == [tree.span EXCEPT ![x] = arr]
<1>1. PM!set(tree, k, s) = [leafs |-> tree.leafs, span |-> sp]
  BY DEF PM!set
<1>2. x \in tree.leafs /\ tree.span[x] \in [PM!Entry -> Nat] /\ k \in Nat
  BY DEF PM!HasLeaf, PM!IsMap, PM!Key
<1>3. PM!i3(k) \in PM!Entry
  BY <1>2, IndexTypes
<1>4. arr \in [PM!Entry -> Nat] /\ arr[PM!i3(k)] = s /\ \A i \in PM!Entry : i # PM!i3(k) => arr[i] = tree.span[x][i]
  BY <1>2, <1>3
<1> HIDE DEF arr
<1>5. sp \in [tree.leafs -> [PM!Entry -> Nat]] /\ sp[x] = arr
        /\ \A y \in tree.leafs : y # x => sp[y] = tree.span[y]
  BY <1>2, <1>4 DEF PM!IsMap
<1> HIDE DEF sp
<1>6. PM!IsMap(PM!set(tree, k, s))
  BY <1>1, <1>5 DEF PM!IsMap
<1>7. ASSUME NEW j \in PM!Key
      PROVE  PM!get(PM!set(tree, k, s), j) = IF j = k THEN s ELSE PM!get(tree, j)
  <2>1. j \in Nat /\ PM!i3(j) \in PM!Entry
    BY IndexTypes DEF PM!Key
  <2>2. PM!get(PM!set(tree, k, s), j) = IF PM!Leaf(j) \in tree.leafs THEN sp[PM!Leaf(j)][PM!i3(j)] ELSE PM!null
    BY <1>1 DEF PM!get, PM!HasLeaf
  <2>3. PM!get(tree, j) = IF PM!Leaf(j) \in tree.leafs THEN tree.span[PM!Leaf(j)][PM!i3(j)] ELSE PM!null
    BY DEF PM!get, PM!HasLeaf
  <2>4. CASE j = k
    BY <2>2, <2>4, <1>2, <1>4, <1>5
  <2>5. CASE j # k /\ PM!Leaf(j) # x
    BY <2>2, <2>3, <2>5, <1>5
  <2>6. CASE j # k /\ PM!Leaf(j) = x
    <3>1. PM!i3(j) # PM!i3(k)
      BY <2>1, <2>6, <1>2, IndexesInjective
    <3> QED BY <2>1, <2>2, <2>3, <2>6, <3>1, <1>2, <1>4, <1>5
  <2> QED BY <2>4, <2>5, <2>6
<1> QED BY <1>6, <1>7

(* After Ensure every page of the range has its leaf, so that set never     *)
(* follows a null pointer there, and no page's span has changed (new_Span   *)
(* calls it for every block it gets from sbrk).                             *)
THEOREM PageMapEnsure ==
    ASSUME NEW tree, PM!IsMap(tree), NEW start \in Nat, NEW n \in Nat
    PROVE  /\ PM!IsMap(PM!Ensure(tree, start, n))
           /\ \A k \in PM!Key : start <= k /\ k < start + n => PM!HasLeaf(PM!Ensure(tree, start, n), k)
           /\ \A k \in PM!Key : PM!get(PM!Ensure(tree, start, n), k) = PM!get(tree, k)
<1> DEFINE made == {PM!Leaf(k) : k \in {v \in PM!Visited(start, n) : PM!i1(v) < PM!INTERIOR_LENGTH}}
           leafs == tree.leafs \cup made
           zero == [i \in PM!Entry |-> PM!null]
           sp == [x \in leafs |-> IF x \in tree.leafs THEN tree.span[x] ELSE zero]
<1>1. PM!Ensure(tree, start, n) = [leafs |-> leafs, span |-> sp]
  BY DEF PM!Ensure
<1>2. zero \in [PM!Entry -> Nat] /\ \A i \in PM!Entry : zero[i] = PM!null
  BY DEF PM!null
<1> HIDE DEF zero
<1>3. sp \in [leafs -> [PM!Entry -> Nat]] /\ \A x \in tree.leafs : sp[x] = tree.span[x]
  BY <1>2 DEF PM!IsMap
<1>4. \A x \in leafs : x \notin tree.leafs => sp[x] = zero
  OBVIOUS
<1>5. ASSUME NEW k \in PM!Key, start <= k, k < start + n
      PROVE  PM!Leaf(k) \in made
  <2> DEFINE first == (k \div PM!LEAF_LENGTH) * PM!LEAF_LENGTH
             v == IF start <= first THEN first ELSE start
  <2>1. k \in Nat /\ first \in Nat /\ first <= k /\ first % PM!LEAF_LENGTH = 0
          /\ first \div PM!LEAF_LENGTH = k \div PM!LEAF_LENGTH
    BY DEF PM!Key, PM!LEAF_LENGTH
  <2>2. v \in PM!Visited(start, n)
    BY <1>5, <2>1 DEF PM!Visited
  <2>3. v \in Nat /\ v \div PM!LEAF_LENGTH = k \div PM!LEAF_LENGTH
    BY <1>5, <2>1 DEF PM!LEAF_LENGTH
  <2> HIDE DEF v
  <2>4. PM!i1(v) = PM!i1(k) /\ PM!i2(v) = PM!i2(k)
    BY <2>1, <2>3 DEF PM!i1, PM!i2, PM!LEAF_LENGTH, PM!INTERIOR_LENGTH
  <2>5. PM!i1(k) < PM!INTERIOR_LENGTH
    BY DEF PM!Key, PM!i1, PM!LEAF_LENGTH, PM!INTERIOR_LENGTH
  <2> QED BY <2>2, <2>4, <2>5 DEF PM!Leaf
<1> HIDE DEF made, sp
<1>6. PM!IsMap(PM!Ensure(tree, start, n))
  BY <1>1, <1>3 DEF PM!IsMap
<1>7. \A k \in PM!Key : start <= k /\ k < start + n => PM!HasLeaf(PM!Ensure(tree, start, n), k)
  BY <1>1, <1>5 DEF PM!HasLeaf
<1>8. ASSUME NEW k \in PM!Key
      PROVE  PM!get(PM!Ensure(tree, start, n), k) = PM!get(tree, k)
  <2>1. PM!i3(k) \in PM!Entry
    BY IndexTypes DEF PM!Key
  <2>2. PM!get(PM!Ensure(tree, start, n), k) = IF PM!Leaf(k) \in leafs THEN sp[PM!Leaf(k)][PM!i3(k)] ELSE PM!null
    BY <1>1 DEF PM!get, PM!HasLeaf
  <2>3. PM!get(tree, k) = IF PM!Leaf(k) \in tree.leafs THEN tree.span[PM!Leaf(k)][PM!i3(k)] ELSE PM!null
    BY DEF PM!get, PM!HasLeaf
  <2>4. CASE PM!Leaf(k) \in tree.leafs
    BY <2>2, <2>3, <2>4, <1>3
  <2>5. CASE PM!Leaf(k) \notin tree.leafs /\ PM!Leaf(k) \in leafs
    <3>1. sp[PM!Leaf(k)] = zero
      BY <2>5, <1>4
    <3>2. zero[PM!i3(k)] = PM!null
      BY <2>1, <1>2
    <3> QED BY <2>2, <2>3, <2>5, <3>1, <3>2
  <2>6. CASE PM!Leaf(k) \notin leafs
    BY <2>2, <2>3, <2>6
  <2> QED BY <2>4, <2>5, <2>6
<1> QED BY <1>6, <1>7, <1>8

-----------------------------------------------------------------------------
(* The record of PageCache. *)
Rec(sp, li, ma, fr, to, bl) ==
    [span |-> sp, list |-> li, map |-> ma, free |-> fr, top |-> to, blocks |-> bl]

IsRec(p) == p = Rec(p.span, p.list, p.map, p.free, p.top, p.blocks)

(* The record of PageCache and its parts have their types. *)
SpanRec == [_pageid : Nat, _npage : Nat, _isUse : BOOLEAN, _objsize : Nat]
Lists   == 1 .. (NPAGES - 1)

IsPage(p) ==
    /\ IsRec(p)
    /\ p.span \in [SpanId -> SpanRec]
    /\ p.list \in [Lists -> Seq(SpanId)]
    /\ p.map \in [Page -> SpanId \cup {null}]
    /\ p.free \subseteq SpanId
    /\ p.top \in Nat /\ p.blocks \in Nat

LiveIn(p) == SpanId \ p.free

(* The blocks lie below top, inside the pages of the model. *)
Room(p) ==
    /\ p.blocks <= MaxBig
    /\ 1 <= p.top /\ p.top <= p.blocks * (NPAGES - 1 + MaxGap) + 1

(* A live span has pages, all of them below top. *)
Placed(p) ==
    \A s \in LiveIn(p) :
      /\ p.span[s]._npage \in Lists
      /\ 1 <= p.span[s]._pageid /\ p.span[s]._pageid + p.span[s]._npage <= p.top

(* No page is in two spans. *)
Apart(p) ==
    \A s, r \in LiveIn(p) : s # r => Pages(p.span[s]) \cap Pages(p.span[r]) = {}

(* A live span is in the list of its length, once, or in use. *)
Listed(p) ==
    \A n \in Lists :
      /\ IsInjective(p.list[n])
      /\ \A s \in SpanId :
           Contains(p.list[n], s)
             <=> s \in LiveIn(p) /\ n = p.span[s]._npage /\ ~p.span[s]._isUse

(* The first and the last page of a live span, but for x, map to it, except *)
(* that a whole block in use may have its last page not mapped; a page      *)
(* outside the spans maps to nothing.                                       *)
LastUnmapped(p, s, q) ==
    /\ p.map[q] = null /\ q # p.span[s]._pageid
    /\ p.span[s]._isUse /\ p.span[s]._npage = NPAGES - 1

EndsMapped(p, x) ==
    \A s \in LiveIn(p) : s # x =>
      \A q \in Ends(p.span[s]) : p.map[q] = s \/ LastUnmapped(p, s, q)

Covered(p) == UNION {Pages(p.span[s]) : s \in LiveIn(p)}

OnlyCovered(p) == \A q \in Page : p.map[q] # null => q \in Covered(p)

(* No page is lost. *)
Counts(p) == Cardinality(Covered(p)) = p.blocks * (NPAGES - 1)

(* What holds while relase_to_PageCache merges span x, and, with x = null,  *)
(* whenever PageCache's lock is free.                                       *)
Tiled(p, x) ==
    /\ IsPage(p) /\ Room(p) /\ Placed(p) /\ Apart(p) /\ Listed(p)
    /\ EndsMapped(p, x) /\ OnlyCovered(p) /\ Counts(p)

-----------------------------------------------------------------------------
(* Facts about numbers, lists and sets that the operations need. *)

LEMMA NatMin ==
    ASSUME NEW T, T \subseteq Nat, T # {}
    PROVE  \E x \in T : \A y \in T : x <= y
<1> DEFINE R == {ss \in Nat \X Nat : ss[1] < ss[2]}
<1>1. R = OpToRel(<, Nat)
  BY DEF OpToRel
<1>2. IsWellFoundedOn(R, Nat)
  BY <1>1, NatLessThanWellFounded
<1> HIDE DEF R
<1>3. PICK x \in T : \A y \in T : ~ (<<y, x>> \in R)
  BY <1>2, WFMin, Zenon
<1>4. \A y \in T : <<y, x>> \in Nat \X Nat /\ <<y, x>>[1] = y /\ <<y, x>>[2] = x
  OBVIOUS
<1>5. \A y \in T : ~(y < x)
  BY <1>3, <1>4, Zenon DEF R
<1> QED BY <1>5

LEMMA MinOK ==
    ASSUME NEW T, T \subseteq Nat, T # {}
    PROVE  Min(T) \in T /\ \A y \in T : Min(T) <= y
BY NatMin DEF Min

LEMMA ProductMonotone ==
    ASSUME NEW a \in Nat, NEW b \in Nat, NEW k \in Nat, a <= b
    PROVE  a * k \in Nat /\ b * k \in Nat /\ a * k <= b * k
<1>1. PICK d \in Nat : b = a + d
  <2>1. b - a \in Nat /\ b = a + (b - a)
    OBVIOUS
  <2> QED BY <2>1
<1>2. a * k \in Nat /\ d * k \in Nat
  OBVIOUS
<1>3. (a + d) * k = a * k + d * k
  OBVIOUS
<1> QED BY <1>1, <1>2, <1>3

LEMMA ContainsHead ==
    ASSUME NEW S, NEW l \in Seq(S), l # <<>>
    PROVE  Head(l) \in S /\ Contains(l, Head(l))
BY DEF Contains

LEMMA ContainsElement ==
    ASSUME NEW S, NEW l \in Seq(S), NEW x, Contains(l, x)
    PROVE  x \in S /\ l # <<>>
BY DEF Contains

(* push_front *)
LEMMA PushedList ==
    ASSUME NEW S, NEW l \in Seq(S), IsInjective(l), NEW s \in S, ~Contains(l, s)
    PROVE  /\ <<s>> \o l \in Seq(S) /\ IsInjective(<<s>> \o l)
           /\ \A x : Contains(<<s>> \o l, x) <=> x = s \/ Contains(l, x)
<1> DEFINE m == <<s>> \o l
<1>1. m \in Seq(S) /\ Len(m) = Len(l) + 1 /\ Len(l) \in Nat
  OBVIOUS
<1>2. m[1] = s /\ \A i \in 1 .. Len(l) : m[i + 1] = l[i]
  OBVIOUS
<1>3. \A i \in 2 .. Len(m) : i - 1 \in 1 .. Len(l) /\ m[i] = l[i - 1]
  BY <1>1, <1>2
<1>4. \A i \in 1 .. Len(l) : l[i] # s
  BY DEF Contains
<1>5. \A i, j \in 1 .. Len(l) : l[i] = l[j] => i = j
  BY DEF IsInjective
<1>6. DOMAIN m = 1 .. Len(m)
  BY <1>1
<1> HIDE DEF m
<1>7. \A i, j \in 1 .. Len(m) : m[i] = m[j] => i = j
  <2> TAKE i, j \in 1 .. Len(m)
  <2> HAVE m[i] = m[j]
  <2>1. CASE i = 1 /\ j = 1
    BY <2>1
  <2>2. CASE i = 1 /\ j # 1
    <3>1. j \in 2 .. Len(m)
      BY <1>1, <2>2
    <3> QED BY <1>2, <1>3, <1>4, <2>2, <3>1
  <2>3. CASE i # 1 /\ j = 1
    <3>1. i \in 2 .. Len(m)
      BY <1>1, <2>3
    <3> QED BY <1>2, <1>3, <1>4, <2>3, <3>1
  <2>4. CASE i # 1 /\ j # 1
    <3>1. i - 1 \in 1 .. Len(l) /\ j - 1 \in 1 .. Len(l) /\ l[i - 1] = l[j - 1]
      BY <1>1, <1>3, <2>4
    <3> QED BY <1>5, <3>1
  <2> QED BY <2>1, <2>2, <2>3, <2>4
<1>8. \A x : Contains(m, x) <=> x = s \/ Contains(l, x)
  <2> TAKE x
  <2>1. Contains(m, x) => x = s \/ Contains(l, x)
    BY <1>1, <1>2, <1>3 DEF Contains
  <2>2. x = s => Contains(m, x)
    BY <1>1, <1>2 DEF Contains
  <2>3. Contains(l, x) => Contains(m, x)
    <3> SUFFICES ASSUME NEW i \in 1 .. Len(l), l[i] = x PROVE Contains(m, x)
      BY DEF Contains
    <3>1. i + 1 \in 1 .. Len(m) /\ m[i + 1] = x
      BY <1>1, <1>2
    <3> QED BY <3>1 DEF Contains
  <2> QED BY <2>1, <2>2, <2>3
<1>9. IsInjective(m)
  BY <1>6, <1>7 DEF IsInjective
<1> QED BY <1>1, <1>8, <1>9 DEF m

(* erase *)
LEMMA ErasedList ==
    ASSUME NEW S, NEW l \in Seq(S), IsInjective(l), NEW e, Contains(l, e)
    PROVE  /\ RemoveFirst(l, e) \in Seq(S) /\ IsInjective(RemoveFirst(l, e))
           /\ \A x : Contains(RemoveFirst(l, e), x) <=> x # e /\ Contains(l, x)
<1> DEFINE I == {i \in 1 .. Len(l) : l[i] = e}
           k == Min(I)
           m == SubSeq(l, 1, k - 1) \o SubSeq(l, k + 1, Len(l))
<1>1. I \subseteq Nat /\ I # {}
  BY DEF Contains
<1>2. k \in I
  BY <1>1, MinOK
<1> HIDE DEF I
<1>3. k \in 1 .. Len(l) /\ l[k] = e /\ Len(l) \in Nat
  BY <1>2 DEF I
<1>4. RemoveFirst(l, e) = m
  BY <1>1, <1>3 DEF RemoveFirst, RemoveAt, SelectInSeq, Contains, I
<1> HIDE DEF k
<1>5. /\ SubSeq(l, 1, k - 1) \in Seq(S) /\ Len(SubSeq(l, 1, k - 1)) = k - 1
      /\ SubSeq(l, k + 1, Len(l)) \in Seq(S) /\ Len(SubSeq(l, k + 1, Len(l))) = Len(l) - k
      /\ \A i \in 1 .. (k - 1) : SubSeq(l, 1, k - 1)[i] = l[i]
      /\ \A i \in 1 .. (Len(l) - k) : SubSeq(l, k + 1, Len(l))[i] = l[k + i]
  BY <1>3
<1>6. /\ m \in Seq(S) /\ Len(m) = Len(l) - 1
      /\ \A i \in 1 .. (k - 1) : m[i] = l[i]
      /\ \A i \in k .. (Len(l) - 1) : m[i] = l[i + 1]
  <2> DEFINE a == SubSeq(l, 1, k - 1)
             b == SubSeq(l, k + 1, Len(l))
  <2> HIDE DEF a, b
  <2>1. /\ a \in Seq(S) /\ Len(a) = k - 1 /\ b \in Seq(S) /\ Len(b) = Len(l) - k
        /\ \A i \in 1 .. (k - 1) : a[i] = l[i]
        /\ \A i \in 1 .. (Len(l) - k) : b[i] = l[k + i]
    BY <1>5 DEF a, b
  <2>2. /\ a \o b \in Seq(S) /\ Len(a \o b) = Len(l) - 1
        /\ \A i \in 1 .. (k - 1) : (a \o b)[i] = l[i]
    <3>1. a \o b \in Seq(S) /\ Len(a \o b) = Len(l) - 1
      <4>1. a \o b \in Seq(S) /\ Len(a \o b) = Len(a) + Len(b)
        BY <2>1, ConcatProperties, Zenon
      <4>2. Len(a) + Len(b) = Len(l) - 1
        BY <1>3, <2>1
      <4> QED BY <4>1, <4>2
    <3>2. ASSUME NEW i \in 1 .. (k - 1) PROVE (a \o b)[i] = l[i]
      <4>1. i \in 1 .. (Len(a) + Len(b)) /\ i <= Len(a)
        BY <1>3, <2>1
      <4> QED BY <2>1, <4>1
    <3> QED BY <3>1, <3>2
  <2>3. ASSUME NEW i \in k .. (Len(l) - 1) PROVE (a \o b)[i] = l[i + 1]
    <3>1. /\ i \in 1 .. (Len(a) + Len(b)) /\ i > Len(a)
          /\ i - Len(a) = i - k + 1 /\ i - k + 1 \in 1 .. (Len(l) - k)
          /\ k + (i - k + 1) = i + 1
      BY <1>3, <2>1
    <3>2. (a \o b)[i] = b[i - k + 1]
      BY <2>1, <3>1
    <3> QED BY <2>1, <3>1, <3>2
  <2> QED BY <2>2, <2>3 DEF a, b
<1> HIDE DEF m
<1>7. \A i, j \in 1 .. Len(l) : l[i] = l[j] => i = j
  BY DEF IsInjective
<1> DEFINE up(i) == IF i < k THEN i ELSE i + 1
<1>8. \A i \in 1 .. Len(m) : up(i) \in 1 .. Len(l) /\ up(i) # k /\ m[i] = l[up(i)]
  BY <1>3, <1>6
<1>9. \A i, j \in 1 .. Len(m) : m[i] = m[j] => i = j
  BY <1>3, <1>6, <1>7, <1>8
<1>10. IsInjective(m)
  BY <1>6, <1>9 DEF IsInjective
<1>11. ASSUME NEW x PROVE Contains(m, x) <=> x # e /\ Contains(l, x)
  <2>1. ASSUME NEW i \in 1 .. Len(m), m[i] = x PROVE x # e /\ Contains(l, x)
    BY <1>3, <1>7, <1>8, <2>1 DEF Contains
  <2>2. ASSUME NEW i \in 1 .. Len(l), l[i] = x, x # e PROVE Contains(m, x)
    <3>1. i # k
      BY <1>3, <2>2
    <3>2. CASE i < k
      BY <1>3, <1>6, <2>2, <3>2 DEF Contains
    <3>3. CASE i > k
      <4>1. i - 1 \in 1 .. Len(m) /\ m[i - 1] = x
        BY <1>3, <1>6, <2>2, <3>3
      <4> QED BY <4>1 DEF Contains
    <3> QED BY <1>3, <3>1, <3>2, <3>3
  <2> QED BY <2>1, <2>2 DEF Contains
<1> QED BY <1>4, <1>6, <1>10, <1>11

-----------------------------------------------------------------------------
(* The operations on a page record, field by field. *)
LEMMA RecFields ==
    ASSUME NEW sp, NEW li, NEW ma, NEW fr, NEW to, NEW bl,
           NEW p, p = Rec(sp, li, ma, fr, to, bl)
    PROVE  /\ p.span = sp /\ p.list = li /\ p.map = ma /\ p.free = fr
           /\ p.top = to /\ p.blocks = bl /\ IsRec(p)
BY DEF Rec, IsRec

LEMMA RecList ==
    ASSUME NEW p, IsRec(p), NEW l
    PROVE  [p EXCEPT !.list = l] = Rec(p.span, l, p.map, p.free, p.top, p.blocks)
BY DEF Rec, IsRec

LEMMA RecMap ==
    ASSUME NEW p, IsRec(p), NEW m
    PROVE  [p EXCEPT !.map = m] = Rec(p.span, p.list, m, p.free, p.top, p.blocks)
BY DEF Rec, IsRec

LEMMA RecSpan ==
    ASSUME NEW p, IsRec(p), NEW x
    PROVE  [p EXCEPT !.span = x] = Rec(x, p.list, p.map, p.free, p.top, p.blocks)
BY DEF Rec, IsRec

LEMMA RecFreeSpan ==
    ASSUME NEW p, IsRec(p), NEW f, NEW x
    PROVE  [p EXCEPT !.free = f, !.span = x] = Rec(x, p.list, p.map, f, p.top, p.blocks)
<1> DEFINE q == [p EXCEPT !.free = f]
<1>1. [p EXCEPT !.free = f, !.span = x] = [q EXCEPT !.span = x]
  OBVIOUS
<1>2. q = Rec(p.span, p.list, p.map, f, p.top, p.blocks)
  BY DEF Rec, IsRec
<1> HIDE DEF q
<1> QED BY <1>1, <1>2, RecSpan, RecFields

LEMMA ErasePage ==
    ASSUME NEW p, IsRec(p), NEW s
    PROVE  Erase(p, s) =
             Rec(p.span, [p.list EXCEPT ![p.span[s]._npage] = RemoveFirst(p.list[p.span[s]._npage], s)],
                 p.map, p.free, p.top, p.blocks)
<1> DEFINE l == [p.list EXCEPT ![p.span[s]._npage] = RemoveFirst(p.list[p.span[s]._npage], s)]
<1>1. Erase(p, s) = [p EXCEPT !.list = l]
  BY DEF Erase
<1> HIDE DEF l
<1>2. Erase(p, s) = Rec(p.span, l, p.map, p.free, p.top, p.blocks)
  BY <1>1, RecList
<1> QED BY <1>2 DEF l

LEMMA PushFrontPage ==
    ASSUME NEW p, IsRec(p), NEW s
    PROVE  PushFront(p, s) =
             Rec(p.span, [p.list EXCEPT ![p.span[s]._npage] = <<s>> \o p.list[p.span[s]._npage]],
                 p.map, p.free, p.top, p.blocks)
<1> DEFINE l == [p.list EXCEPT ![p.span[s]._npage] = <<s>> \o p.list[p.span[s]._npage]]
<1>1. PushFront(p, s) = [p EXCEPT !.list = l]
  BY DEF PushFront
<1> HIDE DEF l
<1>2. PushFront(p, s) = Rec(p.span, l, p.map, p.free, p.top, p.blocks)
  BY <1>1, RecList
<1> QED BY <1>2 DEF l

LEMMA NewObjectPage ==
    ASSUME NEW p, IsRec(p), NEW s, NEW r
    PROVE  NewObject(p, s, r) =
             Rec([p.span EXCEPT ![s] = r], p.list, p.map, p.free \ {s}, p.top, p.blocks)
<1> DEFINE x == [p.span EXCEPT ![s] = r]
<1>1. NewObject(p, s, r) = [p EXCEPT !.free = p.free \ {s}, !.span = x]
  BY DEF NewObject
<1> HIDE DEF x
<1>2. NewObject(p, s, r) = Rec(x, p.list, p.map, p.free \ {s}, p.top, p.blocks)
  BY <1>1, RecFreeSpan
<1> QED BY <1>2 DEF x

LEMMA DeletePage ==
    ASSUME NEW p, IsRec(p), NEW s
    PROVE  Delete(p, s) =
             Rec([p.span EXCEPT ![s] = SpanOf(0, 0)], p.list, p.map, p.free \cup {s}, p.top, p.blocks)
<1> DEFINE x == [p.span EXCEPT ![s] = SpanOf(0, 0)]
<1>1. Delete(p, s) = [p EXCEPT !.free = p.free \cup {s}, !.span = x]
  BY DEF Delete
<1> HIDE DEF x
<1>2. Delete(p, s) = Rec(x, p.list, p.map, p.free \cup {s}, p.top, p.blocks)
  BY <1>1, RecFreeSpan
<1> QED BY <1>2 DEF x

LEMMA SetMapPage ==
    ASSUME NEW p, IsRec(p), NEW S, NEW s
    PROVE  SetMap(p, S, s) =
             Rec(p.span, p.list, [q \in Page |-> IF q \in S THEN s ELSE p.map[q]],
                 p.free, p.top, p.blocks)
<1> DEFINE m == [q \in Page |-> IF q \in S THEN s ELSE p.map[q]]
<1>1. SetMap(p, S, s) = [p EXCEPT !.map = m]
  BY DEF SetMap
<1> HIDE DEF m
<1>2. SetMap(p, S, s) = Rec(p.span, p.list, m, p.free, p.top, p.blocks)
  BY <1>1, RecMap
<1> QED BY <1>2 DEF m

LEMMA PoolSizes ==
    /\ NPAGES - 1 \in Nat \ {0} /\ MaxBig \in Nat /\ MaxGap \in Nat
    /\ NPAGES - 1 + MaxGap \in Nat /\ NPAGES - 1 + MaxGap >= 1
    /\ MaxBig * (NPAGES - 1) \in Nat /\ MaxBig * (NPAGES - 1 + MaxGap) \in Nat
    /\ null \notin SpanId /\ SpanId \subseteq Nat /\ Page \subseteq Nat /\ Lists \subseteq Nat
<1>1. /\ NPAGES - 1 \in Nat \ {0} /\ MaxBig \in Nat /\ MaxGap \in Nat
      /\ NPAGES - 1 + MaxGap \in Nat /\ NPAGES - 1 + MaxGap >= 1
  BY PoolAssumption
<1>2. MaxBig * (NPAGES - 1) \in Nat /\ MaxBig * (NPAGES - 1 + MaxGap) \in Nat
  BY <1>1, ProductMonotone
<1> QED BY <1>1, <1>2 DEF SpanId, Page, Lists, null

LEMMA TopInPage ==
    ASSUME NEW p, IsPage(p), Room(p)
    PROVE  0 .. p.top \subseteq Page
<1> DEFINE K == NPAGES - 1 + MaxGap
<1>1. K \in Nat /\ MaxBig \in Nat
  BY PoolSizes
<1> HIDE DEF K
<1>2. p.blocks \in Nat /\ p.blocks <= MaxBig /\ p.top \in Nat /\ p.top <= p.blocks * K + 1
  BY DEF IsPage, Room, K
<1>3. p.blocks * K <= MaxBig * K /\ p.blocks * K \in Nat /\ MaxBig * K \in Nat
  BY <1>1, <1>2, ProductMonotone
<1>4. Page = 0 .. (MaxBig * K + 1)
  BY DEF Page, K
<1> QED BY <1>2, <1>3, <1>4

LEMMA CoveredDef ==
    ASSUME NEW p, NEW q
    PROVE  q \in Covered(p) <=> \E s \in LiveIn(p) : q \in Pages(p.span[s])
BY Zenon DEF Covered

(* The pages of a live span are numbers below top. *)
LEMMA LivePages ==
    ASSUME NEW p, IsPage(p), Placed(p), NEW s \in LiveIn(p)
    PROVE  /\ s \in SpanId /\ p.span[s] \in SpanRec
           /\ p.span[s]._pageid \in Nat /\ p.span[s]._npage \in Nat
           /\ 1 <= p.span[s]._pageid /\ 1 <= p.span[s]._npage /\ p.span[s]._npage < NPAGES
           /\ p.span[s]._npage \in Lists
           /\ p.span[s]._pageid + p.span[s]._npage <= p.top
           /\ Pages(p.span[s]) = p.span[s]._pageid .. (p.span[s]._pageid + p.span[s]._npage - 1)
           /\ Ends(p.span[s]) = {p.span[s]._pageid, p.span[s]._pageid + p.span[s]._npage - 1}
<1>1. s \in SpanId
  BY DEF LiveIn
<1>2. p.span[s] \in SpanRec
  BY <1>1 DEF IsPage
<1>3. p.span[s]._pageid \in Nat /\ p.span[s]._npage \in Nat
  BY <1>2 DEF SpanRec
<1>4. /\ p.span[s]._npage \in Lists /\ 1 <= p.span[s]._pageid
      /\ p.span[s]._pageid + p.span[s]._npage <= p.top
  BY DEF Placed
<1>5. 1 <= p.span[s]._npage /\ p.span[s]._npage < NPAGES
  BY <1>3, <1>4, PoolAssumption DEF Lists
<1> QED BY <1>1, <1>2, <1>3, <1>4, <1>5 DEF Pages, Ends

LEMMA CoveredBelowTop ==
    ASSUME NEW p, IsPage(p), Placed(p)
    PROVE  Covered(p) \subseteq 1 .. (p.top - 1) /\ IsFiniteSet(Covered(p))
<1>1. p.top \in Nat
  BY DEF IsPage
<1>2. ASSUME NEW q \in Covered(p) PROVE q \in 1 .. (p.top - 1)
  <2>1. PICK s \in LiveIn(p) : q \in Pages(p.span[s])
    BY CoveredDef
  <2>2. /\ p.span[s]._pageid \in Nat /\ p.span[s]._npage \in Nat /\ 1 <= p.span[s]._pageid
        /\ p.span[s]._pageid + p.span[s]._npage <= p.top
        /\ Pages(p.span[s]) = p.span[s]._pageid .. (p.span[s]._pageid + p.span[s]._npage - 1)
    BY LivePages
  <2> QED BY <1>1, <2>1, <2>2
<1>3. IsFiniteSet(1 .. (p.top - 1))
  BY <1>1, FS_Interval
<1> QED BY <1>2, <1>3, FS_Subset

(* objectPool::New never runs out of Span objects: each live span has a     *)
(* page of its own, and one that is to be cut has two.                      *)
LEMMA FreeSpanObject ==
    ASSUME NEW p, NEW any, Tiled(p, any),
           p.blocks < MaxBig \/ \E b \in LiveIn(p) : p.span[b]._npage > 1
    PROVE  p.free # {} /\ NewSpanObject(p) \in p.free
<1> USE DEF Tiled
<1>1. p.free # {}
  <2> SUFFICES ASSUME p.free = {} PROVE FALSE
    OBVIOUS
  <2>1. LiveIn(p) = SpanId
    BY DEF LiveIn
  <2> DEFINE N == NPAGES - 1
             f == [s \in SpanId |-> p.span[s]._pageid]
             C == Covered(p)
  <2>2. N \in Nat /\ N >= 1 /\ MaxBig \in Nat /\ p.blocks \in Nat /\ p.blocks <= MaxBig
    <3>1. p.blocks \in Nat /\ p.blocks <= MaxBig
      BY DEF IsPage, Room
    <3>2. NPAGES - 1 \in Nat /\ NPAGES - 1 >= 1 /\ MaxBig \in Nat
      BY PoolAssumption
    <3> QED BY <3>1, <3>2
  <2>3. IsFiniteSet(C) /\ Cardinality(C) = p.blocks * N
    BY CoveredBelowTop DEF Counts
  <2> HIDE DEF N, C
  <2>4. SpanId = 1 .. (MaxBig * N) /\ MaxBig * N \in Nat /\ p.blocks * N \in Nat
        /\ p.blocks * N <= MaxBig * N
    BY <2>2, ProductMonotone DEF SpanId, N
  <2>5. IsFiniteSet(SpanId) /\ Cardinality(SpanId) = MaxBig * N
    BY <2>4, FS_Interval
  <2>6. \A s \in SpanId : f[s] \in Pages(p.span[s]) /\ f[s] \in C
    <3> TAKE s \in SpanId
    <3>1. f[s] \in Pages(p.span[s])
      BY <2>1, LivePages
    <3> QED BY <2>1, <3>1, CoveredDef DEF C
  <2>7. \A s, r \in SpanId : f[s] = f[r] => s = r
    BY <2>1, <2>6, Zenon DEF Apart
  <2>8. CASE p.blocks < MaxBig
    <3>1. (p.blocks + 1) * N <= MaxBig * N /\ (p.blocks + 1) * N = p.blocks * N + N
      BY <2>2, <2>8, ProductMonotone
    <3>2. Cardinality(C) < Cardinality(SpanId)
      BY <2>2, <2>3, <2>4, <2>5, <3>1
    <3>3. f \in [SpanId -> C]
      BY <2>6
    <3> HIDE DEF f
    <3> QED BY <2>3, <2>5, <2>7, <3>2, <3>3, FS_PigeonHole
  <2>9. ASSUME NEW b \in SpanId, p.span[b]._npage > 1 PROVE FALSE
    <3> DEFINE q == p.span[b]._pageid + 1
    <3>1. /\ q \in Pages(p.span[b]) /\ q # f[b]
      BY <2>1, <2>9, LivePages
    <3>2. q \in C
      BY <2>1, <3>1, CoveredDef DEF C
    <3>3. \A s \in SpanId : f[s] # q
      BY <2>1, <2>6, <3>1 DEF Apart
    <3>4. IsFiniteSet(C \ {q}) /\ Cardinality(C \ {q}) = p.blocks * N - 1
      <4> HIDE DEF q, f
      <4>1. IsFiniteSet(C \ {q}) /\ Cardinality(C \ {q}) = Cardinality(C) - 1
        BY <2>3, <3>2, FS_RemoveElement, Zenon
      <4> QED BY <2>3, <4>1
    <3>5. f \in [SpanId -> C \ {q}]
      BY <2>6, <3>3
    <3>6. Cardinality(C \ {q}) < Cardinality(SpanId)
      BY <2>4, <2>5, <3>4
    <3> HIDE DEF f, q
    <3> QED BY <2>5, <2>7, <3>4, <3>5, <3>6, FS_PigeonHole
  <2> QED BY <2>1, <2>8, <2>9
<1>2. p.free \subseteq Nat
  BY PoolSizes DEF IsPage
<1> QED BY <1>1, <1>2, MinOK DEF NewSpanObject

(* A span record with other pages. *)
Moved(r, a, n) == [r EXCEPT !._pageid = a, !._npage = n]

(* The spans in use. *)
UseIn(p) == {x \in LiveIn(p) : p.span[x]._isUse}

(* From p to q the pages of all the spans together have not changed, nor    *)
(* the spans in use other than s, nor what their pages map to.              *)
Kept(p, q, s) ==
    /\ Covered(q) = Covered(p) /\ q.blocks = p.blocks
    /\ UseIn(q) \ {s} = UseIn(p) \ {s}
    /\ \A x \in UseIn(p) : x # s =>
         q.span[x] = p.span[x] /\ \A a \in Pages(p.span[x]) : q.map[a] = p.map[a]

(* Span s takes over the pages of its neighbour r. *)
MergedRec(p, s, r, pageid) ==
    Rec([p.span EXCEPT ![r] = SpanOf(0, 0),
                       ![s] = Moved(p.span[s], pageid, p.span[s]._npage + p.span[r]._npage)],
        [p.list EXCEPT ![p.span[r]._npage] = RemoveFirst(p.list[p.span[r]._npage], r)],
        p.map, p.free \cup {r}, p.top, p.blocks)

(* What erasing r leaves in the lists. *)
LEMMA ErasedLists ==
    ASSUME NEW p, IsPage(p), Listed(p), NEW r \in SpanId, NEW n \in Lists, Contains(p.list[n], r)
    PROVE  LET l == [p.list EXCEPT ![n] = RemoveFirst(p.list[n], r)]
           IN  /\ l \in [Lists -> Seq(SpanId)]
               /\ \A m \in Lists : /\ IsInjective(l[m])
                                   /\ \A x \in SpanId : Contains(l[m], x)
                                        <=> Contains(p.list[m], x) /\ ~(m = n /\ x = r)
<1> DEFINE e == RemoveFirst(p.list[n], r)
<1>1. \A m \in Lists : p.list[m] \in Seq(SpanId) /\ IsInjective(p.list[m])
  BY DEF IsPage, Listed
<1>2. /\ e \in Seq(SpanId) /\ IsInjective(e)
      /\ \A x : Contains(e, x) <=> x # r /\ Contains(p.list[n], x)
  BY <1>1, ErasedList, Zenon
<1> HIDE DEF e
<1> DEFINE l == [p.list EXCEPT ![n] = e]
<1>3. l \in [Lists -> Seq(SpanId)] /\ l[n] = e /\ \A m \in Lists : m # n => l[m] = p.list[m]
  BY <1>2 DEF IsPage
<1> HIDE DEF l
<1>4. \A m \in Lists : IsInjective(l[m])
  BY <1>1, <1>2, <1>3, Zenon
<1>5. ASSUME NEW m \in Lists, NEW x \in SpanId
      PROVE  Contains(l[m], x) <=> Contains(p.list[m], x) /\ ~(m = n /\ x = r)
  <2>1. CASE m = n
    BY <1>2, <1>3, <2>1, Zenon
  <2>2. CASE m # n
    BY <1>3, <2>2, Zenon
  <2> QED BY <2>1, <2>2
<1> QED BY <1>3, <1>4, <1>5, Zenon DEF l, e

LEMMA PushedLists ==
    ASSUME NEW p, IsPage(p), NEW r \in SpanId, NEW n \in Lists, ~Contains(p.list[n], r),
           \A m \in Lists : IsInjective(p.list[m])
    PROVE  LET l == [p.list EXCEPT ![n] = <<r>> \o p.list[n]]
           IN  /\ l \in [Lists -> Seq(SpanId)]
               /\ \A m \in Lists : /\ IsInjective(l[m])
                                   /\ \A x \in SpanId : Contains(l[m], x)
                                        <=> Contains(p.list[m], x) \/ (m = n /\ x = r)
<1> DEFINE e == <<r>> \o p.list[n]
<1>1. \A m \in Lists : p.list[m] \in Seq(SpanId) /\ IsInjective(p.list[m])
  BY DEF IsPage
<1>2. /\ e \in Seq(SpanId) /\ IsInjective(e)
      /\ \A x : Contains(e, x) <=> x = r \/ Contains(p.list[n], x)
  BY <1>1, PushedList, Zenon
<1> HIDE DEF e
<1> DEFINE l == [p.list EXCEPT ![n] = e]
<1>3. l \in [Lists -> Seq(SpanId)] /\ l[n] = e /\ \A m \in Lists : m # n => l[m] = p.list[m]
  BY <1>2 DEF IsPage
<1> HIDE DEF l
<1>4. \A m \in Lists : IsInjective(l[m])
  BY <1>1, <1>2, <1>3, Zenon
<1>5. ASSUME NEW m \in Lists, NEW x \in SpanId
      PROVE  Contains(l[m], x) <=> Contains(p.list[m], x) \/ (m = n /\ x = r)
  <2>1. CASE m = n
    BY <1>2, <1>3, <2>1, Zenon
  <2>2. CASE m # n
    BY <1>3, <2>2, Zenon
  <2> QED BY <2>1, <2>2
<1> QED BY <1>3, <1>4, <1>5, Zenon DEF l, e

LEMMA Adjacent ==
    \A a, m, b, k, T, c \in Nat :
      /\ 1 <= a /\ 1 <= m /\ 1 <= b /\ 1 <= k /\ a + m <= T /\ b + k <= T
      /\ (c = b /\ a = b + k) \/ (c = a /\ b = a + m)
      => /\ 1 <= c /\ c + (m + k) <= T /\ m + k \in Nat /\ 1 <= m + k
         /\ c .. (c + (m + k) - 1) = (a .. (a + m - 1)) \cup (b .. (b + k - 1))
OBVIOUS

LEMMA SpanMoved ==
    ASSUME NEW r \in SpanRec, NEW a \in Nat, NEW n \in Nat
    PROVE  /\ Moved(r, a, n) \in SpanRec
           /\ Moved(r, a, n)._pageid = a /\ Moved(r, a, n)._npage = n
           /\ Moved(r, a, n)._isUse = r._isUse /\ Moved(r, a, n)._objsize = r._objsize
<1>1. PICK i \in Nat, j \in Nat, u \in BOOLEAN, o \in Nat :
        r = [_pageid |-> i, _npage |-> j, _isUse |-> u, _objsize |-> o]
  BY DEF SpanRec
<1> DEFINE x == [r EXCEPT !._pageid = a]
<1>2. x = [_pageid |-> a, _npage |-> j, _isUse |-> u, _objsize |-> o]
  BY <1>1
<1>3. [r EXCEPT !._pageid = a, !._npage = n] = [x EXCEPT !._npage = n]
  OBVIOUS
<1> HIDE DEF x
<1>4. [r EXCEPT !._pageid = a, !._npage = n]
        = [_pageid |-> a, _npage |-> n, _isUse |-> u, _objsize |-> o]
  BY <1>2, <1>3
<1>5. r._isUse = u /\ r._objsize = o
  BY <1>1
<1> QED BY <1>4, <1>5 DEF SpanRec, Moved

LEMMA SpanMovedUse ==
    ASSUME NEW r \in SpanRec, NEW a \in Nat, NEW n \in Nat
    PROVE  Moved(r, a, n)._isUse = r._isUse
BY SpanMoved

LEMMA MergeOK ==
    ASSUME NEW p, NEW s \in LiveIn(p), NEW r \in LiveIn(p), Tiled(p, s), s # r,
           p.span[s]._isUse, ~p.span[r]._isUse,
           p.span[s]._npage + p.span[r]._npage < NPAGES,
           NEW pageid,
           \/ /\ pageid = p.span[r]._pageid
              /\ p.span[s]._pageid = p.span[r]._pageid + p.span[r]._npage
           \/ /\ pageid = p.span[s]._pageid
              /\ p.span[r]._pageid = p.span[s]._pageid + p.span[s]._npage,
           NEW q, q = MergedRec(p, s, r, pageid)
    PROVE  Tiled(q, s) /\ s \in LiveIn(q) /\ q.span[s]._isUse /\ Kept(p, q, s)
<1> USE DEF Tiled
<1> DEFINE S == p.span[s]
           R == p.span[r]
           new == Moved(S, pageid, S._npage + R._npage)
           li == [p.list EXCEPT ![R._npage] = RemoveFirst(p.list[R._npage], r)]
           sp == [p.span EXCEPT ![r] = SpanOf(0, 0), ![s] = new]
<1>1. /\ s \in SpanId /\ r \in SpanId /\ S \in SpanRec /\ R \in SpanRec
      /\ S._pageid \in Nat /\ S._npage \in Nat /\ R._pageid \in Nat /\ R._npage \in Nat
      /\ 1 <= S._pageid /\ 1 <= S._npage /\ 1 <= R._pageid /\ 1 <= R._npage
      /\ R._npage \in Lists
      /\ S._pageid + S._npage <= p.top /\ R._pageid + R._npage <= p.top
      /\ Pages(S) = S._pageid .. (S._pageid + S._npage - 1)
      /\ Pages(R) = R._pageid .. (R._pageid + R._npage - 1)
  BY LivePages
<1> HIDE DEF S, R
<1>2. /\ pageid \in Nat /\ 1 <= pageid /\ pageid + (S._npage + R._npage) <= p.top
      /\ S._npage + R._npage \in Nat /\ S._npage + R._npage \in Lists
      /\ pageid .. (pageid + (S._npage + R._npage) - 1) = Pages(S) \cup Pages(R)
  <2>1. /\ \/ pageid = R._pageid /\ S._pageid = R._pageid + R._npage
           \/ pageid = S._pageid /\ R._pageid = S._pageid + S._npage
        /\ S._npage + R._npage < NPAGES /\ p.top \in Nat /\ NPAGES \in Nat
    BY PoolAssumption DEF S, R, IsPage
  <2>2. pageid \in Nat
    BY <1>1, <2>1
  <2>3. /\ 1 <= pageid /\ pageid + (S._npage + R._npage) <= p.top
        /\ S._npage + R._npage \in Nat /\ 1 <= S._npage + R._npage
        /\ pageid .. (pageid + (S._npage + R._npage) - 1)
             = (S._pageid .. (S._pageid + S._npage - 1)) \cup (R._pageid .. (R._pageid + R._npage - 1))
    <3> DEFINE a == S._pageid
               m == S._npage
               b == R._pageid
               k == R._npage
    <3>1. /\ a \in Nat /\ m \in Nat /\ b \in Nat /\ k \in Nat /\ p.top \in Nat /\ pageid \in Nat
          /\ 1 <= a /\ 1 <= m /\ 1 <= b /\ 1 <= k /\ a + m <= p.top /\ b + k <= p.top
          /\ (pageid = b /\ a = b + k) \/ (pageid = a /\ b = a + m)
      BY <1>1, <2>1, <2>2
    <3> HIDE DEF a, m, b, k
    <3>2. /\ 1 <= pageid /\ pageid + (m + k) <= p.top /\ m + k \in Nat /\ 1 <= m + k
          /\ pageid .. (pageid + (m + k) - 1) = (a .. (a + m - 1)) \cup (b .. (b + k - 1))
      BY <3>1, Adjacent
    <3> QED BY <3>2 DEF a, m, b, k
  <2>4. S._npage + R._npage \in Lists
    BY <2>1, <2>3 DEF Lists
  <2> QED BY <1>1, <2>2, <2>3, <2>4
<1>3. /\ new \in SpanRec /\ new._pageid = pageid /\ new._npage = S._npage + R._npage
      /\ new._isUse = S._isUse /\ S._isUse
  <2>1. S._isUse
    BY DEF S
  <2> DEFINE k == S._npage + R._npage
  <2>2. S \in SpanRec /\ pageid \in Nat /\ k \in Nat
    BY <1>1, <1>2
  <2> HIDE DEF k
  <2>3. /\ Moved(S, pageid, k) \in SpanRec
        /\ Moved(S, pageid, k)._pageid = pageid /\ Moved(S, pageid, k)._npage = k
        /\ Moved(S, pageid, k)._isUse = S._isUse
    <3>1. Moved(S, pageid, k) \in SpanRec
      BY <2>2, SpanMoved
    <3>2. Moved(S, pageid, k)._pageid = pageid /\ Moved(S, pageid, k)._npage = k
      BY <2>2, SpanMoved
    <3>3. Moved(S, pageid, k)._isUse = S._isUse
      BY <2>2, SpanMovedUse
    <3> QED BY <3>1, <3>2, <3>3
  <2> QED BY <2>1, <2>3 DEF k
<1>4. Pages(new) = Pages(S) \cup Pages(R)
  <2> HIDE DEF new
  <2> QED BY <1>2, <1>3 DEF Pages
<1> HIDE DEF new
<1>5. SpanOf(0, 0) \in SpanRec
  BY DEF SpanOf, SpanRec
<1>6. /\ sp \in [SpanId -> SpanRec] /\ sp[s] = new
      /\ \A x \in SpanId : x # s /\ x # r => sp[x] = p.span[x]
  BY <1>1, <1>3, <1>5 DEF IsPage
<1> HIDE DEF sp
<1>7. Contains(p.list[R._npage], r)
  BY <1>1 DEF Listed, R
<1>8. /\ li \in [Lists -> Seq(SpanId)]
      /\ \A m \in Lists : /\ IsInjective(li[m])
                          /\ \A x \in SpanId : Contains(li[m], x)
                               <=> Contains(p.list[m], x) /\ ~(m = R._npage /\ x = r)
  BY <1>1, <1>7, ErasedLists
<1> HIDE DEF li
<1>9. q = Rec(sp, li, p.map, p.free \cup {r}, p.top, p.blocks)
  BY DEF MergedRec, sp, new, li, S, R
<1>10. /\ q.span = sp /\ q.list = li /\ q.map = p.map /\ q.free = p.free \cup {r}
       /\ q.top = p.top /\ q.blocks = p.blocks /\ IsRec(q)
  BY <1>9, RecFields
<1>11. LiveIn(q) = LiveIn(p) \ {r}
  BY <1>10 DEF LiveIn
<1>12. \A x \in LiveIn(q) : x \in SpanId /\ x \in LiveIn(p) /\ x # r
  BY <1>11 DEF LiveIn
<1>13. s \in LiveIn(q)
  BY <1>11
<1>14. \A x \in LiveIn(q) : x # s => q.span[x] = p.span[x]
  BY <1>6, <1>10, <1>12
<1>15. q.span[s] = new
  BY <1>6, <1>10
<1>16. IsPage(q)
  BY <1>1, <1>6, <1>8, <1>10 DEF IsPage
<1>17. Room(q)
  BY <1>10 DEF Room
<1>18. Placed(q)
  <2> SUFFICES ASSUME NEW x \in LiveIn(q)
               PROVE  /\ q.span[x]._npage \in Lists
                      /\ 1 <= q.span[x]._pageid /\ q.span[x]._pageid + q.span[x]._npage <= q.top
    BY DEF Placed
  <2>1. CASE x = s
    BY <1>2, <1>3, <1>10, <1>15, <2>1
  <2>2. CASE x # s
    BY <1>10, <1>12, <1>14, <2>2 DEF Placed
  <2> QED BY <2>1, <2>2
<1>19. Apart(q)
  <2>1. ASSUME NEW x \in LiveIn(q), x # s
        PROVE  Pages(q.span[x]) \cap Pages(q.span[s]) = {}
    <3>1. Pages(p.span[x]) \cap Pages(S) = {} /\ Pages(p.span[x]) \cap Pages(R) = {}
      BY <1>12, <2>1, Zenon DEF Apart, S, R
    <3> QED BY <1>4, <1>14, <1>15, <2>1, <3>1
  <2>2. ASSUME NEW x \in LiveIn(q), NEW y \in LiveIn(q), x # y
        PROVE  Pages(q.span[x]) \cap Pages(q.span[y]) = {}
    <3>1. CASE x = s
      BY <2>1, <2>2, <3>1
    <3>2. CASE y = s
      BY <2>1, <2>2, <3>2
    <3>3. CASE x # s /\ y # s
      BY <1>12, <1>14, <2>2, <3>3, Zenon DEF Apart
    <3> QED BY <3>1, <3>2, <3>3
  <2> QED BY <2>2, Zenon DEF Apart
<1>20. Listed(q)
  <2> SUFFICES ASSUME NEW n \in Lists
               PROVE  /\ IsInjective(q.list[n])
                      /\ \A x \in SpanId : Contains(q.list[n], x)
                           <=> x \in LiveIn(q) /\ n = q.span[x]._npage /\ ~q.span[x]._isUse
    BY DEF Listed
  <2>1. IsInjective(q.list[n])
    BY <1>8, <1>10
  <2>2. ASSUME NEW x \in SpanId
        PROVE  Contains(q.list[n], x)
                 <=> x \in LiveIn(q) /\ n = q.span[x]._npage /\ ~q.span[x]._isUse
    <3>1. Contains(q.list[n], x) <=> Contains(p.list[n], x) /\ ~(n = R._npage /\ x = r)
      BY <1>8, <1>10
    <3>2. Contains(p.list[n], x) <=> x \in LiveIn(p) /\ n = p.span[x]._npage /\ ~p.span[x]._isUse
      BY DEF Listed
    <3>3. CASE x = s
      BY <1>3, <1>15, <3>1, <3>2, <3>3 DEF S
    <3>4. CASE x = r
      BY <1>11, <3>1, <3>2, <3>4 DEF R
    <3>5. CASE x # s /\ x # r
      BY <1>6, <1>10, <1>11, <3>1, <3>2, <3>5
    <3> QED BY <3>3, <3>4, <3>5
  <2> QED BY <2>1, <2>2
<1>21. EndsMapped(q, s)
  BY <1>10, <1>12, <1>14 DEF EndsMapped, LastUnmapped
<1>22. Covered(q) = Covered(p)
  <2>1. ASSUME NEW a \in Covered(q) PROVE a \in Covered(p)
    <3>1. PICK x \in LiveIn(q) : a \in Pages(q.span[x])
      BY CoveredDef
    <3>2. CASE x = s
      <4>1. a \in Pages(p.span[s]) \/ a \in Pages(p.span[r])
        BY <1>4, <1>15, <3>1, <3>2 DEF S, R
      <4> QED BY <4>1, CoveredDef
    <3>3. CASE x # s
      BY <1>12, <1>14, <3>1, <3>3, CoveredDef
    <3> QED BY <3>2, <3>3
  <2>2. ASSUME NEW a \in Covered(p) PROVE a \in Covered(q)
    <3>1. PICK x \in LiveIn(p) : a \in Pages(p.span[x])
      BY CoveredDef
    <3>2. CASE x = s \/ x = r
      <4>1. a \in Pages(q.span[s])
        BY <1>4, <1>15, <3>1, <3>2 DEF S, R
      <4> QED BY <1>13, <4>1, CoveredDef
    <3>3. CASE x # s /\ x # r
      <4>1. x \in LiveIn(q) /\ a \in Pages(q.span[x])
        BY <1>11, <1>14, <3>1, <3>3
      <4> QED BY <4>1, CoveredDef
    <3> QED BY <3>2, <3>3
  <2> QED BY <2>1, <2>2
<1>23. OnlyCovered(q) /\ Counts(q)
  BY <1>10, <1>22 DEF OnlyCovered, Counts
<1>24. q.span[s]._isUse
  BY <1>3, <1>15
<1>25. Kept(p, q, s)
  <2>1. UseIn(q) \ {s} = UseIn(p) \ {s}
    BY <1>11, <1>14 DEF UseIn
  <2>2. ASSUME NEW x \in UseIn(p), x # s
        PROVE  q.span[x] = p.span[x] /\ \A a \in Pages(p.span[x]) : q.map[a] = p.map[a]
    BY <1>10, <1>11, <1>14, <2>2 DEF UseIn
  <2> QED BY <1>10, <1>22, <2>1, <2>2 DEF Kept
<1> QED
  BY <1>13, <1>16, <1>17, <1>18, <1>19, <1>20, <1>21, <1>23, <1>24, <1>25

(* While s is merged: s is in use, and everything but the map of its ends   *)
(* is in order.                                                             *)
Merging(p, s) == Tiled(p, s) /\ s \in LiveIn(p) /\ p.span[s]._isUse

LEMMA KeptRefl ==
    ASSUME NEW p, NEW s
    PROVE  Kept(p, p, s)
BY DEF Kept

LEMMA KeptTrans ==
    ASSUME NEW p, NEW q, NEW r, NEW s, Kept(p, q, s), Kept(q, r, s)
    PROVE  Kept(p, r, s)
<1>1. Covered(r) = Covered(p) /\ r.blocks = p.blocks /\ UseIn(r) \ {s} = UseIn(p) \ {s}
  BY DEF Kept
<1>2. ASSUME NEW x \in UseIn(p), x # s
      PROVE  r.span[x] = p.span[x] /\ \A a \in Pages(p.span[x]) : r.map[a] = p.map[a]
  <2>1. x \in UseIn(q)
    BY <1>2 DEF Kept
  <2>2. q.span[x] = p.span[x] /\ \A a \in Pages(p.span[x]) : q.map[a] = p.map[a]
    BY <1>2, Zenon DEF Kept
  <2>3. r.span[x] = q.span[x] /\ \A a \in Pages(q.span[x]) : r.map[a] = q.map[a]
    BY <1>2, <2>1, Zenon DEF Kept
  <2> QED BY <2>2, <2>3
<1> QED BY <1>1, <1>2, Zenon DEF Kept

(* A neighbour that the map names is the live span next to s. *)
LEMMA NeighbourFound ==
    ASSUME NEW p, NEW s, Merging(p, s), NEW a \in Page, p.map[a] # null, NEW S, S = p.span[s],
           a = S._pageid - 1 \/ a = S._pageid + S._npage
    PROVE  /\ p.map[a] \in LiveIn(p) /\ p.map[a] # s
           /\ LET R == p.span[p.map[a]]
              IN  /\ a = S._pageid - 1 => S._pageid = R._pageid + R._npage
                  /\ a = S._pageid + S._npage => R._pageid = S._pageid + S._npage
<1> USE DEF Merging, Tiled
<1>1. PICK x \in LiveIn(p) : a \in Pages(p.span[x])
  BY CoveredDef DEF OnlyCovered
<1> DEFINE X == p.span[x]
<1>2. /\ S._pageid \in Nat /\ S._npage \in Nat /\ 1 <= S._pageid /\ 1 <= S._npage
      /\ Pages(S) = S._pageid .. (S._pageid + S._npage - 1)
  BY LivePages
<1>3. /\ X._pageid \in Nat /\ X._npage \in Nat /\ 1 <= X._pageid /\ 1 <= X._npage
      /\ Pages(X) = X._pageid .. (X._pageid + X._npage - 1)
      /\ Ends(X) = {X._pageid, X._pageid + X._npage - 1}
  BY LivePages
<1>4. x # s
  BY <1>1, <1>2
<1>5. Pages(X) \cap Pages(S) = {}
  BY <1>4, Zenon DEF Apart
<1>6. a \in Pages(X)
  BY <1>1
<1> HIDE DEF X
<1>7. /\ a = S._pageid - 1 => a = X._pageid + X._npage - 1
      /\ a = S._pageid + S._npage => a = X._pageid
  <2>1. S._pageid \in Pages(S) /\ S._pageid + S._npage - 1 \in Pages(S)
    BY <1>2
  <2>2. S._pageid \notin Pages(X) /\ S._pageid + S._npage - 1 \notin Pages(X)
    BY <1>5, <2>1
  <2>3. a \in Nat /\ X._pageid <= a /\ a <= X._pageid + X._npage - 1
    BY <1>3, <1>6
  <2>4. CASE a = S._pageid - 1
    <3>1. a + 1 = S._pageid
      BY <1>2, <2>3, <2>4
    <3>2. ~(a + 1 <= X._pageid + X._npage - 1)
      BY <1>3, <2>2, <2>3, <3>1
    <3>3. a = X._pageid + X._npage - 1
      BY <1>3, <2>3, <3>2
    <3>4. a # S._pageid + S._npage
      BY <1>2, <2>4
    <3> QED BY <3>3, <3>4
  <2>5. CASE a = S._pageid + S._npage
    <3>1. a - 1 = S._pageid + S._npage - 1
      BY <1>2, <2>3, <2>5
    <3>2. ~(X._pageid <= a - 1)
      BY <1>3, <2>2, <2>3, <3>1
    <3>3. a = X._pageid
      BY <1>3, <2>3, <3>2
    <3>4. a # S._pageid - 1
      BY <1>2, <2>5
    <3> QED BY <3>3, <3>4
  <2> QED BY <2>4, <2>5
<1>8. a \in Ends(X)
  BY <1>3, <1>7
<1>9. p.map[a] = x
  BY <1>4, <1>8 DEF EndsMapped, LastUnmapped, X
<1>10. /\ a = S._pageid - 1 => S._pageid = X._pageid + X._npage
       /\ a = S._pageid + S._npage => X._pageid = S._pageid + S._npage
  BY <1>2, <1>3, <1>7
<1> QED BY <1>4, <1>9, <1>10 DEF X

(* The pages next to a live span are pages of the model. *)
LEMMA NeighbourPages ==
    ASSUME NEW p, NEW s, Merging(p, s)
    PROVE  p.span[s]._pageid - 1 \in Page /\ p.span[s]._pageid + p.span[s]._npage \in Page
<1> USE DEF Merging, Tiled
<1>1. 0 .. p.top \subseteq Page /\ p.top \in Nat
  BY TopInPage DEF IsPage
<1>2. /\ p.span[s]._pageid \in Nat /\ p.span[s]._npage \in Nat /\ 1 <= p.span[s]._pageid
      /\ p.span[s]._pageid + p.span[s]._npage <= p.top
  BY LivePages
<1> QED BY <1>1, <1>2

(* The two steps of a merge: r is erased and deleted, and s grows. *)
LEMMA DeletedRec ==
    ASSUME NEW p, IsPage(p), NEW s \in SpanId, NEW r \in SpanId, s # r
    PROVE  LET d == [p.span EXCEPT ![r] = SpanOf(0, 0)]
           IN  /\ Delete(Erase(p, r), r) =
                    Rec(d, [p.list EXCEPT ![p.span[r]._npage] = RemoveFirst(p.list[p.span[r]._npage], r)],
                        p.map, p.free \cup {r}, p.top, p.blocks)
               /\ d[s] = p.span[s]
<1> DEFINE l == [p.list EXCEPT ![p.span[r]._npage] = RemoveFirst(p.list[p.span[r]._npage], r)]
           d == [p.span EXCEPT ![r] = SpanOf(0, 0)]
           e == Erase(p, r)
<1>1. e = Rec(p.span, l, p.map, p.free, p.top, p.blocks)
  BY ErasePage DEF IsPage
<1> HIDE DEF l, e
<1>2. /\ e.span = p.span /\ e.list = l /\ e.map = p.map /\ e.free = p.free
      /\ e.top = p.top /\ e.blocks = p.blocks /\ IsRec(e)
  BY <1>1, RecFields
<1>3. Delete(e, r) = Rec(d, l, p.map, p.free \cup {r}, p.top, p.blocks)
  BY <1>2, DeletePage
<1>4. d[s] = p.span[s]
  BY SMTT(30) DEF IsPage
<1> QED BY <1>3, <1>4 DEF l, e

LEMMA MergePrevIs ==
    ASSUME NEW p, IsPage(p), NEW s \in SpanId, NEW r \in SpanId, s # r,
           r = p.map[p.span[s]._pageid - 1], Mergeable(p, s, r)
    PROVE  MergePrev(p, s) = MergedRec(p, s, r, p.span[r]._pageid)
<1> DEFINE l == [p.list EXCEPT ![p.span[r]._npage] = RemoveFirst(p.list[p.span[r]._npage], r)]
           d == [p.span EXCEPT ![r] = SpanOf(0, 0)]
           D == Delete(Erase(p, r), r)
           pid == p.span[r]._pageid
           k == p.span[r]._npage
<1>1. D = Rec(d, l, p.map, p.free \cup {r}, p.top, p.blocks) /\ d[s] = p.span[s]
  BY DeletedRec, Zenon
<1>2. MergePrev(p, s) = [D EXCEPT !.span[s]._pageid = pid, !.span[s]._npage = @ + k]
  BY DEF MergePrev
<1> HIDE DEF l, D, pid, k, d
<1>3. D.span = d /\ IsRec(D) /\ D.list = l /\ D.map = p.map /\ D.free = p.free \cup {r}
      /\ D.top = p.top /\ D.blocks = p.blocks
  <2> DEFINE fr == p.free \cup {r}
  <2>1. D = Rec(d, l, p.map, fr, p.top, p.blocks)
    BY <1>1
  <2> HIDE DEF fr
  <2>2. IsRec(D)
    BY <2>1, RecFields
  <2>3. D.span = d /\ D.list = l /\ D.map = p.map
    BY <2>1, RecFields
  <2>4. D.free = fr /\ D.top = p.top /\ D.blocks = p.blocks
    BY <2>1, RecFields
  <2> QED BY <2>2, <2>3, <2>4 DEF fr
<1> DEFINE e == [d EXCEPT ![s] = Moved(d[s], pid, d[s]._npage + k)]
<1>4. MergePrev(p, s) = [D EXCEPT !.span = e]
  <2>1. d \in [SpanId -> SpanRec]
    BY DEF IsPage, d, SpanOf, SpanRec
  <2>2. d[s] \in SpanRec
    BY <2>1
  <2> QED BY <1>2, <1>3, <2>1, <2>2 DEF Moved, SpanRec
<1>5. MergePrev(p, s) = Rec(e, l, p.map, p.free \cup {r}, p.top, p.blocks)
  <2> HIDE DEF e
  <2> QED BY <1>3, <1>4, RecSpan
<1>6. e = [p.span EXCEPT ![r] = SpanOf(0, 0), ![s] = Moved(p.span[s], pid, p.span[s]._npage + k)]
  BY <1>1 DEF d
<1>7. MergedRec(p, s, r, pid)
        = Rec([p.span EXCEPT ![r] = SpanOf(0, 0), ![s] = Moved(p.span[s], pid, p.span[s]._npage + k)],
              l, p.map, p.free \cup {r}, p.top, p.blocks)
  BY Zenon DEF MergedRec, l, k
<1> HIDE DEF e
<1>9. MergePrev(p, s) = MergedRec(p, s, r, pid)
  BY <1>5, <1>6, <1>7, Zenon
<1> QED BY <1>9 DEF pid

LEMMA MergeNextIs ==
    ASSUME NEW p, IsPage(p), NEW s \in SpanId, NEW r \in SpanId, s # r,
           r = p.map[p.span[s]._pageid + p.span[s]._npage], Mergeable(p, s, r)
    PROVE  MergeNext(p, s) = MergedRec(p, s, r, p.span[s]._pageid)
<1> DEFINE l == [p.list EXCEPT ![p.span[r]._npage] = RemoveFirst(p.list[p.span[r]._npage], r)]
           d == [p.span EXCEPT ![r] = SpanOf(0, 0)]
           D == Delete(Erase(p, r), r)
           pid == p.span[s]._pageid
           k == p.span[r]._npage
<1>1. D = Rec(d, l, p.map, p.free \cup {r}, p.top, p.blocks) /\ d[s] = p.span[s]
  BY DeletedRec, Zenon
<1>2. MergeNext(p, s) = [D EXCEPT !.span[s]._npage = @ + k]
  BY DEF MergeNext
<1>3. d[s]._pageid = pid
  BY <1>1, Zenon
<1> HIDE DEF l, D, pid, k, d
<1>4. D.span = d /\ IsRec(D) /\ D.list = l /\ D.map = p.map /\ D.free = p.free \cup {r}
      /\ D.top = p.top /\ D.blocks = p.blocks
  <2> DEFINE fr == p.free \cup {r}
  <2>1. D = Rec(d, l, p.map, fr, p.top, p.blocks)
    BY <1>1
  <2> HIDE DEF fr
  <2>2. IsRec(D)
    BY <2>1, RecFields
  <2>3. D.span = d /\ D.list = l /\ D.map = p.map
    BY <2>1, RecFields
  <2>4. D.free = fr /\ D.top = p.top /\ D.blocks = p.blocks
    BY <2>1, RecFields
  <2> QED BY <2>2, <2>3, <2>4 DEF fr
<1> DEFINE e == [d EXCEPT ![s] = Moved(d[s], pid, d[s]._npage + k)]
<1>5. MergeNext(p, s) = [D EXCEPT !.span = e]
  <2>1. d \in [SpanId -> SpanRec]
    BY DEF IsPage, d, SpanOf, SpanRec
  <2>2. d[s] \in SpanRec
    BY <2>1
  <2>3. [d[s] EXCEPT !._npage = d[s]._npage + k] = Moved(d[s], pid, d[s]._npage + k)
    <3> DEFINE z == d[s]
               n == d[s]._npage + k
    <3>1. z \in SpanRec /\ z._pageid = pid
      BY <1>3, <2>2
    <3> HIDE DEF z, n
    <3>2. z = [_pageid |-> pid, _npage |-> z._npage, _isUse |-> z._isUse, _objsize |-> z._objsize]
      BY <3>1 DEF SpanRec
    <3>3. [z EXCEPT !._pageid = pid] = z
      BY <3>2
    <3>4. [z EXCEPT !._npage = n] = [z EXCEPT !._pageid = pid, !._npage = n]
      BY <3>3
    <3> QED BY <3>4 DEF Moved, z, n
  <2>4. [D EXCEPT !.span[s]._npage = @ + k]
          = [D EXCEPT !.span = [d EXCEPT ![s] = [d[s] EXCEPT !._npage = d[s]._npage + k]]]
    BY <1>4
  <2> QED BY <1>2, <2>3, <2>4
<1>6. MergeNext(p, s) = Rec(e, l, p.map, p.free \cup {r}, p.top, p.blocks)
  <2> HIDE DEF e
  <2> QED BY <1>4, <1>5, RecSpan, SMTT(30)
<1>7. e = [p.span EXCEPT ![r] = SpanOf(0, 0), ![s] = Moved(p.span[s], pid, p.span[s]._npage + k)]
  BY <1>1 DEF d
<1>8. MergedRec(p, s, r, pid)
        = Rec([p.span EXCEPT ![r] = SpanOf(0, 0), ![s] = Moved(p.span[s], pid, p.span[s]._npage + k)],
              l, p.map, p.free \cup {r}, p.top, p.blocks)
  BY Zenon DEF MergedRec, l, k
<1> HIDE DEF e
<1>9. MergeNext(p, s) = MergedRec(p, s, r, pid)
  BY <1>6, <1>7, <1>8, Zenon
<1> QED BY <1>9 DEF pid

(* One turn of either loop of relase_to_PageCache. *)
LEMMA MergePrevOK ==
    ASSUME NEW p, NEW s, Merging(p, s)
    PROVE  Merging(MergePrev(p, s), s) /\ Kept(p, MergePrev(p, s), s)
<1> DEFINE a == p.span[s]._pageid - 1
           r == p.map[a]
<1>1. CASE ~Mergeable(p, s, r)
  <2>1. MergePrev(p, s) = p
    BY <1>1 DEF MergePrev
  <2> QED BY <2>1, KeptRefl
<1>2. CASE Mergeable(p, s, r)
  <2>1. a \in Page /\ r # null
    BY <1>2, NeighbourPages DEF Mergeable
  <2>2. /\ r \in LiveIn(p) /\ r # s
        /\ p.span[s]._pageid = p.span[r]._pageid + p.span[r]._npage
    BY <2>1, NeighbourFound
  <2>3. /\ IsPage(p) /\ s \in LiveIn(p) /\ s \in SpanId /\ r \in SpanId
        /\ Tiled(p, s) /\ p.span[s]._isUse
    BY <2>2, SMTT(30) DEF Merging, Tiled, LiveIn
  <2>4. MergePrev(p, s) = MergedRec(p, s, r, p.span[r]._pageid)
    BY <1>2, <2>2, <2>3, MergePrevIs
  <2>5. ~p.span[r]._isUse /\ p.span[s]._npage + p.span[r]._npage < NPAGES
    <3>1. /\ p.span[s]._npage \in Nat /\ p.span[r]._npage \in Nat
      BY <2>2, <2>3, LivePages DEF Tiled
    <3>2. p.span[r]._npage + p.span[s]._npage < NPAGES /\ ~p.span[r]._isUse
      BY <1>2 DEF Mergeable
    <3> QED BY <3>1, <3>2, SMTT(30)
  <2> HIDE DEF r
  <2>6. /\ Tiled(MergePrev(p, s), s) /\ s \in LiveIn(MergePrev(p, s))
        /\ MergePrev(p, s).span[s]._isUse /\ Kept(p, MergePrev(p, s), s)
    BY <2>2, <2>3, <2>4, <2>5, MergeOK
  <2> QED BY <2>6 DEF Merging
<1> QED BY <1>1, <1>2

LEMMA MergeNextOK ==
    ASSUME NEW p, NEW s, Merging(p, s)
    PROVE  Merging(MergeNext(p, s), s) /\ Kept(p, MergeNext(p, s), s)
<1> DEFINE a == p.span[s]._pageid + p.span[s]._npage
           r == p.map[a]
<1>1. CASE ~Mergeable(p, s, r)
  <2>1. MergeNext(p, s) = p
    BY <1>1 DEF MergeNext
  <2> QED BY <2>1, KeptRefl
<1>2. CASE Mergeable(p, s, r)
  <2>1. a \in Page /\ r # null
    BY <1>2, NeighbourPages DEF Mergeable
  <2>2. /\ r \in LiveIn(p) /\ r # s
        /\ p.span[r]._pageid = p.span[s]._pageid + p.span[s]._npage
    BY <2>1, NeighbourFound
  <2>3. /\ IsPage(p) /\ s \in LiveIn(p) /\ s \in SpanId /\ r \in SpanId
        /\ Tiled(p, s) /\ p.span[s]._isUse
    BY <2>2 DEF Merging, Tiled, LiveIn
  <2>4. MergeNext(p, s) = MergedRec(p, s, r, p.span[s]._pageid)
    BY <1>2, <2>2, <2>3, MergeNextIs
  <2>5. ~p.span[r]._isUse /\ p.span[s]._npage + p.span[r]._npage < NPAGES
    <3>1. /\ p.span[s]._npage \in Nat /\ p.span[r]._npage \in Nat
      BY <2>2, <2>3, LivePages DEF Tiled
    <3>2. p.span[r]._npage + p.span[s]._npage < NPAGES /\ ~p.span[r]._isUse
      BY <1>2 DEF Mergeable
    <3> QED BY <3>1, <3>2
  <2> HIDE DEF r
  <2>6. /\ Tiled(MergeNext(p, s), s) /\ s \in LiveIn(MergeNext(p, s))
        /\ MergeNext(p, s).span[s]._isUse /\ Kept(p, MergeNext(p, s), s)
    BY <2>2, <2>3, <2>4, <2>5, MergeOK
  <2> QED BY <2>6 DEF Merging
<1> QED BY <1>1, <1>2

(* The loops.  A turn is one of MergePrev or, for prev = FALSE, MergeNext;   *)
(* f lists what n turns make of p.                                          *)
Turn(prev, q, s) == IF prev THEN MergePrev(q, s) ELSE MergeNext(q, s)

Turns(f, n, prev, p, s) ==
    f = [i \in 0 .. n |-> IF i = 0 THEN p ELSE Turn(prev, f[i - 1], s)]

LEMMA TurnsExist ==
    ASSUME NEW prev, NEW p, NEW s
    PROVE  \A n \in Nat : \E f : Turns(f, n, prev, p, s)
<1> DEFINE T == {n \in Nat : ~\E f : Turns(f, n, prev, p, s)}
<1> SUFFICES ASSUME T # {} PROVE FALSE
  OBVIOUS
<1>1. PICK n \in T : \A m \in T : n <= m
  <2>1. T \subseteq Nat
    OBVIOUS
  <2> HIDE DEF T
  <2> QED BY <2>1, NatMin
<1>2. n \in Nat /\ ~\E f : Turns(f, n, prev, p, s)
  OBVIOUS
<1>3. CASE n = 0
  <2> DEFINE g == [i \in 0 .. n |-> p]
  <2>1. Turns(g, n, prev, p, s)
    BY <1>3 DEF Turns
  <2> QED BY <1>2, <2>1
<1>4. CASE n # 0
  <2>1. n - 1 \in Nat /\ ~(n <= n - 1)
    BY <1>2, <1>4
  <2>2. n - 1 \notin T
    BY <1>1, <2>1
  <2>3. PICK f : Turns(f, n - 1, prev, p, s)
    BY <2>1, <2>2
  <2> DEFINE g == [i \in 0 .. n |-> IF i < n THEN f[i] ELSE Turn(prev, f[n - 1], s)]
             h == [i \in 0 .. n |-> IF i = 0 THEN p ELSE Turn(prev, g[i - 1], s)]
  <2>4. \A i \in 0 .. (n - 1) : f[i] = IF i = 0 THEN p ELSE Turn(prev, f[i - 1], s)
    BY <2>3 DEF Turns
  <2>5. ASSUME NEW i \in 0 .. n PROVE g[i] = h[i]
    <3>1. CASE i = n
      <4>1. n - 1 \in 0 .. n /\ n - 1 < n /\ n \in 0 .. n
        BY <1>2, <2>1
      <4>2. g[n - 1] = f[n - 1] /\ g[n] = Turn(prev, f[n - 1], s)
        BY <1>2, <4>1
      <4> QED BY <1>4, <3>1, <4>1, <4>2
    <3>2. CASE i # n
      <4>1. i \in 0 .. (n - 1) /\ i < n
        BY <1>2, <3>2
      <4>2. g[i] = f[i]
        BY <4>1
      <4>3. i # 0 => i - 1 \in 0 .. n /\ i - 1 < n
        BY <1>2, <4>1
      <4>4. i # 0 => g[i - 1] = f[i - 1]
        BY <4>3
      <4> QED BY <2>4, <4>1, <4>2, <4>4
    <3> QED BY <3>1, <3>2
  <2>6. g = h
    BY <2>5
  <2>7. Turns(g, n, prev, p, s)
    BY <2>6 DEF Turns
  <2> QED BY <1>2, <2>7
<1> QED BY <1>3, <1>4

LEMMA TurnsOK ==
    ASSUME NEW prev \in BOOLEAN, NEW p, NEW s, Merging(p, s), NEW n \in Nat,
           NEW f, Turns(f, n, prev, p, s)
    PROVE  Merging(f[n], s) /\ Kept(p, f[n], s)
<1> DEFINE Good(i) == Merging(f[i], s) /\ Kept(p, f[i], s)
           T == {i \in 0 .. n : ~Good(i)}
<1>1. f[0] = p /\ \A i \in 1 .. n : f[i] = Turn(prev, f[i - 1], s)
  BY DEF Turns
<1> SUFFICES ASSUME T # {} PROVE FALSE
  OBVIOUS
<1>2. PICK i \in T : \A j \in T : i <= j
  <2>1. T \subseteq Nat
    OBVIOUS
  <2> HIDE DEF T
  <2> QED BY <2>1, NatMin
<1>3. i \in 0 .. n /\ ~Good(i)
  OBVIOUS
<1>4. i # 0
  <2>1. Good(0)
    BY <1>1, KeptRefl
  <2> HIDE DEF Good
  <2> QED BY <1>3, <2>1
<1>5. i \in 1 .. n /\ i - 1 \in 0 .. n /\ ~(i <= i - 1)
  BY <1>3, <1>4
<1>6. Good(i - 1)
  <2> HIDE DEF Good
  <2> QED BY <1>2, <1>5
<1>7. f[i] = Turn(prev, f[i - 1], s)
  BY <1>1, <1>5
<1>8. Merging(f[i], s) /\ Kept(f[i - 1], f[i], s)
  <2>1. CASE prev
    BY <1>6, <1>7, <2>1, MergePrevOK DEF Turn
  <2>2. CASE ~prev
    BY <1>6, <1>7, <2>2, MergeNextOK DEF Turn
  <2> QED BY <2>1, <2>2
<1>9. Kept(p, f[i], s)
  BY <1>6, <1>8, KeptTrans
<1> QED BY <1>3, <1>8, <1>9

LEMMA LoopsOK ==
    ASSUME NEW p, NEW s, Merging(p, s)
    PROVE  LET m == MergeAllNext(MergeAllPrev(p, s), s)
           IN  Merging(m, s) /\ Kept(p, m, s)
<1>1. NPAGES \in Nat
  BY PoolAssumption
<1>2. ASSUME NEW q, Merging(q, s)
      PROVE  Merging(MergeAllPrev(q, s), s) /\ Kept(q, MergeAllPrev(q, s), s)
  <2> DEFINE F(f) == f = [i \in 0 .. NPAGES |-> IF i = 0 THEN q ELSE MergePrev(f[i - 1], s)]
             g == CHOOSE f : F(f)
  <2>1. \E f : F(f)
    <3>1. PICK f : Turns(f, NPAGES, TRUE, q, s)
      BY <1>1, TurnsExist
    <3>2. F(f)
      BY <3>1 DEF Turns, Turn
    <3> QED BY <3>2
  <2>2. F(g)
    <3> HIDE DEF F
    <3> QED BY <2>1, Zenon
  <2>3. MergeAllPrev(q, s) = g[NPAGES]
    BY DEF MergeAllPrev
  <2> HIDE DEF g
  <2>4. Turns(g, NPAGES, TRUE, q, s)
    BY <2>2 DEF Turns, Turn
  <2> QED BY <1>1, <1>2, <2>3, <2>4, TurnsOK
<1>3. ASSUME NEW q, Merging(q, s)
      PROVE  Merging(MergeAllNext(q, s), s) /\ Kept(q, MergeAllNext(q, s), s)
  <2> DEFINE F(f) == f = [i \in 0 .. NPAGES |-> IF i = 0 THEN q ELSE MergeNext(f[i - 1], s)]
             g == CHOOSE f : F(f)
  <2>1. \E f : F(f)
    <3>1. PICK f : Turns(f, NPAGES, FALSE, q, s)
      BY <1>1, TurnsExist
    <3>2. F(f)
      BY <3>1 DEF Turns, Turn
    <3> QED BY <3>2
  <2>2. F(g)
    <3> HIDE DEF F
    <3> QED BY <2>1, Zenon
  <2>3. MergeAllNext(q, s) = g[NPAGES]
    BY DEF MergeAllNext
  <2> HIDE DEF g
  <2>4. Turns(g, NPAGES, FALSE, q, s)
    BY <2>2 DEF Turns, Turn
  <2> QED BY <1>1, <1>3, <2>3, <2>4, TurnsOK
<1> QED BY <1>2, <1>3, KeptTrans

(* Lists li differ from p's in span s only, which is where rec says. *)
Relisted(p, s, rec, li) ==
    /\ li \in [Lists -> Seq(SpanId)]
    /\ \A m \in Lists : IsInjective(li[m])
    /\ \A m \in Lists : \A y \in SpanId :
         Contains(li[m], y) <=> IF y = s THEN m = rec._npage /\ ~rec._isUse
                                ELSE Contains(p.list[m], y)

Flagged(p, s, rec, li, E) ==
    Rec([p.span EXCEPT ![s] = rec], li,
        [a \in Page |-> IF a \in E THEN s ELSE p.map[a]], p.free, p.top, p.blocks)

(* With the pages E mapped to s no span is exempt any longer. *)
EnoughMapped(p, x, s, rec, E) ==
    \/ x = null /\ rec._isUse
    \/ x = s /\ Ends(p.span[s]) \subseteq E
    \/ /\ x = s /\ rec._isUse /\ p.span[s]._pageid \in E
       /\ p.span[s]._npage = NPAGES - 1
       /\ \A a \in Ends(p.span[s]) : p.map[a] = null

Flaggable(p, x, s, rec, li, E) ==
    /\ Tiled(p, x) /\ s \in LiveIn(p)
    /\ rec \in SpanRec /\ rec._pageid = p.span[s]._pageid /\ rec._npage = p.span[s]._npage
    /\ Relisted(p, s, rec, li)
    /\ E \subseteq Pages(p.span[s]) /\ EnoughMapped(p, x, s, rec, E)

FlagDone(p, q, s, rec) ==
    Tiled(q, null) /\ Kept(p, q, s) /\ LiveIn(q) = LiveIn(p) /\ q.span[s] = rec

(* Span s is put into use or taken out of use: its flag and its place in    *)
(* the lists change together, and pages of its own (E) are mapped to it.    *)
LEMMA FlagOK ==
    ASSUME NEW p, NEW x, NEW s, NEW rec, NEW li, NEW E, Flaggable(p, x, s, rec, li, E),
           NEW q, q = Flagged(p, s, rec, li, E)
    PROVE  FlagDone(p, q, s, rec)
<1> USE DEF Tiled, Flaggable
<1>0. li \in [Lists -> Seq(SpanId)]
  BY DEF Relisted
<1> DEFINE S == p.span[s]
           sp == [p.span EXCEPT ![s] = rec]
           ma == [a \in Page |-> IF a \in E THEN s ELSE p.map[a]]
<1>1. /\ s \in SpanId /\ S._pageid \in Nat /\ S._npage \in Nat /\ 1 <= S._pageid /\ 1 <= S._npage
      /\ S._npage \in Lists /\ S._pageid + S._npage <= p.top
  BY LivePages
<1>2. Pages(rec) = Pages(S) /\ Ends(rec) = Ends(S)
  BY DEF Pages, Ends
<1>3. sp \in [SpanId -> SpanRec] /\ sp[s] = rec /\ \A y \in SpanId : y # s => sp[y] = p.span[y]
  BY <1>1 DEF IsPage
<1>4. /\ ma \in [Page -> SpanId \cup {null}]
      /\ \A a \in Page : ma[a] = IF a \in E THEN s ELSE p.map[a]
  BY <1>1 DEF IsPage
<1> HIDE DEF sp, ma
<1>5. q = Rec(sp, li, ma, p.free, p.top, p.blocks)
  BY DEF sp, ma, Flagged
<1>6. /\ q.span = sp /\ q.list = li /\ q.map = ma /\ q.free = p.free
      /\ q.top = p.top /\ q.blocks = p.blocks /\ IsRec(q)
  BY <1>5, RecFields
<1>7. LiveIn(q) = LiveIn(p) /\ LiveIn(p) \subseteq SpanId
  BY <1>6 DEF LiveIn
<1>8. \A y \in LiveIn(q) : y # s => q.span[y] = p.span[y]
  BY <1>3, <1>6, <1>7
<1>9. q.span[s] = rec
  BY <1>3, <1>6
<1>10. \A y \in LiveIn(q) : Pages(q.span[y]) = Pages(p.span[y]) /\ Ends(q.span[y]) = Ends(p.span[y])
  BY <1>2, <1>8, <1>9
<1>11. IsPage(q)
  BY <1>0, <1>3, <1>4, <1>6 DEF IsPage
<1>12. Room(q)
  BY <1>6 DEF Room
<1>13. Placed(q)
  <2> SUFFICES ASSUME NEW y \in LiveIn(q)
               PROVE  /\ q.span[y]._npage \in Lists
                      /\ 1 <= q.span[y]._pageid /\ q.span[y]._pageid + q.span[y]._npage <= q.top
    BY DEF Placed
  <2>1. CASE y = s
    BY <1>1, <1>6, <1>9, <2>1
  <2>2. CASE y # s
    BY <1>6, <1>7, <1>8, <2>2 DEF Placed
  <2> QED BY <2>1, <2>2
<1>14. Apart(q)
  BY <1>7, <1>10 DEF Apart
<1>15. Listed(q)
  <2> SUFFICES ASSUME NEW n \in Lists
               PROVE  /\ IsInjective(q.list[n])
                      /\ \A y \in SpanId : Contains(q.list[n], y)
                           <=> y \in LiveIn(q) /\ n = q.span[y]._npage /\ ~q.span[y]._isUse
    BY DEF Listed
  <2>1. IsInjective(q.list[n])
    BY <1>6 DEF Relisted
  <2>2. ASSUME NEW y \in SpanId
        PROVE  Contains(q.list[n], y)
                 <=> y \in LiveIn(q) /\ n = q.span[y]._npage /\ ~q.span[y]._isUse
    <3>1. Contains(q.list[n], y) <=> IF y = s THEN n = rec._npage /\ ~rec._isUse
                                     ELSE Contains(p.list[n], y)
      BY <1>6 DEF Relisted
    <3>2. CASE y = s
      BY <1>7, <1>9, <3>1, <3>2
    <3>3. CASE y # s
      <4>1. Contains(p.list[n], y) <=> y \in LiveIn(p) /\ n = p.span[y]._npage /\ ~p.span[y]._isUse
        BY DEF Listed
      <4> QED BY <1>3, <1>6, <1>7, <3>1, <3>3, <4>1
    <3> QED BY <3>2, <3>3
  <2> QED BY <2>1, <2>2
<1>16. \A y \in LiveIn(p) : Pages(p.span[y]) \subseteq Page
  <2> TAKE y \in LiveIn(p)
  <2>1. 0 .. p.top \subseteq Page /\ p.top \in Nat
    BY TopInPage DEF IsPage
  <2>2. /\ p.span[y]._pageid \in Nat /\ p.span[y]._npage \in Nat
        /\ p.span[y]._pageid + p.span[y]._npage <= p.top
        /\ Pages(p.span[y]) = p.span[y]._pageid .. (p.span[y]._pageid + p.span[y]._npage - 1)
    BY LivePages
  <2> QED BY <2>1, <2>2
<1>17. \A y \in LiveIn(p) : Ends(p.span[y]) \subseteq Pages(p.span[y])
  <2> TAKE y \in LiveIn(p)
  <2>1. /\ p.span[y]._pageid \in Nat /\ p.span[y]._npage \in Nat /\ 1 <= p.span[y]._npage
        /\ Pages(p.span[y]) = p.span[y]._pageid .. (p.span[y]._pageid + p.span[y]._npage - 1)
        /\ Ends(p.span[y]) = {p.span[y]._pageid, p.span[y]._pageid + p.span[y]._npage - 1}
    BY LivePages
  <2> QED BY <2>1
<1>18. \A y \in LiveIn(p) : y # s => \A a \in Pages(p.span[y]) : a \notin E /\ q.map[a] = p.map[a]
  <2> SUFFICES ASSUME NEW y \in LiveIn(p), y # s, NEW a \in Pages(p.span[y])
               PROVE  a \notin E /\ q.map[a] = p.map[a]
    OBVIOUS
  <2>1. Pages(p.span[y]) \cap Pages(p.span[s]) = {}
    BY Zenon DEF Apart
  <2>2. a \notin E /\ a \in Page
    BY <1>16, <2>1
  <2> QED BY <1>4, <1>6, <2>2
<1>19. EndsMapped(q, null)
  <2> SUFFICES ASSUME NEW y \in LiveIn(q), NEW a \in Ends(q.span[y])
               PROVE  q.map[a] = y \/ LastUnmapped(q, y, a)
    BY DEF EndsMapped
  <2>1. y \in LiveIn(p) /\ a \in Ends(p.span[y]) /\ a \in Pages(p.span[y]) /\ a \in Page
    BY <1>7, <1>10, <1>16, <1>17
  <2>2. CASE y # s
    <3>1. y # x
      BY <1>7, <2>1, <2>2, PoolSizes DEF EnoughMapped
    <3>2. p.map[a] = y \/ LastUnmapped(p, y, a)
      BY <2>1, <3>1 DEF EndsMapped
    <3>3. q.span[y] = p.span[y] /\ q.map[a] = p.map[a]
      BY <1>8, <1>18, <2>1, <2>2
    <3> QED BY <3>2, <3>3 DEF LastUnmapped
  <2>3. CASE y = s /\ a \in E
    BY <1>4, <1>6, <2>1, <2>3
  <2>4. CASE y = s /\ a \notin E
    <3>1. q.map[a] = p.map[a]
      BY <1>4, <1>6, <2>1, <2>4
    <3>2. CASE x = null /\ rec._isUse
      <4>1. y # x
        BY <1>7, <2>1, <3>2, PoolSizes
      <4>2. p.map[a] = y \/ LastUnmapped(p, y, a)
        BY <2>1, <4>1 DEF EndsMapped
      <4> QED BY <1>9, <2>4, <3>1, <3>2, <4>2 DEF LastUnmapped
    <3>3. CASE x = s /\ Ends(p.span[s]) \subseteq E
      BY <2>1, <2>4, <3>3
    <3>4. CASE /\ x = s /\ rec._isUse /\ p.span[s]._pageid \in E
               /\ p.span[s]._npage = NPAGES - 1
               /\ \A c \in Ends(p.span[s]) : p.map[c] = null
      <4>1. p.map[a] = null /\ a # rec._pageid
        BY <2>1, <2>4, <3>4
      <4> QED BY <1>9, <2>4, <3>1, <3>4, <4>1 DEF LastUnmapped
    <3> QED BY <3>2, <3>3, <3>4 DEF EnoughMapped
  <2> QED BY <2>2, <2>3, <2>4
<1>20. Covered(q) = Covered(p)
  <2>1. \A a : a \in Covered(q) <=> a \in Covered(p)
    BY <1>7, <1>10, CoveredDef
  <2> QED BY <2>1
<1>21. OnlyCovered(q)
  <2> SUFFICES ASSUME NEW a \in Page, q.map[a] # null PROVE a \in Covered(q)
    BY DEF OnlyCovered
  <2>1. CASE a \in E
    BY <1>20, <2>1, CoveredDef
  <2>2. CASE a \notin E
    BY <1>4, <1>6, <1>20, <2>2 DEF OnlyCovered
  <2> QED BY <2>1, <2>2
<1>22. Counts(q)
  BY <1>6, <1>20 DEF Counts
<1>23. Kept(p, q, s)
  <2>1. UseIn(q) \ {s} = UseIn(p) \ {s}
    BY <1>7, <1>8 DEF UseIn
  <2>2. ASSUME NEW y \in UseIn(p), y # s
        PROVE  q.span[y] = p.span[y] /\ \A a \in Pages(p.span[y]) : q.map[a] = p.map[a]
    BY <1>7, <1>8, <1>18, <2>2 DEF UseIn
  <2> QED BY <1>6, <1>20, <2>1, <2>2 DEF Kept
<1> QED
  BY <1>7, <1>9, <1>11, <1>12, <1>13, <1>14, <1>15, <1>19, <1>21, <1>22, <1>23 DEF FlagDone

(* relase_to_PageCache keeps PageCache in order: whatever spans lie around   *)
(* the one that is given back, after the merges, the push and the two        *)
(* entries in the map, the live spans still tile the blocks, each idle one   *)
(* is in the list of its length, the ends of each map to it, and no other    *)
(* span in use, nor what its pages map to, has changed.                      *)
THEOREM PageCacheRelease ==
    ASSUME NEW p, Tiled(p, null), NEW s \in LiveIn(p), p.span[s]._isUse
    PROVE  LET q == relase_to_PageCache(p, s)
           IN  Tiled(q, null) /\ s \in LiveIn(q) /\ ~q.span[s]._isUse /\ Kept(p, q, s)
<1> DEFINE m == MergeAllNext(MergeAllPrev(p, s), s)
           n == m.span[s]._npage
           rec == [m.span[s] EXCEPT !._isUse = FALSE]
           li == [m.list EXCEPT ![n] = <<s>> \o m.list[n]]
           E == Ends(m.span[s])
           push == PushFront(m, s)
           idle == [push EXCEPT !.span[s]._isUse = FALSE]
<1>1. Merging(p, s)
  <2>1. EndsMapped(p, s)
    BY PoolSizes DEF Tiled, EndsMapped, LiveIn
  <2> QED BY <2>1 DEF Merging, Tiled
<1>2. Merging(m, s) /\ Kept(p, m, s)
  BY <1>1, LoopsOK
<1>3. relase_to_PageCache(p, s) = SetMap(idle, E, s)
  BY DEF relase_to_PageCache
<1> HIDE DEF m
<1>4. /\ IsPage(m) /\ IsRec(m) /\ Placed(m) /\ Listed(m) /\ s \in LiveIn(m)
      /\ m.span[s]._isUse /\ Tiled(m, s)
  BY <1>2 DEF Merging, Tiled, IsPage
<1>5. /\ s \in SpanId /\ m.span[s] \in SpanRec /\ n \in Lists /\ m.span[s]._pageid \in Nat
      /\ n \in Nat /\ 1 <= n
      /\ Pages(m.span[s]) = m.span[s]._pageid .. (m.span[s]._pageid + n - 1)
      /\ E = {m.span[s]._pageid, m.span[s]._pageid + n - 1}
  BY <1>4, LivePages
<1>6. E \subseteq Pages(m.span[s])
  BY <1>5
<1>7. /\ rec \in SpanRec /\ rec._pageid = m.span[s]._pageid /\ rec._npage = m.span[s]._npage
      /\ ~rec._isUse
  BY <1>5 DEF SpanRec
<1>8. push = Rec(m.span, li, m.map, m.free, m.top, m.blocks)
  BY <1>4, PushFrontPage
<1>9. /\ push.span = m.span /\ push.list = li /\ push.map = m.map /\ push.free = m.free
      /\ push.top = m.top /\ push.blocks = m.blocks /\ IsRec(push)
  <2> HIDE DEF li, push
  <2> QED BY <1>8, RecFields
<1> DEFINE sp == [m.span EXCEPT ![s] = rec]
<1>10. idle = Rec(sp, li, m.map, m.free, m.top, m.blocks)
  <2> HIDE DEF li, push
  <2>1. idle = [push EXCEPT !.span = sp]
    BY <1>9
  <2> HIDE DEF sp, idle
  <2> QED BY <1>9, <2>1, RecSpan
<1>11. ~Contains(m.list[n], s) /\ \A k \in Lists : IsInjective(m.list[k])
  BY <1>4, <1>5 DEF Listed
<1>12. /\ li \in [Lists -> Seq(SpanId)]
       /\ \A k \in Lists : IsInjective(li[k])
       /\ \A k \in Lists : \A x \in SpanId : Contains(li[k], x)
                                       <=> Contains(m.list[k], x) \/ (k = n /\ x = s)
  BY <1>4, <1>5, <1>11, PushedLists
<1> HIDE DEF li, sp, rec, idle
<1>13. /\ idle.span = sp /\ idle.list = li /\ idle.map = m.map /\ idle.free = m.free
       /\ idle.top = m.top /\ idle.blocks = m.blocks /\ IsRec(idle)
  BY <1>10, RecFields
<1> DEFINE q == SetMap(idle, E, s)
<1>14. q = Rec([m.span EXCEPT ![s] = rec], li, [a \in Page |-> IF a \in E THEN s ELSE m.map[a]],
               m.free, m.top, m.blocks)
  <2> HIDE DEF E
  <2> QED BY <1>13, SetMapPage DEF sp
<1>15. Relisted(m, s, rec, li)
  <2>1. ASSUME NEW k \in Lists, NEW x \in SpanId
        PROVE  Contains(li[k], x) <=> IF x = s THEN k = rec._npage /\ ~rec._isUse
                                      ELSE Contains(m.list[k], x)
    <3>1. Contains(m.list[k], s) <=> FALSE
      BY <1>4, <1>5 DEF Listed
    <3> QED BY <1>7, <1>12, <3>1
  <2> QED BY <1>12, <2>1 DEF Relisted
<1> HIDE DEF q, E, n
<1>16. Tiled(q, null) /\ Kept(m, q, s) /\ LiveIn(q) = LiveIn(m) /\ q.span[s] = rec
  <2>1. q = Flagged(m, s, rec, li, E)
    BY <1>14 DEF Flagged
  <2>2. Ends(m.span[s]) \subseteq E
    BY DEF E
  <2>3. EnoughMapped(m, s, s, rec, E)
    BY <2>2 DEF EnoughMapped
  <2>4. Flaggable(m, s, s, rec, li, E)
    BY <1>4, <1>6, <1>7, <1>15, <2>3 DEF Flaggable
  <2>5. FlagDone(m, q, s, rec)
    BY <2>1, <2>4, FlagOK
  <2> QED BY <2>5 DEF FlagDone
<1>17. Kept(p, q, s)
  BY <1>2, <1>16, KeptTrans
<1> QED BY <1>3, <1>4, <1>7, <1>16, <1>17 DEF q

(* A span record that new_Span's caller has marked. *)
Used(r, size) == [r EXCEPT !._isUse = TRUE, !._objsize = size]

(* The page record once get_one_Span has marked the span new_Span returned. *)
Marked(r, size) ==
    [r.page EXCEPT !.span[r.span]._isUse = TRUE, !.span[r.span]._objsize = size]

LEMMA UsedOK ==
    ASSUME NEW r \in SpanRec, NEW size \in Nat
    PROVE  /\ Used(r, size) \in SpanRec /\ Used(r, size)._pageid = r._pageid
           /\ Used(r, size)._npage = r._npage /\ Used(r, size)._isUse
           /\ Used(r, size)._objsize = size
<1> DEFINE x == [r EXCEPT !._isUse = TRUE]
<1>1. x \in SpanRec /\ x._pageid = r._pageid /\ x._npage = r._npage
  BY DEF SpanRec
<1>2. x._isUse
  BY DEF SpanRec
<1>3. Used(r, size) = [x EXCEPT !._objsize = size]
  BY DEF Used
<1> HIDE DEF x
<1> DEFINE y == [x EXCEPT !._objsize = size]
<1>4. y \in SpanRec /\ y._pageid = x._pageid /\ y._npage = x._npage /\ y._objsize = size
  BY <1>1 DEF SpanRec
<1>5. y._isUse
  BY <1>1, <1>2 DEF SpanRec
<1> QED BY <1>1, <1>3, <1>4, <1>5

LEMMA MarkedRec ==
    ASSUME NEW r, NEW p, r.page = p, IsRec(p), NEW s, r.span = s,
           s \in DOMAIN p.span, NEW size
    PROVE  Marked(r, size) =
             Rec([p.span EXCEPT ![s] = Used(p.span[s], size)], p.list, p.map, p.free, p.top, p.blocks)
<1> DEFINE x == [p.span EXCEPT ![s]._isUse = TRUE]
           y == [x EXCEPT ![s]._objsize = size]
           z == [p EXCEPT !.span = x]
<1>1. y = [p.span EXCEPT ![s] = Used(p.span[s], size)]
  <2> DEFINE S == [p.span[s] EXCEPT !._isUse = TRUE]
  <2>1. x[s] = S
    OBVIOUS
  <2>2. y = [x EXCEPT ![s] = [S EXCEPT !._objsize = size]]
    BY <2>1
  <2>3. Used(p.span[s], size) = [S EXCEPT !._objsize = size]
    BY DEF Used
  <2> HIDE DEF S
  <2> DEFINE T == [S EXCEPT !._objsize = size]
  <2> HIDE DEF T
  <2>4. [x EXCEPT ![s] = T] = [p.span EXCEPT ![s] = T]
    OBVIOUS
  <2> QED BY <2>2, <2>3, <2>4 DEF T
<1>2. z = Rec(x, p.list, p.map, p.free, p.top, p.blocks)
  <2> HIDE DEF x
  <2> QED BY RecSpan
<1>3. /\ z.span = x /\ z.list = p.list /\ z.map = p.map /\ z.free = p.free
      /\ z.top = p.top /\ z.blocks = p.blocks /\ IsRec(z)
  <2> HIDE DEF x, z
  <2> QED BY <1>2, RecFields
<1>4. Marked(r, size) = [z EXCEPT !.span[s]._objsize = size]
  BY DEF Marked
<1>5. Marked(r, size) = [z EXCEPT !.span = y]
  <2> HIDE DEF x, z
  <2> QED BY <1>3, <1>4
<1> HIDE DEF x, y, z
<1>6. Marked(r, size) = Rec(y, z.list, z.map, z.free, z.top, z.blocks)
  BY <1>3, <1>5, RecSpan, SMTT(30)
<1> QED BY <1>1, <1>3, <1>6

(* From p to q span s of n pages was put into use, and nothing happened to  *)
(* the spans that were in use before.                                       *)
Given(p, q, s, n, size) ==
    /\ s \notin UseIn(p) /\ UseIn(q) = UseIn(p) \cup {s}
    /\ q.span[s]._npage = n /\ q.span[s]._objsize = size
    /\ Covered(p) \subseteq Covered(q)
    /\ \A x \in UseIn(p) :
         q.span[x] = p.span[x] /\ \A a \in Pages(p.span[x]) : q.map[a] = p.map[a]

(* new_Span finds a span of exactly n pages. *)
LEMMA TakeExactOK ==
    ASSUME NEW p, NEW x, Tiled(p, x), NEW n \in Lists, NEW size \in Nat, p.list[n] # <<>>,
           NEW s, s = Head(p.list[n]),
           \/ x = null
           \/ x = s /\ p.span[s]._npage = NPAGES - 1 /\ \A a \in Pages(p.span[s]) : p.map[a] = null,
           NEW q, q = Marked(TakeExact(p, n), size)
    PROVE  Tiled(q, null) /\ Given(p, q, s, n, size) /\ q.blocks = p.blocks
<1> DEFINE S == p.span[s]
           li == [p.list EXCEPT ![n] = RemoveFirst(p.list[n], s)]
           E == {S._pageid}
           ma == [a \in Page |-> IF a \in E THEN s ELSE p.map[a]]
           e == Erase(p, s)
           m == SetMap(e, E, s)
           rec == Used(S, size)
<1>1. IsPage(p) /\ IsRec(p) /\ Placed(p) /\ Listed(p) /\ p.list[n] \in Seq(SpanId)
  BY DEF Tiled, IsPage
<1>2. s \in SpanId /\ Contains(p.list[n], s)
  BY <1>1, ContainsHead
<1>3. s \in LiveIn(p) /\ n = S._npage /\ ~S._isUse
  BY <1>1, <1>2 DEF Listed
<1>4. /\ S \in SpanRec /\ S._pageid \in Nat /\ S._npage \in Nat /\ 1 <= S._npage
      /\ Pages(S) = S._pageid .. (S._pageid + S._npage - 1)
      /\ Ends(S) = {S._pageid, S._pageid + S._npage - 1}
  BY <1>1, <1>3, LivePages, Zenon
<1>5. e = Rec(p.span, li, p.map, p.free, p.top, p.blocks)
  BY <1>1, <1>3, ErasePage, Zenon
<1> HIDE DEF e, li, S
<1>6. /\ e.span = p.span /\ e.list = li /\ e.map = p.map /\ e.free = p.free
      /\ e.top = p.top /\ e.blocks = p.blocks /\ IsRec(e)
  BY <1>5, RecFields
<1> HIDE DEF E
<1>7. m = Rec(p.span, li, ma, p.free, p.top, p.blocks)
  BY <1>6, SetMapPage
<1> HIDE DEF m, ma
<1>8. /\ m.span = p.span /\ m.list = li /\ m.map = ma /\ m.free = p.free
      /\ m.top = p.top /\ m.blocks = p.blocks /\ IsRec(m)
  BY <1>7, RecFields
<1>9. TakeExact(p, n) = [span |-> s, page |-> m]
  BY DEF TakeExact, m, e, E, S
<1>10. s \in DOMAIN m.span
  BY <1>1, <1>2, <1>8 DEF IsPage
<1>11. q = Rec([p.span EXCEPT ![s] = rec], li, ma, p.free, p.top, p.blocks)
  <2> DEFINE r == TakeExact(p, n)
  <2>1. r.page = m /\ r.span = s
    BY <1>9
  <2> HIDE DEF r
  <2>2. Marked(r, size) =
          Rec([m.span EXCEPT ![s] = Used(m.span[s], size)], m.list, m.map, m.free, m.top, m.blocks)
    BY <1>8, <1>10, <2>1, MarkedRec
  <2> QED BY <1>8, <2>2 DEF r, S
<1>12. /\ rec \in SpanRec /\ rec._pageid = S._pageid /\ rec._npage = S._npage
       /\ rec._isUse /\ rec._objsize = size
  <2>1. rec \in SpanRec /\ rec._pageid = S._pageid /\ rec._npage = S._npage
    BY <1>4, UsedOK
  <2>2. rec._isUse
    BY <1>4, UsedOK
  <2>3. rec._objsize = size
    BY <1>4, UsedOK
  <2> QED BY <2>1, <2>2, <2>3
<1> HIDE DEF rec
<1>13. Relisted(p, s, rec, li)
  <2>1. /\ li \in [Lists -> Seq(SpanId)]
        /\ \A k \in Lists : IsInjective(li[k])
        /\ \A k \in Lists : \A y \in SpanId : Contains(li[k], y)
                                        <=> Contains(p.list[k], y) /\ ~(k = n /\ y = s)
    BY <1>1, <1>2, ErasedLists DEF li
  <2>2. \A k \in Lists : Contains(p.list[k], s) => k = n
    BY <1>1, <1>2, <1>3, Zenon DEF Listed, S
  <2> QED BY <1>12, <2>1, <2>2 DEF Relisted
<1>14. E \subseteq Pages(p.span[s]) /\ EnoughMapped(p, x, s, rec, E)
  <2>1. E \subseteq Pages(S) /\ S._pageid \in E /\ Ends(S) \subseteq Pages(S)
    BY <1>4 DEF E
  <2> QED BY <1>12, <2>1 DEF S, EnoughMapped
<1>15. q = Flagged(p, s, rec, li, E)
  BY <1>11 DEF Flagged, ma
<1>16. Tiled(q, null) /\ Kept(p, q, s) /\ LiveIn(q) = LiveIn(p) /\ q.span[s] = rec
  <2>1. rec._pageid = p.span[s]._pageid /\ rec._npage = p.span[s]._npage
    BY <1>12 DEF S
  <2>2. s \in LiveIn(p) /\ rec \in SpanRec
    BY <1>3, <1>12
  <2>3. E \subseteq Pages(p.span[s])
    BY <1>14
  <2>4. EnoughMapped(p, x, s, rec, E)
    BY <1>14
  <2>5. Flaggable(p, x, s, rec, li, E)
    BY <1>13, <2>1, <2>2, <2>3, <2>4 DEF Flaggable
  <2>6. FlagDone(p, q, s, rec)
    BY <1>15, <2>5, FlagOK
  <2> QED BY <2>6 DEF FlagDone
<1>17. s \notin UseIn(p) /\ s \in UseIn(q)
  BY <1>3, <1>12, <1>16, Zenon DEF UseIn, S
<1>18. UseIn(q) = UseIn(p) \cup {s}
  BY <1>16, <1>17 DEF Kept
<1> QED BY <1>3, <1>12, <1>16, <1>17, <1>18 DEF Kept, Given

(* Lists li differ from p's in span big only, which is in the list of n.    *)
ListedAt(p, big, n, li) ==
    /\ li \in [Lists -> Seq(SpanId)]
    /\ \A m \in Lists : IsInjective(li[m])
    /\ \A m \in Lists : \A y \in SpanId :
         Contains(li[m], y) <=> IF y = big THEN m = n ELSE Contains(p.list[m], y)

(* An idle span big is cut in two: the new span s takes the first pages,    *)
(* with record head, and big keeps the others, with record rest.            *)
Cuttable(p, x, big, s, head, rest, li) ==
    /\ Tiled(p, x) /\ (x = null \/ x = big)
    /\ big \in LiveIn(p) /\ ~p.span[big]._isUse /\ s \in p.free
    /\ head \in SpanRec /\ rest \in SpanRec /\ head._isUse /\ ~rest._isUse
    /\ 1 <= head._npage /\ 1 <= rest._npage
    /\ head._npage + rest._npage = p.span[big]._npage
    /\ head._pageid = p.span[big]._pageid
    /\ rest._pageid = p.span[big]._pageid + head._npage
    /\ ListedAt(p, big, rest._npage, li)

Cut(p, big, s, head, rest, li) ==
    Rec([p.span EXCEPT ![s] = head, ![big] = rest], li,
        [a \in Page |-> IF a \in Pages(head) THEN s ELSE IF a \in Ends(rest) THEN big ELSE p.map[a]],
        p.free \ {s}, p.top, p.blocks)

LEMMA CutPages ==
    \A a, m, k \in Nat : 1 <= m /\ 1 <= k =>
      /\ a .. (a + (m + k) - 1) = (a .. (a + m - 1)) \cup ((a + m) .. (a + m + k - 1))
      /\ (a .. (a + m - 1)) \cap ((a + m) .. (a + m + k - 1)) = {}
OBVIOUS

LEMMA CutOK ==
    ASSUME NEW p, NEW x, NEW big, NEW s, NEW head, NEW rest, NEW li,
           Cuttable(p, x, big, s, head, rest, li),
           NEW q, q = Cut(p, big, s, head, rest, li)
    PROVE  /\ Tiled(q, null) /\ Given(p, q, s, head._npage, head._objsize)
           /\ q.blocks = p.blocks
<1> DEFINE B == p.span[big]
           sp == [p.span EXCEPT ![s] = head, ![big] = rest]
           ma == [a \in Page |-> IF a \in Pages(head) THEN s ELSE IF a \in Ends(rest) THEN big ELSE p.map[a]]
<1>1. /\ IsPage(p) /\ Room(p) /\ Placed(p) /\ Apart(p) /\ Listed(p) /\ OnlyCovered(p) /\ Counts(p)
      /\ EndsMapped(p, x) /\ big \in LiveIn(p) /\ s \in p.free
  BY DEF Cuttable, Tiled
<1>2. /\ big \in SpanId /\ B \in SpanRec /\ B._pageid \in Nat /\ B._npage \in Nat
      /\ 1 <= B._pageid /\ B._pageid + B._npage <= p.top /\ B._npage < NPAGES
      /\ Pages(B) = B._pageid .. (B._pageid + B._npage - 1)
  BY <1>1, LivePages
<1>3. /\ head._npage \in Nat /\ rest._npage \in Nat /\ head._pageid \in Nat /\ rest._pageid \in Nat
      /\ 1 <= head._npage /\ 1 <= rest._npage /\ B._npage = head._npage + rest._npage
      /\ head._pageid = B._pageid /\ rest._pageid = B._pageid + head._npage
      /\ head \in SpanRec /\ rest \in SpanRec
  BY DEF Cuttable, SpanRec
<1>4. s \in SpanId /\ s # big /\ s \notin LiveIn(p) /\ s # null /\ big # null
  BY <1>1, <1>2, PoolSizes DEF IsPage, LiveIn
<1>5. head._isUse /\ ~rest._isUse /\ ~B._isUse
  BY DEF Cuttable
<1> HIDE DEF B
<1>6. /\ Pages(B) = Pages(head) \cup Pages(rest) /\ Pages(head) \cap Pages(rest) = {}
      /\ Ends(head) \subseteq Pages(head) /\ Ends(rest) \subseteq Pages(rest)
  <2> DEFINE a == B._pageid
             m == head._npage
             k == rest._npage
  <2>1. /\ Pages(B) = a .. (a + (m + k) - 1) /\ Pages(head) = a .. (a + m - 1)
        /\ Pages(rest) = (a + m) .. (a + m + k - 1)
        /\ Ends(head) = {a, a + m - 1} /\ Ends(rest) = {a + m, a + m + k - 1}
    BY <1>2, <1>3 DEF Pages, Ends
  <2>2. a \in Nat /\ m \in Nat /\ k \in Nat /\ 1 <= m /\ 1 <= k
    BY <1>2, <1>3
  <2> HIDE DEF a, m, k
  <2>3. Ends(head) \subseteq Pages(head) /\ Ends(rest) \subseteq Pages(rest)
    BY <2>1, <2>2
  <2> QED BY <2>1, <2>2, <2>3, CutPages
<1>7. 0 .. p.top \subseteq Page /\ p.top \in Nat
  BY <1>1, TopInPage DEF IsPage
<1>8. Pages(B) \subseteq Page
  BY <1>2, <1>7
<1>9. /\ sp \in [SpanId -> SpanRec] /\ sp[s] = head /\ sp[big] = rest
      /\ \A y \in SpanId : y # s /\ y # big => sp[y] = p.span[y]
  BY <1>1, <1>2, <1>3, <1>4 DEF IsPage
<1>10. /\ ma \in [Page -> SpanId \cup {null}]
       /\ \A a \in Page : ma[a] = IF a \in Pages(head) THEN s ELSE IF a \in Ends(rest) THEN big ELSE p.map[a]
  <2> HIDE DEF null
  <2> QED BY <1>1, <1>2, <1>4 DEF IsPage
<1> HIDE DEF sp, ma
<1>11. q = Rec(sp, li, ma, p.free \ {s}, p.top, p.blocks)
  BY DEF sp, ma, Cut
<1>12. /\ q.span = sp /\ q.list = li /\ q.map = ma /\ q.free = p.free \ {s}
       /\ q.top = p.top /\ q.blocks = p.blocks /\ IsRec(q)
  BY <1>11, RecFields
<1>13. LiveIn(q) = LiveIn(p) \cup {s} /\ LiveIn(p) \subseteq SpanId
  BY <1>4, <1>12 DEF LiveIn
<1>14. /\ \A y \in LiveIn(p) : y # big => q.span[y] = p.span[y]
       /\ q.span[s] = head /\ q.span[big] = rest
  BY <1>4, <1>9, <1>12, <1>13
<1>15. li \in [Lists -> Seq(SpanId)] /\ \A m \in Lists : IsInjective(li[m])
  BY DEF Cuttable, ListedAt
<1>16. IsPage(q)
  BY <1>1, <1>9, <1>10, <1>12, <1>15 DEF IsPage
<1>17. Room(q)
  BY <1>1, <1>12 DEF Room
<1>18. Placed(q)
  <2> SUFFICES ASSUME NEW y \in LiveIn(q)
               PROVE  /\ q.span[y]._npage \in Lists
                      /\ 1 <= q.span[y]._pageid /\ q.span[y]._pageid + q.span[y]._npage <= q.top
    BY DEF Placed
  <2>1. /\ head._npage \in Lists /\ 1 <= head._pageid /\ head._pageid + head._npage <= p.top
        /\ rest._npage \in Lists /\ 1 <= rest._pageid /\ rest._pageid + rest._npage <= p.top
    <3> DEFINE a == B._pageid
               m == head._npage
               k == rest._npage
    <3>1. /\ a \in Nat /\ m \in Nat /\ k \in Nat /\ 1 <= a /\ 1 <= m /\ 1 <= k /\ m + k < NPAGES
          /\ a + (m + k) <= p.top /\ p.top \in Nat /\ head._pageid = a /\ rest._pageid = a + m
          /\ NPAGES \in Nat
      BY <1>2, <1>3, <1>7, PoolAssumption
    <3> HIDE DEF a, m, k
    <3>2. m \in Lists /\ k \in Lists /\ a + m <= p.top /\ (a + m) + k <= p.top /\ 1 <= a + m
      BY <3>1 DEF Lists
    <3> QED BY <3>1, <3>2 DEF m, k
  <2>2. CASE y = s
    BY <1>12, <1>14, <2>1, <2>2
  <2>3. CASE y = big
    BY <1>12, <1>14, <2>1, <2>3
  <2>4. CASE y # s /\ y # big
    BY <1>1, <1>12, <1>13, <1>14, <2>4 DEF Placed
  <2> QED BY <2>2, <2>3, <2>4
<1>19. \A y \in LiveIn(p) : y # big => Pages(p.span[y]) \cap Pages(B) = {}
  BY <1>1, Zenon DEF Apart, B
<1>20. Apart(q)
  <2>1. ASSUME NEW y \in LiveIn(p), y # big
        PROVE  Pages(q.span[y]) \cap Pages(head) = {} /\ Pages(q.span[y]) \cap Pages(rest) = {}
    BY <1>6, <1>14, <1>19, <2>1
  <2>2. ASSUME NEW y \in LiveIn(q), NEW z \in LiveIn(q), y # z
        PROVE  Pages(q.span[y]) \cap Pages(q.span[z]) = {}
    <3>1. CASE y \in {s, big} /\ z \in {s, big}
      BY <1>6, <1>14, <2>2, <3>1
    <3>2. CASE y \in {s, big} /\ z \notin {s, big}
      BY <1>13, <1>14, <2>1, <3>2
    <3>3. CASE y \notin {s, big} /\ z \in {s, big}
      BY <1>13, <1>14, <2>1, <3>3
    <3>4. CASE y \notin {s, big} /\ z \notin {s, big}
      <4>1. Pages(p.span[y]) \cap Pages(p.span[z]) = {}
        BY <1>1, <1>13, <2>2, <3>4 DEF Apart
      <4> QED BY <1>13, <1>14, <3>4, <4>1
    <3> QED BY <3>1, <3>2, <3>3, <3>4
  <2> QED BY <2>2, Zenon DEF Apart
<1>21. Listed(q)
  <2> SUFFICES ASSUME NEW n \in Lists
               PROVE  /\ IsInjective(q.list[n])
                      /\ \A y \in SpanId : Contains(q.list[n], y)
                           <=> y \in LiveIn(q) /\ n = q.span[y]._npage /\ ~q.span[y]._isUse
    BY DEF Listed
  <2>1. IsInjective(q.list[n])
    BY <1>12, <1>15
  <2>2. ASSUME NEW y \in SpanId
        PROVE  Contains(q.list[n], y)
                 <=> y \in LiveIn(q) /\ n = q.span[y]._npage /\ ~q.span[y]._isUse
    <3>1. Contains(q.list[n], y) <=> IF y = big THEN n = rest._npage ELSE Contains(p.list[n], y)
      BY <1>12 DEF Cuttable, ListedAt
    <3>2. Contains(p.list[n], y) <=> y \in LiveIn(p) /\ n = p.span[y]._npage /\ ~p.span[y]._isUse
      BY <1>1 DEF Listed
    <3>3. CASE y = s
      BY <1>4, <1>5, <1>14, <3>1, <3>2, <3>3
    <3>4. CASE y = big
      BY <1>1, <1>5, <1>13, <1>14, <3>1, <3>4
    <3>5. CASE y # s /\ y # big
      BY <1>9, <1>12, <1>13, <3>1, <3>2, <3>5
    <3> QED BY <3>3, <3>4, <3>5
  <2> QED BY <2>1, <2>2
<1>22. \A y \in LiveIn(p) : y # big =>
         \A a \in Pages(p.span[y]) : a \in Page /\ a \notin Pages(B) /\ q.map[a] = p.map[a]
  <2> SUFFICES ASSUME NEW y \in LiveIn(p), y # big, NEW a \in Pages(p.span[y])
               PROVE  a \in Page /\ a \notin Pages(B) /\ q.map[a] = p.map[a]
    OBVIOUS
  <2>1. a \notin Pages(B)
    BY <1>19
  <2>2. a \in Page
    <3>1. /\ p.span[y]._pageid \in Nat /\ p.span[y]._npage \in Nat
          /\ p.span[y]._pageid + p.span[y]._npage <= p.top
          /\ Pages(p.span[y]) = p.span[y]._pageid .. (p.span[y]._pageid + p.span[y]._npage - 1)
      BY <1>1, LivePages
    <3> QED BY <1>7, <3>1
  <2> QED BY <1>6, <1>10, <1>12, <2>1, <2>2
<1>23. EndsMapped(q, null)
  <2> SUFFICES ASSUME NEW y \in LiveIn(q), NEW a \in Ends(q.span[y])
               PROVE  q.map[a] = y \/ LastUnmapped(q, y, a)
    BY DEF EndsMapped
  <2>1. CASE y = s
    <3>1. a \in Pages(head) /\ a \in Page
      BY <1>6, <1>8, <1>14, <2>1
    <3> QED BY <1>10, <1>12, <2>1, <3>1
  <2>2. CASE y = big
    <3>1. a \in Ends(rest) /\ a \in Page /\ a \notin Pages(head)
      BY <1>6, <1>8, <1>14, <2>2
    <3> QED BY <1>10, <1>12, <2>2, <3>1
  <2>3. CASE y # s /\ y # big
    <3>1. y \in LiveIn(p) /\ y # x /\ q.span[y] = p.span[y]
      <4>1. x = null \/ x = big
        BY DEF Cuttable
      <4>2. y # null
        BY <1>4, <1>13, PoolSizes
      <4> QED BY <1>13, <1>14, <2>3, <4>1, <4>2
    <3>2. p.map[a] = y \/ LastUnmapped(p, y, a)
      BY <1>1, <3>1 DEF EndsMapped
    <3>3. a \in Pages(p.span[y])
      <4>1. /\ p.span[y]._pageid \in Nat /\ p.span[y]._npage \in Nat /\ 1 <= p.span[y]._npage
            /\ Pages(p.span[y]) = p.span[y]._pageid .. (p.span[y]._pageid + p.span[y]._npage - 1)
            /\ Ends(p.span[y]) = {p.span[y]._pageid, p.span[y]._pageid + p.span[y]._npage - 1}
        BY <1>1, <3>1, LivePages
      <4> QED BY <3>1, <4>1
    <3>4. q.map[a] = p.map[a]
      BY <1>22, <2>3, <3>1, <3>3
    <3> QED BY <3>1, <3>2, <3>4 DEF LastUnmapped
  <2> QED BY <2>1, <2>2, <2>3
<1>24. Covered(q) = Covered(p)
  <2>1. ASSUME NEW a \in Covered(q) PROVE a \in Covered(p)
    <3>1. PICK y \in LiveIn(q) : a \in Pages(q.span[y])
      BY CoveredDef
    <3>2. CASE y = s \/ y = big
      <4>1. a \in Pages(p.span[big])
        BY <1>6, <1>14, <3>1, <3>2 DEF B
      <4> QED BY <1>1, <4>1, CoveredDef
    <3>3. CASE y # s /\ y # big
      BY <1>13, <1>14, <3>1, <3>3, CoveredDef
    <3> QED BY <3>2, <3>3
  <2>2. ASSUME NEW a \in Covered(p) PROVE a \in Covered(q)
    <3>1. PICK y \in LiveIn(p) : a \in Pages(p.span[y])
      BY CoveredDef
    <3>2. CASE y = big
      <4>1. a \in Pages(q.span[s]) \/ a \in Pages(q.span[big])
        BY <1>6, <1>14, <3>1, <3>2 DEF B
      <4> QED BY <1>1, <1>13, <4>1, CoveredDef
    <3>3. CASE y # big
      <4>1. y \in LiveIn(q) /\ a \in Pages(q.span[y])
        BY <1>13, <1>14, <3>1, <3>3
      <4> QED BY <4>1, CoveredDef
    <3> QED BY <3>2, <3>3
  <2> QED BY <2>1, <2>2
<1>25. Counts(q)
  BY <1>1, <1>12, <1>24 DEF Counts
<1>26. OnlyCovered(q)
  <2> SUFFICES ASSUME NEW a \in Page, q.map[a] # null PROVE a \in Covered(q)
    BY DEF OnlyCovered
  <2>1. CASE a \in Pages(B)
    BY <1>1, <1>24, <2>1, CoveredDef DEF B
  <2>2. CASE a \notin Pages(B)
    <3>1. q.map[a] = p.map[a]
      BY <1>6, <1>10, <1>12, <2>2
    <3> QED BY <1>1, <1>24, <3>1 DEF OnlyCovered
  <2> QED BY <2>1, <2>2
<1>27. Tiled(q, null)
  BY <1>16, <1>17, <1>18, <1>20, <1>21, <1>23, <1>25, <1>26 DEF Tiled
<1>28. s \notin UseIn(p) /\ big \notin UseIn(p)
  BY <1>4, <1>5 DEF UseIn, B
<1>29. UseIn(q) = UseIn(p) \cup {s}
  BY <1>4, <1>5, <1>13, <1>14, <1>28 DEF UseIn
<1>30. ASSUME NEW y \in UseIn(p)
       PROVE  q.span[y] = p.span[y] /\ \A a \in Pages(p.span[y]) : q.map[a] = p.map[a]
  BY <1>14, <1>22, <1>28 DEF UseIn
<1> QED BY <1>12, <1>14, <1>24, <1>27, <1>28, <1>29, <1>30 DEF Given

(* TakeHead, its span marked, is such a cut. *)
LEMMA TakeHeadRec ==
    ASSUME NEW p, NEW x, Tiled(p, x), NEW n \in Lists, NEW size \in Nat,
           NEW i \in Lists, n < i, p.list[i] # <<>>,
           \A j \in (n + 1) .. (i - 1) : p.list[j] = <<>>,
           NEW big, big = Head(p.list[i]), x = null \/ x = big,
           NEW s, s = NewSpanObject(p)
    PROVE  \E head, rest, li :
             /\ Cuttable(p, x, big, s, head, rest, li)
             /\ head._npage = n /\ head._objsize = size
             /\ Marked(TakeHead(p, n), size) = Cut(p, big, s, head, rest, li)
             /\ TakeHead(p, n).span = s
<1> DEFINE B == p.span[big]
           hd == SpanOf(B._pageid, n)
           head == Used(hd, size)
           rest == [B EXCEPT !._pageid = B._pageid + n, !._npage = B._npage - n]
           l1 == [p.list EXCEPT ![B._npage] = RemoveFirst(p.list[B._npage], big)]
           li == [l1 EXCEPT ![rest._npage] = <<big>> \o l1[rest._npage]]
           e == Erase(p, big)
           o == NewObject(e, s, hd)
           c == [o EXCEPT !.span[big] = rest]
           f == PushFront(c, big)
           g == SetMap(f, Ends(rest), big)
           h == SetMap(g, Pages(hd), s)
           I == CHOOSE k \in (n + 1) .. (NPAGES - 1) :
                  p.list[k] # <<>> /\ \A j \in (n + 1) .. (k - 1) : p.list[j] = <<>>
<1>1. IsPage(p) /\ IsRec(p) /\ Placed(p) /\ Listed(p) /\ p.list[i] \in Seq(SpanId)
  BY DEF Tiled, IsPage
<1>2. n \in Nat /\ i \in Nat /\ 1 <= n /\ i <= NPAGES - 1 /\ NPAGES \in Nat
  BY PoolAssumption DEF Lists
<1>3. I = i
  <2>1. i \in (n + 1) .. (NPAGES - 1)
    BY <1>2
  <2>2. I \in (n + 1) .. (NPAGES - 1) /\ p.list[I] # <<>>
        /\ \A j \in (n + 1) .. (I - 1) : p.list[j] = <<>>
    BY <2>1
  <2> HIDE DEF I
  <2>3. ~(I < i)
    BY <1>2, <2>2
  <2>4. ~(i < I)
    BY <1>2, <2>1, <2>2
  <2> QED BY <1>2, <2>2, <2>3, <2>4
<1>4. big \in SpanId /\ Contains(p.list[i], big)
  BY <1>1, ContainsHead
<1>5. big \in LiveIn(p) /\ i = B._npage /\ ~B._isUse
  BY <1>1, <1>4 DEF Listed
<1>6. B \in SpanRec /\ B._pageid \in Nat /\ B._npage \in Nat /\ B._npage \in Lists
  BY <1>1, <1>5, LivePages, Zenon
<1>7. s \in p.free /\ s \in SpanId /\ s # big
  <2>0. i > 1
    BY <1>2
  <2>1. \E b \in LiveIn(p) : p.span[b]._npage > 1
    BY <1>5, <2>0, Zenon
  <2>2. s \in p.free
    BY <2>1, FreeSpanObject
  <2> QED BY <1>1, <1>5, <2>2, Zenon DEF IsPage, LiveIn
<1>8. TakeHead(p, n) = [span |-> s, page |-> h]
  <2>1. TakeHead(p, n) = LET b == Head(p.list[I])
                             S == NewSpanObject(p)
                             H == SpanOf(p.span[b]._pageid, n)
                             R == [p.span[b] EXCEPT !._pageid = @ + n, !._npage = @ - n]
                             C == [NewObject(Erase(p, b), S, H) EXCEPT !.span[b] = R]
                         IN  [span |-> S, page |-> SetMap(SetMap(PushFront(C, b), Ends(R), b), Pages(H), S)]
    BY DEF TakeHead
  <2>2. Head(p.list[I]) = big
    BY <1>3
  <2> HIDE DEF I
  <2> QED BY <2>1, <2>2, Zenon
<1>9. hd \in SpanRec /\ hd._pageid = B._pageid /\ hd._npage = n
  BY <1>2, <1>6 DEF SpanOf, SpanRec
<1>10. /\ head \in SpanRec /\ head._pageid = B._pageid /\ head._npage = n
       /\ head._isUse /\ head._objsize = size
  <2> HIDE DEF hd
  <2>1. head \in SpanRec /\ head._pageid = hd._pageid /\ head._npage = hd._npage
    BY <1>9, UsedOK
  <2>2. head._isUse
    BY <1>9, UsedOK
  <2>3. head._objsize = size
    BY <1>9, UsedOK
  <2> QED BY <1>9, <2>1, <2>2, <2>3
<1>11. /\ rest \in SpanRec /\ rest._pageid = B._pageid + n /\ rest._npage = B._npage - n
       /\ ~rest._isUse
  <2> DEFINE a == B._pageid + n
             k == B._npage - n
  <2>1. a \in Nat /\ k \in Nat
    <3> HIDE DEF B
    <3>1. k = i - n
      BY <1>5
    <3> QED BY <1>2, <1>6, <3>1
  <2>2. rest = Moved(B, a, k)
    BY DEF Moved
  <2> HIDE DEF a, k, B
  <2>0. B \in SpanRec
    BY <1>6
  <2>3. /\ Moved(B, a, k) \in SpanRec
        /\ Moved(B, a, k)._pageid = a /\ Moved(B, a, k)._npage = k
    BY <2>0, <2>1, SpanMoved
  <2>4. Moved(B, a, k)._isUse = B._isUse
    BY <2>0, <2>1, SpanMovedUse
  <2> QED BY <1>5, <2>2, <2>3, <2>4 DEF a, k
<1>12. e = Rec(p.span, l1, p.map, p.free, p.top, p.blocks)
  BY <1>1, ErasePage
<1> DEFINE k == rest._npage
<1>13. k \in Nat /\ 1 <= k /\ n + k = B._npage /\ k # B._npage /\ k \in Lists
  <2> HIDE DEF rest, B
  <2> QED BY <1>2, <1>5, <1>6, <1>11 DEF Lists
<1> HIDE DEF rest, hd, head, B, l1, e
<1>14. /\ e.span = p.span /\ e.list = l1 /\ e.map = p.map /\ e.free = p.free
       /\ e.top = p.top /\ e.blocks = p.blocks /\ IsRec(e)
  BY <1>12, RecFields
<1>15. o = Rec([p.span EXCEPT ![s] = hd], l1, p.map, p.free \ {s}, p.top, p.blocks)
  BY <1>14, NewObjectPage
<1> HIDE DEF o
<1> DEFINE sp1 == [p.span EXCEPT ![s] = hd]
           sp2 == [sp1 EXCEPT ![big] = rest]
<1>16. /\ o.span = sp1 /\ o.list = l1 /\ o.map = p.map /\ o.free = p.free \ {s}
       /\ o.top = p.top /\ o.blocks = p.blocks /\ IsRec(o)
  <2> HIDE DEF sp1
  <2> QED BY <1>15, RecFields DEF sp1
<1>17. c = Rec(sp2, l1, p.map, p.free \ {s}, p.top, p.blocks)
  <2> HIDE DEF sp1
  <2>1. c = [o EXCEPT !.span = sp2]
    BY <1>16
  <2> HIDE DEF sp2, c
  <2>2. IsRec(o)
    BY <1>16
  <2>3. c = Rec(sp2, o.list, o.map, o.free, o.top, o.blocks)
    BY <2>1, <2>2, RecSpan
  <2> QED BY <1>16, <2>3
<1>18. sp2[big] = rest /\ s \in DOMAIN sp2 /\ sp2[s] = hd
  BY <1>1, <1>4, <1>7 DEF IsPage
<1>19. [sp2 EXCEPT ![s] = head] = [p.span EXCEPT ![s] = head, ![big] = rest]
  <2>1. p.span \in [SpanId -> SpanRec]
    BY <1>1 DEF IsPage
  <2> QED BY <1>4, <1>7, <2>1
<1> HIDE DEF sp1, sp2, c
<1>20. /\ c.span = sp2 /\ c.list = l1 /\ c.map = p.map /\ c.free = p.free \ {s}
       /\ c.top = p.top /\ c.blocks = p.blocks /\ IsRec(c)
  BY <1>17, RecFields
<1>21. f = Rec(sp2, li, p.map, p.free \ {s}, p.top, p.blocks)
  BY <1>18, <1>20, PushFrontPage
<1> HIDE DEF f, li
<1>22. /\ f.span = sp2 /\ f.list = li /\ f.map = p.map /\ f.free = p.free \ {s}
       /\ f.top = p.top /\ f.blocks = p.blocks /\ IsRec(f)
  BY <1>21, RecFields
<1> DEFINE m1 == [a \in Page |-> IF a \in Ends(rest) THEN big ELSE p.map[a]]
           m2 == [a \in Page |-> IF a \in Pages(hd) THEN s ELSE m1[a]]
<1>23. g = Rec(sp2, li, m1, p.free \ {s}, p.top, p.blocks)
  <2> DEFINE En == Ends(rest)
  <2> HIDE DEF En
  <2>1. IsRec(f)
    BY <1>22
  <2>2. SetMap(f, En, big) = Rec(f.span, f.list, [a \in Page |-> IF a \in En THEN big ELSE f.map[a]],
                                 f.free, f.top, f.blocks)
    BY <2>1, SetMapPage
  <2> QED BY <1>22, <2>2 DEF En
<1> HIDE DEF g
<1>24. /\ g.span = sp2 /\ g.list = li /\ g.map = m1 /\ g.free = p.free \ {s}
       /\ g.top = p.top /\ g.blocks = p.blocks /\ IsRec(g)
  <2> HIDE DEF m1
  <2> QED BY <1>23, RecFields
<1>25. h = Rec(sp2, li, m2, p.free \ {s}, p.top, p.blocks)
  <2> DEFINE Pa == Pages(hd)
  <2> HIDE DEF m1, Pa
  <2>1. IsRec(g)
    BY <1>24
  <2>2. SetMap(g, Pa, s) = Rec(g.span, g.list, [a \in Page |-> IF a \in Pa THEN s ELSE g.map[a]],
                               g.free, g.top, g.blocks)
    BY <2>1, SetMapPage
  <2> QED BY <1>24, <2>2 DEF Pa
<1> HIDE DEF h
<1>26. /\ h.span = sp2 /\ h.list = li /\ h.map = m2 /\ h.free = p.free \ {s}
       /\ h.top = p.top /\ h.blocks = p.blocks /\ IsRec(h)
  <2> HIDE DEF m2
  <2> QED BY <1>25, RecFields
<1>27. m2 = [a \in Page |-> IF a \in Pages(head) THEN s ELSE IF a \in Ends(rest) THEN big ELSE p.map[a]]
  <2>1. Pages(head) = Pages(hd)
    BY <1>9, <1>10 DEF Pages
  <2> QED BY <2>1
<1> HIDE DEF m1, m2
<1>28. Marked(TakeHead(p, n), size)
         = Rec([sp2 EXCEPT ![s] = head], li, m2, p.free \ {s}, p.top, p.blocks)
  <2> DEFINE r == TakeHead(p, n)
  <2>1. r.page = h /\ r.span = s
    BY <1>8
  <2> HIDE DEF r
  <2>0. IsRec(h) /\ s \in DOMAIN h.span
    BY <1>18, <1>26
  <2>2. Marked(r, size) =
          Rec([h.span EXCEPT ![s] = Used(h.span[s], size)], h.list, h.map, h.free, h.top, h.blocks)
    BY <2>0, <2>1, MarkedRec
  <2> QED BY <1>18, <1>26, <2>2 DEF r, head
<1>29. Marked(TakeHead(p, n), size) = Cut(p, big, s, head, rest, li)
  BY <1>19, <1>27, <1>28 DEF Cut
<1>30. ListedAt(p, big, k, li)
  <2>1. /\ l1 \in [Lists -> Seq(SpanId)]
        /\ \A m \in Lists : IsInjective(l1[m])
        /\ \A m \in Lists : \A y \in SpanId : Contains(l1[m], y)
                                        <=> Contains(p.list[m], y) /\ ~(m = i /\ y = big)
    BY <1>1, <1>4, <1>5, ErasedLists DEF l1
  <2>2. IsPage(e)
    BY <1>1, <1>14, <2>1 DEF IsPage
  <2>3. ~Contains(e.list[k], big) /\ \A m \in Lists : IsInjective(e.list[m])
    <3>1. Contains(p.list[k], big) => k = B._npage
      BY <1>1, <1>4, <1>13 DEF Listed, B
    <3> QED BY <1>4, <1>13, <1>14, <2>1, <3>1
  <2>4. li = [e.list EXCEPT ![k] = <<big>> \o e.list[k]]
    BY <1>14 DEF li
  <2>5. /\ li \in [Lists -> Seq(SpanId)]
        /\ \A m \in Lists : IsInjective(li[m])
        /\ \A m \in Lists : \A y \in SpanId : Contains(li[m], y)
                                        <=> Contains(e.list[m], y) \/ (m = k /\ y = big)
    BY <1>4, <1>13, <2>2, <2>3, <2>4, PushedLists
  <2>6. \A m \in Lists : Contains(p.list[m], big) => m = i
    BY <1>1, <1>4, <1>5, Zenon DEF Listed, B
  <2>7. ASSUME NEW m \in Lists, NEW y \in SpanId
        PROVE  Contains(li[m], y) <=> IF y = big THEN m = k ELSE Contains(p.list[m], y)
    BY <1>14, <2>1, <2>5, <2>6
  <2> QED BY <2>5, <2>7 DEF ListedAt
<1>31. Cuttable(p, x, big, s, head, rest, li)
  <2>1. ~p.span[big]._isUse /\ head._isUse /\ ~rest._isUse
    BY <1>5, <1>10, <1>11, Zenon DEF B
  <2>2. head._npage + rest._npage = p.span[big]._npage /\ 1 <= head._npage /\ 1 <= rest._npage
    BY <1>2, <1>10, <1>13 DEF B
  <2>3. /\ head._pageid = p.span[big]._pageid /\ rest._pageid = p.span[big]._pageid + head._npage
        /\ head \in SpanRec /\ rest \in SpanRec
    BY <1>10, <1>11 DEF B
  <2> QED BY <1>5, <1>7, <1>30, <2>1, <2>2, <2>3 DEF Cuttable
<1>32. TakeHead(p, n).span = s
  BY <1>8
<1>33. head._npage = n /\ head._objsize = size
  BY <1>10
<1> HIDE DEF head, rest, li
<1> QED BY <1>29, <1>31, <1>32, <1>33, Zenon

(* new_Span gets a block from sbrk: span s, the only one in its list.       *)
Added(p, q, s) ==
    /\ Tiled(q, s) /\ s \in LiveIn(q) /\ s \notin LiveIn(p) /\ s \in SpanId
    /\ q.list = [p.list EXCEPT ![NPAGES - 1] = <<s>> \o p.list[NPAGES - 1]]
    /\ q.span[s]._npage = NPAGES - 1
    /\ \A a \in Pages(q.span[s]) : q.map[a] = null
    /\ q.map = p.map /\ LiveIn(q) = LiveIn(p) \cup {s}
    /\ ~q.span[s]._isUse
    /\ \A y \in LiveIn(p) : q.span[y] = p.span[y]
    /\ Covered(p) \subseteq Covered(q)

LEMMA AddBigRec ==
    ASSUME NEW p, IsRec(p), NEW gap, NEW s, s = NewSpanObject(p), s \in DOMAIN p.span,
           NEW new, new = SpanOf(p.top + gap, NPAGES - 1)
    PROVE  AddBig(p, gap) =
             Rec([p.span EXCEPT ![s] = new],
                 [p.list EXCEPT ![NPAGES - 1] = <<s>> \o p.list[NPAGES - 1]],
                 p.map, p.free \ {s}, p.top + gap + NPAGES - 1, p.blocks + 1)
<1> DEFINE sp == [p.span EXCEPT ![s] = new]
           o == NewObject(p, s, new)
           T == p.top + gap + NPAGES - 1
           b == p.blocks + 1
           c == [o EXCEPT !.top = T, !.blocks = b]
<1>1. o = Rec(sp, p.list, p.map, p.free \ {s}, p.top, p.blocks)
  BY NewObjectPage
<1>2. sp[s] = new
  OBVIOUS
<1> HIDE DEF sp, o
<1>3. /\ o.span = sp /\ o.list = p.list /\ o.map = p.map /\ o.free = p.free \ {s}
      /\ o.top = p.top /\ o.blocks = p.blocks /\ IsRec(o)
  BY <1>1, RecFields
<1>4. AddBig(p, gap) = PushFront(c, s)
  BY <1>3 DEF AddBig, o
<1>5. c = Rec(sp, p.list, p.map, p.free \ {s}, T, b)
  <2> HIDE DEF T, b
  <2> DEFINE u == [o EXCEPT !.top = T]
             F == p.free \ {s}
  <2> HIDE DEF F
  <2>1. o = Rec(sp, p.list, p.map, F, p.top, p.blocks)
    BY <1>1 DEF F
  <2>2. u = Rec(sp, p.list, p.map, F, T, p.blocks)
    BY <2>1 DEF Rec
  <2>3. c = [u EXCEPT !.blocks = b]
    OBVIOUS
  <2> HIDE DEF u
  <2> QED BY <2>2, <2>3 DEF Rec, F
<1> HIDE DEF c, T, b
<1>6. /\ c.span = sp /\ c.list = p.list /\ c.map = p.map /\ c.free = p.free \ {s}
      /\ c.top = T /\ c.blocks = b /\ IsRec(c)
  BY <1>5, RecFields
<1>7. c.span[s]._npage = NPAGES - 1
  BY <1>2, <1>6 DEF SpanOf
<1>8. PushFront(c, s) =
        Rec(c.span, [c.list EXCEPT ![c.span[s]._npage] = <<s>> \o c.list[c.span[s]._npage]],
            c.map, c.free, c.top, c.blocks)
  BY <1>6, PushFrontPage
<1> QED BY <1>4, <1>6, <1>7, <1>8 DEF sp, T, b

LEMMA AddBigOK ==
    ASSUME NEW p, Tiled(p, null), p.blocks < MaxBig, NEW gap \in 0 .. MaxGap,
           NEW s, s = NewSpanObject(p), NEW q, q = AddBig(p, gap)
    PROVE  Added(p, q, s)
<1> DEFINE N == NPAGES - 1
           new == SpanOf(p.top + gap, N)
           li == [p.list EXCEPT ![N] = <<s>> \o p.list[N]]
           sp == [p.span EXCEPT ![s] = new]
           T == p.top + gap + N
<1>1. /\ IsPage(p) /\ IsRec(p) /\ Room(p) /\ Placed(p) /\ Apart(p) /\ Listed(p) /\ OnlyCovered(p)
      /\ Counts(p) /\ EndsMapped(p, null)
  BY DEF Tiled, IsPage
<1>2. /\ N \in Nat /\ 1 <= N /\ N \in Lists /\ p.top \in Nat /\ 1 <= p.top /\ gap \in Nat /\ T \in Nat
      /\ gap <= MaxGap /\ MaxGap \in Nat /\ p.blocks \in Nat /\ MaxBig \in Nat
  BY <1>1, PoolAssumption DEF Lists, IsPage, Room
<1>3. s \in p.free /\ s \in SpanId /\ s \notin LiveIn(p) /\ s # null
  <2>1. s \in p.free
    BY FreeSpanObject
  <2> QED BY <1>1, <2>1, PoolSizes DEF IsPage, LiveIn
<1>4. q = Rec(sp, li, p.map, p.free \ {s}, T, p.blocks + 1)
  <2>1. s \in DOMAIN p.span
    BY <1>1, <1>3 DEF IsPage
  <2>2. T = p.top + gap + NPAGES - 1
    BY <1>2, PoolAssumption
  <2> QED BY <1>1, <2>1, <2>2, AddBigRec
<1>5. /\ new \in SpanRec /\ new._pageid = p.top + gap /\ new._npage = N /\ ~new._isUse
      /\ Pages(new) = (p.top + gap) .. (T - 1)
      /\ Ends(new) \subseteq Pages(new)
  <2>1. new \in SpanRec /\ new._pageid = p.top + gap /\ new._npage = N
    BY <1>2 DEF SpanOf, SpanRec
  <2>2. ~new._isUse
    BY DEF SpanOf
  <2>3. Pages(new) = (p.top + gap) .. (p.top + gap + N - 1) /\ Ends(new) = {p.top + gap, p.top + gap + N - 1}
    BY <2>1 DEF Pages, Ends
  <2> HIDE DEF new, N
  <2> QED BY <1>2, <2>1, <2>2, <2>3
<1>6. /\ sp \in [SpanId -> SpanRec] /\ sp[s] = new
      /\ \A y \in SpanId : y # s => sp[y] = p.span[y]
  <2> HIDE DEF new
  <2> QED BY <1>1, <1>3, <1>5 DEF IsPage
<1>7. ~Contains(p.list[N], s)
  BY <1>1, <1>2, <1>3 DEF Listed
<1>8. /\ li \in [Lists -> Seq(SpanId)]
      /\ \A m \in Lists : IsInjective(li[m])
      /\ \A m \in Lists : \A y \in SpanId : Contains(li[m], y)
                                      <=> Contains(p.list[m], y) \/ (m = N /\ y = s)
  <2> HIDE DEF N
  <2>1. \A m \in Lists : IsInjective(p.list[m])
    BY <1>1 DEF Listed
  <2> QED BY <1>1, <1>2, <1>3, <1>7, <2>1, PushedLists
<1> HIDE DEF new, sp, li, T, N
<1>9. /\ q.span = sp /\ q.list = li /\ q.map = p.map /\ q.free = p.free \ {s}
      /\ q.top = T /\ q.blocks = p.blocks + 1 /\ IsRec(q)
  <2> DEFINE b == p.blocks + 1
  <2> HIDE DEF b
  <2> QED BY <1>4, RecFields DEF b
<1>10. LiveIn(q) = LiveIn(p) \cup {s} /\ LiveIn(p) \subseteq SpanId
  BY <1>3, <1>9 DEF LiveIn
<1>11. /\ \A y \in LiveIn(p) : q.span[y] = p.span[y]
       /\ q.span[s] = new
  BY <1>3, <1>6, <1>9, <1>10
<1>12. T = p.top + gap + N
  BY DEF T
<1>13. IsPage(q)
  BY <1>1, <1>2, <1>6, <1>8, <1>9 DEF IsPage
<1>14. Room(q)
  <2> DEFINE K == N + MaxGap
             b == p.blocks
  <2>1. b \in Nat /\ K \in Nat /\ b < MaxBig /\ p.top <= b * K + 1
    BY <1>1, <1>2 DEF Room, N
  <2>2. gap + N <= K
    BY <1>2
  <2> HIDE DEF K, b
  <2>3. b * K \in Nat /\ (b + 1) * K = b * K + K
    BY <2>1
  <2>4. T <= (b + 1) * K + 1 /\ 1 <= T
    BY <1>2, <1>12, <2>1, <2>2, <2>3
  <2>5. b + 1 <= MaxBig
    BY <1>2, <2>1
  <2>6. q.blocks <= MaxBig /\ 1 <= q.top /\ q.top <= q.blocks * K + 1
    BY <1>9, <2>4, <2>5 DEF b
  <2> QED BY <2>6 DEF Room, K, N
<1>15. Placed(q)
  <2> SUFFICES ASSUME NEW y \in LiveIn(q)
               PROVE  /\ q.span[y]._npage \in Lists
                      /\ 1 <= q.span[y]._pageid /\ q.span[y]._pageid + q.span[y]._npage <= q.top
    BY DEF Placed
  <2>1. CASE y = s
    BY <1>2, <1>5, <1>9, <1>11, <1>12, <2>1
  <2>2. CASE y # s
    <3>1. y \in LiveIn(p) /\ q.span[y] = p.span[y]
      BY <1>10, <1>11, <2>2
    <3>2. /\ p.span[y]._npage \in Lists /\ 1 <= p.span[y]._pageid
          /\ p.span[y]._pageid \in Nat /\ p.span[y]._npage \in Nat
          /\ p.span[y]._pageid + p.span[y]._npage <= p.top
      BY <1>1, <3>1, LivePages
    <3>3. p.top <= T
      BY <1>2, <1>12
    <3> DEFINE a == p.span[y]._pageid + p.span[y]._npage
    <3>4. a \in Nat /\ a <= p.top
      BY <3>2
    <3> HIDE DEF a
    <3>5. a <= T
      BY <1>2, <3>3, <3>4
    <3> QED BY <1>9, <3>1, <3>2, <3>5 DEF a
  <2> QED BY <2>1, <2>2
<1>16. Covered(p) \subseteq 1 .. (p.top - 1) /\ IsFiniteSet(Covered(p))
  BY <1>1, CoveredBelowTop
<1>17. Covered(p) \cap Pages(new) = {}
  BY <1>2, <1>5, <1>16
<1>18. Apart(q)
  <2>1. ASSUME NEW y \in LiveIn(p) PROVE Pages(q.span[y]) \cap Pages(new) = {}
    <3>1. Pages(p.span[y]) \subseteq Covered(p)
      BY CoveredDef
    <3> QED BY <1>11, <1>17, <3>1
  <2>2. ASSUME NEW y \in LiveIn(q), NEW z \in LiveIn(q), y # z
        PROVE  Pages(q.span[y]) \cap Pages(q.span[z]) = {}
    <3>1. CASE y = s
      BY <1>10, <1>11, <2>1, <2>2, <3>1
    <3>2. CASE z = s
      BY <1>10, <1>11, <2>1, <2>2, <3>2
    <3>3. CASE y # s /\ z # s
      <4>1. Pages(p.span[y]) \cap Pages(p.span[z]) = {}
        BY <1>1, <1>10, <2>2, <3>3 DEF Apart
      <4> QED BY <1>10, <1>11, <3>3, <4>1
    <3> QED BY <3>1, <3>2, <3>3
  <2> QED BY <2>2, Zenon DEF Apart
<1>19. Listed(q)
  <2> SUFFICES ASSUME NEW n \in Lists
               PROVE  /\ IsInjective(q.list[n])
                      /\ \A y \in SpanId : Contains(q.list[n], y)
                           <=> y \in LiveIn(q) /\ n = q.span[y]._npage /\ ~q.span[y]._isUse
    BY DEF Listed
  <2>1. IsInjective(q.list[n])
    BY <1>8, <1>9
  <2>2. ASSUME NEW y \in SpanId
        PROVE  Contains(q.list[n], y)
                 <=> y \in LiveIn(q) /\ n = q.span[y]._npage /\ ~q.span[y]._isUse
    <3>1. Contains(q.list[n], y) <=> Contains(p.list[n], y) \/ (n = N /\ y = s)
      BY <1>8, <1>9
    <3>2. Contains(p.list[n], y) <=> y \in LiveIn(p) /\ n = p.span[y]._npage /\ ~p.span[y]._isUse
      BY <1>1 DEF Listed
    <3>3. CASE y = s
      BY <1>3, <1>5, <1>10, <1>11, <3>1, <3>2, <3>3
    <3>4. CASE y # s
      BY <1>6, <1>9, <1>10, <3>1, <3>2, <3>4
    <3> QED BY <3>3, <3>4
  <2> QED BY <2>1, <2>2
<1>20. EndsMapped(q, s)
  <2> SUFFICES ASSUME NEW y \in LiveIn(q), y # s, NEW a \in Ends(q.span[y])
               PROVE  q.map[a] = y \/ LastUnmapped(q, y, a)
    BY DEF EndsMapped
  <2>1. y \in LiveIn(p) /\ q.span[y] = p.span[y] /\ y # null
    BY <1>10, <1>11, PoolSizes
  <2>2. p.map[a] = y \/ LastUnmapped(p, y, a)
    BY <1>1, <2>1 DEF EndsMapped
  <2> QED BY <1>9, <2>1, <2>2 DEF LastUnmapped
<1>21. Covered(q) = Covered(p) \cup Pages(new)
  <2>1. ASSUME NEW a \in Covered(q) PROVE a \in Covered(p) \cup Pages(new)
    <3>1. PICK y \in LiveIn(q) : a \in Pages(q.span[y])
      BY CoveredDef
    <3> QED BY <1>10, <1>11, <3>1, CoveredDef
  <2>2. ASSUME NEW a \in Covered(p) PROVE a \in Covered(q)
    <3>1. PICK y \in LiveIn(p) : a \in Pages(p.span[y])
      BY CoveredDef
    <3>2. y \in LiveIn(q) /\ a \in Pages(q.span[y])
      BY <1>10, <1>11, <3>1
    <3> QED BY <3>2, CoveredDef
  <2>3. ASSUME NEW a \in Pages(new) PROVE a \in Covered(q)
    <3>1. s \in LiveIn(q) /\ a \in Pages(q.span[s])
      BY <1>10, <1>11, <2>3
    <3> QED BY <3>1, CoveredDef
  <2> QED BY <2>1, <2>2, <2>3
<1>22. OnlyCovered(q)
  BY <1>1, <1>9, <1>21 DEF OnlyCovered
<1>23. Counts(q)
  <2>1. IsFiniteSet(Pages(new)) /\ Cardinality(Pages(new)) = N
    <3> DEFINE a == p.top + gap
    <3>1. a \in Nat /\ T - 1 \in Int /\ T = a + N /\ Pages(new) = a .. (T - 1)
      BY <1>2, <1>5, <1>12
    <3> HIDE DEF a
    <3> DEFINE b == T - 1
    <3>2. b \in Int /\ a \in Int /\ a <= b /\ b - a + 1 = N
      BY <1>2, <3>1
    <3> HIDE DEF b
    <3>3. IsFiniteSet(a .. b) /\ Cardinality(a .. b) = IF a > b THEN 0 ELSE b - a + 1
      BY <3>2, FS_Interval
    <3> QED BY <3>1, <3>2, <3>3 DEF b
  <2>2. Cardinality(Covered(p)) = p.blocks * N
    BY <1>1 DEF Counts, N
  <2>3. Cardinality(Covered(p) \cap Pages(new)) = 0
    BY <1>17, FS_EmptySet
  <2>4. Cardinality(Covered(q)) = Cardinality(Covered(p)) + Cardinality(Pages(new))
                                    - Cardinality(Covered(p) \cap Pages(new))
    BY <1>16, <1>21, <2>1, FS_Union
  <2>5. (p.blocks + 1) * N = p.blocks * N + N /\ p.blocks * N \in Nat
    BY <1>2
  <2>6. Cardinality(Covered(q)) = (p.blocks + 1) * N
    BY <1>2, <2>1, <2>2, <2>3, <2>4, <2>5
  <2> QED BY <1>9, <2>6 DEF Counts, N
<1>24. \A a \in Pages(q.span[s]) : q.map[a] = null
  <2> SUFFICES ASSUME NEW a \in Pages(new) PROVE p.map[a] = null
    BY <1>9, <1>11
  <2>1. a \in Page
    <3>1. 0 .. q.top \subseteq Page
      BY <1>13, <1>14, TopInPage
    <3> QED BY <1>2, <1>5, <1>9, <1>12, <3>1
  <2> QED BY <1>1, <1>17, <2>1 DEF OnlyCovered
<1>25. Tiled(q, s)
  BY <1>13, <1>14, <1>15, <1>18, <1>19, <1>20, <1>22, <1>23 DEF Tiled
<1>26. q.span[s]._npage = NPAGES - 1 /\ q.list = [p.list EXCEPT ![NPAGES - 1] = <<s>> \o p.list[NPAGES - 1]]
  BY <1>5, <1>9, <1>11 DEF N, li
<1>27. ~q.span[s]._isUse
  BY <1>5, <1>11
<1> QED BY <1>3, <1>9, <1>10, <1>11, <1>21, <1>24, <1>25, <1>26, <1>27 DEF Added

(* A span that has just come from sbrk is the one that is taken. *)
OnlyFresh(p, n, x) ==
    /\ \A i \in n .. (NPAGES - 1) : p.list[i] # <<>> => Head(p.list[i]) = x
    /\ p.span[x]._npage = NPAGES - 1 /\ \A a \in Pages(p.span[x]) : p.map[a] = null

LEMMA TakeOK ==
    ASSUME NEW p, NEW x, Tiled(p, x), NEW n \in Lists, NEW size \in Nat, CanTake(p, n),
           x = null \/ OnlyFresh(p, n, x), NEW r, r = Take(p, n)
    PROVE  /\ Tiled(Marked(r, size), null) /\ Given(p, Marked(r, size), r.span, n, size)
           /\ Marked(r, size).blocks = p.blocks
<1>1. n \in Nat /\ 1 <= n /\ n <= NPAGES - 1 /\ NPAGES \in Nat
  BY PoolAssumption DEF Lists
<1>2. CASE p.list[n] # <<>>
  <2> DEFINE s == Head(p.list[n])
             q == Marked(r, size)
  <2>1. r = TakeExact(p, n) /\ r.span = s
    BY <1>2 DEF Take, TakeExact
  <2>2. \/ x = null
        \/ x = s /\ p.span[s]._npage = NPAGES - 1 /\ \A a \in Pages(p.span[s]) : p.map[a] = null
    BY <1>1, <1>2 DEF OnlyFresh
  <2>3. q = Marked(TakeExact(p, n), size)
    BY <2>1
  <2> HIDE DEF q
  <2>4. Tiled(q, null) /\ Given(p, q, s, n, size) /\ q.blocks = p.blocks
    BY <1>2, <2>2, <2>3, TakeExactOK
  <2> QED BY <2>1, <2>4 DEF q
<1>3. CASE p.list[n] = <<>>
  <2> DEFINE J == {i \in (n + 1) .. (NPAGES - 1) : p.list[i] # <<>>}
             i == Min(J)
             big == Head(p.list[i])
             s == NewSpanObject(p)
             q == Marked(r, size)
  <2>1. J \subseteq Nat /\ J # {}
    <3>1. PICK k \in n .. (NPAGES - 1) : p.list[k] # <<>>
      BY DEF CanTake
    <3>2. k \in J
      BY <1>1, <1>3, <3>1
    <3>3. J \subseteq Nat
      BY <1>1
    <3> QED BY <3>2, <3>3
  <2> HIDE DEF J
  <2>2. i \in J /\ \A y \in J : i <= y
    BY <2>1, MinOK
  <2> HIDE DEF i
  <2>3. i \in (n + 1) .. (NPAGES - 1) /\ p.list[i] # <<>>
    BY <2>2 DEF J
  <2>4. i \in Lists /\ n < i /\ i \in n .. (NPAGES - 1)
    BY <1>1, <2>3 DEF Lists
  <2>5. \A j \in (n + 1) .. (i - 1) : p.list[j] = <<>>
    <3> SUFFICES ASSUME NEW j \in (n + 1) .. (i - 1), p.list[j] # <<>> PROVE FALSE
      OBVIOUS
    <3>1. j \in J
      BY <1>1, <2>3 DEF J
    <3>2. i <= j
      BY <2>2, <3>1
    <3> QED BY <1>1, <2>3, <3>2
  <2>6. x = null \/ x = big
    BY <2>3, <2>4 DEF OnlyFresh
  <2> HIDE DEF big, s
  <2>7. \E head, rest, li :
          /\ Cuttable(p, x, big, s, head, rest, li)
          /\ head._npage = n /\ head._objsize = size
          /\ Marked(TakeHead(p, n), size) = Cut(p, big, s, head, rest, li)
          /\ TakeHead(p, n).span = s
    BY <2>3, <2>4, <2>5, <2>6, TakeHeadRec DEF big, s
  <2>8. PICK head, rest, li :
          /\ Cuttable(p, x, big, s, head, rest, li)
          /\ head._npage = n /\ head._objsize = size
          /\ Marked(TakeHead(p, n), size) = Cut(p, big, s, head, rest, li)
          /\ TakeHead(p, n).span = s
    BY <2>7, Zenon
  <2>9. r = TakeHead(p, n)
    BY <1>3 DEF Take
  <2>10. q = Cut(p, big, s, head, rest, li) /\ r.span = s
    BY <2>8, <2>9
  <2> HIDE DEF q
  <2>11. /\ Tiled(q, null) /\ Given(p, q, s, head._npage, head._objsize)
         /\ q.blocks = p.blocks
    BY <2>8, <2>10, CutOK
  <2> QED BY <2>8, <2>10, <2>11 DEF q
<1> QED BY <1>2, <1>3

(* new_Span, as get_one_Span uses it, keeps PageCache in order: whether it   *)
(* finds a span of n pages, cuts one from the first larger list that has     *)
(* one, or has to ask sbrk, there is a Span object for it, and afterwards    *)
(* the live spans still tile the blocks, the lists and the map agree with    *)
(* them, and the span it returned has n pages, was not in use, and is the    *)
(* only one whose use has changed.                                           *)
THEOREM PageCacheNewSpan ==
    ASSUME NEW p, Tiled(p, null), NEW n \in Lists, NEW size \in Nat, NEW gap \in 0 .. MaxGap,
           CanTake(p, n) \/ p.blocks < MaxBig
    PROVE  LET r == new_Span(p, n, gap)
               q == [r.page EXCEPT !.span[r.span]._isUse = TRUE, !.span[r.span]._objsize = size]
           IN  Tiled(q, null) /\ Given(p, q, r.span, n, size)
<1> DEFINE r == new_Span(p, n, gap)
           q == [r.page EXCEPT !.span[r.span]._isUse = TRUE, !.span[r.span]._objsize = size]
<1>1. q = Marked(r, size)
  BY DEF Marked
<1>2. CASE CanTake(p, n)
  <2>1. r = Take(p, n)
    BY <1>2, SMTT(30) DEF new_Span
  <2> HIDE DEF r, q
  <2> QED BY <1>1, <1>2, <2>1, TakeOK DEF r, q
<1>3. CASE ~CanTake(p, n)
  <2> DEFINE s == NewSpanObject(p)
             b == AddBig(p, gap)
  <2>1. r = Take(b, n)
    BY <1>3 DEF new_Span
  <2> HIDE DEF s, b, r, q
  <2>2. Added(p, b, s)
    BY <1>3, AddBigOK DEF s, b
  <2>3. n \in Nat /\ 1 <= n /\ n <= NPAGES - 1 /\ NPAGES \in Nat /\ NPAGES - 1 \in Lists
    BY PoolAssumption DEF Lists
  <2>4. \A i \in n .. (NPAGES - 1) : p.list[i] = <<>>
    BY <1>3 DEF CanTake
  <2>5. p.list \in [Lists -> Seq(SpanId)]
    BY DEF Tiled, IsPage
  <2>6. p.list[NPAGES - 1] = <<>>
    BY <2>3, <2>4
  <2>7. b.list = [p.list EXCEPT ![NPAGES - 1] = <<s>>]
    <3>1. <<s>> \o <<>> = <<s>>
      OBVIOUS
    <3> QED BY <2>2, <2>6, <3>1 DEF Added
  <2>8. /\ b.list[NPAGES - 1] = <<s>>
        /\ \A i \in n .. (NPAGES - 1) : i # NPAGES - 1 => b.list[i] = <<>>
    <3>1. \A i \in n .. (NPAGES - 1) : i \in Lists
      BY <2>3 DEF Lists
    <3> QED BY <2>3, <2>4, <2>5, <2>7, <3>1
  <2>9. CanTake(b, n)
    <3>1. NPAGES - 1 \in n .. (NPAGES - 1) /\ b.list[NPAGES - 1] # <<>>
      BY <2>3, <2>8
    <3> QED BY <3>1 DEF CanTake
  <2>10. OnlyFresh(b, n, s)
    <3>1. ASSUME NEW i \in n .. (NPAGES - 1), b.list[i] # <<>> PROVE Head(b.list[i]) = s
      <4>1. i = NPAGES - 1
        BY <2>8, <3>1
      <4>2. Head(<<s>>) = s
        OBVIOUS
      <4> QED BY <2>8, <4>1, <4>2
    <3> QED BY <2>2, <3>1 DEF OnlyFresh, Added
  <2>11. Tiled(b, s)
    BY <2>2 DEF Added
  <2>12. Tiled(Marked(r, size), null) /\ Given(b, Marked(r, size), r.span, n, size)
    BY <2>1, <2>9, <2>10, <2>11, TakeOK
  <2> DEFINE m == Marked(r, size)
             u == r.span
  <2> HIDE DEF m, u
  <2>13. Given(b, m, u, n, size)
    BY <2>12 DEF m, u
  <2>14. UseIn(b) = UseIn(p)
    BY <2>2 DEF Added, UseIn
  <2>15. ASSUME NEW y \in UseIn(p)
         PROVE  m.span[y] = p.span[y] /\ \A a \in Pages(p.span[y]) : m.map[a] = p.map[a]
    <3>1. b.span[y] = p.span[y] /\ b.map = p.map
      BY <2>2, <2>15 DEF Added, UseIn
    <3>2. m.span[y] = b.span[y] /\ \A a \in Pages(b.span[y]) : m.map[a] = b.map[a]
      BY <2>13, <2>14, <2>15 DEF Given
    <3> QED BY <3>1, <3>2
  <2>16. Covered(p) \subseteq Covered(m)
    BY <2>2, <2>13 DEF Added, Given
  <2>17. Given(p, m, u, n, size)
    BY <2>13, <2>14, <2>15, <2>16 DEF Given
  <2> QED BY <1>1, <2>12, <2>17 DEF m, u, q, r
<1> QED BY <1>2, <1>3
-----------------------------------------------------------------------------
(* Lists without repetition: taking apart, joining, counting. *)
First(l, n) == SubSeq(l, 1, n)

(* A list and its first n members and the others. *)
LEMMA SplitList ==
    ASSUME NEW S, NEW l \in Seq(S), IsInjective(l), NEW n \in 0 .. Len(l),
           NEW a, a = First(l, n), NEW b, b = Left(l, n)
    PROVE  /\ a \in Seq(S) /\ b \in Seq(S) /\ Len(a) = n /\ Len(b) = Len(l) - n
           /\ IsInjective(a) /\ IsInjective(b)
           /\ \A x : Contains(l, x) <=> Contains(a, x) \/ Contains(b, x)
           /\ \A x : ~(Contains(a, x) /\ Contains(b, x))
<1>1. Len(l) \in Nat /\ n \in Nat /\ n <= Len(l)
  OBVIOUS
<1>2. /\ a \in Seq(S) /\ Len(a) = n /\ DOMAIN a = 1 .. n
      /\ \A i \in 1 .. n : a[i] = l[i]
  BY <1>1 DEF First
<1>3. /\ b \in Seq(S) /\ Len(b) = Len(l) - n /\ DOMAIN b = 1 .. (Len(l) - n)
      /\ \A i \in 1 .. (Len(l) - n) : b[i] = l[n + i]
  BY <1>1 DEF Left
<1>4. \A i, j \in 1 .. Len(l) : l[i] = l[j] => i = j
  BY DEF IsInjective
<1>5. IsInjective(a)
  BY <1>1, <1>2, <1>4 DEF IsInjective
<1>6. IsInjective(b)
  <2> SUFFICES ASSUME NEW i \in 1 .. (Len(l) - n), NEW j \in 1 .. (Len(l) - n), b[i] = b[j]
               PROVE  i = j
    BY <1>3 DEF IsInjective
  <2>1. n + i \in 1 .. Len(l) /\ n + j \in 1 .. Len(l) /\ l[n + i] = l[n + j]
    BY <1>1, <1>3
  <2>2. n + i = n + j
    BY <1>4, <2>1
  <2> QED BY <1>1, <2>2
<1>7. ASSUME NEW x, Contains(a, x) \/ Contains(b, x) PROVE Contains(l, x)
  <2>1. CASE Contains(a, x)
    BY <1>1, <1>2, <2>1 DEF Contains
  <2>2. CASE Contains(b, x)
    <3>1. PICK i \in 1 .. (Len(l) - n) : b[i] = x
      BY <1>3, <2>2 DEF Contains
    <3>2. n + i \in 1 .. Len(l) /\ l[n + i] = x
      BY <1>1, <1>3, <3>1
    <3> QED BY <3>2 DEF Contains
  <2> QED BY <1>7, <2>1, <2>2
<1>8. ASSUME NEW x, Contains(l, x) PROVE Contains(a, x) \/ Contains(b, x)
  <2>1. PICK i \in 1 .. Len(l) : l[i] = x
    BY <1>8 DEF Contains
  <2>2. CASE i <= n
    BY <1>1, <1>2, <2>1, <2>2 DEF Contains
  <2>3. CASE i > n
    <3>1. i - n \in 1 .. (Len(l) - n) /\ b[i - n] = x
      BY <1>1, <1>3, <2>1, <2>3
    <3> QED BY <1>3, <3>1 DEF Contains
  <2> QED BY <1>1, <2>2, <2>3
<1>9. ASSUME NEW x, Contains(a, x), Contains(b, x) PROVE FALSE
  <2>1. PICK i \in 1 .. n : a[i] = x
    BY <1>2, <1>9 DEF Contains
  <2>2. PICK j \in 1 .. (Len(l) - n) : b[j] = x
    BY <1>3, <1>9 DEF Contains
  <2>3. i \in 1 .. Len(l) /\ n + j \in 1 .. Len(l) /\ l[i] = l[n + j] /\ i # n + j
    BY <1>1, <1>2, <1>3, <2>1, <2>2
  <2> QED BY <1>4, <2>3
<1> QED BY <1>2, <1>3, <1>5, <1>6, <1>7, <1>8, <1>9

(* On its first m places c is a, and on the next k it is b. *)
Joins(a, b, c, m, k) ==
    /\ m \in Nat /\ k \in Nat
    /\ \A i \in 1 .. m : c[i] = a[i]
    /\ \A i \in 1 .. k : c[m + i] = b[i]

Has(f, n, x)   == \E i \in 1 .. n : f[i] = x
OneToOne(f, n) == \A i, j \in 1 .. n : f[i] = f[j] => i = j

LEMMA JoinedRanges ==
    ASSUME NEW a, NEW b, NEW c, NEW m, NEW k, Joins(a, b, c, m, k)
    PROVE  /\ \A x : Has(c, m + k, x) <=> Has(a, m, x) \/ Has(b, k, x)
           /\ OneToOne(a, m) /\ OneToOne(b, k) /\ (\A i \in 1 .. m, j \in 1 .. k : a[i] # b[j])
              => OneToOne(c, m + k)
<1> USE DEF Joins
<1>1. \A i \in 1 .. (m + k) : i \in 1 .. m \/ \E j \in 1 .. k : i = m + j
  <2> TAKE i \in 1 .. (m + k)
  <2>1. CASE i > m
    <3>1. i - m \in 1 .. k /\ i = m + (i - m)
      BY <2>1
    <3> QED BY <3>1
  <2> QED BY <2>1
<1>2. \A i \in 1 .. m : i \in 1 .. (m + k)
  OBVIOUS
<1>3. \A i \in 1 .. k : m + i \in 1 .. (m + k)
  OBVIOUS
<1>4. ASSUME NEW x, NEW i \in 1 .. (m + k), c[i] = x
      PROVE  (\E h \in 1 .. m : a[h] = x) \/ (\E h \in 1 .. k : b[h] = x)
  BY <1>1, <1>4
<1>5. ASSUME NEW x, NEW i \in 1 .. m, a[i] = x PROVE \E h \in 1 .. (m + k) : c[h] = x
  BY <1>2, <1>5
<1>6. ASSUME NEW x, NEW i \in 1 .. k, b[i] = x PROVE \E h \in 1 .. (m + k) : c[h] = x
  BY <1>3, <1>6
<1>7. ASSUME OneToOne(a, m), OneToOne(b, k),
             \A i \in 1 .. m, j \in 1 .. k : a[i] # b[j],
             NEW i \in 1 .. (m + k), NEW j \in 1 .. (m + k), c[i] = c[j]
      PROVE  i = j
  <2>1. CASE i \in 1 .. m /\ j \in 1 .. m
    BY <1>7, <2>1 DEF OneToOne
  <2>2. ASSUME i \in 1 .. m, NEW h \in 1 .. k, j = m + h PROVE FALSE
    BY <1>7, <2>2
  <2>3. ASSUME j \in 1 .. m, NEW h \in 1 .. k, i = m + h PROVE FALSE
    BY <1>7, <2>3
  <2>4. ASSUME NEW g \in 1 .. k, NEW h \in 1 .. k, i = m + g, j = m + h PROVE i = j
    BY <1>7, <2>4 DEF OneToOne
  <2> QED BY <1>1, <2>1, <2>2, <2>3, <2>4
<1>8. OneToOne(a, m) /\ OneToOne(b, k) /\ (\A i \in 1 .. m, j \in 1 .. k : a[i] # b[j])
        => OneToOne(c, m + k)
  BY <1>7 DEF OneToOne
<1>9. \A x : Has(c, m + k, x) <=> Has(a, m, x) \/ Has(b, k, x)
  BY <1>4, <1>5, <1>6 DEF Has
<1> QED BY <1>8, <1>9

(* Two lists without repetition that have nothing in common, joined. *)
LEMMA JoinedList ==
    ASSUME NEW S, NEW a \in Seq(S), NEW b \in Seq(S), IsInjective(a), IsInjective(b),
           \A x : ~(Contains(a, x) /\ Contains(b, x)),
           NEW c, c = a \o b
    PROVE  /\ c \in Seq(S) /\ IsInjective(c)
           /\ \A x : Contains(c, x) <=> Contains(a, x) \/ Contains(b, x)
<1> DEFINE m == Len(a)
           k == Len(b)
<1>1. m \in Nat /\ k \in Nat /\ DOMAIN a = 1 .. m /\ DOMAIN b = 1 .. k
  OBVIOUS
<1>2. c \in Seq(S) /\ Len(c) = m + k
  BY ConcatProperties, Zenon
<1>3. \A i \in 1 .. m : c[i] = a[i]
  BY ConcatProperties
<1>4. \A i \in 1 .. k : c[m + i] = b[i]
  OBVIOUS
<1>5. \A x : Contains(c, x) <=> Has(c, m + k, x)
  BY <1>2 DEF Contains, Has
<1>6. \A x : Contains(a, x) <=> Has(a, m, x)
  BY DEF Contains, Has
<1>7. \A x : Contains(b, x) <=> Has(b, k, x)
  BY DEF Contains, Has
<1>8. DOMAIN c = 1 .. (m + k)
  BY <1>2
<1> HIDE DEF m, k
<1>9. OneToOne(a, m) /\ OneToOne(b, k)
  BY <1>1, Zenon DEF IsInjective, OneToOne
<1>10. Joins(a, b, c, m, k)
  BY <1>1, <1>3, <1>4, Zenon DEF Joins
<1>11. \A i \in 1 .. m, j \in 1 .. k : a[i] # b[j]
  <2> TAKE i \in 1 .. m, j \in 1 .. k
  <2>1. Contains(a, a[i]) /\ Contains(b, b[j])
    BY <1>6, <1>7, Zenon DEF Has
  <2> QED BY <2>1, Zenon
<1>12. /\ \A x : Has(c, m + k, x) <=> Has(a, m, x) \/ Has(b, k, x)
       /\ OneToOne(c, m + k)
  <2>1. \A x : Has(c, m + k, x) <=> Has(a, m, x) \/ Has(b, k, x)
    BY <1>10, JoinedRanges
  <2>2. OneToOne(c, m + k)
    BY <1>9, <1>10, <1>11, JoinedRanges, Zenon
  <2> QED BY <2>1, <2>2
<1>13. IsInjective(c)
  BY <1>8, <1>12, Zenon DEF IsInjective, OneToOne
<1> QED BY <1>2, <1>5, <1>6, <1>7, <1>12, <1>13, Zenon

(* The head of a list and the others. *)
LEMMA HeadTail ==
    ASSUME NEW S, NEW l \in Seq(S), IsInjective(l), l # <<>>
    PROVE  /\ Head(l) \in S /\ Contains(l, Head(l))
           /\ Tail(l) \in Seq(S) /\ IsInjective(Tail(l)) /\ Len(Tail(l)) = Len(l) - 1
           /\ \A x : Contains(Tail(l), x) <=> Contains(l, x) /\ x # Head(l)
<1> DEFINE n == Len(l)
           b == Tail(l)
           h == Head(l)
<1>1. n \in Nat /\ 1 <= n /\ h \in S /\ Contains(l, h) /\ h = l[1] /\ DOMAIN l = 1 .. n
  BY DEF Contains
<1>2. b \in Seq(S) /\ Len(b) = n - 1 /\ DOMAIN b = 1 .. (n - 1)
  OBVIOUS
<1>3. \A i \in 1 .. (n - 1) : b[i] = l[i + 1]
  OBVIOUS
<1>4. \A x : Contains(l, x) <=> \E i \in 1 .. n : l[i] = x
  BY DEF Contains
<1>5. \A x : Contains(b, x) <=> \E i \in 1 .. (n - 1) : b[i] = x
  BY <1>2 DEF Contains
<1> HIDE DEF n, b, h
<1>6. \A i, j \in 1 .. n : l[i] = l[j] => i = j
  BY <1>1, Zenon DEF IsInjective
<1>7. \A i \in 1 .. (n - 1) : i + 1 \in 1 .. n /\ i + 1 # 1
  BY <1>1
<1>8. \A i \in 1 .. n : i = 1 \/ \E j \in 1 .. (n - 1) : i = j + 1
  <2> TAKE i \in 1 .. n
  <2>1. i # 1 => i - 1 \in 1 .. (n - 1) /\ i = (i - 1) + 1
    BY <1>1
  <2> QED BY <2>1
<1>9. IsInjective(b)
  <2> SUFFICES ASSUME NEW i \in 1 .. (n - 1), NEW j \in 1 .. (n - 1), b[i] = b[j] PROVE i = j
    BY <1>2 DEF IsInjective
  <2>1. l[i + 1] = l[j + 1]
    BY <1>3
  <2>2. i + 1 = j + 1
    BY <1>6, <1>7, <2>1
  <2> QED BY <1>1, <2>2
<1>10. ASSUME NEW x, Contains(b, x) PROVE Contains(l, x) /\ x # h
  <2>1. PICK i \in 1 .. (n - 1) : b[i] = x
    BY <1>5, <1>10
  <2>2. i + 1 \in 1 .. n /\ l[i + 1] = x /\ i + 1 # 1 /\ 1 \in 1 .. n
    BY <1>1, <1>3, <1>7, <2>1
  <2> QED BY <1>1, <1>4, <1>6, <2>2
<1>11. ASSUME NEW x, Contains(l, x), x # h PROVE Contains(b, x)
  <2>1. PICK i \in 1 .. n : l[i] = x
    BY <1>4, <1>11
  <2>2. PICK j \in 1 .. (n - 1) : i = j + 1
    BY <1>1, <1>8, <1>11, <2>1
  <2> QED BY <1>3, <1>5, <2>1, <2>2
<1>12. Len(b) = Len(l) - 1
  BY <1>2 DEF n
<1>13. \A x : Contains(b, x) <=> Contains(l, x) /\ x # h
  BY <1>10, <1>11
<1> QED BY <1>1, <1>2, <1>9, <1>12, <1>13 DEF b, h

LEMMA IntervalSize ==
    \A k \in Nat : IsFiniteSet(1 .. k) /\ Cardinality(1 .. k) = k
<1> TAKE k \in Nat
<1>1. 1 \in Int /\ k \in Int
  OBVIOUS
<1>2. IsFiniteSet(1 .. k) /\ Cardinality(1 .. k) = IF 1 > k THEN 0 ELSE k - 1 + 1
  BY <1>1, FS_Interval, Zenon
<1> QED BY <1>2

(* A list without repetition of members of another is not longer. *)
LEMMA ListFits ==
    ASSUME NEW S, NEW l \in Seq(S), IsInjective(l), NEW m \in Seq(S),
           \A x : Contains(l, x) => Contains(m, x)
    PROVE  Len(l) <= Len(m)
<1>1. Len(l) \in Nat /\ Len(m) \in Nat /\ DOMAIN l = 1 .. Len(l)
  OBVIOUS
<1> SUFFICES ASSUME Len(m) < Len(l) PROVE FALSE
  BY <1>1
<1> DEFINE f == [i \in 1 .. Len(l) |-> CHOOSE j \in 1 .. Len(m) : m[j] = l[i]]
<1>2. \A i \in 1 .. Len(l) : f[i] \in 1 .. Len(m) /\ m[f[i]] = l[i]
  <2> TAKE i \in 1 .. Len(l)
  <2>1. Contains(l, l[i])
    BY DEF Contains
  <2>2. \E j \in 1 .. Len(m) : m[j] = l[i]
    BY <2>1 DEF Contains
  <2> QED BY <2>2
<1>3. f \in [1 .. Len(l) -> 1 .. Len(m)]
  BY <1>2
<1>4. /\ IsFiniteSet(1 .. Len(l)) /\ Cardinality(1 .. Len(l)) = Len(l)
      /\ IsFiniteSet(1 .. Len(m)) /\ Cardinality(1 .. Len(m)) = Len(m)
  <2> QED BY <1>1, IntervalSize
<1> HIDE DEF f
<1>5. PICK x, y \in 1 .. Len(l) : x # y /\ f[x] = f[y]
  BY <1>3, <1>4, FS_PigeonHole
<1>6. l[x] = l[y]
  BY <1>2, <1>5
<1> QED BY <1>1, <1>5, <1>6 DEF IsInjective

(* If one member is missing it is shorter; if it is shorter by one, nothing *)
(* else is missing.                                                         *)
LEMMA ListMissesOne ==
    ASSUME NEW S, NEW l \in Seq(S), IsInjective(l), NEW m \in Seq(S),
           \A x : Contains(l, x) => Contains(m, x),
           NEW o \in S, Contains(m, o), ~Contains(l, o)
    PROVE  /\ Len(l) + 1 <= Len(m)
           /\ Len(l) + 1 = Len(m) => \A y : Contains(m, y) => y = o \/ Contains(l, y)
<1> DEFINE k == <<o>> \o l
<1>1. k \in Seq(S) /\ IsInjective(k) /\ \A x : Contains(k, x) <=> x = o \/ Contains(l, x)
  BY PushedList
<1>2. Len(k) = Len(l) + 1 /\ Len(l) \in Nat /\ Len(m) \in Nat
  OBVIOUS
<1> HIDE DEF k
<1>3. Len(k) <= Len(m)
  BY <1>1, ListFits
<1>4. ASSUME Len(l) + 1 = Len(m), NEW y, Contains(m, y), ~(y = o \/ Contains(l, y)) PROVE FALSE
  <2> DEFINE j == <<y>> \o k
  <2>1. y \in S /\ ~Contains(k, y)
    BY <1>1, <1>4, ContainsElement
  <2>2. j \in Seq(S) /\ IsInjective(j) /\ \A x : Contains(j, x) <=> x = y \/ Contains(k, x)
    BY <1>1, <2>1, PushedList
  <2>3. Len(j) = Len(k) + 1
    BY <1>1, <2>1
  <2> HIDE DEF j
  <2>4. Len(j) <= Len(m)
    BY <1>1, <1>4, <2>2, ListFits
  <2> QED BY <1>2, <1>4, <2>3, <2>4
<1> QED BY <1>2, <1>3, <1>4
-----------------------------------------------------------------------------
(* The objects of a span. *)

LEMMA DivBounds ==
    ASSUME NEW a \in Nat, NEW b \in Nat, b # 0
    PROVE  /\ a \div b \in Nat /\ (a \div b) * b <= a /\ a < (a \div b) * b + b
OBVIOUS

LEMMA TimesMonotone ==
    ASSUME NEW a \in Nat, NEW b \in Nat, NEW c \in Nat, a <= b
    PROVE  a * c \in Nat /\ b * c \in Nat /\ a * c <= b * c
OBVIOUS

(* The page of a byte between the first bytes of two pages. *)
LEMMA DivBetween ==
    ASSUME NEW o \in Nat, NEW b \in Nat, b # 0, NEW p \in Nat, NEW q \in Nat,
           p * b <= o, o < q * b
    PROVE  o \div b \in Nat /\ p <= o \div b /\ o \div b < q
<1> DEFINE d == o \div b
<1>1. d \in Nat /\ d * b <= o /\ o < d * b + b
  BY DivBounds
<1> HIDE DEF d
<1>2. p <= d
  <2> SUFFICES ASSUME d + 1 <= p PROVE FALSE
    BY <1>1
  <2>1. (d + 1) * b <= p * b
    BY <1>1, TimesMonotone
  <2>2. (d + 1) * b = d * b + b /\ p * b \in Nat /\ d * b \in Nat
    BY <1>1
  <2> QED BY <1>1, <2>1, <2>2
<1>3. d < q
  <2> SUFFICES ASSUME q <= d PROVE FALSE
    BY <1>1
  <2>1. q * b <= d * b
    BY <1>1, TimesMonotone
  <2>2. q * b \in Nat /\ d * b \in Nat
    BY <1>1
  <2> QED BY <1>1, <2>1, <2>2
<1> QED BY <1>1, <1>2, <1>3 DEF d

(* They begin in its pages, each at a byte of its own. *)
LEMMA SlotsOK ==
    ASSUME NEW r \in SpanRec, 1 <= r._npage, NEW size \in Nat, size # 0
    PROVE  /\ Slots(r, size) \in Seq(Nat) /\ IsInjective(Slots(r, size))
           /\ 1 <= Len(Slots(r, size))
           /\ \A o : Contains(Slots(r, size), o) => o \in Nat /\ o \div PageSize \in Pages(r)
<1> DEFINE n == r._npage
           a == r._pageid
           P == PageSize
           k == (n * P + size - 1) \div size
           l == [i \in 1 .. k |-> a * P + (i - 1) * size]
<1>1. n \in Nat /\ a \in Nat /\ P \in Nat /\ P # 0 /\ 1 <= n
  BY PoolAssumption DEF SpanRec
<1>2. Slots(r, size) = l
  BY DEF Slots
<1>3. Pages(r) = a .. (a + n - 1)
  BY DEF Pages
<1> HIDE DEF n, a, P
<1>4. n * P \in Nat /\ 1 <= n * P /\ n * P + size - 1 \in Nat /\ a * P \in Nat
      /\ (a + n) * P = a * P + n * P
  BY <1>1
<1>5. k \in Nat /\ k * size <= n * P + size - 1 /\ n * P + size - 1 < k * size + size
  BY <1>4, DivBounds
<1>6. 1 <= k
  <2> HIDE DEF k
  <2>1. k = 0 => k * size = 0
    BY <1>5
  <2> QED BY <1>4, <1>5, <2>1
<1> HIDE DEF k
<1>7. ASSUME NEW i \in 1 .. k
      PROVE  /\ (i - 1) * size \in Nat /\ (i - 1) * size < n * P
             /\ l[i] = a * P + (i - 1) * size /\ l[i] \in Nat
  <2>1. i \in Nat /\ i - 1 \in Nat /\ k \in Nat /\ i - 1 + 1 <= k
    BY <1>5
  <2>2. (i - 1 + 1) * size <= k * size
    BY <2>1, TimesMonotone
  <2>3. (i - 1 + 1) * size = (i - 1) * size + size /\ (i - 1) * size \in Nat /\ k * size \in Nat
    BY <2>1
  <2>4. (i - 1) * size < n * P
    BY <1>4, <1>5, <2>2, <2>3
  <2> QED BY <1>4, <2>3, <2>4
<1>8. l \in Seq(Nat) /\ Len(l) = k /\ DOMAIN l = 1 .. k
  BY <1>5, <1>7
<1>9. ASSUME NEW i \in 1 .. k, NEW j \in 1 .. k, i < j PROVE l[i] # l[j]
  <2>1. i - 1 \in Nat /\ j - 1 \in Nat /\ i \in Nat /\ i - 1 + 1 <= j - 1
    BY <1>5, <1>9
  <2>2. (i - 1 + 1) * size <= (j - 1) * size
    BY <2>1, TimesMonotone
  <2>3. (i - 1 + 1) * size = (i - 1) * size + size
    BY <2>1
  <2> QED BY <1>4, <1>7, <2>2, <2>3
<1> HIDE DEF l
<1>10. IsInjective(l)
  <2> SUFFICES ASSUME NEW i \in 1 .. k, NEW j \in 1 .. k, l[i] = l[j] PROVE i = j
    BY <1>8 DEF IsInjective
  <2>1. ~(i < j) /\ ~(j < i)
    BY <1>9
  <2> QED BY <1>5, <2>1
<1>11. ASSUME NEW o, Contains(l, o) PROVE o \in Nat /\ o \div P \in a .. (a + n - 1)
  <2>1. PICK i \in 1 .. k : l[i] = o
    BY <1>8, <1>11 DEF Contains
  <2>2. o \in Nat /\ a * P <= o /\ o < (a + n) * P
    BY <1>4, <1>7, <2>1
  <2>3. o \div P \in Nat /\ a <= o \div P /\ o \div P < a + n
    BY <1>1, <2>2, DivBetween
  <2> DEFINE d == o \div P
  <2> HIDE DEF d
  <2>4. d \in Nat /\ a <= d /\ d < a + n
    BY <2>3 DEF d
  <2>5. d \in a .. (a + n - 1)
    BY <1>1, <2>4
  <2> QED BY <2>2, <2>5 DEF d
<1>12. \A o : Contains(l, o) => o \in Nat /\ o \div PageSize \in Pages(r)
  BY <1>3, <1>11 DEF P
<1> QED BY <1>2, <1>6, <1>8, <1>10, <1>12
-----------------------------------------------------------------------------
(* The pool as a whole.  A span serves while it is in use and not on its    *)
(* way back to PageCache: then its objects exist.                           *)
Serving == InUse \ UNION {InTransit(t) : t \in Thread}

SlotsOf(s) == Slots(page.span[s], page.span[s]._objsize)
Objects(s) == ToSet(SlotsOf(s))
SizeOf(s)  == page.span[s]._objsize

(* Object o is in the list of span s, in the cache of thread t for size z,  *)
(* in the list that t returns.                                              *)
InSpan(s, o)     == Contains(_objlist[s], o)
InCache(t, z, o) == Contains(_freelist[t][z].list, o)
InReturn(t, o)   == Contains(loc[t].list, o)

Newing    == {"refill", "sbrk", "claim", "advance"}
Fetching  == {"fetch", "newspan", "insert"}
Returning == {"release", "return", "giveback"}

Caches == [Thread -> [Size -> [list : Seq(Nat), maxSize : Nat \ {0}]]]
Local  == [size : Size \cup {0}, num : Nat, span : SpanId \cup {null}, list : Seq(Nat),
           cache : Nat, remain : Int]

PoolTypes ==
    /\ build \in {"Debug", "NDEBUG", "aborted"}
    /\ tls_threadcache \in [Thread -> Nat]
    /\ TcPool \in [_memory : Nat, remainBytes : Int, top : Nat]
    /\ _freelist \in Caches
    /\ _spanlist \in [Size -> Seq(SpanId)]
    /\ _mtx \in [Size -> Thread \cup {null}]
    /\ _objlist \in [SpanId -> Seq(Nat)]
    /\ _usecount \in [SpanId -> Nat]
    /\ pc \in [Thread -> {"idle"} \cup Newing \cup Fetching \cup Returning]
    /\ loc \in [Thread -> Local]
    /\ held \subseteq Nat

(* A thread about to put a span into a bucket, or to give it back. *)
Handles(t)   == pc[t] \in {"insert", "giveback"}
InHand(t, s) == Handles(t) /\ s = loc[t].span

(* Where a thread is in the code, and its locals. *)
Locals ==
    \A t \in Thread :
      /\ pc[t] # "idle" => loc[t].size \in Size
      /\ pc[t] \in Fetching => 1 <= loc[t].num
      /\ pc[t] \notin Returning => loc[t].list = <<>>
      /\ pc[t] = "return" => loc[t].list # <<>>
      /\ Handles(t) => loc[t].span \in SpanId

(* A span in use serves one size. *)
Sized == \A s \in InUse : SizeOf(s) \in Size

(* The spans of a bucket serve its size; each is there once. *)
Buckets ==
    \A z \in Size :
      /\ IsInjective(_spanlist[z])
      /\ \A s \in SpanId : Contains(_spanlist[z], s) => s \in Serving /\ SizeOf(s) = z

(* A span in a thread's hands is in no bucket and in nobody else's hands;   *)
(* a new one still has all its objects.                                     *)
InHands ==
    \A t \in Thread, s \in SpanId : InHand(t, s) =>
      /\ s \in InUse
      /\ pc[t] = "insert" => SizeOf(s) = loc[t].size /\ _objlist[s] = SlotsOf(s)
      /\ \A z \in Size : ~Contains(_spanlist[z], s)
      /\ \A u \in Thread : InHand(u, s) => u = t

(* No list has an object twice. *)
NoRepeats ==
    /\ \A s \in SpanId : IsInjective(_objlist[s])
    /\ \A t \in Thread : IsInjective(loc[t].list)
    /\ \A t \in Thread, z \in Size : IsInjective(_freelist[t][z].list)

(* No object is in two places. *)
ExclusiveAt(o) ==
    /\ \A s, r \in SpanId : InSpan(s, o) /\ InSpan(r, o) => s = r
    /\ \A t, u \in Thread : InReturn(t, o) /\ InReturn(u, o) => t = u
    /\ \A t, u \in Thread, z, y \in Size : InCache(t, z, o) /\ InCache(u, y, o) => t = u /\ z = y
    /\ \A s \in SpanId, t \in Thread : ~(InSpan(s, o) /\ InReturn(t, o))
    /\ \A s \in SpanId, t \in Thread, z \in Size : ~(InSpan(s, o) /\ InCache(t, z, o))
    /\ \A u \in Thread, t \in Thread, z \in Size : ~(InReturn(u, o) /\ InCache(t, z, o))
    /\ \A s \in SpanId : ~(o \in held /\ InSpan(s, o))
    /\ \A t \in Thread : ~(o \in held /\ InReturn(t, o))
    /\ \A t \in Thread, z \in Size : ~(o \in held /\ InCache(t, z, o))

Exclusive == \A o \in Nat : ExclusiveAt(o)

Located(o) ==
    \/ o \in held
    \/ \E s \in SpanId : InSpan(s, o)
    \/ \E t \in Thread : InReturn(t, o)
    \/ \E t \in Thread, z \in Size : InCache(t, z, o)

(* The objects of the serving spans are somewhere, and nothing else is. *)
Complete == \A o \in Nat : Located(o) <=> \E s \in Serving : o \in Objects(s)

(* An object is in the list of its own span, or in lists of its own size. *)
Belongs ==
    /\ \A s \in SpanId, o \in Nat : InSpan(s, o) => s \in Serving /\ o \in Objects(s)
    /\ \A s \in Serving : \A o \in Objects(s) :
         /\ \A t \in Thread : InReturn(t, o) => SizeOf(s) = loc[t].size
         /\ \A t \in Thread, z \in Size : InCache(t, z, o) => SizeOf(s) = z

Spread == NoRepeats /\ Exclusive /\ Complete /\ Belongs

PoolInv ==
    /\ Tiled(page, null) /\ PoolTypes /\ Locals /\ Sized /\ Buckets /\ InHands /\ Spread
    /\ UseCountExact
-----------------------------------------------------------------------------
LEMMA ServingDef ==
    /\ \A s : s \in Serving <=> s \in InUse /\ \A t \in Thread : ~(pc[t] = "giveback" /\ s = loc[t].span)
    /\ \A s : s \in Serving' <=> s \in InUse' /\ \A t \in Thread : ~(pc'[t] = "giveback" /\ s = loc'[t].span)
BY DEF Serving, InTransit

(* The objects of a span in use begin in its pages. *)
LEMMA ObjectsOK ==
    ASSUME Tiled(page, null), Sized, NEW s \in InUse
    PROVE  /\ s \in SpanId /\ SlotsOf(s) \in Seq(Nat) /\ IsInjective(SlotsOf(s))
           /\ 1 <= Len(SlotsOf(s))
           /\ \A o : o \in Objects(s) <=> Contains(SlotsOf(s), o)
           /\ \A o : o \in Objects(s) => o \in Nat /\ o \div PageSize \in Pages(page.span[s])
<1>1. s \in LiveIn(page) /\ s \in SpanId /\ IsPage(page) /\ Placed(page)
  BY DEF InUse, Live, LiveIn, Tiled
<1>2. page.span[s] \in SpanRec /\ page.span[s]._npage \in Nat /\ 1 <= page.span[s]._npage
  BY <1>1, LivePages DEF Tiled
<1>3. SizeOf(s) \in Nat /\ SizeOf(s) # 0
  BY PoolAssumption DEF Sized
<1>4. /\ SlotsOf(s) \in Seq(Nat) /\ IsInjective(SlotsOf(s)) /\ 1 <= Len(SlotsOf(s))
      /\ \A o : Contains(SlotsOf(s), o) => o \in Nat /\ o \div PageSize \in Pages(page.span[s])
  BY <1>2, <1>3, SlotsOK DEF SlotsOf, SizeOf
<1>5. \A o : o \in Objects(s) <=> Contains(SlotsOf(s), o)
  BY <1>4 DEF Objects, ToSet, Contains
<1> QED BY <1>1, <1>4, <1>5

(* No object belongs to two spans. *)
LEMMA ObjectsApart ==
    ASSUME Tiled(page, null), Sized, NEW s \in InUse, NEW r \in InUse,
           NEW o, o \in Objects(s), o \in Objects(r)
    PROVE  s = r
<1>1. o \div PageSize \in Pages(page.span[s]) /\ o \div PageSize \in Pages(page.span[r])
  BY ObjectsOK
<1>2. s \in LiveIn(page) /\ r \in LiveIn(page)
  BY DEF InUse, Live, LiveIn
<1> QED BY <1>1, <1>2 DEF Tiled, Apart

(* The map leads from an object that is out to the span it was cut from. *)
LEMMA OwnerFound ==
    ASSUME PoolInv, MapFindsOwner, NEW o \in Nat, Located(o), \A s \in SpanId : ~InSpan(s, o)
    PROVE  /\ map_object_to_Span(o) \in Serving /\ o \in Objects(map_object_to_Span(o))
<1>1. PICK s \in Serving : o \in Objects(s)
  BY DEF PoolInv, Spread, Complete
<1>2. s \in InUse /\ s \in SpanId
  BY ServingDef, ObjectsOK DEF PoolInv
<1>3. o \in ToSet(Slots(page.span[s], page.span[s]._objsize)) /\ ~Contains(_objlist[s], o)
  BY <1>1, <1>2 DEF Objects, SlotsOf, InSpan
<1>4. page.map[o \div PageSize] = s
  BY <1>2, <1>3 DEF MapFindsOwner
<1> QED BY <1>1, <1>4 DEF map_object_to_Span

(* What a step that leaves page alone leaves alone with it. *)
LEMMA SamePage ==
    ASSUME page' = page
    PROVE  /\ InUse' = InUse
           /\ \A s : SlotsOf(s)' = SlotsOf(s) /\ Objects(s)' = Objects(s) /\ SizeOf(s)' = SizeOf(s)
           /\ Sized <=> Sized'
           /\ Tiled(page, null) <=> Tiled(page', null)
<1>1. InUse' = InUse
  BY DEF InUse, Live
<1>2. \A s : SlotsOf(s)' = SlotsOf(s)
  BY DEF SlotsOf
<1>3. \A s : Objects(s)' = Objects(s)
  BY <1>2 DEF Objects
<1>4. \A s : SizeOf(s)' = SizeOf(s)
  BY DEF SizeOf
<1> QED BY <1>1, <1>2, <1>3, <1>4 DEF Sized

(* One list of a thread's cache is replaced. *)
WithList(f, t, z, l) == [f EXCEPT ![t][z].list = l]

LEMMA SetList ==
    ASSUME NEW f \in Caches, NEW t \in Thread, NEW z \in Size, NEW l \in Seq(Nat),
           NEW g, g = WithList(f, t, z, l)
    PROVE  /\ g \in Caches /\ g[t][z].list = l
           /\ \A u \in Thread, y \in Size : ~(u = t /\ y = z) => g[u][y].list = f[u][y].list
<1> USE DEF Caches
<1>1. f[t] \in [Size -> [list : Seq(Nat), maxSize : Nat \ {0}]]
  OBVIOUS
<1> DEFINE r == [f[t][z] EXCEPT !.list = l]
           h == [f[t] EXCEPT ![z] = r]
<1>2. f[t][z] \in [list : Seq(Nat), maxSize : Nat \ {0}]
  BY <1>1
<1>3. r \in [list : Seq(Nat), maxSize : Nat \ {0}] /\ r.list = l
  BY <1>2
<1>4. g = [f EXCEPT ![t] = h]
  BY DEF WithList
<1> HIDE DEF r
<1>5. h \in [Size -> [list : Seq(Nat), maxSize : Nat \ {0}]] /\ h[z] = r
      /\ \A y \in Size : y # z => h[y] = f[t][y]
  BY <1>1, <1>3
<1> HIDE DEF h
<1>6. g \in [Thread -> [Size -> [list : Seq(Nat), maxSize : Nat \ {0}]]] /\ g[t] = h
      /\ \A u \in Thread : u # t => g[u] = f[u]
  BY <1>4, <1>5
<1>7. g[t][z].list = l
  BY <1>3, <1>5, <1>6
<1>8. ASSUME NEW u \in Thread, NEW y \in Size, ~(u = t /\ y = z) PROVE g[u][y] = f[u][y]
  BY <1>5, <1>6, <1>8
<1> QED BY <1>6, <1>7, <1>8
-----------------------------------------------------------------------------
(* Object o is where it was; object o is in one place. *)
Stays(o) ==
    /\ o \in held' <=> o \in held
    /\ \A s \in SpanId : InSpan(s, o)' <=> InSpan(s, o)
    /\ \A t \in Thread : InReturn(t, o)' <=> InReturn(t, o)
    /\ \A t \in Thread, z \in Size : InCache(t, z, o)' <=> InCache(t, z, o)

OnlyHeld(o) ==
    /\ o \in held
    /\ \A s \in SpanId : ~InSpan(s, o)
    /\ \A t \in Thread : ~InReturn(t, o)
    /\ \A t \in Thread, z \in Size : ~InCache(t, z, o)

OnlyInSpan(s, o) ==
    /\ o \notin held
    /\ InSpan(s, o) /\ \A r \in SpanId : InSpan(r, o) => r = s
    /\ \A t \in Thread : ~InReturn(t, o)
    /\ \A t \in Thread, z \in Size : ~InCache(t, z, o)

OnlyInReturn(t, o) ==
    /\ o \notin held
    /\ \A s \in SpanId : ~InSpan(s, o)
    /\ InReturn(t, o) /\ \A u \in Thread : InReturn(u, o) => u = t
    /\ \A u \in Thread, z \in Size : ~InCache(u, z, o)

OnlyInCache(t, z, o) ==
    /\ o \notin held
    /\ \A s \in SpanId : ~InSpan(s, o)
    /\ \A u \in Thread : ~InReturn(u, o)
    /\ InCache(t, z, o) /\ \A u \in Thread, y \in Size : InCache(u, y, o) => u = t /\ y = z

Single(o) ==
    \/ OnlyHeld(o)
    \/ \E s \in SpanId : OnlyInSpan(s, o)
    \/ \E t \in Thread : OnlyInReturn(t, o)
    \/ \E t \in Thread, z \in Size : OnlyInCache(t, z, o)

(* An object that is in one place is not in two. *)
LEMMA SinglePlace ==
    ASSUME NEW o, Single(o)'
    PROVE  ExclusiveAt(o)' /\ Located(o)'
<1>1. CASE OnlyHeld(o)'
  BY <1>1 DEF OnlyHeld, ExclusiveAt, Located
<1>2. ASSUME NEW s \in SpanId, OnlyInSpan(s, o)' PROVE ExclusiveAt(o)' /\ Located(o)'
  BY <1>2 DEF OnlyInSpan, ExclusiveAt, Located
<1>3. ASSUME NEW t \in Thread, OnlyInReturn(t, o)' PROVE ExclusiveAt(o)' /\ Located(o)'
  BY <1>3 DEF OnlyInReturn, ExclusiveAt, Located
<1>4. ASSUME NEW t \in Thread, NEW z \in Size, OnlyInCache(t, z, o)' PROVE ExclusiveAt(o)' /\ Located(o)'
  BY <1>4 DEF OnlyInCache, ExclusiveAt, Located
<1> QED BY <1>1, <1>2, <1>3, <1>4 DEF Single

(* What holds of an object that stays. *)
LEMMA StaysPut ==
    ASSUME NEW o, Stays(o)
    PROVE  (ExclusiveAt(o) => ExclusiveAt(o)') /\ (Located(o)' <=> Located(o))
<1>1. Located(o)' <=> Located(o)
  BY DEF Stays, Located
<1>2. ASSUME ExclusiveAt(o) PROVE ExclusiveAt(o)'
  BY <1>2 DEF Stays, ExclusiveAt
<1> QED BY <1>1, <1>2

(* Objects that stay, or move from one place to another. *)
LEMMA Moves ==
    ASSUME Exclusive, \A o \in Nat : Stays(o) \/ (Located(o) /\ Single(o)')
    PROVE  Exclusive' /\ \A o \in Nat : Located(o)' <=> Located(o)
<1>1. \A o \in Nat : ExclusiveAt(o)
  BY DEF Exclusive
<1>2. \A o \in Nat : ExclusiveAt(o)' /\ (Located(o)' <=> Located(o))
  <2> TAKE o \in Nat
  <2>1. CASE Stays(o)
    BY <1>1, <2>1, StaysPut
  <2>2. CASE Located(o) /\ Single(o)'
    BY <2>2, SinglePlace
  <2> QED BY <2>1, <2>2
<1>3. Exclusive'
  BY <1>2 DEF Exclusive
<1> QED BY <1>2, <1>3

(* A step that leaves the spans where they are, and page. *)
SameSpans ==
    /\ page' = page /\ _spanlist' = _spanlist
    /\ \A t \in Thread : /\ pc'[t] = "insert" <=> pc[t] = "insert"
                         /\ pc'[t] = "giveback" <=> pc[t] = "giveback"
                         /\ Handles(t) => loc'[t].span = loc[t].span /\ loc'[t].size = loc[t].size
                         /\ pc[t] = "insert" => _objlist'[loc[t].span] = _objlist[loc[t].span]

(* What such a step keeps. *)
LEMMA SameSpansOK ==
    ASSUME PoolInv, SameSpans
    PROVE  /\ InUse' = InUse /\ Serving' = Serving
           /\ \A s : SlotsOf(s)' = SlotsOf(s) /\ Objects(s)' = Objects(s) /\ SizeOf(s)' = SizeOf(s)
           /\ Sized' /\ Tiled(page', null) /\ Buckets' /\ InHands'
<1>1. /\ InUse' = InUse /\ Sized' /\ Tiled(page', null)
      /\ \A s : SlotsOf(s)' = SlotsOf(s) /\ Objects(s)' = Objects(s) /\ SizeOf(s)' = SizeOf(s)
  BY SamePage DEF PoolInv, SameSpans
<1>2. Serving' = Serving
  <2>1. \A s : s \in Serving' <=> s \in Serving
    BY <1>1, ServingDef DEF SameSpans, Handles
  <2>2. Serving' \subseteq Serving /\ Serving \subseteq Serving'
    BY <2>1
  <2> QED BY <2>2
<1>3. Buckets'
  BY <1>1, <1>2 DEF PoolInv, Buckets, SameSpans
<1>4. \A t \in Thread : \A s : InHand(t, s)' <=> InHand(t, s)
  BY DEF SameSpans, InHand, Handles
<1>5. InHands'
  <2> SUFFICES ASSUME NEW t \in Thread, NEW s \in SpanId, InHand(t, s)
               PROVE  /\ s \in InUse'
                      /\ pc'[t] = "insert" => SizeOf(s)' = loc'[t].size /\ _objlist'[s] = SlotsOf(s)'
                      /\ \A z \in Size : ~Contains(_spanlist'[z], s)
                      /\ \A u \in Thread : InHand(u, s)' => u = t
    BY <1>4 DEF InHands
  <2>1. /\ s \in InUse
        /\ pc[t] = "insert" => SizeOf(s) = loc[t].size /\ _objlist[s] = SlotsOf(s)
        /\ \A z \in Size : ~Contains(_spanlist[z], s)
        /\ \A u \in Thread : InHand(u, s) => u = t
    BY DEF PoolInv, InHands
  <2>2. loc'[t].size = loc[t].size /\ (pc[t] = "insert" => _objlist'[s] = _objlist[s])
    BY DEF InHand, SameSpans
  <2> QED BY <1>1, <1>4, <2>1, <2>2 DEF SameSpans
<1> QED BY <1>1, <1>2, <1>3, <1>5

LEMMA UseCountDef ==
    /\ UseCountExact <=> \A s \in Serving : _usecount[s] = Len(SlotsOf(s)) - Len(_objlist[s])
    /\ UseCountExact' <=> \A s \in Serving' : _usecount'[s] = Len(SlotsOf(s)') - Len(_objlist'[s])
BY DEF UseCountExact, Serving, SlotsOf

(* Such a step, in which objects stay or move from one place to another. *)
LEMMA MovesOK ==
    ASSUME PoolInv, SameSpans, \A o \in Nat : Stays(o) \/ (Located(o) /\ Single(o)'),
           PoolTypes', Locals', NoRepeats', Belongs', UseCountExact'
    PROVE  PoolInv'
<1>1. Serving' = Serving /\ \A s : Objects(s)' = Objects(s)
  BY SameSpansOK
<1>2. Exclusive' /\ \A o \in Nat : Located(o)' <=> Located(o)
  BY Moves DEF PoolInv, Spread
<1>3. Complete'
  BY <1>1, <1>2 DEF PoolInv, Spread, Complete
<1> QED BY <1>2, <1>3, SameSpansOK DEF PoolInv, Spread

(* Such a step that moves no object either. *)
Quiet ==
    /\ SameSpans /\ UNCHANGED <<_objlist, _usecount, held>>
    /\ \A t \in Thread, z \in Size : _freelist'[t][z].list = _freelist[t][z].list
    /\ \A t \in Thread : /\ loc'[t].list = loc[t].list
                         /\ loc[t].list # <<>> => loc'[t].size = loc[t].size

LEMMA QuietOK ==
    ASSUME PoolInv, Quiet, PoolTypes', Locals'
    PROVE  PoolInv'
<1>1. /\ Serving' = Serving
      /\ \A s : SlotsOf(s)' = SlotsOf(s) /\ Objects(s)' = Objects(s) /\ SizeOf(s)' = SizeOf(s)
  BY SameSpansOK DEF Quiet
<1>2. /\ \A s \in SpanId : \A o : InSpan(s, o)' <=> InSpan(s, o)
      /\ \A t \in Thread : \A o : InReturn(t, o)' <=> InReturn(t, o)
      /\ \A t \in Thread, z \in Size : \A o : InCache(t, z, o)' <=> InCache(t, z, o)
  BY DEF Quiet, InSpan, InReturn, InCache
<1>3. \A o \in Nat : Stays(o)
  BY <1>2 DEF Stays, Quiet
<1>4. NoRepeats'
  BY DEF PoolInv, Spread, NoRepeats, Quiet
<1>5. Belongs'
  <2>1. \A s \in SpanId, o \in Nat : InSpan(s, o)' => s \in Serving' /\ o \in Objects(s)'
    BY <1>1, <1>2 DEF PoolInv, Spread, Belongs
  <2>2. ASSUME NEW s \in Serving, NEW o \in Objects(s), NEW t \in Thread, InReturn(t, o)
        PROVE  SizeOf(s) = loc'[t].size
    <3>1. loc[t].list # <<>>
      BY <2>2, ContainsElement DEF InReturn, PoolInv, PoolTypes, Local
    <3> QED BY <3>1, <2>2 DEF PoolInv, Spread, Belongs, Quiet
  <2>3. \A s \in Serving : \A o \in Objects(s) : \A t \in Thread, z \in Size :
          InCache(t, z, o) => SizeOf(s) = z
    BY DEF PoolInv, Spread, Belongs
  <2> QED BY <1>1, <1>2, <2>1, <2>2, <2>3 DEF Belongs
<1>6. UseCountExact'
  BY <1>1, UseCountDef DEF PoolInv, Quiet
<1> QED BY <1>3, <1>4, <1>5, <1>6, MovesOK DEF Quiet
-----------------------------------------------------------------------------
(* One thread goes on. *)
LEMMA GotoOK ==
    ASSUME PoolTypes, NEW t \in Thread, NEW where, where \in {"idle"} \cup Newing \cup Fetching \cup Returning,
           NEW l \in Local, Goto(t, where, l)
    PROVE  /\ pc' \in [Thread -> {"idle"} \cup Newing \cup Fetching \cup Returning] /\ loc' \in [Thread -> Local]
           /\ pc'[t] = where /\ loc'[t] = l
           /\ \A u \in Thread : u # t => pc'[u] = pc[u] /\ loc'[u] = loc[u]
BY DEF PoolTypes, Goto

(* The new locals of one thread are in order, and those of the others as    *)
(* before.                                                                  *)
LEMMA LocalsGoto ==
    ASSUME Locals, NEW t \in Thread, NEW where, NEW l, pc'[t] = where, loc'[t] = l,
           \A u \in Thread : u # t => pc'[u] = pc[u] /\ loc'[u] = loc[u],
           where # "idle" => l.size \in Size,
           where \in Fetching => 1 <= l.num,
           where \notin Returning => l.list = <<>>,
           where = "return" => l.list # <<>>,
           where \in {"insert", "giveback"} => l.span \in SpanId
    PROVE  Locals'
<1> SUFFICES ASSUME NEW u \in Thread
             PROVE  /\ pc'[u] # "idle" => loc'[u].size \in Size
                    /\ pc'[u] \in Fetching => 1 <= loc'[u].num
                    /\ pc'[u] \notin Returning => loc'[u].list = <<>>
                    /\ pc'[u] = "return" => loc'[u].list # <<>>
                    /\ pc'[u] \in {"insert", "giveback"} => loc'[u].span \in SpanId
  BY DEF Locals, Handles
<1>1. CASE u = t
  BY <1>1
<1>2. CASE u # t
  BY <1>2 DEF Locals, Handles
<1> QED BY <1>1, <1>2

LEMMA IdleLoc == idleLoc \in Local /\ idleLoc.list = <<>>
BY PoolSizes DEF idleLoc, Local, null

FetchLoc(k, size, num)    == [k EXCEPT !.size = size, !.num = num]
ReleaseLoc(k, size, list) == [k EXCEPT !.size = size, !.list = list]

LEMMA FetchLocOK ==
    ASSUME NEW k \in Local, NEW size \in Size, NEW num \in Nat,
           NEW l, l = FetchLoc(k, size, num)
    PROVE  l \in Local /\ l.size = size /\ l.num = num /\ l.list = k.list
BY DEF Local, FetchLoc

LEMMA ReleaseLocOK ==
    ASSUME NEW k \in Local, NEW size \in Size, NEW list \in Seq(Nat),
           NEW l, l = ReleaseLoc(k, size, list)
    PROVE  l \in Local /\ l.size = size /\ l.list = list
BY DEF Local, ReleaseLoc

(* fetch_from_CentralCache asks for an object at least. *)
LEMMA MoveSize ==
    ASSUME NEW size \in Size
    PROVE  num_move_size(size) \in Nat /\ 2 <= num_move_size(size)
<1>1. MAXBYTES \in Nat /\ size \in Nat /\ size # 0 /\ MaxMove \in Nat /\ 2 <= MaxMove
  BY PoolAssumption
<1>2. MAXBYTES \div size \in Nat
  BY <1>1, DivBounds
<1> DEFINE k == MAXBYTES \div size
<1> HIDE DEF k
<1>3. CASE k < 2
  BY <1>1, <1>2, <1>3 DEF num_move_size, k
<1>4. CASE k > MaxMove
  BY <1>1, <1>2, <1>4 DEF num_move_size, k
<1>5. CASE ~(k < 2) /\ ~(k > MaxMove)
  BY <1>1, <1>2, <1>5 DEF num_move_size, k
<1> QED BY <1>3, <1>4, <1>5

WithMaxSize(f, t, z, m) == [f EXCEPT ![t][z].maxSize = m]

LEMMA SetMaxSize ==
    ASSUME NEW f \in Caches, NEW t \in Thread, NEW z \in Size, NEW m \in Nat \ {0},
           NEW g, g = WithMaxSize(f, t, z, m)
    PROVE  g \in Caches /\ \A u \in Thread, y \in Size : g[u][y].list = f[u][y].list
<1> USE DEF Caches
<1>1. f[t] \in [Size -> [list : Seq(Nat), maxSize : Nat \ {0}]]
  OBVIOUS
<1> DEFINE r == [f[t][z] EXCEPT !.maxSize = m]
           h == [f[t] EXCEPT ![z] = r]
<1>2. f[t][z] \in [list : Seq(Nat), maxSize : Nat \ {0}]
  BY <1>1
<1>3. r \in [list : Seq(Nat), maxSize : Nat \ {0}] /\ r.list = f[t][z].list
  BY <1>2
<1>4. g = [f EXCEPT ![t] = h]
  BY DEF WithMaxSize
<1> HIDE DEF r
<1>5. h \in [Size -> [list : Seq(Nat), maxSize : Nat \ {0}]] /\ h[z] = r
      /\ \A y \in Size : y # z => h[y] = f[t][y]
  BY <1>1, <1>3
<1> HIDE DEF h
<1>6. g \in [Thread -> [Size -> [list : Seq(Nat), maxSize : Nat \ {0}]]] /\ g[t] = h
      /\ \A u \in Thread : u # t => g[u] = f[u]
  BY <1>4, <1>5
<1>7. ASSUME NEW u \in Thread, NEW y \in Size PROVE g[u][y].list = f[u][y].list
  BY <1>3, <1>5, <1>6
<1> QED BY <1>6, <1>7

(* FetchMiss keeps the pool in order. *)
LEMMA FetchMissOK ==
    ASSUME PoolInv, NEW t \in Thread, FetchMiss(t), build' = build
    PROVE  PoolInv'
<1>1. PoolTypes /\ Locals /\ loc[t] \in Local
  BY DEF PoolInv, PoolTypes
<1>2. /\ pc' \in [Thread -> {"idle"} \cup Newing \cup Fetching \cup Returning] /\ loc' \in [Thread -> Local]
      /\ pc'[t] = "newspan" /\ loc'[t] = loc[t]
      /\ \A u \in Thread : u # t => pc'[u] = pc[u] /\ loc'[u] = loc[u]
  BY <1>1, GotoOK DEF FetchMiss, Fetching
<1>3. PoolTypes'
  BY <1>1, <1>2 DEF PoolTypes, FetchMiss
<1>4. Locals'
  BY <1>1, <1>2, LocalsGoto DEF Locals, FetchMiss, Fetching, Returning
<1>5. SameSpans
  BY <1>2 DEF SameSpans, FetchMiss, Handles
<1>6. Quiet
  BY <1>2, <1>5 DEF Quiet, FetchMiss
<1> QED BY <1>3, <1>4, <1>6, QuietOK

(* ReleaseLock does. *)
LEMMA ReleaseLockOK ==
    ASSUME PoolInv, NEW t \in Thread, ReleaseLock(t), build' = build
    PROVE  PoolInv'
<1>1. PoolTypes /\ Locals /\ loc[t] \in Local /\ loc[t].size \in Size
  BY DEF PoolInv, PoolTypes, Locals, ReleaseLock
<1> DEFINE P == {"idle"} \cup Newing \cup Fetching \cup Returning
<1> HIDE DEF P
<1>2. ASSUME NEW where, NEW l \in Local, where \in {"idle", "return"}, Goto(t, where, l),
             l.list = loc[t].list, l.list # <<>> => l.size = loc[t].size,
             where = "return" <=> l.list # <<>>, where # "idle" => l.size \in Size,
             _mtx' \in [Size -> Thread \cup {null}]
      PROVE  PoolInv'
  <2>1. /\ pc' \in [Thread -> {"idle"} \cup Newing \cup Fetching \cup Returning] /\ loc' \in [Thread -> Local]
        /\ pc'[t] = where /\ loc'[t] = l
        /\ \A u \in Thread : u # t => pc'[u] = pc[u] /\ loc'[u] = loc[u]
    BY <1>1, <1>2, GotoOK DEF Returning
  <2>2. PoolTypes'
    BY <1>1, <1>2, <2>1 DEF PoolTypes, ReleaseLock
  <2>3. Locals'
    BY <1>1, <1>2, <2>1, LocalsGoto DEF Fetching, Returning
  <2>4. SameSpans
    BY <1>2, <2>1 DEF SameSpans, ReleaseLock, Handles
  <2>5. Quiet
    BY <1>2, <2>1, <2>4 DEF Quiet, ReleaseLock
  <2> QED BY <2>2, <2>3, <2>5, QuietOK
<1>3. CASE loc[t].list = <<>>
  BY <1>1, <1>2, <1>3, IdleLoc DEF ReleaseLock, Done, PoolTypes
<1>4. CASE loc[t].list # <<>>
  <2>1. _mtx' \in [Size -> Thread \cup {null}]
    BY <1>1, <1>4 DEF ReleaseLock, PoolTypes
  <2>2. Goto(t, "return", loc[t])
    BY <1>4 DEF ReleaseLock
  <2> QED BY <1>1, <1>2, <1>4, <2>1, <2>2
<1> QED BY <1>3, <1>4

(* So does each step of New() but the last. *)
LEMMA NewingOK ==
    ASSUME PoolInv, NEW t \in Thread, pc[t] \in {"idle"} \cup Newing,
           NEW where \in Newing, NEW l \in Local, l.size \in Size, l.list = <<>>, Goto(t, where, l),
           TcPool' \in [_memory : Nat, remainBytes : Int, top : Nat],
           UNCHANGED <<tls_threadcache, _freelist, _spanlist, _mtx, _objlist, _usecount, page, held, build>>
    PROVE  PoolInv'
<1>1. PoolTypes /\ Locals
  BY DEF PoolInv
<1>2. /\ pc' \in [Thread -> {"idle"} \cup Newing \cup Fetching \cup Returning] /\ loc' \in [Thread -> Local]
      /\ pc'[t] = where /\ loc'[t] = l
      /\ \A u \in Thread : u # t => pc'[u] = pc[u] /\ loc'[u] = loc[u]
  BY <1>1, GotoOK
<1>3. PoolTypes'
  BY <1>1, <1>2 DEF PoolTypes
<1>4. where \notin {"idle", "return", "insert", "giveback"} /\ where \notin Fetching /\ where \notin Returning
  BY DEF Newing, Fetching, Returning
<1>5. Locals'
  BY <1>1, <1>2, <1>4, LocalsGoto
<1>6. pc[t] \notin {"insert", "giveback"} /\ loc[t].list = <<>>
  BY <1>1 DEF Locals, Newing, Returning
<1>7. SameSpans
  BY <1>2, <1>4, <1>6 DEF SameSpans, Handles
<1>8. Quiet
  BY <1>2, <1>6, <1>7 DEF Quiet
<1> QED BY <1>3, <1>5, <1>8, QuietOK

(* So does fetch_from_CentralCache, called by Allocate or by a thread that  *)
(* leaves New().                                                            *)
LEMMA AllocMissOK ==
    ASSUME PoolInv, NEW t \in Thread, NEW size \in Size, pc[t] \in {"idle", "advance"},
           tls_threadcache' \in [Thread -> Nat],
           TcPool' \in [_memory : Nat, remainBytes : Int, top : Nat], fetch_from_CentralCache(t, size),
           UNCHANGED <<_spanlist, _mtx, _objlist, _usecount, page>>, build' = build
    PROVE  PoolInv'
<1>1. PoolTypes /\ Locals /\ loc[t] \in Local /\ _freelist \in Caches
  BY DEF PoolInv, PoolTypes
<1> DEFINE m   == _freelist[t][size].maxSize
           num == Min({num_move_size(size), m})
           n   == IF num = m THEN m + 1 ELSE m
           l   == FetchLoc(idleLoc, size, num)
<1>2. m \in Nat \ {0}
  BY <1>1 DEF Caches
<1>3. /\ _freelist' = WithMaxSize(_freelist, t, size, n)
      /\ Goto(t, "fetch", l) /\ held' = held
  BY DEF WithMaxSize, FetchLoc, fetch_from_CentralCache
<1> HIDE DEF m
<1>4. num \in Nat /\ 1 <= num
  <2>1. num \in {num_move_size(size), m}
    BY <1>2, MoveSize, MinOK
  <2> QED BY <2>1, <1>2, MoveSize
<1> HIDE DEF num
<1>5. n \in Nat \ {0}
  BY <1>2
<1> HIDE DEF n
<1>6. _freelist' \in Caches /\ \A u \in Thread, y \in Size : _freelist'[u][y].list = _freelist[u][y].list
  BY <1>1, <1>3, <1>5, SetMaxSize
<1>7. l \in Local /\ l.size = size /\ l.num = num /\ l.list = <<>>
  BY <1>4, IdleLoc, FetchLocOK
<1> HIDE DEF l
<1>8. /\ pc' \in [Thread -> {"idle"} \cup Newing \cup Fetching \cup Returning] /\ loc' \in [Thread -> Local]
      /\ pc'[t] = "fetch" /\ loc'[t] = l
      /\ \A u \in Thread : u # t => pc'[u] = pc[u] /\ loc'[u] = loc[u]
  BY <1>1, <1>3, <1>7, GotoOK DEF Fetching
<1>9. PoolTypes'
  BY <1>1, <1>3, <1>6, <1>8 DEF PoolTypes
<1>10. Locals'
  BY <1>1, <1>4, <1>7, <1>8, LocalsGoto DEF Fetching, Returning
<1>11. SameSpans
  BY <1>8 DEF SameSpans, Handles
<1>12. loc[t].list = <<>>
  BY <1>1 DEF Locals, Returning
<1>13. Quiet
  BY <1>3, <1>6, <1>7, <1>8, <1>11, <1>12 DEF Quiet
<1> QED BY <1>9, <1>10, <1>13, QuietOK
-----------------------------------------------------------------------------
(* The ways through Allocate and deallocate that leave the bucket alone. *)
AllocHit(t, size) ==
    /\ _freelist[t][size].list # <<>>
    /\ held' = held \cup {Head(_freelist[t][size].list)}
    /\ _freelist' = WithList(_freelist, t, size, Tail(_freelist[t][size].list))
    /\ UNCHANGED <<tls_threadcache, TcPool, pc, loc, _spanlist, _mtx, _objlist, _usecount, page, build>>

FreeShort(t, obj, z) ==
    /\ z = page.span[map_object_to_Span(obj)]._objsize
    /\ held' = held \ {obj}
    /\ _freelist' = WithList(_freelist, t, z, <<obj>> \o _freelist[t][z].list)
    /\ UNCHANGED <<tls_threadcache, TcPool, pc, loc, _spanlist, _mtx, _objlist, _usecount, page, build>>

FreeLong(t, obj, z) ==
    /\ z = page.span[map_object_to_Span(obj)]._objsize
    /\ pc[t] = "idle" /\ held' = held \ {obj}
    /\ LET l == <<obj>> \o _freelist[t][z].list
       IN  _freelist[t][z].maxSize < Len(l) /\ list_to_long(t, z, l)
    /\ UNCHANGED <<tls_threadcache, TcPool, _spanlist, _mtx, _objlist, _usecount, page, build>>

(* Allocate moves the head of the list from the cache to the user. *)
LEMMA AllocHitOK ==
    ASSUME PoolInv, NEW t \in Thread, NEW size \in Size, AllocHit(t, size)
    PROVE  PoolInv'
<1> DEFINE f == _freelist[t][size].list
           b == Tail(f)
<1>0. PICK h : h = Head(f)
  OBVIOUS
<1>1. PoolTypes /\ Locals /\ _freelist \in Caches /\ f \in Seq(Nat) /\ IsInjective(f) /\ f # <<>>
  BY DEF PoolInv, PoolTypes, Caches, Spread, NoRepeats, AllocHit
<1>2. _freelist' = WithList(_freelist, t, size, b) /\ held' = held \cup {h}
  BY <1>0 DEF AllocHit
<1>3. /\ h \in Nat /\ Contains(f, h) /\ b \in Seq(Nat) /\ IsInjective(b)
      /\ \A x : Contains(b, x) <=> Contains(f, x) /\ x # h
  BY <1>0, <1>1, HeadTail
<1> HIDE DEF b, f
<1>4. /\ _freelist' \in Caches /\ _freelist'[t][size].list = b
      /\ \A u \in Thread, y \in Size :
           ~(u = t /\ y = size) => _freelist'[u][y].list = _freelist[u][y].list
  BY <1>1, <1>2, <1>3, SetList
<1>5. /\ InCache(t, size, h) /\ held' = held \cup {h}
      /\ \A u \in Thread, y \in Size : \A x :
           InCache(u, y, x)' <=> InCache(u, y, x) /\ ~(u = t /\ y = size /\ x = h)
      /\ \A s \in SpanId : \A x : InSpan(s, x)' <=> InSpan(s, x)
      /\ \A u \in Thread : \A x : InReturn(u, x)' <=> InReturn(u, x)
  BY <1>2, <1>3, <1>4 DEF InCache, InSpan, InReturn, AllocHit, f
<1>6. PoolTypes'
  BY <1>1, <1>2, <1>3, <1>4 DEF PoolTypes, AllocHit
<1>7. Locals'
  BY <1>1 DEF Locals, Handles, AllocHit
<1>8. NoRepeats'
  BY <1>3, <1>4 DEF PoolInv, Spread, NoRepeats, AllocHit
<1>9. SameSpans
  BY DEF SameSpans, AllocHit
<1>10. ExclusiveAt(h)
  BY <1>3 DEF PoolInv, Spread, Exclusive
<1>11. Located(h) /\ OnlyHeld(h)'
  <2>1. Located(h)
    BY <1>5 DEF Located
  <2>2. /\ \A s \in SpanId : ~InSpan(s, h)
        /\ \A u \in Thread : ~InReturn(u, h)
        /\ \A u \in Thread, y \in Size : InCache(u, y, h) => u = t /\ y = size
    BY <1>5, <1>10 DEF ExclusiveAt
  <2>3. h \in held'
    BY <1>5
  <2> QED BY <1>5, <2>1, <2>2, <2>3 DEF OnlyHeld
<1>12. \A x \in Nat : x # h => Stays(x)
  BY <1>5 DEF Stays
<1>13. \A x \in Nat : Stays(x) \/ (Located(x) /\ Single(x)')
  <2>1. Single(h)'
    BY <1>11 DEF Single
  <2> QED BY <1>11, <1>12, <2>1
<1>14. /\ Serving' = Serving
       /\ \A s : SlotsOf(s)' = SlotsOf(s) /\ Objects(s)' = Objects(s) /\ SizeOf(s)' = SizeOf(s)
  BY <1>9, SameSpansOK
<1>15. Belongs'
  BY <1>5, <1>14 DEF PoolInv, Spread, Belongs, AllocHit
<1>16. UseCountExact'
  BY <1>14, UseCountDef DEF PoolInv, AllocHit
<1> QED BY <1>6, <1>7, <1>8, <1>9, <1>13, <1>15, <1>16, MovesOK

(* An object a user holds was cut from the span that the map names. *)
LEMMA HeldObject ==
    ASSUME PoolInv, MapFindsOwner, NEW obj \in held
    PROVE  /\ obj \in Nat /\ page.span[map_object_to_Span(obj)]._objsize \in Size
           /\ \A s \in Serving : obj \in Objects(s) =>
                SizeOf(s) = page.span[map_object_to_Span(obj)]._objsize
<1>1. obj \in Nat
  BY DEF PoolInv, PoolTypes
<1>2. Located(obj) /\ \A s \in SpanId : ~InSpan(s, obj)
  BY <1>1 DEF PoolInv, Spread, Exclusive, ExclusiveAt, Located
<1> DEFINE r == map_object_to_Span(obj)
<1>3. r \in Serving /\ obj \in Objects(r)
  BY <1>1, <1>2, OwnerFound
<1> HIDE DEF r
<1>4. SizeOf(r) \in Size
  BY <1>3, ServingDef DEF PoolInv, Sized
<1>5. \A s \in Serving : obj \in Objects(s) => s = r
  BY <1>3, ServingDef, ObjectsApart DEF PoolInv
<1> QED BY <1>1, <1>4, <1>5 DEF SizeOf, r

(* deallocate moves the object from the user to the cache. *)
LEMMA FreeShortOK ==
    ASSUME PoolInv, MapFindsOwner, NEW t \in Thread, NEW obj \in held, NEW z,
           FreeShort(t, obj, z)
    PROVE  PoolInv'
<1>0. obj \in Nat /\ z \in Size /\ \A s \in Serving : obj \in Objects(s) => SizeOf(s) = z
  BY HeldObject DEF FreeShort
<1> DEFINE f == _freelist[t][z].list
           l == <<obj>> \o f
<1>1. PoolTypes /\ Locals /\ _freelist \in Caches /\ f \in Seq(Nat) /\ IsInjective(f)
  BY <1>0 DEF PoolInv, PoolTypes, Caches, Spread, NoRepeats
<1>2. _freelist' = WithList(_freelist, t, z, l)
  BY DEF FreeShort
<1>3. ExclusiveAt(obj)
  BY <1>0 DEF PoolInv, Spread, Exclusive
<1>4. ~Contains(f, obj)
  BY <1>0, <1>3 DEF ExclusiveAt, InCache
<1>5. /\ l \in Seq(Nat) /\ IsInjective(l)
      /\ \A x : Contains(l, x) <=> x = obj \/ Contains(f, x)
  BY <1>0, <1>1, <1>4, PushedList
<1>6. /\ _freelist' \in Caches /\ _freelist'[t][z].list = l
      /\ \A u \in Thread, y \in Size :
           ~(u = t /\ y = z) => _freelist'[u][y].list = _freelist[u][y].list
  <2> HIDE DEF l, f
  <2> QED BY <1>0, <1>1, <1>2, <1>5, SetList
<1> HIDE DEF l
<1>7. /\ \A u \in Thread, y \in Size : \A x :
           InCache(u, y, x)' <=> InCache(u, y, x) \/ (u = t /\ y = z /\ x = obj)
      /\ \A s \in SpanId : \A x : InSpan(s, x)' <=> InSpan(s, x)
      /\ \A u \in Thread : \A x : InReturn(u, x)' <=> InReturn(u, x)
  BY <1>5, <1>6, Zenon DEF InCache, InSpan, InReturn, FreeShort
<1>8. PoolTypes'
  BY <1>1, <1>6, Zenon DEF PoolTypes, FreeShort
<1>9. Locals'
  BY <1>1 DEF Locals, Handles, FreeShort
<1>10. NoRepeats'
  BY <1>5, <1>6, Zenon DEF PoolInv, Spread, NoRepeats, FreeShort
<1> HIDE DEF f
<1>11. SameSpans
  BY DEF SameSpans, FreeShort
<1>12. Located(obj) /\ OnlyInCache(t, z, obj)'
  BY <1>0, <1>3, <1>7 DEF Located, OnlyInCache, ExclusiveAt, FreeShort
<1>13. \A x \in Nat : x # obj => Stays(x)
  BY <1>7 DEF Stays, FreeShort
<1>14. \A x \in Nat : Stays(x) \/ (Located(x) /\ Single(x)')
  BY <1>0, <1>12, <1>13 DEF Single
<1>15. /\ Serving' = Serving
       /\ \A s : SlotsOf(s)' = SlotsOf(s) /\ Objects(s)' = Objects(s) /\ SizeOf(s)' = SizeOf(s)
  BY <1>11, SameSpansOK
<1>16. Belongs'
  BY <1>0, <1>7, <1>15 DEF PoolInv, Spread, Belongs, FreeShort
<1>17. UseCountExact'
  BY <1>15, UseCountDef DEF PoolInv, FreeShort
<1> QED BY <1>8, <1>9, <1>10, <1>11, <1>14, <1>16, <1>17, MovesOK

(* list_to_long moves _maxSize objects, that one first, to the list to      *)
(* return.                                                                  *)
LEMMA FreeLongOK ==
    ASSUME PoolInv, MapFindsOwner, NEW t \in Thread, NEW obj \in held, NEW z,
           FreeLong(t, obj, z)
    PROVE  PoolInv'
<1>0. obj \in Nat /\ z \in Size /\ \A s \in Serving : obj \in Objects(s) => SizeOf(s) = z
  BY HeldObject DEF FreeLong
<1> DEFINE f == _freelist[t][z].list
           l == <<obj>> \o f
           n == _freelist[t][z].maxSize
           a == First(l, n)
           b == Left(l, n)
           k == ReleaseLoc(idleLoc, z, a)
<1>1. /\ PoolTypes /\ Locals /\ _freelist \in Caches /\ f \in Seq(Nat) /\ IsInjective(f)
      /\ n \in Nat \ {0}
  BY <1>0 DEF PoolInv, PoolTypes, Caches, Spread, NoRepeats
<1>2. _freelist' = WithList(_freelist, t, z, b) /\ Goto(t, "release", k)
  BY Zenon DEF WithList, ReleaseLoc, list_to_long, FreeLong, First, Left
<1>3. ExclusiveAt(obj)
  BY <1>0 DEF PoolInv, Spread, Exclusive
<1>4. ~Contains(f, obj)
  BY <1>0, <1>3 DEF ExclusiveAt, InCache
<1>5. /\ l \in Seq(Nat) /\ IsInjective(l)
      /\ \A x : Contains(l, x) <=> x = obj \/ Contains(f, x)
  BY <1>0, <1>1, <1>4, PushedList
<1>6. n \in 0 .. Len(l)
  <2>1. n < Len(l)
    BY DEF FreeLong
  <2> HIDE DEF l, n
  <2>2. Len(l) \in Nat
    BY <1>5
  <2> QED BY <1>1, <2>1, <2>2
<1> HIDE DEF n, l
<1>7. /\ a \in Seq(Nat) /\ b \in Seq(Nat) /\ IsInjective(a) /\ IsInjective(b)
      /\ \A x : Contains(l, x) <=> Contains(a, x) \/ Contains(b, x)
      /\ \A x : ~(Contains(a, x) /\ Contains(b, x))
  BY <1>5, <1>6, SplitList
<1> HIDE DEF a, b
<1> HIDE DEF f
<1>8. k \in Local /\ k.size = z /\ k.list = a
  BY <1>0, <1>7, IdleLoc, ReleaseLocOK
<1> HIDE DEF k
<1>9. /\ pc' \in [Thread -> {"idle"} \cup Newing \cup Fetching \cup Returning] /\ loc' \in [Thread -> Local]
      /\ pc'[t] = "release" /\ loc'[t] = k
      /\ \A u \in Thread : u # t => pc'[u] = pc[u] /\ loc'[u] = loc[u]
  BY <1>1, <1>2, <1>8, GotoOK DEF Returning
<1>10. Locals'
  BY <1>0, <1>1, <1>8, <1>9, LocalsGoto DEF Fetching, Returning
<1>11. /\ _freelist' \in Caches /\ _freelist'[t][z].list = b
       /\ \A u \in Thread, y \in Size :
            ~(u = t /\ y = z) => _freelist'[u][y].list = _freelist[u][y].list
  BY <1>0, <1>1, <1>2, <1>7, SetList, SMTT(30)
<1>12. PoolTypes'
  BY <1>1, <1>9, <1>11 DEF PoolTypes, FreeLong
<1>13. \A x : ~InReturn(t, x)
  <2>1. loc[t].list = <<>>
    BY <1>1, SMTT(30) DEF Locals, Returning, FreeLong
  <2>2. \A x : ~Contains(<<>>, x)
    BY DEF Contains
  <2> QED BY <2>1, <2>2 DEF InReturn
<1>14. /\ \A u \in Thread, y \in Size : \A x :
            InCache(u, y, x)' <=> IF u = t /\ y = z THEN Contains(b, x) ELSE InCache(u, y, x)
       /\ \A s \in SpanId : \A x : InSpan(s, x)' <=> InSpan(s, x)
       /\ \A u \in Thread : \A x : InReturn(u, x)' <=> IF u = t THEN Contains(a, x) ELSE InReturn(u, x)
       /\ \A x : Contains(a, x) \/ Contains(b, x) <=> x = obj \/ InCache(t, z, x)
  BY <1>5, <1>7, <1>8, <1>9, <1>11 DEF InCache, InSpan, InReturn, FreeLong, f
<1>15. NoRepeats'
  BY <1>7, <1>8, <1>9, <1>11 DEF PoolInv, Spread, NoRepeats, FreeLong
<1>16. SameSpans
  BY <1>9 DEF SameSpans, Handles, FreeLong
<1>17. ASSUME NEW x \in Nat, Contains(a, x) \/ Contains(b, x)
       PROVE  Located(x) /\ Single(x)'
  <2>1. Located(x)
    BY <1>0, <1>14, <1>17 DEF Located
  <2>2. ExclusiveAt(x)
    BY DEF PoolInv, Spread, Exclusive
  <2>3. CASE Contains(a, x)
    <3>1. OnlyInReturn(t, x)'
      BY <1>0, <1>3, <1>7, <1>13, <1>14, <2>2, <2>3 DEF OnlyInReturn, ExclusiveAt, FreeLong
    <3> QED BY <2>1, <3>1 DEF Single
  <2>4. CASE Contains(b, x)
    <3>1. OnlyInCache(t, z, x)'
      BY <1>0, <1>3, <1>7, <1>13, <1>14, <2>2, <2>4 DEF OnlyInCache, ExclusiveAt, FreeLong
    <3> QED BY <1>0, <2>1, <3>1 DEF Single
  <2> QED BY <1>17, <2>3, <2>4
<1>18. ASSUME NEW x \in Nat, ~Contains(a, x), ~Contains(b, x)
       PROVE  Stays(x)
  BY <1>13, <1>14, <1>18 DEF Stays, FreeLong
<1>19. \A x \in Nat : Stays(x) \/ (Located(x) /\ Single(x)')
  BY <1>17, <1>18
<1>20. /\ Serving' = Serving
       /\ \A s : SlotsOf(s)' = SlotsOf(s) /\ Objects(s)' = Objects(s) /\ SizeOf(s)' = SizeOf(s)
  BY <1>16, SameSpansOK
<1>21. \A s \in Serving : \A x \in Objects(s) : Contains(a, x) \/ Contains(b, x) => SizeOf(s) = z
  BY <1>0, <1>14 DEF PoolInv, Spread, Belongs
<1>22. \A u \in Thread : u # t => loc'[u].size = loc[u].size
  BY <1>9
<1>23. loc'[t].size = z
  BY <1>8, <1>9
<1>24. Belongs'
  BY <1>0, <1>14, <1>20, <1>21, <1>22, <1>23 DEF PoolInv, Spread, Belongs, FreeLong
<1>25. UseCountExact'
  BY <1>20, UseCountDef DEF PoolInv, FreeLong
<1> QED BY <1>10, <1>12, <1>15, <1>16, <1>19, <1>24, <1>25, MovesOK
-----------------------------------------------------------------------------
Others(l, n) == SubSeq(l, 2, n)

(* The first n members but for the head. *)
LEMMA TailOfFirst ==
    ASSUME NEW S, NEW l \in Seq(S), NEW n \in 1 .. Len(l)
    PROVE  First(l, n) # <<>> /\ Head(First(l, n)) = Head(l) /\ Others(l, n) = Tail(First(l, n))
<1>1. Len(l) \in Nat /\ n \in Nat /\ 1 <= n /\ n <= Len(l)
  OBVIOUS
<1> DEFINE a == First(l, n)
<1>2. a \in Seq(S) /\ Len(a) = n /\ \A i \in 1 .. n : a[i] = l[i]
  BY <1>1 DEF First
<1>3. /\ SubSeq(l, 2, n) \in Seq(S) /\ Len(SubSeq(l, 2, n)) = n - 1
      /\ \A i \in 1 .. (n - 1) : SubSeq(l, 2, n)[i] = l[i + 1]
  BY <1>1
<1> HIDE DEF a
<1>4. a # <<>> /\ Head(a) = l[1] /\ Head(l) = l[1]
  BY <1>1, <1>2
<1>5. Tail(a) \in Seq(S) /\ Len(Tail(a)) = n - 1 /\ \A i \in 1 .. (n - 1) : Tail(a)[i] = a[i + 1]
  BY <1>1, <1>2, <1>4
<1>6. \A i \in 1 .. (n - 1) : Tail(a)[i] = l[i + 1]
  BY <1>1, <1>2, <1>5
<1>7. SubSeq(l, 2, n) = Tail(a)
  <2> DEFINE c == SubSeq(l, 2, n)
             d == Tail(a)
  <2>1. c \in Seq(S) /\ Len(c) = n - 1 /\ \A i \in 1 .. (n - 1) : c[i] = l[i + 1]
    BY <1>3
  <2>2. d \in Seq(S) /\ Len(d) = n - 1 /\ \A i \in 1 .. (n - 1) : d[i] = l[i + 1]
    BY <1>5, <1>6
  <2> HIDE DEF c, d
  <2>3. c = d
    BY <1>1, <2>1, <2>2
  <2> QED BY <2>3 DEF c, d
<1> QED BY <1>4, <1>7 DEF a, Others

(* What Give takes off a span's list: the first object, the others, the rest. *)
LEMMA Portions ==
    ASSUME NEW l \in Seq(Nat), IsInjective(l), NEW n \in 1 .. Len(l)
    PROVE  /\ Head(l) \in Nat /\ Others(l, n) \in Seq(Nat) /\ IsInjective(Others(l, n))
           /\ Left(l, n) \in Seq(Nat) /\ IsInjective(Left(l, n)) /\ Len(Left(l, n)) = Len(l) - n
           /\ \A x : Contains(l, x) <=> x = Head(l) \/ Contains(Others(l, n), x) \/ Contains(Left(l, n), x)
           /\ \A x : ~(Contains(Others(l, n), x) /\ Contains(Left(l, n), x))
           /\ ~Contains(Others(l, n), Head(l)) /\ ~Contains(Left(l, n), Head(l))
<1>1. Len(l) \in Nat /\ n \in Nat /\ n \in 0 .. Len(l) /\ n <= Len(l)
  OBVIOUS
<1> DEFINE a == First(l, n)
           b == Left(l, n)
           c == Others(l, n)
           h == Head(l)
<1>2. /\ a \in Seq(Nat) /\ b \in Seq(Nat) /\ Len(b) = Len(l) - n
      /\ IsInjective(a) /\ IsInjective(b)
      /\ \A x : Contains(l, x) <=> Contains(a, x) \/ Contains(b, x)
      /\ \A x : ~(Contains(a, x) /\ Contains(b, x))
  <2>1. a = First(l, n) /\ b = Left(l, n)
    OBVIOUS
  <2>4. Len(b) = Len(l) - n
    BY <1>1, SplitList
  <2> HIDE DEF a, b
  <2>2. a \in Seq(Nat) /\ b \in Seq(Nat) /\ IsInjective(a) /\ IsInjective(b)
    BY <1>1, <2>1, SplitList, ZenonT(30)
  <2>3. /\ \A x : Contains(l, x) <=> Contains(a, x) \/ Contains(b, x)
        /\ \A x : ~(Contains(a, x) /\ Contains(b, x))
    BY <1>1, <2>1, SplitList, ZenonT(30)
  <2> QED BY <2>2, <2>3, <2>4
<1>3. a # <<>> /\ Head(a) = h /\ c = Tail(a)
  BY TailOfFirst
<1> HIDE DEF a, b, c, h
<1>4. /\ Head(a) \in Nat /\ Contains(a, Head(a))
      /\ Tail(a) \in Seq(Nat) /\ IsInjective(Tail(a))
      /\ \A x : Contains(Tail(a), x) <=> Contains(a, x) /\ x # Head(a)
  BY <1>2, <1>3, HeadTail
<1>5. /\ h \in Nat /\ c \in Seq(Nat) /\ IsInjective(c) /\ Contains(a, h)
      /\ \A x : Contains(c, x) <=> Contains(a, x) /\ x # h
  BY <1>3, <1>4
<1>6. /\ \A x : Contains(l, x) <=> x = h \/ Contains(c, x) \/ Contains(b, x)
      /\ \A x : ~(Contains(c, x) /\ Contains(b, x))
      /\ ~Contains(c, h) /\ ~Contains(b, h)
  BY <1>2, <1>5
<1> QED BY <1>2, <1>5, <1>6 DEF b, c, h

(* All of PoolInv but what it says of the places of spans. *)
ObjectsInv ==
    /\ Tiled(page, null) /\ PoolTypes /\ Locals /\ Sized /\ Spread /\ UseCountExact

Giving(t, s) ==
    /\ t \in Thread /\ s \in Serving /\ SizeOf(s) = loc[t].size /\ _objlist[s] # <<>>
    /\ pc[t] \in Fetching /\ Give(t, s) /\ build' = build
    /\ _spanlist' \in [Size -> Seq(SpanId)]

(* The end of fetch_range_obj: objects move from the span's list to the     *)
(* user and the cache, and are counted.                                     *)
LEMMA GiveOK ==
    ASSUME PoolInv, NEW t, NEW s, Giving(t, s)
    PROVE  /\ ObjectsInv' /\ Serving' = Serving
           /\ \A r : SlotsOf(r)' = SlotsOf(r) /\ SizeOf(r)' = SizeOf(r)
           /\ InUse' = InUse
           /\ \A r \in SpanId : r # s => _objlist'[r] = _objlist[r]
           /\ pc'[t] = "idle" /\ \A u \in Thread : u # t => pc'[u] = pc[u] /\ loc'[u] = loc[u]
<1>1. /\ PoolTypes /\ Locals /\ t \in Thread /\ s \in Serving /\ s \in SpanId
      /\ loc[t] \in Local /\ loc[t].num \in Nat /\ 1 <= loc[t].num /\ loc[t].list = <<>>
      /\ _freelist \in Caches /\ _objlist \in [SpanId -> Seq(Nat)] /\ _usecount \in [SpanId -> Nat]
  <2>1. s \in InUse /\ s \in SpanId
    BY ServingDef DEF Giving, InUse, Live
  <2>2. PoolTypes /\ Locals /\ t \in Thread
    BY DEF PoolInv, Giving
  <2>3. loc[t] \in Local
    BY <2>2 DEF PoolTypes
  <2>4. loc[t].num \in Nat
    BY <2>3 DEF Local
  <2>5. 1 <= loc[t].num /\ loc[t].list = <<>>
    BY <2>2 DEF Giving, Locals, Fetching, Returning
  <2> QED BY <2>1, <2>2, <2>3, <2>4, <2>5 DEF Giving, PoolTypes
<1>2. PICK size \in Size : size = loc[t].size
  BY <1>1 DEF Giving, Locals, Fetching
<1>3. PICK l \in Seq(Nat) : l = _objlist[s] /\ IsInjective(l) /\ l # <<>>
  BY <1>1 DEF Giving, PoolInv, Spread, NoRepeats
<1>4. PICK n \in 1 .. Len(l) : n = Min({loc[t].num, Len(l)})
  <2>1. Len(l) \in Nat /\ 1 <= Len(l)
    BY <1>3
  <2> DEFINE T == {loc[t].num, Len(l)}
  <2>2. T \subseteq Nat /\ T # {}
    BY <1>1, <2>1
  <2> HIDE DEF T
  <2>3. Min(T) \in T /\ \A y \in T : Min(T) <= y
    BY <2>2, MinOK
  <2>4. Min(T) \in 1 .. Len(l)
    BY <1>1, <2>1, <2>3 DEF T
  <2> QED BY <2>4 DEF T
<1>5. PICK h, c, b, f : h = Head(l) /\ c = Others(l, n) /\ b = Left(l, n) /\ f = _freelist[t][size].list
  OBVIOUS
<1>12. PICK d : d = c \o f
  OBVIOUS
<1>6. /\ held' = held \cup {h}
      /\ _freelist' = WithList(_freelist, t, size, d)
      /\ _objlist' = [_objlist EXCEPT ![s] = b]
      /\ _usecount' = [_usecount EXCEPT ![s] = _usecount[s] + n]
      /\ Goto(t, "idle", idleLoc)
      /\ UNCHANGED <<tls_threadcache, TcPool, _mtx, page>>
  BY <1>2, <1>3, <1>4, <1>5, <1>12 DEF Giving, Give, Done, WithList, Others
<1>7. /\ h \in Nat /\ c \in Seq(Nat) /\ IsInjective(c)
      /\ b \in Seq(Nat) /\ IsInjective(b) /\ Len(b) = Len(l) - n
      /\ \A x : Contains(l, x) <=> x = h \/ Contains(c, x) \/ Contains(b, x)
      /\ \A x : ~(Contains(c, x) /\ Contains(b, x))
      /\ ~Contains(c, h) /\ ~Contains(b, h)
  <2>1. /\ Head(l) \in Nat /\ Others(l, n) \in Seq(Nat) /\ IsInjective(Others(l, n))
        /\ Left(l, n) \in Seq(Nat) /\ IsInjective(Left(l, n)) /\ Len(Left(l, n)) = Len(l) - n
        /\ \A x : Contains(l, x) <=>
                   x = Head(l) \/ Contains(Others(l, n), x) \/ Contains(Left(l, n), x)
        /\ \A x : ~(Contains(Others(l, n), x) /\ Contains(Left(l, n), x))
        /\ ~Contains(Others(l, n), Head(l)) /\ ~Contains(Left(l, n), Head(l))
    BY <1>3, Portions
  <2> QED BY <1>5, <2>1
<1>8. f \in Seq(Nat) /\ IsInjective(f)
  BY <1>1, <1>5 DEF Caches, PoolInv, Spread, NoRepeats
<1>9. \A x : Contains(l, x) => x \in Nat /\ InSpan(s, x)
  BY <1>3, ContainsElement DEF InSpan
<1>10. \A x : Contains(l, x) => ExclusiveAt(x)
  BY <1>9 DEF PoolInv, Spread, Exclusive
<1>11. \A x : ~(Contains(c, x) /\ Contains(f, x))
  BY <1>1, <1>5, <1>7, <1>9, <1>10 DEF ExclusiveAt, InCache
<1>13. d \in Seq(Nat) /\ IsInjective(d) /\ \A x : Contains(d, x) <=> Contains(c, x) \/ Contains(f, x)
  BY <1>7, <1>8, <1>11, <1>12, JoinedList
<1>14. /\ _freelist' \in Caches /\ _freelist'[t][size].list = d
       /\ \A u \in Thread, y \in Size :
            ~(u = t /\ y = size) => _freelist'[u][y].list = _freelist[u][y].list
  BY <1>1, <1>6, <1>13, SetList, SMTT(30)
<1>15. /\ _objlist' \in [SpanId -> Seq(Nat)] /\ _objlist'[s] = b
       /\ \A r \in SpanId : r # s => _objlist'[r] = _objlist[r]
  BY <1>1, <1>6, <1>7
<1>16. /\ _usecount' \in [SpanId -> Nat] /\ _usecount'[s] = _usecount[s] + n
       /\ \A r \in SpanId : r # s => _usecount'[r] = _usecount[r]
  <2>1. _usecount[s] + n \in Nat
    BY <1>1
  <2> QED BY <1>1, <1>6, <2>1
<1>17. /\ pc' \in [Thread -> {"idle"} \cup Newing \cup Fetching \cup Returning] /\ loc' \in [Thread -> Local]
       /\ pc'[t] = "idle" /\ loc'[t] = idleLoc
       /\ \A u \in Thread : u # t => pc'[u] = pc[u] /\ loc'[u] = loc[u]
  BY <1>1, <1>6, IdleLoc, GotoOK
<1>18. PoolTypes'
  BY <1>1, <1>6, <1>7, <1>14, <1>15, <1>16, <1>17 DEF PoolTypes, Giving
<1>19. Locals'
  BY <1>1, <1>17, IdleLoc, LocalsGoto DEF Fetching, Returning
<1>20. /\ InUse' = InUse /\ Sized' /\ Tiled(page', null)
       /\ \A r : SlotsOf(r)' = SlotsOf(r) /\ Objects(r)' = Objects(r) /\ SizeOf(r)' = SizeOf(r)
  BY <1>6, SamePage DEF PoolInv
<1>21. Serving' = Serving
  <2>1. pc[t] # "giveback"
    BY DEF Giving, Fetching
  <2>2. \A r : r \in Serving' <=> r \in Serving
    BY <1>17, <1>20, <2>1, ServingDef
  <2>3. Serving' \subseteq Serving /\ Serving \subseteq Serving'
    BY <2>2
  <2> QED BY <2>3
<1>22. /\ \A u \in Thread, y \in Size : \A x :
            InCache(u, y, x)' <=> InCache(u, y, x) \/ (u = t /\ y = size /\ Contains(c, x))
       /\ \A r \in SpanId : \A x : InSpan(r, x)' <=> IF r = s THEN Contains(b, x) ELSE InSpan(r, x)
       /\ \A u \in Thread : \A x : InReturn(u, x)' <=> InReturn(u, x)
  <2>1. \A u \in Thread : loc'[u].list = loc[u].list
    BY <1>1, <1>17, IdleLoc
  <2> QED BY <1>5, <1>13, <1>14, <1>15, <2>1 DEF InCache, InSpan, InReturn
<1>23. NoRepeats'
  <2>1. \A u \in Thread : loc'[u].list = loc[u].list
    BY <1>1, <1>17, IdleLoc
  <2> QED BY <1>7, <1>13, <1>14, <1>15, <2>1 DEF PoolInv, Spread, NoRepeats
<1>24. ASSUME NEW x \in Nat, ~Contains(l, x) \/ Contains(b, x) PROVE Stays(x)
  <2>1. ~Contains(c, x) /\ x # h
    BY <1>7, <1>24
  <2>2. InSpan(s, x) <=> Contains(b, x)
    BY <1>3, <1>7, <1>24 DEF InSpan
  <2> QED BY <1>6, <1>22, <2>1, <2>2 DEF Stays
<1>25. ASSUME NEW x \in Nat, Contains(l, x), ~Contains(b, x) PROVE Located(x) /\ Single(x)'
  <2>1. Located(x)
    BY <1>1, <1>9, <1>25 DEF Located
  <2>2. /\ x \notin held
        /\ \A r \in SpanId : ~InSpan(r, x)'
        /\ \A u \in Thread : ~InReturn(u, x)'
        /\ \A u \in Thread, y \in Size : ~InCache(u, y, x)
    BY <1>1, <1>9, <1>10, <1>22, <1>25 DEF ExclusiveAt
  <2>3. CASE x = h
    <3>1. OnlyHeld(x)'
      BY <1>6, <1>7, <1>22, <2>2, <2>3 DEF OnlyHeld
    <3> QED BY <2>1, <3>1 DEF Single
  <2>4. CASE x # h
    <3>1. Contains(c, x) /\ x \notin held'
      BY <1>6, <1>7, <1>25, <2>2, <2>4
    <3>2. OnlyInCache(t, size, x)'
      BY <1>1, <1>22, <2>2, <3>1 DEF OnlyInCache
    <3> QED BY <1>1, <2>1, <3>2 DEF Single
  <2> QED BY <2>3, <2>4
<1>26. \A x \in Nat : Stays(x) \/ (Located(x) /\ Single(x)')
  BY <1>24, <1>25
<1>27. Exclusive' /\ \A x \in Nat : Located(x)' <=> Located(x)
  BY <1>26, Moves DEF PoolInv, Spread
<1>28. Complete'
  BY <1>20, <1>21, <1>27 DEF PoolInv, Spread, Complete
<1>29. Belongs'
  <2>1. \A x : Contains(l, x) => x \in Objects(s)
    BY <1>1, <1>9 DEF PoolInv, Spread, Belongs
  <2>2. \A r \in SpanId, x \in Nat : InSpan(r, x)' => r \in Serving /\ x \in Objects(r)
    BY <1>1, <1>7, <1>22, <2>1 DEF PoolInv, Spread, Belongs
  <2>3. ASSUME NEW r \in Serving, NEW x \in Objects(r), NEW u \in Thread, InReturn(u, x)
        PROVE  SizeOf(r) = loc'[u].size
    <3>1. u # t
      <4>1. loc[u].list # <<>>
        BY <1>1, <2>3, ContainsElement DEF InReturn, PoolTypes, Local
      <4> QED BY <1>1, <4>1
    <3> QED BY <1>17, <2>3, <3>1 DEF PoolInv, Spread, Belongs
  <2>4. ASSUME NEW r \in Serving, NEW x \in Objects(r), Contains(c, x) PROVE SizeOf(r) = size
    <3>1. x \in Objects(s)
      BY <1>7, <2>1, <2>4
    <3>2. r = s
      BY <1>1, <2>4, <3>1, ServingDef, ObjectsApart DEF PoolInv
    <3> QED BY <1>2, <3>2 DEF Giving
  <2>5. \A r \in Serving : \A x \in Objects(r) : \A u \in Thread, y \in Size :
          InCache(u, y, x)' => SizeOf(r) = y
    BY <1>22, <2>4 DEF PoolInv, Spread, Belongs
  <2> QED BY <1>20, <1>21, <1>22, <2>2, <2>3, <2>5 DEF Belongs
<1>30. UseCountExact'
  <2> SUFFICES ASSUME NEW r \in Serving
               PROVE  _usecount'[r] = Len(SlotsOf(r)) - Len(_objlist'[r])
    BY <1>20, <1>21, UseCountDef
  <2>1. _usecount[r] = Len(SlotsOf(r)) - Len(_objlist[r]) /\ r \in InUse /\ r \in SpanId
    BY UseCountDef, ServingDef DEF PoolInv, InUse, Live
  <2>2. CASE r # s
    BY <1>15, <1>16, <2>1, <2>2
  <2>3. CASE r = s
    <3>1. Len(SlotsOf(r)) \in Nat
      BY <2>1, ObjectsOK DEF PoolInv
    <3>2. Len(l) \in Nat /\ n \in Nat
      BY <1>3
    <3>3. /\ _usecount'[r] = _usecount[r] + n /\ _usecount[r] = Len(SlotsOf(r)) - Len(l)
          /\ Len(_objlist'[r]) = Len(l) - n
      BY <1>3, <1>7, <1>15, <1>16, <2>1, <2>3
    <3> QED BY <3>1, <3>2, <3>3
  <2> QED BY <2>2, <2>3
<1> QED BY <1>15, <1>17, <1>18, <1>19, <1>20, <1>21, <1>23, <1>27, <1>28, <1>29, <1>30 DEF ObjectsInv, Spread
(* The span was in the bucket ... *)
LEMMA FetchHitOK ==
    ASSUME PoolInv, NEW t \in Thread, FetchHit(t), build' = build
    PROVE  PoolInv'
<1>1. loc[t].size \in Size /\ pc[t] \in Fetching /\ _spanlist \in [Size -> Seq(SpanId)]
  BY DEF PoolInv, PoolTypes, Locals, FetchHit, Fetching
<1>2. PICK i \in 1 .. Len(_spanlist[loc[t].size]) :
        HasObject(_spanlist[loc[t].size][i]) /\ Give(t, _spanlist[loc[t].size][i])
  BY DEF FetchHit
<1>3. PICK s : s = _spanlist[loc[t].size][i]
  OBVIOUS
<1>4. Contains(_spanlist[loc[t].size], s) /\ s \in SpanId
  BY <1>1, <1>2, <1>3 DEF Contains
<1>5. s \in Serving /\ SizeOf(s) = loc[t].size
  BY <1>1, <1>4 DEF PoolInv, Buckets
<1>6. Giving(t, s) /\ _spanlist' = _spanlist
  BY <1>1, <1>2, <1>3, <1>5 DEF Giving, HasObject, FetchHit
<1>0. page' = page
  BY <1>6 DEF Giving, Give
<1>7. /\ ObjectsInv'
      /\ \A r \in SpanId : r # s => _objlist'[r] = _objlist[r]
      /\ pc'[t] = "idle" /\ \A u \in Thread : u # t => pc'[u] = pc[u] /\ loc'[u] = loc[u]
  BY <1>6, GiveOK
<1>8. ASSUME NEW u \in Thread, pc[u] = "insert" PROVE _objlist'[loc[u].span] = _objlist[loc[u].span]
  <2>1. InHand(u, loc[u].span) /\ loc[u].span \in SpanId
    BY <1>8 DEF InHand, Handles, PoolInv, Locals
  <2>2. loc[u].span # s
    BY <1>1, <1>4, <2>1 DEF PoolInv, InHands
  <2> QED BY <1>7, <2>1, <2>2
<1>9. SameSpans
  <2>1. pc[t] = "fetch"
    BY DEF FetchHit
  <2> QED BY <1>0, <1>6, <1>7, <1>8, <2>1 DEF SameSpans, Handles
<1> QED BY <1>7, <1>9, SameSpansOK DEF PoolInv, ObjectsInv

(* ... or comes from PageCache and goes into it. *)
LEMMA InsertSpanOK ==
    ASSUME PoolInv, NEW t \in Thread, InsertSpan(t), build' = build
    PROVE  PoolInv'
<1>1. /\ loc[t].size \in Size /\ pc[t] = "insert" /\ _spanlist \in [Size -> Seq(SpanId)]
      /\ loc[t].span \in SpanId
  BY DEF PoolInv, PoolTypes, Locals, InsertSpan, Handles
<1>2. PICK s \in SpanId : s = loc[t].span
  BY <1>1
<1>3. PICK size \in Size : size = loc[t].size
  BY <1>1
<1>4. InHand(t, s)
  BY <1>1, <1>2 DEF InHand, Handles
<1>5. /\ s \in InUse /\ SizeOf(s) = size /\ _objlist[s] = SlotsOf(s)
      /\ \A z \in Size : ~Contains(_spanlist[z], s)
      /\ \A u \in Thread : InHand(u, s) => u = t
  BY <1>1, <1>3, <1>4 DEF PoolInv, InHands
<1>6. s \in Serving
  <2> SUFFICES ASSUME NEW u \in Thread, pc[u] = "giveback", s = loc[u].span PROVE FALSE
    BY <1>5, ServingDef
  <2>1. InHand(u, s)
    BY DEF InHand, Handles
  <2> QED BY <1>1, <1>5, <2>1
<1>7. _objlist[s] # <<>>
  <2>1. SlotsOf(s) \in Seq(Nat) /\ 1 <= Len(SlotsOf(s))
    BY <1>5, ObjectsOK DEF PoolInv
  <2> QED BY <1>5, <2>1
<1>8. PICK l : l = _spanlist[size]
  OBVIOUS
<1>9. _spanlist' = [_spanlist EXCEPT ![size] = <<s>> \o l] /\ Give(t, s)
  BY <1>2, <1>3, <1>8 DEF InsertSpan
<1>10. l \in Seq(SpanId) /\ IsInjective(l) /\ ~Contains(l, s)
  BY <1>1, <1>5, <1>8 DEF PoolInv, Buckets
<1>11. PICK m : m = <<s>> \o l
  OBVIOUS
<1>12. m \in Seq(SpanId) /\ IsInjective(m) /\ \A x : Contains(m, x) <=> x = s \/ Contains(l, x)
  BY <1>10, <1>11, PushedList
<1>13. /\ _spanlist' \in [Size -> Seq(SpanId)] /\ _spanlist'[size] = m
       /\ \A z \in Size : z # size => _spanlist'[z] = _spanlist[z]
  <2>1. _spanlist' = [_spanlist EXCEPT ![size] = m]
    BY <1>9, <1>11
  <2> QED BY <1>1, <1>12, <2>1
<1>14. Giving(t, s)
  BY <1>1, <1>3, <1>5, <1>6, <1>7, <1>9, <1>13 DEF Giving, Fetching
<1>15. /\ ObjectsInv' /\ Serving' = Serving /\ InUse' = InUse
       /\ \A r : SlotsOf(r)' = SlotsOf(r) /\ SizeOf(r)' = SizeOf(r)
       /\ \A r \in SpanId : r # s => _objlist'[r] = _objlist[r]
       /\ pc'[t] = "idle" /\ \A u \in Thread : u # t => pc'[u] = pc[u] /\ loc'[u] = loc[u]
  BY <1>14, GiveOK
<1>16. \A z \in Size, r \in SpanId :
         Contains(_spanlist'[z], r) <=> Contains(_spanlist[z], r) \/ (z = size /\ r = s)
  BY <1>8, <1>12, <1>13
<1>17. Buckets'
  <2>1. \A z \in Size : IsInjective(_spanlist'[z])
    BY <1>12, <1>13 DEF PoolInv, Buckets
  <2>2. \A z \in Size, r \in SpanId : Contains(_spanlist'[z], r) => r \in Serving /\ SizeOf(r) = z
    BY <1>5, <1>6, <1>16 DEF PoolInv, Buckets
  <2> QED BY <1>15, <2>1, <2>2 DEF Buckets
<1>18. InHands'
  <2> SUFFICES ASSUME NEW u \in Thread, NEW r \in SpanId, InHand(u, r)'
               PROVE  /\ r \in InUse'
                      /\ pc'[u] = "insert" => SizeOf(r)' = loc'[u].size /\ _objlist'[r] = SlotsOf(r)'
                      /\ \A z \in Size : ~Contains(_spanlist'[z], r)
                      /\ \A v \in Thread : InHand(v, r)' => v = u
    BY DEF InHands
  <2>1. \A v \in Thread : \A x : InHand(v, x)' <=> v # t /\ InHand(v, x)
    BY <1>15 DEF InHand, Handles
  <2>2. u # t /\ InHand(u, r) /\ r # s
    BY <1>5, <2>1
  <2>3. /\ r \in InUse
        /\ pc[u] = "insert" => SizeOf(r) = loc[u].size /\ _objlist[r] = SlotsOf(r)
        /\ \A z \in Size : ~Contains(_spanlist[z], r)
        /\ \A v \in Thread : InHand(v, r) => v = u
    BY <2>2 DEF PoolInv, InHands
  <2> QED BY <1>15, <1>16, <2>1, <2>2, <2>3
<1> QED BY <1>15, <1>17, <1>18 DEF PoolInv, ObjectsInv

(* Marking a span in use leaves its pages. *)
MarkedIn(x, s, size) == [x EXCEPT !.span[s]._isUse = TRUE, !.span[s]._objsize = size]

LEMMA MarkedPages ==
    ASSUME NEW x, NEW s \in SpanId, NEW size, NEW q, IsPage(q),
           q = MarkedIn(x, s, size)
    PROVE  x.span[s]._pageid = q.span[s]._pageid /\ x.span[s]._npage = q.span[s]._npage
<1> DEFINE e == [x.span[s] EXCEPT !._isUse = TRUE, !._objsize = size]
           g == [x.span EXCEPT ![s] = e]
<1>1. q = [x EXCEPT !.span = g]
  BY DEF MarkedIn
<1>2. q = Rec(q.span, q.list, q.map, q.free, q.top, q.blocks) /\ q.span \in [SpanId -> SpanRec]
  BY DEF IsPage, IsRec
<1> HIDE DEF g
<1>3. "span" \in DOMAIN q
  BY <1>2 DEF Rec
<1>4. DOMAIN q = DOMAIN x
  BY <1>1
<1>5. q.span = g
  BY <1>1, <1>3, <1>4
<1> HIDE DEF e
<1>6. q.span[s] = e
  <2>1. DOMAIN g = DOMAIN x.span
    BY DEF g
  <2>2. s \in DOMAIN x.span
    BY <1>2, <1>5, <2>1
  <2> QED BY <1>5, <2>2 DEF g
<1>7. e \in SpanRec
  BY <1>2, <1>6
<1>8. DOMAIN e = {"_pageid", "_npage", "_isUse", "_objsize"}
  BY <1>7 DEF SpanRec
<1>9. e = [x.span[s] EXCEPT !._isUse = TRUE, !._objsize = size]
  BY DEF e
<1>10. e._pageid = x.span[s]._pageid /\ e._npage = x.span[s]._npage
  BY <1>8, <1>9
<1> QED BY <1>6, <1>10

(* PageCache has a list for the pages a size asks for. *)
LEMMA MovePage ==
    ASSUME NEW size \in Size
    PROVE  num_move_page(size) \in Lists
<1>1. num_move_size(size) \in Nat /\ size \in Nat /\ PageSize \in Nat /\ PageSize # 0
  BY MoveSize, PoolAssumption
<1>2. num_move_size(size) * size \in Nat
  BY <1>1
<1> DEFINE k == (num_move_size(size) * size) \div PageSize
<1>3. k \in Nat
  BY <1>1, <1>2, DivBounds
<1> HIDE DEF k
<1>4. num_move_page(size) = IF k = 0 THEN 1 ELSE k
  BY DEF num_move_page, k
<1>5. num_move_page(size) < NPAGES
  BY SpanAssumption
<1> QED BY <1>3, <1>4, <1>5, PoolAssumption DEF Lists

(* Spans in use have no object in common. *)
LEMMA SlotsApart ==
    ASSUME NEW p, Tiled(p, null), NEW s \in LiveIn(p), NEW r \in LiveIn(p),
           NEW a \in Nat, a # 0, NEW b \in Nat, b # 0,
           NEW o, Contains(Slots(p.span[s], a), o), Contains(Slots(p.span[r], b), o)
    PROVE  s = r
<1>1. /\ p.span[s] \in SpanRec /\ 1 <= p.span[s]._npage
      /\ p.span[r] \in SpanRec /\ 1 <= p.span[r]._npage
  BY LivePages DEF Tiled
<1>2. o \div PageSize \in Pages(p.span[s]) /\ o \div PageSize \in Pages(p.span[r])
  BY <1>1, SlotsOK
<1> QED BY <1>2 DEF Tiled, Apart

LEMMA SlotsSame ==
    ASSUME NEW x, NEW y, x._pageid = y._pageid, x._npage = y._npage, NEW size
    PROVE  Slots(x, size) = Slots(y, size)
BY DEF Slots

NewSpanStep(t, s, size) ==
    /\ t \in Thread /\ s \in SpanId /\ size \in Size
    /\ pc[t] = "newspan" /\ loc[t].size = size
    /\ Tiled(page', null) /\ Given(page, page', s, num_move_page(size), size)
    /\ _objlist' = [_objlist EXCEPT ![s] = Slots(page'.span[s], size)]
    /\ _usecount' = [_usecount EXCEPT ![s] = 0]
    /\ Goto(t, "insert", [loc[t] EXCEPT !.span = s])
    /\ UNCHANGED <<tls_threadcache, TcPool, _freelist, _spanlist, _mtx, held, build>>

(* What NewSpan does, with what new_Span promises of the page. *)
LEMMA NewSpanIsStep ==
    ASSUME PoolInv, NEW t \in Thread, NewSpan(t), build' = build
    PROVE  \E s, size : NewSpanStep(t, s, size)
<1>1. PICK size \in Size : size = loc[t].size
  BY DEF PoolInv, Locals, NewSpan
<1>2. PICK n \in Lists : n = num_move_page(size)
  BY MovePage
<1>3. PICK gap \in 0 .. MaxGap :
        LET r == new_Span(page, n, gap)
        IN  /\ CanTake(page, n) \/ page.blocks < MaxBig
            /\ page' = [r.page EXCEPT !.span[r.span]._isUse = TRUE, !.span[r.span]._objsize = size]
            /\ _objlist' = [_objlist EXCEPT ![r.span] = Slots(r.page.span[r.span], size)]
            /\ _usecount' = [_usecount EXCEPT ![r.span] = 0]
            /\ Goto(t, "insert", [loc[t] EXCEPT !.span = r.span])
  BY <1>1, <1>2, ZenonT(30) DEF NewSpan
<1> DEFINE r == new_Span(page, n, gap)
           s == r.span
           x == r.page
<1>4. /\ CanTake(page, n) \/ page.blocks < MaxBig
      /\ page' = [x EXCEPT !.span[s]._isUse = TRUE, !.span[s]._objsize = size]
      /\ _objlist' = [_objlist EXCEPT ![s] = Slots(x.span[s], size)]
      /\ _usecount' = [_usecount EXCEPT ![s] = 0]
      /\ Goto(t, "insert", [loc[t] EXCEPT !.span = s])
  BY <1>3
<1>5. Tiled(page, null) /\ size \in Nat
  BY PoolAssumption DEF PoolInv
<1>6. Tiled(page', null) /\ Given(page, page', s, n, size)
  BY <1>4, <1>5, PageCacheNewSpan
<1> HIDE DEF r
<1>7. PICK y : y = s
  OBVIOUS
<1> HIDE DEF s, x
<1>8. y \in SpanId /\ IsPage(page')
  BY <1>6, <1>7 DEF Given, UseIn, LiveIn, Tiled
<1>9. x.span[y]._pageid = page'.span[y]._pageid /\ x.span[y]._npage = page'.span[y]._npage
  <2>1. page' = MarkedIn(x, y, size)
    BY <1>4, <1>7 DEF MarkedIn
  <2> QED BY <1>8, <2>1, MarkedPages
<1>10. Slots(x.span[y], size) = Slots(page'.span[y], size)
  BY <1>9, SlotsSame
<1>11. NewSpanStep(t, y, size)
  BY <1>1, <1>2, <1>4, <1>6, <1>7, <1>8, <1>10, Zenon DEF NewSpanStep, NewSpan
<1> QED BY <1>11

LEMMA SpanLoc ==
    ASSUME NEW k \in Local, NEW s \in SpanId \cup {null}, NEW l, l = [k EXCEPT !.span = s]
    PROVE  /\ l \in Local /\ l.span = s /\ l.size = k.size /\ l.num = k.num /\ l.list = k.list
BY DEF Local

(* The objects of the new span appear, all in its list, and it is in        *)
(* nobody's hands but t's.                                                  *)
LEMMA NewSpanOK ==
    ASSUME PoolInv, NEW t, NEW s, NEW size, NewSpanStep(t, s, size)
    PROVE  PoolInv'
<1>1. /\ PoolTypes /\ Locals /\ t \in Thread /\ s \in SpanId /\ size \in Size
      /\ loc[t] \in Local /\ loc[t].size = size /\ 1 <= loc[t].num /\ loc[t].list = <<>>
      /\ pc[t] = "newspan" /\ Tiled(page, null) /\ Tiled(page', null)
  <2>1. PoolTypes /\ Locals /\ t \in Thread /\ pc[t] = "newspan" /\ Tiled(page, null)
    BY DEF PoolInv, NewSpanStep
  <2>2. loc[t] \in Local
    BY <2>1 DEF PoolTypes
  <2>3. 1 <= loc[t].num /\ loc[t].list = <<>>
    BY <2>1 DEF Locals, Fetching, Returning
  <2> QED BY <2>1, <2>2, <2>3 DEF NewSpanStep
<1>2. InUse = UseIn(page) /\ InUse' = UseIn(page')
  BY DEF InUse, Live, UseIn, LiveIn
<1>3. /\ s \notin InUse /\ InUse' = InUse \cup {s} /\ SizeOf(s)' = size
      /\ \A r \in InUse : page'.span[r] = page.span[r]
  BY <1>2 DEF NewSpanStep, Given, SizeOf
<1>4. \A r \in InUse : r \in SpanId /\ r # s /\ SlotsOf(r)' = SlotsOf(r) /\ SizeOf(r)' = SizeOf(r)
  BY <1>3 DEF SlotsOf, SizeOf, InUse, Live
<1>5. \A r \in InUse : Objects(r)' = Objects(r)
  BY <1>4 DEF Objects
<1>6. PICK l : l = Slots(page'.span[s], size)
  OBVIOUS
<1>7. SlotsOf(s)' = l
  BY <1>3, <1>6 DEF SlotsOf, SizeOf
<1>8. l \in Seq(Nat) /\ IsInjective(l)
  <2>1. s \in LiveIn(page')
    BY <1>2, <1>3 DEF UseIn
  <2>2. page'.span[s] \in SpanRec /\ 1 <= page'.span[s]._npage
    BY <1>1, <2>1, LivePages DEF Tiled
  <2>3. size \in Nat /\ size # 0
    BY <1>1, PoolAssumption
  <2> QED BY <1>6, <2>2, <2>3, SlotsOK
<1>9. \A x : x \in Objects(s)' <=> Contains(l, x)
  BY <1>7, <1>8 DEF Objects, ToSet, Contains
<1>10. Sized'
  BY <1>1, <1>3, <1>4 DEF PoolInv, Sized
<1>11. /\ _objlist' \in [SpanId -> Seq(Nat)] /\ _objlist'[s] = l
       /\ \A r \in SpanId : r # s => _objlist'[r] = _objlist[r]
  <2>1. _objlist' = [_objlist EXCEPT ![s] = l]
    BY <1>6 DEF NewSpanStep
  <2> QED BY <1>1, <1>8, <2>1 DEF PoolTypes
<1>12. /\ _usecount' \in [SpanId -> Nat] /\ _usecount'[s] = 0
       /\ \A r \in SpanId : r # s => _usecount'[r] = _usecount[r]
  BY <1>1 DEF NewSpanStep, PoolTypes
<1>13. PICK k : k = [loc[t] EXCEPT !.span = s]
  OBVIOUS
<1>14. k \in Local /\ k.span = s /\ k.size = size /\ k.num = loc[t].num /\ k.list = <<>>
  BY <1>1, <1>13, SpanLoc
<1>15. /\ pc' \in [Thread -> {"idle"} \cup Newing \cup Fetching \cup Returning] /\ loc' \in [Thread -> Local]
       /\ pc'[t] = "insert" /\ loc'[t] = k
       /\ \A u \in Thread : u # t => pc'[u] = pc[u] /\ loc'[u] = loc[u]
  BY <1>1, <1>13, <1>14, GotoOK DEF Fetching, NewSpanStep
<1>16. PoolTypes'
  BY <1>1, <1>11, <1>12, <1>15 DEF PoolTypes, NewSpanStep
<1>17. Locals'
  BY <1>1, <1>14, <1>15, LocalsGoto DEF Fetching, Returning
<1>18. \A r : r \in Serving' <=> r \in Serving \/ r = s
  <2>1. ASSUME NEW u \in Thread, pc[u] = "giveback" PROVE loc[u].span # s
    <3>1. InHand(u, loc[u].span) /\ loc[u].span \in SpanId
      BY <1>1, <2>1 DEF InHand, Handles, Locals
    <3> QED BY <1>3, <3>1 DEF PoolInv, InHands
  <2>2. \A u \in Thread : pc'[u] = "giveback" <=> pc[u] = "giveback"
    BY <1>1, <1>15
  <2>3. \A u \in Thread : pc[u] = "giveback" => loc'[u] = loc[u]
    BY <1>1, <1>15
  <2> QED BY <1>3, <2>1, <2>2, <2>3, ServingDef
<1>19. Serving \subseteq InUse
  BY ServingDef
<1>20. \A x : ~InSpan(s, x)
  <2>1. \A x : InSpan(s, x) => x \in Nat
    BY <1>1, ContainsElement DEF InSpan, PoolTypes
  <2> QED BY <1>1, <1>3, <1>19, <2>1 DEF PoolInv, Spread, Belongs
<1>21. /\ \A u \in Thread, y \in Size : \A x : InCache(u, y, x)' <=> InCache(u, y, x)
       /\ \A r \in SpanId : \A x : InSpan(r, x)' <=> InSpan(r, x) \/ (r = s /\ Contains(l, x))
       /\ \A u \in Thread : \A x : InReturn(u, x)' <=> InReturn(u, x)
       /\ held' = held
  <2>1. \A u \in Thread : loc'[u].list = loc[u].list
    BY <1>1, <1>14, <1>15
  <2>2. _freelist' = _freelist /\ held' = held
    BY DEF NewSpanStep
  <2>3. \A r \in SpanId : \A x : InSpan(r, x)' <=> InSpan(r, x) \/ (r = s /\ Contains(l, x))
    BY <1>11, <1>20 DEF InSpan
  <2> QED BY <2>1, <2>2, <2>3 DEF InCache, InReturn
<1>22. NoRepeats'
  <2>1. \A u \in Thread : loc'[u].list = loc[u].list
    BY <1>1, <1>14, <1>15
  <2> QED BY <1>8, <1>11, <2>1 DEF PoolInv, Spread, NoRepeats, NewSpanStep
<1>23. ASSUME NEW r \in InUse, NEW x \in Objects(r) PROVE ~Contains(l, x)
  <2>1. Contains(Slots(page'.span[r], SizeOf(r)), x) /\ SizeOf(r) \in Nat /\ SizeOf(r) # 0
    <3>1. Contains(SlotsOf(r), x)
      BY <1>1, <1>23, ObjectsOK DEF PoolInv
    <3>2. SlotsOf(r) = Slots(page'.span[r], SizeOf(r))
      BY <1>3, <1>23 DEF SlotsOf, SizeOf
    <3>3. SizeOf(r) \in Size
      BY <1>23 DEF PoolInv, Sized
    <3> QED BY <3>1, <3>2, <3>3, PoolAssumption
  <2>2. r \in LiveIn(page') /\ s \in LiveIn(page') /\ r # s
    BY <1>2, <1>3, <1>4, <1>23 DEF UseIn
  <2>3. size \in Nat /\ size # 0
    BY <1>1, PoolAssumption
  <2> QED BY <1>1, <1>6, <2>1, <2>2, <2>3, SlotsApart
<1>24. \A x \in Nat : Located(x) => ~Contains(l, x)
  BY <1>19, <1>23 DEF PoolInv, Spread, Complete
<1>25. ASSUME NEW x \in Nat, ~Contains(l, x) PROVE Stays(x)
  BY <1>21, <1>25 DEF Stays
<1>26. ASSUME NEW x \in Nat, Contains(l, x) PROVE Single(x)'
  <2>1. ~Located(x)
    BY <1>24, <1>26
  <2>2. OnlyInSpan(s, x)'
    BY <1>1, <1>21, <1>26, <2>1 DEF OnlyInSpan, Located
  <2> QED BY <1>1, <2>2 DEF Single
<1>27. Exclusive'
  <2>1. \A x \in Nat : ExclusiveAt(x)'
    BY <1>25, <1>26, StaysPut, SinglePlace DEF PoolInv, Spread, Exclusive
  <2> QED BY <2>1 DEF Exclusive
<1>28. Complete'
  <2>1. ASSUME NEW x \in Nat, Contains(l, x)
        PROVE  Located(x)' /\ \E r \in Serving' : x \in Objects(r)'
    BY <1>9, <1>18, <1>26, <2>1, SinglePlace
  <2>2. ASSUME NEW x \in Nat, ~Contains(l, x)
        PROVE  Located(x)' <=> \E r \in Serving' : x \in Objects(r)'
    <3>1. Located(x)' <=> Located(x)
      BY <1>25, <2>2, StaysPut
    <3>2. Located(x) <=> \E r \in Serving : x \in Objects(r)
      BY DEF PoolInv, Spread, Complete
    <3>3. \A r \in Serving : Objects(r)' = Objects(r)
      BY <1>5, <1>19
    <3> QED BY <1>9, <1>18, <2>2, <3>1, <3>2, <3>3
  <2> QED BY <2>1, <2>2 DEF Complete
<1>29. Belongs'
  <2>1. \A r \in SpanId, x \in Nat : InSpan(r, x)' => r \in Serving' /\ x \in Objects(r)'
    <3>1. \A r \in SpanId, x \in Nat : InSpan(r, x) => r \in Serving' /\ x \in Objects(r)'
      BY <1>5, <1>18, <1>19 DEF PoolInv, Spread, Belongs
    <3> QED BY <1>9, <1>18, <1>21, <3>1
  <2>2. ASSUME NEW x \in Objects(s)'
        PROVE  (\A u \in Thread : ~InReturn(u, x)) /\ (\A u \in Thread, y \in Size : ~InCache(u, y, x))
    <3>1. Contains(l, x)
      BY <1>9, <2>2
    <3>2. x \in Nat
      BY <1>8, <3>1, ContainsElement
    <3>3. ~Located(x)
      BY <1>24, <3>1, <3>2
    <3> QED BY <3>3 DEF Located
  <2>3. \A u \in Thread : loc'[u].size = loc[u].size
    BY <1>1, <1>14, <1>15
  <2>4. \A r \in Serving : \A x \in Objects(r) :
          /\ \A u \in Thread : InReturn(u, x) => SizeOf(r) = loc[u].size
          /\ \A u \in Thread, y \in Size : InCache(u, y, x) => SizeOf(r) = y
    BY DEF PoolInv, Spread, Belongs
  <2>5. ASSUME NEW r \in Serving', NEW x \in Objects(r)'
        PROVE  /\ \A u \in Thread : InReturn(u, x)' => SizeOf(r)' = loc'[u].size
               /\ \A u \in Thread, y \in Size : InCache(u, y, x)' => SizeOf(r)' = y
    <3>1. CASE r = s
      BY <1>21, <2>2, <2>5, <3>1
    <3>2. CASE r # s
      <4>1. r \in Serving /\ r \in InUse
        BY <1>18, <1>19, <2>5, <3>2
      <4>2. x \in Objects(r) /\ SizeOf(r)' = SizeOf(r)
        BY <1>4, <1>5, <2>5, <4>1
      <4> QED BY <1>21, <2>3, <2>4, <4>1, <4>2
    <3> QED BY <3>1, <3>2
  <2> QED BY <2>1, <2>5 DEF Belongs
<1>30. UseCountExact'
  <2> SUFFICES ASSUME NEW r \in Serving'
               PROVE  _usecount'[r] = Len(SlotsOf(r)') - Len(_objlist'[r])
    BY UseCountDef
  <2>1. CASE r = s
    <3>1. Len(l) \in Nat
      BY <1>8
    <3> QED BY <1>7, <1>11, <1>12, <2>1, <3>1
  <2>2. CASE r # s
    <3>1. r \in Serving /\ r \in InUse /\ r \in SpanId
      BY <1>4, <1>18, <1>19, <2>2
    <3>2. _usecount[r] = Len(SlotsOf(r)) - Len(_objlist[r])
      BY <3>1, UseCountDef DEF PoolInv
    <3> QED BY <1>4, <1>11, <1>12, <2>2, <3>1, <3>2
  <2> QED BY <2>1, <2>2
<1>31. _spanlist' = _spanlist
  BY DEF NewSpanStep
<1>32. \A z \in Size : ~Contains(_spanlist[z], s)
  BY <1>1, <1>3, <1>19 DEF PoolInv, Buckets
<1>33. Buckets'
  <2>1. \A z \in Size, r \in SpanId : Contains(_spanlist[z], r) => r \in Serving' /\ SizeOf(r)' = z
    BY <1>4, <1>18, <1>19 DEF PoolInv, Buckets
  <2>2. \A z \in Size : IsInjective(_spanlist[z])
    BY DEF PoolInv, Buckets
  <2> QED BY <1>31, <2>1, <2>2 DEF Buckets
<1>34. InHands'
  <2> SUFFICES ASSUME NEW u \in Thread, NEW r \in SpanId, InHand(u, r)'
               PROVE  /\ r \in InUse'
                      /\ pc'[u] = "insert" => SizeOf(r)' = loc'[u].size /\ _objlist'[r] = SlotsOf(r)'
                      /\ \A z \in Size : ~Contains(_spanlist'[z], r)
                      /\ \A v \in Thread : InHand(v, r)' => v = u
    BY DEF InHands
  <2>1. \A v \in Thread : \A x : InHand(v, x)' <=> IF v = t THEN x = s ELSE InHand(v, x)
    BY <1>14, <1>15 DEF InHand, Handles
  <2>2. \A v \in Thread : ~InHand(v, s)
    BY <1>1, <1>3 DEF PoolInv, InHands
  <2>3. CASE u = t
    <3>1. r = s
      BY <2>1, <2>3
    <3> QED BY <1>3, <1>7, <1>11, <1>14, <1>15, <1>31, <1>32, <2>1, <2>2, <2>3, <3>1
  <2>4. CASE u # t
    <3>1. InHand(u, r) /\ r # s
      BY <2>1, <2>2, <2>4
    <3>2. /\ r \in InUse
          /\ pc[u] = "insert" => SizeOf(r) = loc[u].size /\ _objlist[r] = SlotsOf(r)
          /\ \A z \in Size : ~Contains(_spanlist[z], r)
          /\ \A v \in Thread : InHand(v, r) => v = u
      BY <3>1 DEF PoolInv, InHands
    <3> QED BY <1>3, <1>4, <1>11, <1>15, <1>31, <2>1, <2>4, <3>1, <3>2
  <2> QED BY <2>3, <2>4
<1> QED BY <1>1, <1>10, <1>16, <1>17, <1>22, <1>27, <1>28, <1>29, <1>30, <1>33, <1>34 DEF PoolInv, Spread

(* The span that t gives back had no objects any more; the others stay as   *)
(* they are.                                                                *)
LEMMA GiveBackOK ==
    ASSUME PoolInv, NEW t \in Thread, GiveBack(t), build' = build
    PROVE  PoolInv'
<1>1. /\ PoolTypes /\ Locals /\ loc[t] \in Local /\ loc[t].size \in Size /\ pc[t] = "giveback"
      /\ loc[t].span \in SpanId /\ Tiled(page, null)
  BY DEF PoolInv, PoolTypes, Locals, GiveBack, Handles
<1>2. PICK s \in SpanId : s = loc[t].span
  BY <1>1
<1>3. InHand(t, s)
  BY <1>1, <1>2 DEF InHand, Handles
<1>4. s \in InUse /\ \A u \in Thread : InHand(u, s) => u = t
  BY <1>3 DEF PoolInv, InHands
<1>5. InUse = UseIn(page) /\ InUse' = UseIn(page')
  BY DEF InUse, Live, UseIn, LiveIn
<1>6. Tiled(page', null) /\ s \notin UseIn(page') /\ Kept(page, page', s)
  <2>1. s \in LiveIn(page) /\ page.span[s]._isUse
    BY <1>4, <1>5 DEF UseIn
  <2>2. page' = relase_to_PageCache(page, s)
    BY <1>2 DEF GiveBack
  <2>3. Tiled(page', null) /\ ~page'.span[s]._isUse /\ Kept(page, page', s)
    BY <1>1, <2>1, <2>2, PageCacheRelease
  <2> QED BY <2>3 DEF UseIn
<1>7. \A r : r \in InUse' <=> r \in InUse /\ r # s
  BY <1>5, <1>6 DEF Kept
<1>8. \A r \in InUse' : /\ SlotsOf(r)' = SlotsOf(r) /\ SizeOf(r)' = SizeOf(r)
                        /\ Objects(r)' = Objects(r)
  <2> SUFFICES ASSUME NEW r \in InUse' PROVE page'.span[r] = page.span[r]
    BY DEF SlotsOf, SizeOf, Objects
  <2> QED BY <1>5, <1>6, <1>7 DEF Kept
<1>9. Sized'
  BY <1>7, <1>8 DEF PoolInv, Sized
<1>10. PICK k : k = [loc[t] EXCEPT !.span = null]
  OBVIOUS
<1>11. k \in Local /\ k.size = loc[t].size /\ k.list = loc[t].list
  BY <1>1, <1>10, SpanLoc
<1>12. /\ pc' \in [Thread -> {"idle"} \cup Newing \cup Fetching \cup Returning] /\ loc' \in [Thread -> Local]
       /\ pc'[t] = "release" /\ loc'[t] = k
       /\ \A u \in Thread : u # t => pc'[u] = pc[u] /\ loc'[u] = loc[u]
  BY <1>1, <1>10, <1>11, GotoOK DEF Returning, GiveBack
<1>13. PoolTypes'
  BY <1>1, <1>12 DEF PoolTypes, GiveBack
<1>14. Locals'
  BY <1>1, <1>11, <1>12, LocalsGoto DEF Fetching, Returning
<1>15. UNCHANGED <<_freelist, _spanlist, _objlist, _usecount, held>>
  BY DEF GiveBack
<1>16. \A u \in Thread : loc'[u].list = loc[u].list /\ loc'[u].size = loc[u].size
  BY <1>11, <1>12
<1>17. Serving' = Serving /\ Serving \subseteq InUse /\ Serving \subseteq InUse'
  <2>1. \A r : r \in Serving' <=> r \in Serving
    <3>1. \A r : r \in Serving' => r \in Serving
      BY <1>2, <1>7, <1>12, ServingDef
    <3>2. \A r : r \in Serving => r \in Serving'
      BY <1>1, <1>2, <1>7, <1>12, ServingDef
    <3> QED BY <3>1, <3>2
  <2>2. Serving' \subseteq Serving /\ Serving \subseteq Serving'
    BY <2>1
  <2> QED BY <2>2, ServingDef
<1>18. /\ \A r \in SpanId : \A o : InSpan(r, o)' <=> InSpan(r, o)
       /\ \A u \in Thread : \A o : InReturn(u, o)' <=> InReturn(u, o)
       /\ \A u \in Thread, z \in Size : \A o : InCache(u, z, o)' <=> InCache(u, z, o)
  BY <1>15, <1>16 DEF InSpan, InReturn, InCache
<1>19. \A o \in Nat : Stays(o)
  BY <1>15, <1>18 DEF Stays
<1>20. Exclusive' /\ \A o \in Nat : Located(o)' <=> Located(o)
  BY <1>19, Moves DEF PoolInv, Spread
<1>21. \A r \in Serving : Objects(r)' = Objects(r) /\ SizeOf(r)' = SizeOf(r) /\ SlotsOf(r)' = SlotsOf(r)
  BY <1>8, <1>17
<1>22. Complete'
  <2>1. \A o \in Nat : Located(o)' <=> \E r \in Serving : o \in Objects(r)'
    BY <1>20, <1>21 DEF PoolInv, Spread, Complete
  <2> QED BY <1>17, <2>1 DEF Complete
<1>23. NoRepeats'
  BY <1>15, <1>16 DEF PoolInv, Spread, NoRepeats
<1>24. Belongs'
  BY <1>16, <1>17, <1>18, <1>21 DEF PoolInv, Spread, Belongs
<1>25. UseCountExact'
  BY <1>15, <1>17, <1>21, UseCountDef DEF PoolInv
<1>26. Buckets'
  BY <1>15, <1>17, <1>21 DEF PoolInv, Buckets
<1>27. InHands'
  <2> SUFFICES ASSUME NEW u \in Thread, NEW r \in SpanId, InHand(u, r)'
               PROVE  /\ r \in InUse'
                      /\ pc'[u] = "insert" => SizeOf(r)' = loc'[u].size /\ _objlist'[r] = SlotsOf(r)'
                      /\ \A z \in Size : ~Contains(_spanlist'[z], r)
                      /\ \A v \in Thread : InHand(v, r)' => v = u
    BY DEF InHands
  <2>1. \A v \in Thread : \A x : InHand(v, x)' <=> v # t /\ InHand(v, x)
    BY <1>12 DEF InHand, Handles
  <2>2. u # t /\ InHand(u, r) /\ r # s
    BY <1>4, <2>1
  <2>3. /\ r \in InUse
        /\ pc[u] = "insert" => SizeOf(r) = loc[u].size /\ _objlist[r] = SlotsOf(r)
        /\ \A z \in Size : ~Contains(_spanlist[z], r)
        /\ \A v \in Thread : InHand(v, r) => v = u
    BY <2>2 DEF PoolInv, InHands
  <2> QED BY <1>7, <1>8, <1>12, <1>15, <2>1, <2>2, <2>3
<1> QED BY <1>6, <1>9, <1>13, <1>14, <1>20, <1>22, <1>23, <1>24, <1>25, <1>26, <1>27 DEF PoolInv, Spread

(* A bucket without one of its spans. *)
LEMMA ErasedFromBucket ==
    ASSUME NEW S, NEW l \in Seq(S), IsInjective(l), NEW e
    PROVE  /\ EraseFromBucket(l, e) \in Seq(S) /\ IsInjective(EraseFromBucket(l, e))
           /\ \A x : Contains(EraseFromBucket(l, e), x) <=> x # e /\ Contains(l, x)
<1>1. EraseFromBucket(l, e) = RemoveFirst(l, e)
  BY DEF EraseFromBucket
<1>2. CASE Contains(l, e)
  BY <1>1, <1>2, ErasedList
<1>3. CASE ~Contains(l, e)
  <2>1. RemoveFirst(l, e) = l
    BY <1>3 DEF RemoveFirst, Contains
  <2> QED BY <1>1, <1>3, <2>1
<1> QED BY <1>2, <1>3

RestLoc(k) == [k EXCEPT !.list = Tail(@)]

LEMMA RestLocOK ==
    ASSUME NEW k \in Local, Tail(k.list) \in Seq(Nat)
    PROVE  /\ RestLoc(k) \in Local /\ RestLoc(k).list = Tail(k.list)
           /\ RestLoc(k).size = k.size /\ RestLoc(k).num = k.num
BY DEF Local, RestLoc

(* What a turn of release_list_to_Spans finds: the owner s of the object    *)
(* obj at the head of the list, in nobody's hands, with an object out.      *)
Returned(t, obj, s) ==
    /\ obj \in Nat /\ obj = Head(loc[t].list) /\ InReturn(t, obj)
    /\ Tail(loc[t].list) \in Seq(Nat) /\ IsInjective(Tail(loc[t].list))
    /\ \A x : Contains(Tail(loc[t].list), x) <=> InReturn(t, x) /\ x # obj
    /\ s \in SpanId /\ s \in Serving /\ s \in InUse /\ obj \in Objects(s)
    /\ s = map_object_to_Span(obj) /\ SizeOf(s) = loc[t].size
    /\ \A u \in Thread : ~InHand(u, s)
    /\ \A x : InSpan(s, x) => x \in Nat /\ x \in Objects(s)
    /\ _usecount[s] = Len(SlotsOf(s)) - Len(_objlist[s]) /\ 1 <= _usecount[s]
    /\ Len(SlotsOf(s)) \in Nat /\ Len(_objlist[s]) \in Nat
    /\ _usecount[s] = 1 => \A x \in Objects(s) : x = obj \/ InSpan(s, x)

(* OwnerFound gives the span; its use count is not zero, since obj is out. *)
LEMMA ReturnedOK ==
    ASSUME PoolInv, MapFindsOwner, NEW t \in Thread, pc[t] = "return"
    PROVE  \E obj, s : Returned(t, obj, s)
<1>1. /\ PoolTypes /\ Locals /\ loc[t] \in Local /\ loc[t].list \in Seq(Nat) /\ loc[t].list # <<>>
      /\ IsInjective(loc[t].list)
  <2>1. loc[t] \in Local
    BY DEF PoolInv, PoolTypes
  <2> QED BY <2>1 DEF PoolInv, Locals, Local, Spread, NoRepeats
<1>2. PICK obj : obj = Head(loc[t].list)
  OBVIOUS
<1>3. /\ obj \in Nat /\ InReturn(t, obj)
      /\ Tail(loc[t].list) \in Seq(Nat) /\ IsInjective(Tail(loc[t].list))
      /\ \A x : Contains(Tail(loc[t].list), x) <=> InReturn(t, x) /\ x # obj
  BY <1>1, <1>2, HeadTail DEF InReturn
<1>4. Located(obj) /\ \A r \in SpanId : ~InSpan(r, obj)
  BY <1>3 DEF Located, PoolInv, Spread, Exclusive, ExclusiveAt
<1>5. PICK s : s = map_object_to_Span(obj)
  OBVIOUS
<1>6. s \in Serving /\ obj \in Objects(s)
  BY <1>3, <1>4, <1>5, OwnerFound
<1>7. /\ s \in InUse /\ s \in SpanId /\ SlotsOf(s) \in Seq(Nat) /\ Contains(SlotsOf(s), obj)
      /\ \A x : x \in Objects(s) <=> Contains(SlotsOf(s), x)
  <2>1. s \in InUse
    BY <1>6, ServingDef
  <2> QED BY <1>6, <2>1, ObjectsOK DEF PoolInv
<1>8. SizeOf(s) = loc[t].size
  BY <1>3, <1>6 DEF PoolInv, Spread, Belongs
<1>9. \A u \in Thread : ~InHand(u, s)
  <2> SUFFICES ASSUME NEW u \in Thread, InHand(u, s) PROVE FALSE
    OBVIOUS
  <2>1. pc[u] # "giveback"
    BY <1>6, ServingDef DEF InHand
  <2>2. pc[u] = "insert"
    BY <2>1 DEF InHand, Handles
  <2>3. _objlist[s] = SlotsOf(s)
    BY <1>7, <2>2 DEF PoolInv, InHands
  <2> QED BY <1>4, <1>7, <2>3 DEF InSpan
<1>10. _objlist[s] \in Seq(Nat) /\ IsInjective(_objlist[s])
  BY <1>1, <1>7 DEF PoolInv, PoolTypes, Spread, NoRepeats
<1>11. \A x : InSpan(s, x) => x \in Nat /\ x \in Objects(s)
  <2>1. \A x : InSpan(s, x) => x \in Nat
    BY <1>10, ContainsElement DEF InSpan
  <2> QED BY <1>7, <2>1 DEF PoolInv, Spread, Belongs
<1>12. /\ Len(_objlist[s]) + 1 <= Len(SlotsOf(s))
       /\ Len(_objlist[s]) + 1 = Len(SlotsOf(s)) =>
            \A x : Contains(SlotsOf(s), x) => x = obj \/ Contains(_objlist[s], x)
  <2>1. \A x : Contains(_objlist[s], x) => Contains(SlotsOf(s), x)
    BY <1>7, <1>11 DEF InSpan
  <2>2. ~Contains(_objlist[s], obj)
    BY <1>4, <1>7 DEF InSpan
  <2> QED BY <1>3, <1>7, <1>10, <2>1, <2>2, ListMissesOne
<1>13. _usecount[s] = Len(SlotsOf(s)) - Len(_objlist[s])
  BY <1>6, UseCountDef DEF PoolInv
<1>14. Len(SlotsOf(s)) \in Nat /\ Len(_objlist[s]) \in Nat
  BY <1>7, <1>10
<1>15. 1 <= _usecount[s] /\ (_usecount[s] = 1 => Len(_objlist[s]) + 1 = Len(SlotsOf(s)))
  BY <1>12, <1>13, <1>14
<1>16. _usecount[s] = 1 => \A x \in Objects(s) : x = obj \/ InSpan(s, x)
  BY <1>7, <1>12, <1>15 DEF InSpan
<1>17. Returned(t, obj, s)
  BY <1>2, <1>3, <1>5, <1>6, <1>7, <1>8, <1>9, <1>11, <1>13, <1>14, <1>15, <1>16 DEF Returned
<1> QED BY <1>17

(* A turn after which objects of s are still out. *)
ReturnSome(t, obj, s) ==
    /\ Returned(t, obj, s) /\ pc[t] = "return"
    /\ _objlist' = [_objlist EXCEPT ![s] = <<obj>> \o _objlist[s]]
    /\ _usecount' = [_usecount EXCEPT ![s] = _usecount[s] - 1]
    /\ \/ /\ RestLoc(loc[t]).list = <<>> /\ Goto(t, "idle", idleLoc)
          /\ _mtx' = [_mtx EXCEPT ![loc[t].size] = null]
       \/ RestLoc(loc[t]).list # <<>> /\ Goto(t, "return", RestLoc(loc[t])) /\ _mtx' = _mtx
    /\ UNCHANGED <<tls_threadcache, TcPool, _freelist, _spanlist, page, held, build>>

(* The object moves from the list to its span's. *)
LEMMA ReturnSomeOK ==
    ASSUME PoolInv, NEW t \in Thread, NEW obj, NEW s, ReturnSome(t, obj, s)
    PROVE  PoolInv'
<1>1. PoolTypes /\ Locals /\ loc[t] \in Local /\ pc[t] = "return" /\ Returned(t, obj, s)
  BY DEF PoolInv, PoolTypes, ReturnSome
<1>2. loc[t].size \in Size
  BY <1>1 DEF Locals
<1>3. obj \in Nat /\ s \in SpanId /\ s \in Serving /\ obj \in Objects(s) /\ InReturn(t, obj)
  BY <1>1 DEF Returned
<1>4. /\ RestLoc(loc[t]) \in Local /\ RestLoc(loc[t]).list = Tail(loc[t].list)
      /\ RestLoc(loc[t]).size = loc[t].size
  BY <1>1, RestLocOK DEF Returned
<1>5. PICK k, where :
        /\ k \in Local /\ where \in {"idle", "return"} /\ k.list = Tail(loc[t].list)
        /\ where = "return" <=> k.list # <<>>
        /\ where = "return" => k.size = loc[t].size
        /\ Goto(t, where, k)
  <2>1. CASE RestLoc(loc[t]).list = <<>>
    <3>1. Goto(t, "idle", idleLoc)
      BY <2>1 DEF ReturnSome
    <3> QED BY <1>4, <2>1, <3>1, IdleLoc
  <2>2. CASE RestLoc(loc[t]).list # <<>>
    <3>1. Goto(t, "return", RestLoc(loc[t]))
      BY <2>2 DEF ReturnSome
    <3> QED BY <1>4, <2>2, <3>1
  <2> QED BY <2>1, <2>2
<1>6. /\ pc' \in [Thread -> {"idle"} \cup Newing \cup Fetching \cup Returning] /\ loc' \in [Thread -> Local]
      /\ pc'[t] = where /\ loc'[t] = k
      /\ \A u \in Thread : u # t => pc'[u] = pc[u] /\ loc'[u] = loc[u]
  <2>1. where \in {"idle"} \cup Newing \cup Fetching \cup Returning
    BY <1>5 DEF Returning
  <2> QED BY <1>1, <1>5, <2>1, GotoOK
<1>7. Locals'
  BY <1>1, <1>2, <1>5, <1>6, LocalsGoto, ZenonT(30) DEF Fetching, Returning
<1>8. _mtx' \in [Size -> Thread \cup {null}]
  BY <1>1, <1>2 DEF ReturnSome, PoolTypes
<1>9. _objlist[s] \in Seq(Nat) /\ IsInjective(_objlist[s])
  BY <1>1, <1>3 DEF PoolInv, PoolTypes, Spread, NoRepeats
<1>10. ExclusiveAt(obj)
  BY <1>3 DEF PoolInv, Spread, Exclusive
<1>11. ~Contains(_objlist[s], obj)
  BY <1>3, <1>10 DEF ExclusiveAt, InSpan
<1>12. PICK m : m = <<obj>> \o _objlist[s]
  OBVIOUS
<1>13. /\ m \in Seq(Nat) /\ IsInjective(m) /\ \A x : Contains(m, x) <=> x = obj \/ InSpan(s, x)
  BY <1>3, <1>9, <1>11, <1>12, PushedList DEF InSpan
<1>14. Len(m) = Len(_objlist[s]) + 1
  BY <1>9, <1>12
<1>15. /\ _objlist' \in [SpanId -> Seq(Nat)] /\ _objlist'[s] = m
       /\ \A r \in SpanId : r # s => _objlist'[r] = _objlist[r]
  <2>1. _objlist' = [_objlist EXCEPT ![s] = m]
    BY <1>12 DEF ReturnSome
  <2> QED BY <1>1, <1>3, <1>13, <2>1 DEF PoolTypes
<1>16. /\ _usecount' \in [SpanId -> Nat] /\ _usecount'[s] = _usecount[s] - 1
       /\ \A r \in SpanId : r # s => _usecount'[r] = _usecount[r]
  <2>1. _usecount \in [SpanId -> Nat] /\ 1 <= _usecount[s]
    BY <1>1 DEF PoolTypes, Returned
  <2>2. _usecount[s] - 1 \in Nat
    BY <1>3, <2>1
  <2> QED BY <1>3, <2>1, <2>2 DEF ReturnSome
<1>17. PoolTypes'
  BY <1>1, <1>6, <1>8, <1>15, <1>16 DEF PoolTypes, ReturnSome
<1>18. SameSpans
  <2>1. ASSUME NEW u \in Thread, pc[u] = "insert"
        PROVE  _objlist'[loc[u].span] = _objlist[loc[u].span]
    <3>1. loc[u].span \in SpanId /\ loc[u].span # s
      BY <1>1, <2>1 DEF Locals, Handles, InHand, Returned
    <3> QED BY <1>15, <3>1
  <2> QED BY <1>1, <1>5, <1>6, <2>1 DEF SameSpans, Handles, ReturnSome
<1>19. \A x : Contains(k.list, x) <=> InReturn(t, x) /\ x # obj
  BY <1>1, <1>5 DEF Returned
<1>20. /\ \A u \in Thread, y \in Size : \A x : InCache(u, y, x)' <=> InCache(u, y, x)
       /\ \A r \in SpanId : \A x : InSpan(r, x)' <=> InSpan(r, x) \/ (r = s /\ x = obj)
       /\ \A u \in Thread : \A x : InReturn(u, x)' <=> InReturn(u, x) /\ ~(u = t /\ x = obj)
       /\ held' = held
  <2>1. _freelist' = _freelist /\ held' = held
    BY DEF ReturnSome
  <2>2. \A r \in SpanId : \A x : InSpan(r, x)' <=> InSpan(r, x) \/ (r = s /\ x = obj)
    BY <1>13, <1>15 DEF InSpan
  <2>3. \A u \in Thread : \A x : InReturn(u, x)' <=> InReturn(u, x) /\ ~(u = t /\ x = obj)
    BY <1>6, <1>19 DEF InReturn
  <2> QED BY <2>1, <2>2, <2>3 DEF InCache
<1>21. NoRepeats'
  <2>1. IsInjective(k.list)
    BY <1>1, <1>5 DEF Returned
  <2> QED BY <1>6, <1>13, <1>15, <2>1 DEF PoolInv, Spread, NoRepeats, ReturnSome
<1>22. \A x \in Nat : x # obj => Stays(x)
  BY <1>20 DEF Stays
<1>23. Located(obj) /\ OnlyInSpan(s, obj)'
  <2>1. Located(obj)
    BY <1>3 DEF Located
  <2>2. OnlyInSpan(s, obj)'
    BY <1>3, <1>10, <1>20 DEF OnlyInSpan, ExclusiveAt
  <2> QED BY <2>1, <2>2
<1>24. \A x \in Nat : Stays(x) \/ (Located(x) /\ Single(x)')
  <2>1. Single(obj)'
    BY <1>3, <1>23 DEF Single
  <2> QED BY <1>22, <1>23, <2>1
<1>25. /\ Serving' = Serving
       /\ \A r : SlotsOf(r)' = SlotsOf(r) /\ Objects(r)' = Objects(r) /\ SizeOf(r)' = SizeOf(r)
  BY <1>18, SameSpansOK
<1>26. Belongs'
  <2>1. \A r \in SpanId, x \in Nat : InSpan(r, x)' => r \in Serving /\ x \in Objects(r)
    BY <1>3, <1>20 DEF PoolInv, Spread, Belongs
  <2>2. ASSUME NEW r \in Serving, NEW x \in Objects(r), NEW u \in Thread, InReturn(u, x)'
        PROVE  SizeOf(r) = loc'[u].size
    <3>1. InReturn(u, x)
      BY <1>20, <2>2
    <3>2. SizeOf(r) = loc[u].size
      BY <2>2, <3>1 DEF PoolInv, Spread, Belongs
    <3>3. CASE u = t
      <4>1. Contains(k.list, x)
        BY <1>6, <2>2, <3>3 DEF InReturn
      <4>2. k.list # <<>>
        BY <1>5, <4>1, ContainsElement DEF Local
      <4> QED BY <1>5, <1>6, <3>2, <3>3, <4>2
    <3>4. CASE u # t
      BY <1>6, <3>2, <3>4
    <3> QED BY <3>3, <3>4
  <2>3. \A r \in Serving : \A x \in Objects(r) : \A u \in Thread, y \in Size :
          InCache(u, y, x)' => SizeOf(r) = y
    BY <1>20 DEF PoolInv, Spread, Belongs
  <2> QED BY <1>25, <2>1, <2>2, <2>3 DEF Belongs
<1>27. UseCountExact'
  <2> SUFFICES ASSUME NEW r \in Serving
               PROVE  _usecount'[r] = Len(SlotsOf(r)) - Len(_objlist'[r])
    BY <1>25, UseCountDef
  <2>1. _usecount[r] = Len(SlotsOf(r)) - Len(_objlist[r]) /\ r \in SpanId
    BY UseCountDef, ServingDef DEF PoolInv, InUse, Live
  <2>2. CASE r # s
    BY <1>15, <1>16, <2>1, <2>2
  <2>3. CASE r = s
    <3>1. Len(SlotsOf(s)) \in Nat /\ Len(_objlist[s]) \in Nat
      BY <1>1 DEF Returned
    <3> QED BY <1>14, <1>15, <1>16, <2>1, <2>3, <3>1
  <2> QED BY <2>2, <2>3
<1> QED BY <1>7, <1>17, <1>18, <1>21, <1>24, <1>26, <1>27, MovesOK

(* The turn that brings back the last object of s. *)
ReturnLast(t, obj, s) ==
    /\ Returned(t, obj, s) /\ pc[t] = "return" /\ _usecount[s] = 1
    /\ _objlist' = [_objlist EXCEPT ![s] = <<>>]
    /\ _usecount' = [_usecount EXCEPT ![s] = _usecount[s] - 1]
    /\ _spanlist' = [_spanlist EXCEPT ![loc[t].size] = EraseFromBucket(_spanlist[loc[t].size], s)]
    /\ _mtx' = [_mtx EXCEPT ![loc[t].size] = null]
    /\ Goto(t, "giveback", [RestLoc(loc[t]) EXCEPT !.span = s])
    /\ UNCHANGED <<tls_threadcache, TcPool, _freelist, page, held, build>>

(* All objects of s are back: they cease to exist, and s is in the hands of *)
(* t.                                                                       *)
LEMMA ReturnLastOK ==
    ASSUME PoolInv, NEW t \in Thread, NEW obj, NEW s, ReturnLast(t, obj, s)
    PROVE  PoolInv'
<1>1. PoolTypes /\ Locals /\ loc[t] \in Local /\ pc[t] = "return" /\ Returned(t, obj, s)
  BY DEF PoolInv, PoolTypes, ReturnLast
<1>2. PICK size \in Size : size = loc[t].size
  BY <1>1, SMTT(30) DEF Locals
<1>3. /\ obj \in Nat /\ s \in SpanId /\ s \in Serving /\ s \in InUse /\ obj \in Objects(s)
      /\ InReturn(t, obj) /\ SizeOf(s) = size
      /\ \A u \in Thread : ~InHand(u, s)
      /\ \A x : InSpan(s, x) => x \in Nat /\ x \in Objects(s)
      /\ \A x \in Objects(s) : x = obj \/ InSpan(s, x)
  BY <1>1, <1>2 DEF Returned, ReturnLast
<1>4. /\ RestLoc(loc[t]) \in Local /\ RestLoc(loc[t]).list = Tail(loc[t].list)
      /\ RestLoc(loc[t]).size = size
  BY <1>1, <1>2, RestLocOK DEF Returned
<1>5. PICK k : k = [RestLoc(loc[t]) EXCEPT !.span = s]
  OBVIOUS
<1>6. k \in Local /\ k.span = s /\ k.size = size /\ k.list = Tail(loc[t].list)
  BY <1>3, <1>4, <1>5, SpanLoc
<1>7. /\ pc' \in [Thread -> {"idle"} \cup Newing \cup Fetching \cup Returning] /\ loc' \in [Thread -> Local]
      /\ pc'[t] = "giveback" /\ loc'[t] = k
      /\ \A u \in Thread : u # t => pc'[u] = pc[u] /\ loc'[u] = loc[u]
  <2>1. Goto(t, "giveback", k)
    BY <1>5, Zenon DEF ReturnLast
  <2>2. "giveback" \in {"idle"} \cup Newing \cup Fetching \cup Returning
    BY DEF Returning
  <2> QED BY <1>1, <1>6, <2>1, <2>2, GotoOK
<1>8. Locals'
  BY <1>1, <1>3, <1>6, <1>7, LocalsGoto DEF Fetching, Returning
<1>9. _mtx' \in [Size -> Thread \cup {null}]
  BY <1>1, <1>2 DEF ReturnLast, PoolTypes
<1>10. /\ _objlist' \in [SpanId -> Seq(Nat)] /\ _objlist'[s] = <<>>
       /\ \A r \in SpanId : r # s => _objlist'[r] = _objlist[r]
  <2>1. _objlist \in [SpanId -> Seq(Nat)] /\ <<>> \in Seq(Nat)
    BY <1>1 DEF PoolTypes
  <2> QED BY <1>3, <2>1 DEF ReturnLast
<1>11. /\ _usecount' \in [SpanId -> Nat]
       /\ \A r \in SpanId : r # s => _usecount'[r] = _usecount[r]
  <2>1. _usecount \in [SpanId -> Nat] /\ _usecount[s] = 1
    BY <1>1 DEF PoolTypes, ReturnLast
  <2> QED BY <1>3, <2>1 DEF ReturnLast
<1>12. PICK l, m : l = _spanlist[size] /\ m = EraseFromBucket(l, s)
  OBVIOUS
<1>13. l \in Seq(SpanId) /\ IsInjective(l)
  BY <1>1, <1>12 DEF PoolInv, PoolTypes, Buckets
<1>14. m \in Seq(SpanId) /\ IsInjective(m) /\ \A x : Contains(m, x) <=> x # s /\ Contains(l, x)
  BY <1>12, <1>13, ErasedFromBucket
<1>15. /\ _spanlist' \in [Size -> Seq(SpanId)] /\ _spanlist'[size] = m
       /\ \A z \in Size : z # size => _spanlist'[z] = _spanlist[z]
  <2>1. _spanlist' = [_spanlist EXCEPT ![size] = m]
    BY <1>2, <1>12 DEF ReturnLast
  <2> QED BY <1>1, <1>14, <2>1 DEF PoolTypes
<1>16. PoolTypes'
  BY <1>1, <1>7, <1>9, <1>10, <1>11, <1>15 DEF PoolTypes, ReturnLast
<1>17. /\ InUse' = InUse /\ Sized' /\ Tiled(page', null)
       /\ \A r : SlotsOf(r)' = SlotsOf(r) /\ Objects(r)' = Objects(r) /\ SizeOf(r)' = SizeOf(r)
  BY SamePage DEF PoolInv, ReturnLast
<1>18. \A r : r \in Serving' <=> r \in Serving /\ r # s
  <2>1. \A u \in Thread : u # t => (pc'[u] = "giveback" <=> pc[u] = "giveback") /\ loc'[u] = loc[u]
    BY <1>7
  <2>2. pc'[t] = "giveback" /\ loc'[t].span = s /\ pc[t] # "giveback"
    BY <1>1, <1>6, <1>7
  <2>3. \A r : r \in Serving' => r \in Serving /\ r # s
    BY <1>17, <2>1, <2>2, ServingDef
  <2>4. \A r : r \in Serving /\ r # s => r \in Serving'
    BY <1>17, <2>1, <2>2, ServingDef
  <2> QED BY <2>3, <2>4
<1>19. /\ \A u \in Thread, y \in Size : \A x : InCache(u, y, x)' <=> InCache(u, y, x)
       /\ \A r \in SpanId : \A x : InSpan(r, x)' <=> InSpan(r, x) /\ r # s
       /\ \A u \in Thread : \A x : InReturn(u, x)' <=> InReturn(u, x) /\ ~(u = t /\ x = obj)
       /\ held' = held
  <2>1. _freelist' = _freelist /\ held' = held
    BY DEF ReturnLast
  <2>2. \A x : ~Contains(<<>>, x)
    BY DEF Contains
  <2>3. \A r \in SpanId : \A x : InSpan(r, x)' <=> InSpan(r, x) /\ r # s
    BY <1>10, <2>2 DEF InSpan
  <2>4. \A x : Contains(k.list, x) <=> InReturn(t, x) /\ x # obj
    BY <1>1, <1>6 DEF Returned
  <2>5. \A u \in Thread : \A x : InReturn(u, x)' <=> InReturn(u, x) /\ ~(u = t /\ x = obj)
    BY <1>7, <2>4 DEF InReturn
  <2> QED BY <2>1, <2>3, <2>5 DEF InCache
<1>20. NoRepeats'
  <2>1. IsInjective(k.list)
    BY <1>1, <1>6 DEF Returned
  <2>2. IsInjective(<<>>)
    BY DEF IsInjective
  <2> QED BY <1>7, <1>10, <2>1, <2>2 DEF PoolInv, Spread, NoRepeats, ReturnLast
<1>21. ASSUME NEW x \in Nat, x \notin Objects(s) PROVE Stays(x)
  <2>1. x # obj /\ ~InSpan(s, x)
    BY <1>3, <1>21
  <2> QED BY <1>19, <2>1 DEF Stays
<1>22. ASSUME NEW x \in Nat, x \in Objects(s) PROVE ~Located(x)' /\ ExclusiveAt(x)'
  <2>1. ExclusiveAt(x)
    BY DEF PoolInv, Spread, Exclusive
  <2>2. /\ x \notin held
        /\ \A r \in SpanId : InSpan(r, x) => r = s
        /\ \A u \in Thread : InReturn(u, x) => u = t /\ x = obj
        /\ \A u \in Thread, y \in Size : ~InCache(u, y, x)
    <3>1. CASE x = obj
      BY <1>3, <2>1, <3>1 DEF ExclusiveAt
    <3>2. CASE InSpan(s, x)
      BY <1>3, <2>1, <3>2 DEF ExclusiveAt
    <3> QED BY <1>3, <1>22, <3>1, <3>2
  <2>3. /\ x \notin held'
        /\ \A r \in SpanId : ~InSpan(r, x)'
        /\ \A u \in Thread : ~InReturn(u, x)'
        /\ \A u \in Thread, y \in Size : ~InCache(u, y, x)'
    BY <1>19, <2>2
  <2>4. ~Located(x)'
    BY <2>3 DEF Located
  <2>5. ExclusiveAt(x)'
    BY <2>3 DEF ExclusiveAt
  <2> QED BY <2>4, <2>5
<1>23. Exclusive'
  <2>1. \A x \in Nat : ExclusiveAt(x)'
    BY <1>21, <1>22, StaysPut DEF PoolInv, Spread, Exclusive
  <2> QED BY <2>1 DEF Exclusive
<1>24. \A r \in Serving : \A x \in Objects(s) : x \in Objects(r) => r = s
  BY <1>3, ServingDef, ObjectsApart DEF PoolInv
<1>25. Complete'
  <2>1. ASSUME NEW x \in Nat, x \in Objects(s)
        PROVE  Located(x)' <=> \E r \in Serving' : x \in Objects(r)'
    BY <1>17, <1>18, <1>22, <1>24, <2>1
  <2>2. ASSUME NEW x \in Nat, x \notin Objects(s)
        PROVE  Located(x)' <=> \E r \in Serving' : x \in Objects(r)'
    <3>1. Located(x)' <=> Located(x)
      BY <1>21, <2>2, StaysPut
    <3>2. Located(x) <=> \E r \in Serving : x \in Objects(r)
      BY DEF PoolInv, Spread, Complete
    <3> QED BY <1>17, <1>18, <2>2, <3>1, <3>2
  <2> QED BY <2>1, <2>2 DEF Complete
<1>26. Belongs'
  <2>1. \A r \in SpanId, x \in Nat : InSpan(r, x)' => r \in Serving' /\ x \in Objects(r)
    BY <1>18, <1>19 DEF PoolInv, Spread, Belongs
  <2>2. \A u \in Thread : loc'[u].size = loc[u].size
    BY <1>2, <1>6, <1>7
  <2>3. \A r \in Serving : \A x \in Objects(r) :
          /\ \A u \in Thread : InReturn(u, x)' => SizeOf(r) = loc'[u].size
          /\ \A u \in Thread, y \in Size : InCache(u, y, x)' => SizeOf(r) = y
    BY <1>19, <2>2 DEF PoolInv, Spread, Belongs
  <2> QED BY <1>17, <1>18, <2>1, <2>3 DEF Belongs
<1>27. UseCountExact'
  <2> SUFFICES ASSUME NEW r \in Serving, r # s
               PROVE  _usecount'[r] = Len(SlotsOf(r)) - Len(_objlist'[r])
    BY <1>17, <1>18, UseCountDef
  <2>1. _usecount[r] = Len(SlotsOf(r)) - Len(_objlist[r]) /\ r \in SpanId
    BY UseCountDef, ServingDef DEF PoolInv, InUse, Live
  <2> QED BY <1>10, <1>11, <2>1
<1>28. \A z \in Size, r \in SpanId :
         Contains(_spanlist'[z], r) <=> Contains(_spanlist[z], r) /\ r # s
  <2>1. \A z \in Size : Contains(_spanlist[z], s) => z = size
    BY <1>3 DEF PoolInv, Buckets
  <2> QED BY <1>3, <1>12, <1>14, <1>15, <2>1
<1>29. Buckets'
  <2>1. \A z \in Size : IsInjective(_spanlist'[z])
    BY <1>14, <1>15 DEF PoolInv, Buckets
  <2>2. \A z \in Size, r \in SpanId : Contains(_spanlist'[z], r) => r \in Serving' /\ SizeOf(r) = z
    BY <1>18, <1>28 DEF PoolInv, Buckets
  <2> QED BY <1>17, <2>1, <2>2 DEF Buckets
<1>30. InHands'
  <2> SUFFICES ASSUME NEW u \in Thread, NEW r \in SpanId, InHand(u, r)'
               PROVE  /\ r \in InUse'
                      /\ pc'[u] = "insert" => SizeOf(r)' = loc'[u].size /\ _objlist'[r] = SlotsOf(r)'
                      /\ \A z \in Size : ~Contains(_spanlist'[z], r)
                      /\ \A v \in Thread : InHand(v, r)' => v = u
    BY DEF InHands
  <2>1. \A v \in Thread : \A x : InHand(v, x)' <=> IF v = t THEN x = s ELSE InHand(v, x)
    BY <1>6, <1>7 DEF InHand, Handles
  <2>2. CASE u = t
    <3>1. r = s
      BY <2>1, <2>2
    <3> QED BY <1>3, <1>7, <1>17, <1>28, <2>1, <2>2, <3>1
  <2>3. CASE u # t
    <3>1. InHand(u, r) /\ r # s
      BY <1>3, <2>1, <2>3
    <3>2. /\ r \in InUse
          /\ pc[u] = "insert" => SizeOf(r) = loc[u].size /\ _objlist[r] = SlotsOf(r)
          /\ \A z \in Size : ~Contains(_spanlist[z], r)
          /\ \A v \in Thread : InHand(v, r) => v = u
      BY <3>1 DEF PoolInv, InHands
    <3> QED BY <1>7, <1>10, <1>17, <1>28, <2>1, <2>3, <3>1, <3>2
  <2> QED BY <2>2, <2>3
<1> QED BY <1>8, <1>16, <1>17, <1>20, <1>23, <1>25, <1>26, <1>27, <1>29, <1>30 DEF PoolInv, Spread

-----------------------------------------------------------------------------
(* No span, no page. *)
LEMMA InitTiled ==
    ASSUME Init
    PROVE  Tiled(page, null)
<1> DEFINE sp == [s \in SpanId |-> SpanOf(0, 0)]
           li == [n \in 1 .. (NPAGES - 1) |-> <<>>]
           ma == [q \in Page |-> null]
<1>1. page = Rec(sp, li, ma, SpanId, 1, 0)
  BY DEF Init, Rec
<1>2. /\ page.span = sp /\ page.list = li /\ page.map = ma /\ page.free = SpanId
      /\ page.top = 1 /\ page.blocks = 0 /\ IsRec(page)
  BY <1>1, RecFields
<1>3. LiveIn(page) = {}
  BY <1>2 DEF LiveIn
<1>4. IsPage(page)
  <2>1. sp \in [SpanId -> SpanRec]
    BY DEF SpanOf, SpanRec
  <2>2. li \in [Lists -> Seq(SpanId)]
    BY DEF Lists
  <2>3. ma \in [Page -> SpanId \cup {null}]
    OBVIOUS
  <2> HIDE DEF sp, li, ma
  <2> QED BY <1>2, <2>1, <2>2, <2>3 DEF IsPage
<1>5. Covered(page) = {}
  BY <1>3 DEF Covered
<1>6. Counts(page)
  BY <1>2, <1>5, FS_EmptySet, PoolSizes DEF Counts
<1>7. Room(page)
  BY <1>2, PoolSizes DEF Room
<1>8. Placed(page) /\ Apart(page)
  BY <1>3 DEF Placed, Apart
<1>9. Listed(page)
  <2>1. IsInjective(<<>>) /\ \A x : ~Contains(<<>>, x)
    BY DEF IsInjective, Contains
  <2>2. \A n \in Lists : page.list[n] = <<>>
    BY <1>2 DEF Lists
  <2> QED BY <1>3, <2>1, <2>2 DEF Listed
<1>10. \A q \in Page : page.map[q] = null
  BY <1>2
<1>11. EndsMapped(page, null) /\ OnlyCovered(page)
  BY <1>3, <1>10 DEF EndsMapped, OnlyCovered
<1> QED BY <1>4, <1>6, <1>7, <1>8, <1>9, <1>11 DEF Tiled

(* The pool begins in order, and every step keeps it so. *)
LEMMA PoolInit ==
    ASSUME Init
    PROVE  PoolInv
<1>1. InUse = {} /\ Serving = {}
  BY DEF Init, InUse, Live, Serving
<1>2. \A x : ~Contains(<<>>, x)
  BY DEF Contains
<1>3. IsInjective(<<>>)
  BY DEF IsInjective
<1>4. /\ \A t \in Thread, z \in Size : _freelist[t][z].list = <<>>
      /\ \A z \in Size : _spanlist[z] = <<>>
      /\ \A s \in SpanId : _objlist[s] = <<>>
      /\ \A t \in Thread : pc[t] = "idle" /\ loc[t] = idleLoc /\ loc[t].list = <<>>
      /\ held = {}
  BY IdleLoc DEF Init, FreeList
<1>5. PoolTypes
  <2>1. FreeList \in [list : Seq(Nat), maxSize : Nat \ {0}]
    BY DEF FreeList
  <2>2. _freelist \in Caches
    <3> HIDE DEF FreeList
    <3> QED BY <2>1 DEF Init, Caches
  <2>3. loc \in [Thread -> Local]
    BY IdleLoc DEF Init
  <2>4. tls_threadcache \in [Thread -> Nat] /\ TcPool \in [_memory : Nat, remainBytes : Int, top : Nat]
    BY DEF Init, null
  <2> QED BY <2>2, <2>3, <2>4 DEF Init, PoolTypes
<1>6. Locals
  BY <1>4 DEF Locals, Handles, Fetching, Returning
<1>7. Sized
  BY <1>1 DEF Sized
<1>8. Buckets
  BY <1>2, <1>3, <1>4 DEF Buckets
<1>9. InHands
  BY <1>4 DEF InHands, InHand, Handles
<1>10. NoRepeats
  BY <1>3, <1>4 DEF NoRepeats
<1>11. /\ \A s \in SpanId : \A x : ~InSpan(s, x)
       /\ \A t \in Thread : \A x : ~InReturn(t, x)
       /\ \A t \in Thread, z \in Size : \A x : ~InCache(t, z, x)
  BY <1>2, <1>4 DEF InSpan, InReturn, InCache
<1>12. Exclusive
  BY <1>4, <1>11 DEF Exclusive, ExclusiveAt
<1>13. Complete
  BY <1>1, <1>4, <1>11 DEF Complete, Located
<1>14. Belongs
  BY <1>1, <1>11 DEF Belongs
<1>15. UseCountExact
  BY <1>1, UseCountDef
<1> QED BY <1>5, <1>6, <1>7, <1>8, <1>9, <1>10, <1>12, <1>13, <1>14, <1>15, InitTiled DEF PoolInv, Spread

LEMMA ConcurrentAllocOK ==
    ASSUME PoolInv, NEW t \in Thread, NEW size \in Size, ConcurrentAlloc(t, size), build' = build
    PROVE  PoolInv'
<1>1. CASE _freelist[t][size].list # <<>>
  <2>1. AllocHit(t, size)
    BY <1>1 DEF ConcurrentAlloc, Allocate, AllocHit, WithList
  <2> QED BY <2>1, AllocHitOK
<1>2. CASE _freelist[t][size].list = <<>>
  <2>1. /\ pc[t] = "idle" /\ fetch_from_CentralCache(t, size)
        /\ UNCHANGED <<tls_threadcache, TcPool, _spanlist, _mtx, _objlist, _usecount, page>>
    BY <1>2 DEF ConcurrentAlloc, Allocate
  <2> QED BY <2>1, AllocMissOK DEF PoolInv, PoolTypes
<1> QED BY <1>1, <1>2

(* The steps of New(). *)
LEMMA NewOK ==
    ASSUME PoolInv, NEW t \in Thread, build' = build,
           \/ \E size \in Size : NewCache(t, size)
           \/ RefillCaches(t) \/ SbrkCaches(t) \/ ClaimCache(t)
    PROVE  PoolInv'
<1>0. /\ CachesPerBlock \in Nat
      /\ TcPool \in [_memory : Nat, remainBytes : Int, top : Nat] /\ loc[t] \in Local
  BY PoolAssumption DEF PoolInv, PoolTypes
<1>1. ASSUME NEW size \in Size, NewCache(t, size) PROVE PoolInv'
  <2>1. PICK l : l = [idleLoc EXCEPT !.size = size, !.remain = TcPool.remainBytes]
    OBVIOUS
  <2>2. l \in Local /\ l.size = size /\ l.list = <<>>
    BY <1>0, <2>1, IdleLoc DEF Local
  <2>3. /\ pc[t] = "idle" /\ Goto(t, IF TcPool.remainBytes = 0 THEN "refill" ELSE "claim", l)
        /\ UNCHANGED <<tls_threadcache, TcPool, _freelist, _spanlist, _mtx, _objlist, _usecount, page, held>>
    BY <1>1, <2>1 DEF NewCache
  <2>4. (IF TcPool.remainBytes = 0 THEN "refill" ELSE "claim") \in Newing
    BY DEF Newing
  <2> QED BY <1>0, <2>2, <2>3, <2>4, NewingOK
<1>2. ASSUME pc[t] \in Newing PROVE loc[t].size \in Size /\ loc[t].list = <<>>
  BY <1>2 DEF PoolInv, Locals, Newing, Returning
<1>3. CASE RefillCaches(t)
  <2>1. PICK l : l = [loc[t] EXCEPT !.remain = CachesPerBlock]
    OBVIOUS
  <2>2. pc[t] \in Newing /\ "sbrk" \in Newing
    BY <1>3 DEF RefillCaches, Newing
  <2>3. l \in Local /\ l.size \in Size /\ l.list = <<>>
    BY <1>0, <1>2, <2>1, <2>2 DEF Local
  <2>4. /\ TcPool' \in [_memory : Nat, remainBytes : Int, top : Nat]
        /\ Goto(t, "sbrk", l)
        /\ UNCHANGED <<tls_threadcache, _freelist, _spanlist, _mtx, _objlist, _usecount, page, held>>
    BY <1>0, <1>3, <2>1 DEF RefillCaches
  <2> QED BY <2>2, <2>3, <2>4, NewingOK
<1>4. CASE SbrkCaches(t)
  <2>2. pc[t] \in Newing /\ "claim" \in Newing
    BY <1>4 DEF SbrkCaches, Newing
  <2>4. /\ TcPool' \in [_memory : Nat, remainBytes : Int, top : Nat]
        /\ Goto(t, "claim", loc[t])
        /\ UNCHANGED <<tls_threadcache, _freelist, _spanlist, _mtx, _objlist, _usecount, page, held>>
    <3>1. TcPool.top \in Nat /\ TcPool.top + 1 \in Nat /\ TcPool.top + CachesPerBlock \in Nat
      BY <1>0
    <3>2. TcPool' = [TcPool EXCEPT !._memory = TcPool.top + 1, !.top = TcPool.top + CachesPerBlock]
      BY <1>4 DEF SbrkCaches
    <3>3. TcPool' \in [_memory : Nat, remainBytes : Int, top : Nat]
      BY <1>0, <3>1, <3>2
    <3> QED BY <1>4, <3>3 DEF SbrkCaches
  <2> QED BY <1>0, <1>2, <2>2, <2>4, NewingOK
<1>5. CASE ClaimCache(t)
  <2>1. PICK l : l = [loc[t] EXCEPT !.cache = TcPool._memory]
    OBVIOUS
  <2>2. pc[t] \in Newing /\ "advance" \in Newing
    BY <1>5 DEF ClaimCache, Newing
  <2>3. l \in Local /\ l.size \in Size /\ l.list = <<>>
    BY <1>0, <1>2, <2>1, <2>2 DEF Local
  <2>4. /\ Goto(t, "advance", l)
        /\ UNCHANGED <<tls_threadcache, _freelist, _spanlist, _mtx, _objlist, _usecount, page, held>>
    BY <1>5, <2>1 DEF ClaimCache
  <2>5. PICK r \in {TcPool.remainBytes, loc[t].remain} : TcPool' = [TcPool EXCEPT !.remainBytes = r - 1]
    BY <1>5 DEF ClaimCache
  <2>6. r \in Int
    BY <1>0, <2>5 DEF Local
  <2>7. TcPool' \in [_memory : Nat, remainBytes : Int, top : Nat]
    BY <1>0, <2>5, <2>6
  <2> QED BY <2>2, <2>3, <2>4, <2>7, NewingOK
<1> QED BY <1>1, <1>3, <1>4, <1>5

LEMMA AdvanceCacheOK ==
    ASSUME PoolInv, NEW t \in Thread, AdvanceCache(t), build' = build
    PROVE  PoolInv'
<1>1. /\ tls_threadcache \in [Thread -> Nat] /\ loc[t] \in Local
      /\ TcPool \in [_memory : Nat, remainBytes : Int, top : Nat]
  BY DEF PoolInv, PoolTypes
<1>2. pc[t] = "advance" /\ loc[t].size \in Size /\ loc[t].cache \in Nat
  BY <1>1 DEF AdvanceCache, PoolInv, Locals, Local
<1>3. tls_threadcache' \in [Thread -> Nat]
  BY <1>1, <1>2 DEF AdvanceCache
<1>4. PICK m \in Advanced(TcPool._memory, loc[t].cache) : TcPool' = [TcPool EXCEPT !._memory = m]
  BY DEF AdvanceCache
<1>5. m \in Nat
  BY <1>1, <1>2, <1>4 DEF Advanced
<1>6. TcPool' \in [_memory : Nat, remainBytes : Int, top : Nat]
  BY <1>1, <1>4, <1>5
<1>7. fetch_from_CentralCache(t, loc[t].size) /\ UNCHANGED <<_spanlist, _mtx, _objlist, _usecount, page>>
  BY DEF AdvanceCache
<1>8. PICK size \in Size : size = loc[t].size
  BY <1>2
<1> QED BY <1>2, <1>3, <1>6, <1>7, <1>8, AllocMissOK

LEMMA ConcurrentFreeOK ==
    ASSUME PoolInv, MapFindsOwner, NEW t \in Thread, NEW obj \in held, ConcurrentFree(t, obj), build' = build
    PROVE  PoolInv'
<1>1. PICK z : z = page.span[map_object_to_Span(obj)]._objsize
  OBVIOUS
<1>2. deallocate(t, obj, z)
  BY <1>1 DEF ConcurrentFree
<1>3. CASE _freelist[t][z].maxSize < Len(<<obj>> \o _freelist[t][z].list)
  <2>1. FreeLong(t, obj, z)
    <3>1. list_to_long(t, z, <<obj>> \o _freelist[t][z].list)
      BY <1>2, <1>3, ZenonT(30) DEF deallocate
    <3> QED BY <1>1, <1>3, <3>1, Zenon DEF ConcurrentFree, FreeLong
  <2> QED BY <2>1, FreeLongOK
<1>4. CASE ~(_freelist[t][z].maxSize < Len(<<obj>> \o _freelist[t][z].list))
  <2>1. FreeShort(t, obj, z)
    BY <1>1, <1>2, <1>4 DEF ConcurrentFree, deallocate, FreeShort, WithList
  <2> QED BY <2>1, FreeShortOK
<1> QED BY <1>3, <1>4

LEMMA ReturnObjectOK ==
    ASSUME PoolInv, MapFindsOwner, NEW t \in Thread, ReturnObject(t), build' = build
    PROVE  PoolInv'
<1>1. pc[t] = "return"
  BY DEF ReturnObject
<1>2. PICK obj, s : Returned(t, obj, s)
  BY <1>1, ReturnedOK
<1>3. obj = Head(loc[t].list) /\ s = map_object_to_Span(Head(loc[t].list))
  BY <1>2 DEF Returned
<1>4. CASE _usecount[s] = 1
  <2>1. ReturnLast(t, obj, s)
    BY <1>1, <1>2, <1>3, <1>4 DEF ReturnObject, ReturnLast, RestLoc
  <2> QED BY <2>1, ReturnLastOK
<1>5. CASE _usecount[s] # 1
  <2>1. ReturnSome(t, obj, s)
    BY <1>1, <1>2, <1>3, <1>5 DEF ReturnObject, ReturnSome, RestLoc, Done
  <2> QED BY <2>1, ReturnSomeOK
<1> QED BY <1>4, <1>5

(* A step of build alone. *)
LEMMA UnchangedOK ==
    ASSUME PoolInv, build' \in {"Debug", "NDEBUG", "aborted"},
           UNCHANGED <<tls_threadcache, TcPool, _freelist, _spanlist, _mtx, _objlist, _usecount, page, pc, loc, held>>
    PROVE  PoolInv'
<1>1. PoolTypes'
  BY DEF PoolInv, PoolTypes
<1>2. Locals'
  BY DEF PoolInv, Locals, Handles
<1>3. SameSpans
  BY DEF SameSpans
<1>4. Quiet
  BY <1>3 DEF Quiet
<1> QED BY <1>1, <1>2, <1>4, QuietOK

(* Every step of every thread. *)
LEMMA PoolStep ==
    ASSUME PoolInv, MapFindsOwner, [Next]_vars
    PROVE  PoolInv'
<1>0. build \in {"Debug", "NDEBUG", "aborted"}
  BY DEF PoolInv, PoolTypes
<1>1. CASE UNCHANGED vars
  BY <1>0, <1>1, UnchangedOK DEF vars
<1>2. CASE Stopped
  BY <1>0, <1>2, UnchangedOK DEF Stopped, vars
<1>3. ASSUME NEW t \in Thread, Abort(t) PROVE PoolInv'
  BY <1>3, UnchangedOK DEF Abort
<1>4. ASSUME NEW t \in Thread, Step(t) PROVE PoolInv'
  <2>1. build' = build
    BY <1>4 DEF Step
  <2>2. ASSUME NEW size \in Size, ConcurrentAlloc(t, size) PROVE PoolInv'
    BY <2>1, <2>2, ConcurrentAllocOK
  <2>3. CASE FetchHit(t)
    BY <2>1, <2>3, FetchHitOK
  <2>4. CASE FetchMiss(t)
    BY <2>1, <2>4, FetchMissOK
  <2>5. CASE NewSpan(t)
    <3>1. \E s, size : NewSpanStep(t, s, size)
      BY <2>1, <2>5, NewSpanIsStep
    <3> QED BY <3>1, NewSpanOK
  <2>6. CASE InsertSpan(t)
    BY <2>1, <2>6, InsertSpanOK
  <2>7. ASSUME NEW obj \in held, ConcurrentFree(t, obj) PROVE PoolInv'
    BY <2>1, <2>7, ConcurrentFreeOK
  <2>8. CASE ReleaseLock(t)
    BY <2>1, <2>8, ReleaseLockOK
  <2>9. CASE ReturnObject(t)
    BY <2>1, <2>9, ReturnObjectOK
  <2>10. CASE GiveBack(t)
    BY <2>1, <2>10, GiveBackOK
  <2>11. ASSUME NEW size \in Size, NewCache(t, size) PROVE PoolInv'
    BY <2>1, <2>11, NewOK
  <2>12. CASE RefillCaches(t) \/ SbrkCaches(t) \/ ClaimCache(t)
    BY <2>1, <2>12, NewOK
  <2>13. CASE AdvanceCache(t)
    BY <2>1, <2>13, AdvanceCacheOK
  <2> QED BY <1>4, <2>2, <2>3, <2>4, <2>5, <2>6, <2>7, <2>8, <2>9, <2>10, <2>11, <2>12, <2>13 DEF Step
<1> QED BY <1>1, <1>2, <1>3, <1>4 DEF Next

(* As long as the page map finds the owner of every object that comes back, *)
(* the invariant is kept.                                                   *)
LEMMA PoolInvariant == Spec /\ []MapFindsOwner => []PoolInv
<1>1. Init => PoolInv
  BY PoolInit
<1>2. PoolInv /\ MapFindsOwner /\ [Next]_vars => PoolInv'
  BY PoolStep
<1> QED BY <1>1, <1>2, PTL DEF Spec

(* What the invariant says of the properties the runs check. *)
LEMMA PoolTypeOK ==
    ASSUME PoolInv
    PROVE  TypeOK
<1>1. page.map \in [Page -> SpanId \cup {null}]
  BY DEF PoolInv, Tiled, IsPage
<1>2. ASSUME NEW size \in Size PROVE ToSet(_spanlist[size]) \subseteq InUse
  <2>1. _spanlist[size] \in Seq(SpanId)
    BY DEF PoolInv, PoolTypes
  <2>2. \A s \in ToSet(_spanlist[size]) : Contains(_spanlist[size], s) /\ s \in SpanId
    BY <2>1 DEF ToSet, Contains
  <2> QED BY <2>2, ServingDef DEF PoolInv, Buckets
<1> QED BY <1>1, <1>2 DEF TypeOK, PoolInv, PoolTypes

LEMMA PoolTiles ==
    ASSUME PoolInv
    PROVE  SpansTile
<1>1. Live = LiveIn(page)
  BY DEF Live, LiveIn
<1>2. Apart(page) /\ Counts(page) /\ Listed(page)
  BY DEF PoolInv, Tiled
<1> QED BY <1>1, <1>2 DEF SpansTile, Apart, Counts, Covered, Listed, Lists, Live

LEMMA SmallSets ==
    /\ \A S, e : S = {e} => Cardinality(S) = 1
    /\ \A S : S = {} => Cardinality(S) = 0
BY FS_Singleton, FS_EmptySet

(* The places that EachObjectOnce counts. *)
SpansWith(o)   == {s \in InUse : Contains(_objlist[s], o)}
CachesWith(o)  == {x \in Thread \X Size : Contains(_freelist[x[1]][x[2]].list, o)}
ReturnsWith(o) == {t \in Thread : Contains(loc[t].list, o)}
Held(o)        == IF o \in held THEN 1 ELSE 0

(* The places of an object are one. *)
LEMMA CountOne ==
    ASSUME PoolInv, NEW o \in Nat, Located(o)
    PROVE  Cardinality(SpansWith(o)) + Cardinality(CachesWith(o)) + Cardinality(ReturnsWith(o))
             + Held(o) = 1
<1>1. ExclusiveAt(o)
  BY DEF PoolInv, Spread, Exclusive
<1>2. /\ \A s : s \in SpansWith(o) <=> s \in SpanId /\ InSpan(s, o)
      /\ \A t : t \in ReturnsWith(o) <=> t \in Thread /\ InReturn(t, o)
      /\ \A x : x \in CachesWith(o) <=> x \in Thread \X Size /\ InCache(x[1], x[2], o)
  <2>1. \A s \in SpanId : InSpan(s, o) => s \in InUse
    BY ServingDef DEF PoolInv, Spread, Belongs
  <2>2. InUse \subseteq SpanId
    BY DEF InUse, Live
  <2> QED BY <2>1, <2>2 DEF SpansWith, ReturnsWith, CachesWith, InSpan, InReturn, InCache
<1>3. \A x \in Thread \X Size : x[1] \in Thread /\ x[2] \in Size
  OBVIOUS
<1>4. CASE o \in held
  <2>1. SpansWith(o) = {} /\ ReturnsWith(o) = {}
    BY <1>1, <1>2, <1>4 DEF ExclusiveAt
  <2>2. CachesWith(o) = {}
    BY <1>1, <1>2, <1>3, <1>4 DEF ExclusiveAt
  <2>3. /\ Cardinality(SpansWith(o)) = 0 /\ Cardinality(ReturnsWith(o)) = 0
        /\ Cardinality(CachesWith(o)) = 0
    BY <2>1, <2>2, SmallSets
  <2> QED BY <1>4, <2>3 DEF Held
<1>5. ASSUME NEW s \in SpanId, InSpan(s, o), o \notin held
      PROVE  Cardinality(SpansWith(o)) + Cardinality(CachesWith(o)) + Cardinality(ReturnsWith(o))
               + Held(o) = 1
  <2>1. SpansWith(o) = {s} /\ ReturnsWith(o) = {}
    BY <1>1, <1>2, <1>5 DEF ExclusiveAt
  <2>2. CachesWith(o) = {}
    BY <1>1, <1>2, <1>3, <1>5 DEF ExclusiveAt
  <2>3. /\ Cardinality(SpansWith(o)) = 1 /\ Cardinality(ReturnsWith(o)) = 0
        /\ Cardinality(CachesWith(o)) = 0
    BY <2>1, <2>2, SmallSets
  <2> QED BY <1>5, <2>3 DEF Held
<1>6. ASSUME NEW t \in Thread, InReturn(t, o), o \notin held
      PROVE  Cardinality(SpansWith(o)) + Cardinality(CachesWith(o)) + Cardinality(ReturnsWith(o))
               + Held(o) = 1
  <2>1. SpansWith(o) = {} /\ ReturnsWith(o) = {t}
    BY <1>1, <1>2, <1>6 DEF ExclusiveAt
  <2>2. CachesWith(o) = {}
    BY <1>1, <1>2, <1>3, <1>6 DEF ExclusiveAt
  <2>3. /\ Cardinality(SpansWith(o)) = 0 /\ Cardinality(ReturnsWith(o)) = 1
        /\ Cardinality(CachesWith(o)) = 0
    BY <2>1, <2>2, SmallSets
  <2> QED BY <1>6, <2>3 DEF Held
<1>7. ASSUME NEW t \in Thread, NEW z \in Size, InCache(t, z, o), o \notin held
      PROVE  Cardinality(SpansWith(o)) + Cardinality(CachesWith(o)) + Cardinality(ReturnsWith(o))
               + Held(o) = 1
  <2>1. SpansWith(o) = {} /\ ReturnsWith(o) = {}
    BY <1>1, <1>2, <1>7 DEF ExclusiveAt
  <2>2. CachesWith(o) = {<<t, z>>}
    <3>1. <<t, z>> \in CachesWith(o)
      BY <1>2, <1>7
    <3>2. ASSUME NEW x \in CachesWith(o) PROVE x = <<t, z>>
      <4>1. x \in Thread \X Size /\ InCache(x[1], x[2], o)
        BY <1>2, <3>2
      <4>2. x[1] = t /\ x[2] = z
        BY <1>1, <1>3, <1>7, <4>1 DEF ExclusiveAt
      <4> QED BY <4>1, <4>2
    <3> QED BY <3>1, <3>2
  <2>3. /\ Cardinality(SpansWith(o)) = 0 /\ Cardinality(ReturnsWith(o)) = 0
        /\ Cardinality(CachesWith(o)) = 1
    BY <2>1, <2>2, SmallSets
  <2> QED BY <1>7, <2>3 DEF Held
<1> QED BY <1>4, <1>5, <1>6, <1>7 DEF Located

LEMMA PoolOnce ==
    ASSUME PoolInv
    PROVE  EachObjectOnce
<1>1. \A o : o \in AllObjects <=> \E s \in Serving : o \in Objects(s)
  BY DEF AllObjects, Serving, Objects, SlotsOf
<1>2. \A o \in AllObjects : o \in Nat /\ Located(o)
  <2> SUFFICES ASSUME NEW o \in AllObjects PROVE o \in Nat /\ Located(o)
    OBVIOUS
  <2>1. PICK s \in Serving : o \in Objects(s)
    BY <1>1
  <2>2. s \in InUse
    BY ServingDef
  <2>3. o \in Nat
    BY <2>1, <2>2, ObjectsOK DEF PoolInv
  <2> QED BY <2>1, <2>3 DEF PoolInv, Spread, Complete
<1>3. \A o \in Nat : Located(o) => o \in AllObjects
  BY <1>1 DEF PoolInv, Spread, Complete
<1>4. /\ \A s \in SpanId : _objlist[s] \in Seq(Nat)
      /\ \A t \in Thread : loc[t].list \in Seq(Nat)
      /\ \A t \in Thread, z \in Size : _freelist[t][z].list \in Seq(Nat)
      /\ held \subseteq Nat
  BY DEF PoolInv, PoolTypes, Caches, Local
<1>5. \A l \in Seq(Nat) : \A o \in ToSet(l) : o \in Nat /\ Contains(l, o)
  BY DEF ToSet, Contains
<1>6. held \subseteq AllObjects
  BY <1>3, <1>4 DEF Located
<1>7. UNION {ToSet(_objlist[s]) : s \in SpanId} \subseteq AllObjects
  <2> SUFFICES ASSUME NEW s \in SpanId, NEW o \in ToSet(_objlist[s]) PROVE o \in AllObjects
    OBVIOUS
  <2>1. o \in Nat /\ InSpan(s, o)
    BY <1>4, <1>5 DEF InSpan
  <2> QED BY <1>3, <2>1 DEF Located
<1>8. UNION {ToSet(loc[t].list) : t \in Thread} \subseteq AllObjects
  <2> SUFFICES ASSUME NEW t \in Thread, NEW o \in ToSet(loc[t].list) PROVE o \in AllObjects
    OBVIOUS
  <2>1. o \in Nat /\ InReturn(t, o)
    BY <1>4, <1>5 DEF InReturn
  <2> QED BY <1>3, <2>1 DEF Located
<1>9. UNION {ToSet(_freelist[t][size].list) : t \in Thread, size \in Size} \subseteq AllObjects
  <2> SUFFICES ASSUME NEW t \in Thread, NEW z \in Size, NEW o \in ToSet(_freelist[t][z].list)
               PROVE  o \in AllObjects
    OBVIOUS
  <2>1. o \in Nat /\ InCache(t, z, o)
    BY <1>4, <1>5 DEF InCache
  <2> QED BY <1>3, <2>1 DEF Located
<1>10. \A o \in AllObjects :
         Cardinality({s \in InUse : Contains(_objlist[s], o)})
         + Cardinality({x \in Thread \X Size : Contains(_freelist[x[1]][x[2]].list, o)})
         + Cardinality({t \in Thread : Contains(loc[t].list, o)})
         + (IF o \in held THEN 1 ELSE 0) = 1
  BY <1>2, CountOne DEF SpansWith, CachesWith, ReturnsWith, Held
<1>11. /\ \A s \in InUse : IsInjective(_objlist[s])
       /\ \A t \in Thread, size \in Size : IsInjective(_freelist[t][size].list)
  BY DEF PoolInv, Spread, NoRepeats, InUse, Live
<1>12. held \cup (UNION {ToSet(_objlist[s]) : s \in SpanId})
             \cup (UNION {ToSet(loc[t].list) : t \in Thread})
             \cup (UNION {ToSet(_freelist[t][size].list) : t \in Thread, size \in Size})
           \subseteq AllObjects
  BY <1>6, <1>7, <1>8, <1>9
<1> QED BY <1>10, <1>11, <1>12 DEF EachObjectOnce

(* As long as the page map finds owners, the variables have their types, and *)
(* a bucket of CentralCache holds only spans that are in use, although       *)
(* get_one_Span leaves the bucket's lock to ask PageCache and                *)
(* release_list_to_Spans leaves it to give a span back.                      *)
THEOREM PoolTypeSafe == Spec /\ []MapFindsOwner => []TypeOK
<1>1. PoolInv => TypeOK
  BY PoolTypeOK
<1> QED BY <1>1, PoolInvariant, PTL

(* As long as the page map finds owners, the cuts of new_Span and the merges *)
(* of relase_to_PageCache never lose a page, never put one into two spans    *)
(* and keep each idle span in the list of its length.                        *)
THEOREM PoolSpansTile == Spec /\ []MapFindsOwner => []SpansTile
<1>1. PoolInv => SpansTile
  BY PoolTiles
<1> QED BY <1>1, PoolInvariant, PTL

-----------------------------------------------------------------------------
(* The hypothesis discharged.  A span in use has the number of pages that   *)
(* its size asks for, so that when no size asks for more than two pages,    *)
(* nor for a whole block, the two ends of a span are all its pages and      *)
(* new_Span maps them both.                                                 *)
SpanLengths == \A s \in InUse : page.span[s]._npage = num_move_page(SizeOf(s))

ShortSpans == \A size \in Size : num_move_page(size) <= 2 /\ num_move_page(size) < NPAGES - 1

(* A step leaves the spans that stay in use as they are. *)
LEMMA SpansInUseKept ==
    ASSUME PoolInv, [Next]_vars, NEW s \in InUse'
    PROVE  \/ s \in InUse /\ page'.span[s] = page.span[s]
           \/ page'.span[s]._npage = num_move_page(SizeOf(s)')
<1>1. InUse = UseIn(page) /\ InUse' = UseIn(page')
  BY DEF InUse, Live, UseIn, LiveIn
<1>2. CASE page' = page
  BY <1>1, <1>2
<1>3. ASSUME NEW t \in Thread, NewSpan(t), build' = build
      PROVE  \/ s \in InUse /\ page'.span[s] = page.span[s]
             \/ page'.span[s]._npage = num_move_page(SizeOf(s)')
  <2>1. PICK r, size : NewSpanStep(t, r, size)
    BY <1>3, NewSpanIsStep
  <2>2. Given(page, page', r, num_move_page(size), size)
    BY <2>1 DEF NewSpanStep
  <2>3. CASE s = r
    BY <2>2, <2>3 DEF Given, SizeOf
  <2>4. CASE s # r
    BY <1>1, <2>2, <2>4 DEF Given
  <2> QED BY <2>3, <2>4
<1>4. ASSUME NEW t \in Thread, GiveBack(t)
      PROVE  s \in InUse /\ page'.span[s] = page.span[s]
  <2>1. PICK r : r = loc[t].span
    OBVIOUS
  <2>2. r \in SpanId /\ InHand(t, r)
    BY <1>4, <2>1 DEF PoolInv, Locals, Handles, InHand, GiveBack
  <2>3. r \in LiveIn(page) /\ page.span[r]._isUse
    BY <1>1, <2>2 DEF PoolInv, InHands, UseIn
  <2>4. page' = relase_to_PageCache(page, r) /\ Tiled(page, null)
    BY <1>4, <2>1 DEF GiveBack, PoolInv
  <2>5. ~page'.span[r]._isUse /\ Kept(page, page', r)
    BY <2>3, <2>4, PageCacheRelease
  <2>6. s # r
    BY <1>1, <2>5 DEF UseIn
  <2> QED BY <1>1, <2>5, <2>6 DEF Kept
<1>5. page' = page \/ (\E t \in Thread : GiveBack(t) \/ (NewSpan(t) /\ build' = build))
  <2>1. CASE UNCHANGED vars
    BY <2>1 DEF vars
  <2>2. CASE Stopped
    BY <2>2 DEF Stopped, vars
  <2>3. ASSUME NEW t \in Thread, Abort(t) PROVE page' = page
    BY <2>3 DEF Abort
  <2>4. ASSUME NEW t \in Thread, Step(t)
        PROVE  page' = page \/ GiveBack(t) \/ (NewSpan(t) /\ build' = build)
    <3>1. ASSUME NEW size \in Size, ConcurrentAlloc(t, size) PROVE page' = page
      BY <3>1 DEF ConcurrentAlloc
    <3>2. CASE FetchHit(t)
      BY <3>2, Zenon DEF FetchHit, Give
    <3>3. CASE FetchMiss(t)
      BY <3>3 DEF FetchMiss
    <3>4. CASE InsertSpan(t)
      BY <3>4 DEF InsertSpan, Give
    <3>5. ASSUME NEW obj \in held, ConcurrentFree(t, obj) PROVE page' = page
      BY <3>5 DEF ConcurrentFree
    <3>6. CASE ReleaseLock(t)
      BY <3>6 DEF ReleaseLock
    <3>7. CASE ReturnObject(t)
      BY <3>7 DEF ReturnObject
    <3>8. ASSUME NEW size \in Size, NewCache(t, size) PROVE page' = page
      BY <3>8 DEF NewCache
    <3>9. CASE RefillCaches(t) \/ SbrkCaches(t) \/ ClaimCache(t) \/ AdvanceCache(t)
      BY <3>9 DEF RefillCaches, SbrkCaches, ClaimCache, AdvanceCache
    <3> QED BY <2>4, <3>1, <3>2, <3>3, <3>4, <3>5, <3>6, <3>7, <3>8, <3>9 DEF Step
  <2> QED BY <2>1, <2>2, <2>3, <2>4 DEF Next
<1> QED BY <1>2, <1>3, <1>4, <1>5

(* So a span in use keeps its length. *)
LEMMA LengthsStep ==
    ASSUME PoolInv, SpanLengths, [Next]_vars
    PROVE  SpanLengths'
<1> SUFFICES ASSUME NEW s \in InUse' PROVE page'.span[s]._npage = num_move_page(SizeOf(s)')
  BY DEF SpanLengths
<1>1. CASE s \in InUse /\ page'.span[s] = page.span[s]
  BY <1>1 DEF SpanLengths, SizeOf
<1> QED BY <1>1, SpansInUseKept

(* The ends of a span are mapped, and are all its pages. *)
LEMMA ShortSpansMapped ==
    ASSUME PoolInv, SpanLengths, ShortSpans
    PROVE  MapFindsOwner
<1>1. Live = LiveIn(page) /\ InUse \subseteq Live
  BY DEF Live, LiveIn, InUse
<1>2. Tiled(page, null) /\ Sized
  BY DEF PoolInv
<1>3. ASSUME NEW s \in Live, NEW q \in Ends(page.span[s]) PROVE page.map[q] = s
  <2>1. s \in LiveIn(page) /\ s # null
    BY <1>1, PoolSizes DEF Live
  <2>2. page.map[q] = s \/ LastUnmapped(page, s, q)
    BY <1>2, <2>1 DEF Tiled, EndsMapped
  <2>3. ~LastUnmapped(page, s, q)
    <3> SUFFICES ASSUME page.span[s]._isUse, page.span[s]._npage = NPAGES - 1 PROVE FALSE
      BY DEF LastUnmapped
    <3>1. s \in InUse
      BY DEF InUse
    <3>2. SizeOf(s) \in Size /\ num_move_page(SizeOf(s)) = NPAGES - 1
      BY <1>2, <3>1 DEF Sized, SpanLengths
    <3>3. num_move_page(SizeOf(s)) < NPAGES - 1
      BY <3>2 DEF ShortSpans
    <3> QED BY <3>2, <3>3, PoolAssumption
  <2> QED BY <2>2, <2>3
<1>4. ASSUME NEW s \in InUse, NEW o \in Objects(s) PROVE page.map[o \div PageSize] = s
  <2>1. o \div PageSize \in Pages(page.span[s]) /\ s \in LiveIn(page)
    BY <1>1, <1>2, ObjectsOK
  <2>2. /\ page.span[s]._pageid \in Nat /\ page.span[s]._npage \in Nat
        /\ Pages(page.span[s]) = page.span[s]._pageid .. (page.span[s]._pageid + page.span[s]._npage - 1)
        /\ Ends(page.span[s]) = {page.span[s]._pageid, page.span[s]._pageid + page.span[s]._npage - 1}
    BY <1>2, <2>1, LivePages DEF Tiled
  <2>3. SizeOf(s) \in Size /\ page.span[s]._npage = num_move_page(SizeOf(s))
    BY <1>2 DEF Sized, SpanLengths
  <2>4. page.span[s]._npage <= 2
    BY <2>3 DEF ShortSpans
  <2>5. o \div PageSize \in Ends(page.span[s])
    <3> DEFINE q == o \div PageSize
               a == page.span[s]._pageid
               n == page.span[s]._npage
    <3>1. a \in Nat /\ n \in Nat /\ n <= 2 /\ q \in a .. (a + n - 1)
      BY <2>1, <2>2, <2>4
    <3> HIDE DEF q, a, n
    <3>2. q = a \/ q = a + n - 1
      BY <3>1
    <3> QED BY <2>2, <3>2 DEF q, a, n
  <2> QED BY <1>1, <1>3, <2>5
<1> QED BY <1>3, <1>4 DEF MapFindsOwner, Objects, SlotsOf

(* When every span is short the page map always finds the owner of an       *)
(* object that is freed or returned, and of the neighbours a span that goes *)
(* back may be merged with (map_object_to_Span, relase_to_PageCache).       *)
THEOREM ShortSpansFound ==
    ASSUME ShortSpans
    PROVE  Spec => []MapFindsOwner
<1> DEFINE Inv == PoolInv /\ SpanLengths
<1>1. Init => Inv
  <2>1. Init => InUse = {}
    BY DEF Init, InUse, Live
  <2> QED BY <2>1, PoolInit DEF SpanLengths
<1>2. Inv => MapFindsOwner
  BY ShortSpansMapped
<1>3. Inv /\ [Next]_vars => Inv'
  BY <1>2, PoolStep, LengthsStep
<1> QED BY <1>1, <1>2, <1>3, PTL DEF Spec

-----------------------------------------------------------------------------
(* The caches.  Ready: what TcPool has left of its last block lies behind   *)
(* every cache given out.                                                   *)
NewLoc == [size : Size, num : Nat, span : Nat, list : {<<>>}, cache : Nat, remain : Int]

Types ==
    /\ tls_threadcache \in [Thread -> Nat]
    /\ TcPool \in [_memory : Nat, remainBytes : Int, top : Nat]
    /\ pc = [t \in Thread |-> pc[t]] /\ loc = [t \in Thread |-> loc[t]]
    /\ \A t \in Thread : InNew(t) => loc[t] \in NewLoc

Ready ==
    /\ 1 <= TcPool.remainBytes /\ 1 <= TcPool._memory
    /\ TcPool._memory + TcPool.remainBytes = TcPool.top + 1
    /\ \A t \in Thread : tls_threadcache[t] < TcPool._memory

(* One thread at a time in New(), what holds before each of its accesses. *)
AtNew(t) ==
    /\ pc[t] = "refill" => TcPool.remainBytes = 0
    /\ pc[t] = "sbrk" => TcPool.remainBytes = CachesPerBlock
    /\ pc[t] = "claim" => Ready
    /\ pc[t] \in {"sbrk", "claim"} => loc[t].remain = TcPool.remainBytes
    /\ pc[t] = "advance" =>
         /\ loc[t].cache = TcPool._memory /\ 1 <= TcPool._memory /\ 0 <= TcPool.remainBytes
         /\ TcPool._memory + TcPool.remainBytes = TcPool.top
         /\ \A u \in Thread : tls_threadcache[u] < TcPool._memory

CachesInv ==
    /\ Types /\ PrivateCaches
    /\ \A t \in Thread : tls_threadcache[t] <= TcPool.top
    /\ (\A t \in Thread : ~InNew(t)) => TcPool.remainBytes = 0 \/ Ready
    /\ \A t \in Thread : AtNew(t)

(* A step of a thread outside New(). *)
Away(t) ==
    /\ ~InNew(t) /\ UNCHANGED <<tls_threadcache, TcPool>>
    /\ \/ UNCHANGED <<pc, loc>>
       \/ \E where, l : where \notin Newing /\ Goto(t, where, l)

LEMMA CachesSame ==
    ASSUME CachesInv, UNCHANGED <<tls_threadcache, TcPool, pc, loc>>
    PROVE  CachesInv'
<1>1. \A t \in Thread : (InNew(t)' <=> InNew(t)) /\ (AtNew(t)' <=> AtNew(t))
  BY DEF InNew, AtNew, Ready
<1>2. (Ready' <=> Ready) /\ (Types' <=> Types) /\ (PrivateCaches' <=> PrivateCaches)
  BY <1>1 DEF Ready, Types, PrivateCaches
<1> QED BY <1>1, <1>2 DEF CachesInv

LEMMA AwayOK ==
    ASSUME CachesInv, NEW t \in Thread, Away(t)
    PROVE  CachesInv'
<1>1. CASE UNCHANGED <<pc, loc>>
  BY <1>1, CachesSame DEF Away
<1>2. ASSUME NEW where, NEW l, where \notin Newing, Goto(t, where, l) PROVE CachesInv'
  <2>1. /\ pc' = [u \in Thread |-> pc'[u]] /\ loc' = [u \in Thread |-> loc'[u]] /\ pc'[t] = where
        /\ \A u \in Thread : u # t => pc'[u] = pc[u] /\ loc'[u] = loc[u]
    BY <1>2 DEF CachesInv, Types, Goto
  <2>2. ~InNew(t) /\ ~InNew(t)' /\ tls_threadcache' = tls_threadcache /\ TcPool' = TcPool
    BY <1>2, <2>1 DEF Away, InNew, Newing
  <2>3. \A u \in Thread : u # t => (InNew(u)' <=> InNew(u)) /\ (AtNew(u)' <=> AtNew(u))
    BY <2>1, <2>2 DEF InNew, AtNew, Ready
  <2>4. AtNew(t)'
    BY <2>2 DEF InNew, AtNew
  <2>5. (Ready' <=> Ready) /\ (PrivateCaches' <=> PrivateCaches)
    BY <2>2 DEF Ready, PrivateCaches
  <2>6. Types'
    BY <2>1, <2>2, <2>3 DEF CachesInv, Types
  <2> QED BY <2>2, <2>3, <2>4, <2>5, <2>6 DEF CachesInv
<1> QED BY <1>1, <1>2 DEF Away

(* A step of the only thread in New(). *)
Alone(t, where, l) ==
    /\ pc' = [u \in Thread |-> pc'[u]] /\ loc' = [u \in Thread |-> loc'[u]]
    /\ pc'[t] = where /\ loc'[t] = l
    /\ \A u \in Thread : u # t => ~InNew(u)' /\ pc'[u] = pc[u] /\ loc'[u] = loc[u]

LEMMA AloneOK ==
    ASSUME CachesInv, NEW t \in Thread, NEW where, NEW l, Goto(t, where, l),
           (InNew(t) /\ OneNew) \/ (InNew(t)' /\ OneNew')
    PROVE  Alone(t, where, l)
<1>1. /\ pc' = [u \in Thread |-> pc'[u]] /\ loc' = [u \in Thread |-> loc'[u]]
      /\ pc'[t] = where /\ loc'[t] = l
      /\ \A u \in Thread : u # t => pc'[u] = pc[u] /\ loc'[u] = loc[u]
  BY DEF CachesInv, Types, Goto
<1>2. \A u \in Thread : u # t => ~InNew(u)'
  BY <1>1 DEF OneNew, InNew
<1> QED BY <1>1, <1>2 DEF Alone

LEMMA NewCacheCaches ==
    ASSUME CachesInv, OneNew', NEW t \in Thread, NEW size \in Size, NewCache(t, size)
    PROVE  CachesInv'
<1>1. PICK where, l : /\ where = (IF TcPool.remainBytes = 0 THEN "refill" ELSE "claim")
                      /\ l = [idleLoc EXCEPT !.size = size, !.remain = TcPool.remainBytes]
  OBVIOUS
<1>2. pc[t] = "idle" /\ Goto(t, where, l) /\ tls_threadcache' = tls_threadcache /\ TcPool' = TcPool
  BY <1>1 DEF NewCache
<1>3. pc'[t] = where
  BY <1>2 DEF CachesInv, Types, Goto
<1>4. InNew(t)'
  BY <1>1, <1>3 DEF InNew
<1>5. Alone(t, where, l)
  BY <1>2, <1>4, AloneOK
<1>6. \A u \in Thread : ~InNew(u)
  BY <1>2, <1>5 DEF Alone, InNew
<1>7. TcPool.remainBytes = 0 \/ Ready
  BY <1>6 DEF CachesInv
<1>8. l \in NewLoc /\ l.remain = TcPool.remainBytes
  BY <1>1 DEF idleLoc, NewLoc, null, CachesInv, Types
<1>9. Types'
  BY <1>2, <1>5, <1>8 DEF Types, Alone, CachesInv
<1>10. AtNew(t)'
  <2>1. Ready' <=> Ready
    BY <1>2 DEF Ready
  <2> QED BY <1>1, <1>2, <1>5, <1>7, <1>8, <2>1 DEF AtNew, Alone
<1>11. \A u \in Thread : u # t => AtNew(u)'
  BY <1>5 DEF Alone, AtNew, InNew
<1>12. PrivateCaches' /\ \A u \in Thread : tls_threadcache'[u] <= TcPool'.top
  BY <1>2 DEF PrivateCaches, CachesInv
<1> QED BY <1>4, <1>9, <1>10, <1>11, <1>12 DEF CachesInv

LEMMA RefillCachesCaches ==
    ASSUME CachesInv, OneNew, NEW t \in Thread, RefillCaches(t)
    PROVE  CachesInv'
<1>1. PICK l : l = [loc[t] EXCEPT !.remain = CachesPerBlock]
  OBVIOUS
<1>2. /\ pc[t] = "refill" /\ Goto(t, "sbrk", l) /\ tls_threadcache' = tls_threadcache
      /\ TcPool' = [TcPool EXCEPT !.remainBytes = CachesPerBlock]
  BY <1>1 DEF RefillCaches
<1>3. InNew(t)
  BY <1>2 DEF InNew
<1>4. Alone(t, "sbrk", l)
  BY <1>2, <1>3, AloneOK
<1>5. /\ CachesPerBlock \in Nat /\ loc[t] \in NewLoc
      /\ TcPool \in [_memory : Nat, remainBytes : Int, top : Nat]
  BY <1>3, PoolAssumption DEF CachesInv, Types
<1>6. l \in NewLoc /\ l.remain = CachesPerBlock
  BY <1>1, <1>5 DEF NewLoc
<1>7. /\ TcPool' \in [_memory : Nat, remainBytes : Int, top : Nat]
      /\ TcPool'.remainBytes = CachesPerBlock /\ TcPool'.top = TcPool.top
  BY <1>2, <1>5
<1>8. Types'
  BY <1>2, <1>4, <1>6, <1>7 DEF Types, Alone, CachesInv
<1>9. InNew(t)' /\ AtNew(t)'
  BY <1>4, <1>6, <1>7 DEF AtNew, Alone, InNew
<1>10. \A u \in Thread : u # t => AtNew(u)'
  BY <1>4 DEF Alone, AtNew, InNew
<1>11. PrivateCaches' /\ \A u \in Thread : tls_threadcache'[u] <= TcPool'.top
  BY <1>2, <1>7 DEF PrivateCaches, CachesInv
<1> QED BY <1>8, <1>9, <1>10, <1>11 DEF CachesInv

LEMMA SbrkCachesCaches ==
    ASSUME CachesInv, OneNew, NEW t \in Thread, SbrkCaches(t)
    PROVE  CachesInv'
<1>1. PICK l : l = loc[t]
  OBVIOUS
<1>2. /\ pc[t] = "sbrk" /\ Goto(t, "claim", l) /\ tls_threadcache' = tls_threadcache
      /\ TcPool' = [TcPool EXCEPT !._memory = TcPool.top + 1, !.top = TcPool.top + CachesPerBlock]
  BY <1>1 DEF SbrkCaches
<1>3. InNew(t)
  BY <1>2 DEF InNew
<1>4. Alone(t, "claim", l)
  BY <1>2, <1>3, AloneOK
<1>5. /\ CachesPerBlock \in Nat /\ 1 <= CachesPerBlock /\ l \in NewLoc
      /\ TcPool \in [_memory : Nat, remainBytes : Int, top : Nat]
      /\ TcPool.top \in Nat /\ TcPool.top + 1 \in Nat /\ TcPool.top + CachesPerBlock \in Nat
  BY <1>1, <1>3, PoolAssumption DEF CachesInv, Types
<1>6. TcPool.remainBytes = CachesPerBlock /\ l.remain = CachesPerBlock
  BY <1>1, <1>2 DEF CachesInv, AtNew
<1>7. /\ TcPool' \in [_memory : Nat, remainBytes : Int, top : Nat]
      /\ TcPool'.remainBytes = CachesPerBlock /\ TcPool'._memory = TcPool.top + 1
      /\ TcPool'.top = TcPool.top + CachesPerBlock
  BY <1>2, <1>5, <1>6
<1>8. Types'
  BY <1>2, <1>4, <1>5, <1>7 DEF Types, Alone, CachesInv
<1>9. \A u \in Thread : tls_threadcache[u] \in Nat /\ tls_threadcache[u] <= TcPool.top
  BY DEF CachesInv, Types
<1>10. Ready'
  BY <1>2, <1>5, <1>7, <1>9 DEF Ready
<1>11. InNew(t)' /\ AtNew(t)'
  BY <1>4, <1>6, <1>7, <1>10 DEF AtNew, Alone, InNew
<1>12. \A u \in Thread : u # t => AtNew(u)'
  BY <1>4 DEF Alone, AtNew, InNew
<1>13. PrivateCaches' /\ \A u \in Thread : tls_threadcache'[u] <= TcPool'.top
  BY <1>2, <1>5, <1>7, <1>9 DEF PrivateCaches, CachesInv
<1> QED BY <1>8, <1>11, <1>12, <1>13 DEF CachesInv

LEMMA ClaimCacheCaches ==
    ASSUME CachesInv, OneNew, NEW t \in Thread, ClaimCache(t)
    PROVE  CachesInv'
<1>1. PICK l : l = [loc[t] EXCEPT !.cache = TcPool._memory]
  OBVIOUS
<1>2. pc[t] = "claim" /\ Goto(t, "advance", l) /\ tls_threadcache' = tls_threadcache
  BY <1>1 DEF ClaimCache
<1>3. InNew(t)
  BY <1>2 DEF InNew
<1>4. Alone(t, "advance", l)
  BY <1>2, <1>3, AloneOK
<1>5. /\ loc[t] \in NewLoc /\ TcPool \in [_memory : Nat, remainBytes : Int, top : Nat]
      /\ loc[t].remain = TcPool.remainBytes /\ Ready
  BY <1>2, <1>3 DEF CachesInv, Types, AtNew
<1>6. TcPool' = [TcPool EXCEPT !.remainBytes = TcPool.remainBytes - 1]
  BY <1>5 DEF ClaimCache
<1>7. /\ TcPool' \in [_memory : Nat, remainBytes : Int, top : Nat]
      /\ TcPool'.remainBytes = TcPool.remainBytes - 1 /\ TcPool'._memory = TcPool._memory
      /\ TcPool'.top = TcPool.top
  BY <1>5, <1>6
<1>8. l \in NewLoc /\ l.cache = TcPool._memory
  BY <1>1, <1>5 DEF NewLoc
<1>9. Types'
  BY <1>2, <1>4, <1>7, <1>8 DEF Types, Alone, CachesInv
<1>10. InNew(t)' /\ AtNew(t)'
  BY <1>2, <1>4, <1>5, <1>7, <1>8 DEF AtNew, Alone, InNew, Ready
<1>11. \A u \in Thread : u # t => AtNew(u)'
  BY <1>4 DEF Alone, AtNew, InNew
<1>12. PrivateCaches' /\ \A u \in Thread : tls_threadcache'[u] <= TcPool'.top
  BY <1>2, <1>7 DEF PrivateCaches, CachesInv
<1> QED BY <1>9, <1>10, <1>11, <1>12 DEF CachesInv

LEMMA AdvanceCacheCaches ==
    ASSUME CachesInv, OneNew, NEW t \in Thread, AdvanceCache(t)
    PROVE  CachesInv'
<1>1. PICK l : Goto(t, "fetch", l)
  BY DEF AdvanceCache, fetch_from_CentralCache
<1>2. InNew(t) /\ pc[t] = "advance"
  BY DEF AdvanceCache, InNew
<1>3. Alone(t, "fetch", l)
  BY <1>1, <1>2, AloneOK
<1>4. /\ TcPool \in [_memory : Nat, remainBytes : Int, top : Nat] /\ tls_threadcache \in [Thread -> Nat]
      /\ loc[t].cache = TcPool._memory /\ 1 <= TcPool._memory /\ 0 <= TcPool.remainBytes
      /\ TcPool._memory + TcPool.remainBytes = TcPool.top
      /\ \A u \in Thread : tls_threadcache[u] < TcPool._memory
  BY <1>2 DEF CachesInv, Types, AtNew
<1>5. TcPool' = [TcPool EXCEPT !._memory = TcPool._memory + 1]
  BY <1>4 DEF AdvanceCache, Advanced
<1>6. /\ TcPool' \in [_memory : Nat, remainBytes : Int, top : Nat]
      /\ TcPool'.remainBytes = TcPool.remainBytes /\ TcPool'._memory = TcPool._memory + 1
      /\ TcPool'.top = TcPool.top
  BY <1>4, <1>5
<1>7. tls_threadcache' = [tls_threadcache EXCEPT ![t] = TcPool._memory]
  BY <1>4 DEF AdvanceCache
<1>8. /\ tls_threadcache' \in [Thread -> Nat] /\ tls_threadcache'[t] = TcPool._memory
      /\ \A u \in Thread : u # t => tls_threadcache'[u] = tls_threadcache[u]
  BY <1>4, <1>7
<1>9. \A u \in Thread : ~InNew(u)'
  BY <1>3 DEF Alone, InNew
<1>10. Types'
  BY <1>3, <1>6, <1>8, <1>9 DEF Types, Alone
<1>11. TcPool'.remainBytes = 0 \/ Ready'
  BY <1>4, <1>6, <1>8 DEF Ready
<1>12. \A u \in Thread : tls_threadcache'[u] <= TcPool'.top
  BY <1>4, <1>6, <1>8
<1>13. PrivateCaches'
  BY <1>4, <1>8 DEF PrivateCaches, CachesInv
<1>14. \A u \in Thread : AtNew(u)'
  BY <1>9 DEF AtNew, InNew
<1> QED BY <1>10, <1>11, <1>12, <1>13, <1>14 DEF CachesInv

(* Outside New() a thread is away from TcPool. *)
LEMMA StepsAway ==
    ASSUME NEW t \in Thread,
           \/ \E size \in Size : ConcurrentAlloc(t, size)
           \/ FetchHit(t) \/ FetchMiss(t) \/ NewSpan(t) \/ InsertSpan(t)
           \/ \E obj \in held : ConcurrentFree(t, obj)
           \/ ReleaseLock(t) \/ ReturnObject(t) \/ GiveBack(t)
    PROVE  Away(t)
<1>0. /\ "idle" \notin Newing /\ "fetch" \notin Newing /\ "newspan" \notin Newing /\ "insert" \notin Newing
      /\ "release" \notin Newing /\ "return" \notin Newing /\ "giveback" \notin Newing
  BY DEF Newing
<1>1. ASSUME NEW s, Give(t, s), pc[t] \in Fetching PROVE Away(t)
  BY <1>0, <1>1 DEF Give, Done, Away, InNew, Fetching
<1>2. ASSUME NEW size \in Size, ConcurrentAlloc(t, size) PROVE Away(t)
  BY <1>0, <1>2 DEF ConcurrentAlloc, Allocate, fetch_from_CentralCache, Away, InNew
<1>3. CASE FetchHit(t)
  BY <1>1, <1>3, Zenon DEF FetchHit, Fetching
<1>4. CASE FetchMiss(t)
  BY <1>0, <1>4 DEF FetchMiss, Away, InNew
<1>5. CASE NewSpan(t)
  <2>1. \E l : Goto(t, "insert", l)
    BY <1>5, Zenon DEF NewSpan
  <2> QED BY <1>0, <1>5, <2>1 DEF NewSpan, Away, InNew
<1>6. CASE InsertSpan(t)
  BY <1>1, <1>6 DEF InsertSpan, Fetching
<1>7. ASSUME NEW obj \in held, ConcurrentFree(t, obj) PROVE Away(t)
  <2>1. UNCHANGED <<pc, loc>> \/ \E l : Goto(t, "release", l)
    BY <1>7, Zenon DEF ConcurrentFree, deallocate, list_to_long
  <2> QED BY <1>0, <1>7, <2>1 DEF ConcurrentFree, Away, InNew
<1>8. CASE ReleaseLock(t)
  <2>1. (\E l : Goto(t, "idle", l)) \/ (\E l : Goto(t, "return", l))
    BY <1>8 DEF ReleaseLock, Done
  <2> QED BY <1>0, <1>8, <2>1 DEF ReleaseLock, Away, InNew
<1>9. CASE ReturnObject(t)
  <2>1. \/ \E l : Goto(t, "idle", l)
        \/ \E l : Goto(t, "return", l)
        \/ \E l : Goto(t, "giveback", l)
    BY <1>9, Zenon DEF ReturnObject, Done
  <2> QED BY <1>0, <1>9, <2>1 DEF ReturnObject, Away, InNew
<1>10. CASE GiveBack(t)
  BY <1>0, <1>10 DEF GiveBack, Away, InNew
<1> QED BY <1>2, <1>3, <1>4, <1>5, <1>6, <1>7, <1>8, <1>9, <1>10

LEMMA CachesStep ==
    ASSUME CachesInv, OneNew, OneNew', [Next]_vars
    PROVE  CachesInv'
<1>1. CASE UNCHANGED vars
  BY <1>1, CachesSame DEF vars
<1>2. CASE Stopped
  BY <1>2, CachesSame DEF Stopped, vars
<1>3. ASSUME NEW t \in Thread, Abort(t) PROVE CachesInv'
  BY <1>3, CachesSame DEF Abort
<1>4. ASSUME NEW t \in Thread, Step(t) PROVE CachesInv'
  <2>1. ASSUME NEW size \in Size, NewCache(t, size) PROVE CachesInv'
    BY <2>1, NewCacheCaches
  <2>2. CASE RefillCaches(t)
    BY <2>2, RefillCachesCaches
  <2>3. CASE SbrkCaches(t)
    BY <2>3, SbrkCachesCaches
  <2>4. CASE ClaimCache(t)
    BY <2>4, ClaimCacheCaches
  <2>5. CASE AdvanceCache(t)
    BY <2>5, AdvanceCacheCaches
  <2>6. CASE Away(t)
    BY <2>6, AwayOK
  <2> QED BY <1>4, <2>1, <2>2, <2>3, <2>4, <2>5, <2>6, StepsAway DEF Step
<1> QED BY <1>1, <1>2, <1>3, <1>4 DEF Next

LEMMA CachesInit ==
    ASSUME Init
    PROVE  CachesInv
<1>1. /\ \A t \in Thread : pc[t] = "idle" /\ tls_threadcache[t] = 0
      /\ pc = [t \in Thread |-> pc[t]] /\ loc = [t \in Thread |-> loc[t]]
      /\ tls_threadcache \in [Thread -> Nat]
      /\ TcPool \in [_memory : Nat, remainBytes : Int, top : Nat]
      /\ TcPool.remainBytes = 0 /\ TcPool.top = 0
  BY DEF Init, null
<1>2. \A t \in Thread : ~InNew(t) /\ AtNew(t)
  BY <1>1 DEF InNew, AtNew
<1>3. PrivateCaches
  BY <1>1 DEF PrivateCaches, null
<1> QED BY <1>1, <1>2, <1>3 DEF CachesInv, Types

(* However many threads come to New(), as long as they come one after the    *)
(* other no two of them are given the same ThreadCache, though one block of   *)
(* memory holds several and another follows when it is used up, and none is   *)
(* given nullptr (ConcurrentAlloc, objectPool::New).                          *)
THEOREM CachesOwned == Spec => OwnCaches
<1>1. Init => CachesInv
  BY CachesInit
<1>2. CachesInv /\ OneNew /\ OneNew' /\ [Next]_vars => CachesInv'
  BY CachesStep
<1>3. CachesInv => CachesSound
  BY DEF CachesInv, CachesSound, AtNew, Ready, null, Types
<1> QED BY <1>1, <1>2, <1>3, PTL DEF Spec, OwnCaches

(* When every span is short, and as long as no two threads are in New() at   *)
(* the same time, the pool is correct whatever its threads do: every thread   *)
(* has a cache of its own, buckets hold spans in use, objects are neither     *)
(* lost nor given out twice, use counts are exact and spans tile the blocks   *)
(* (ConcurrentAlloc, ConcurrentFree).                                         *)
THEOREM ShortSpansSafe ==
    ASSUME ShortSpans
    PROVE  Spec /\ []OneNew =>
             [](PrivateCaches /\ TypeOK /\ EachObjectOnce /\ UseCountExact /\ SpansTile)
<1>1. PoolInv => TypeOK /\ EachObjectOnce /\ UseCountExact /\ SpansTile
  BY PoolTypeOK, PoolOnce, PoolTiles DEF PoolInv
<1>2. CachesSound => PrivateCaches
  BY DEF CachesSound
<1> QED BY <1>1, <1>2, ShortSpansFound, PoolInvariant, CachesOwned, PTL DEF OwnCaches
=============================================================================

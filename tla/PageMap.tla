------------------------------ MODULE PageMap ------------------------------
(***************************************************************************)
(* memory/PageMap.hpp: the three-level radix tree from page numbers to     *)
(* spans, with BITS = 48 - PAGE_SHIFT = 35: 12 bits choose the node, 12    *)
(* the leaf, 11 the entry.  MemoryPool takes the map for a function on     *)
(* pages; the theorems are what that rests on: set changes one page, and   *)
(* Ensure makes the leaves of all the pages it is asked for, although it   *)
(* visits one key a leaf.                                                  *)
(***************************************************************************)
EXTENDS Integers

INTERIOR_LENGTH == 4096      \* 2^12
LEAF_LENGTH     == 2048      \* 2^11
null            == 0

(* The page numbers below 2^BITS. *)
Key == {k \in Nat : k < LEAF_LENGTH * INTERIOR_LENGTH * INTERIOR_LENGTH}

(* The three indexes of key k: shifts and masks by powers of two. *)
i1(k) == k \div (LEAF_LENGTH * INTERIOR_LENGTH)
i2(k) == (k \div LEAF_LENGTH) % INTERIOR_LENGTH
i3(k) == k % LEAF_LENGTH

Leaf(k) == <<i1(k), i2(k)>>
Entry   == {i \in Nat : i < LEAF_LENGTH}

(* A tree: the leaves that exist, by their first two indexes, and the Span  *)
(* pointers of each.  A node exists when one of its leaves does.            *)
IsMap(tree) ==
    /\ tree = [leafs |-> tree.leafs, span |-> tree.span]
    /\ tree.span \in [tree.leafs -> [Entry -> Nat]]

(* set follows root_[i1] and leafs[i2] without a test: they have to exist. *)
HasLeaf(tree, k) == Leaf(k) \in tree.leafs

set(tree, k, s) ==
    [leafs |-> tree.leafs,
     span  |-> [tree.span EXCEPT ![Leaf(k)] = [tree.span[Leaf(k)] EXCEPT ![i3(k)] = s]]]

get(tree, k) ==
    IF k \notin Key \/ ~HasLeaf(tree, k) THEN null ELSE tree.span[Leaf(k)][i3(k)]

(* Ensure's loop: key jumps to the first key of the next leaf, from start   *)
(* to start + n - 1; Visited are the keys it stops at.                      *)
NextKey(key) == (key \div LEAF_LENGTH + 1) * LEAF_LENGTH

Visited(start, n) ==
    {k \in Nat : start <= k /\ k < start + n /\ (k = start \/ k % LEAF_LENGTH = 0)}

(* It makes the missing leaves, all null, and stops where i1 is too large. *)
Ensure(tree, start, n) ==
    LET leafs == tree.leafs \cup {Leaf(k) : k \in {v \in Visited(start, n) : i1(v) < INTERIOR_LENGTH}}
    IN  [leafs |-> leafs,
         span  |-> [x \in leafs |-> IF x \in tree.leafs THEN tree.span[x]
                                    ELSE [i \in Entry |-> null]]]
=============================================================================

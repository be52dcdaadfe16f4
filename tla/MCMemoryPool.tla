---------------------------- MODULE MCMemoryPool ----------------------------
(***************************************************************************)
(* MemoryPool with two threads that ask for one size, and free each        *)
(* other's objects: of two pages a span in the first instance, of three in *)
(* the second.                                                             *)
(***************************************************************************)
EXTENDS MemoryPool

CONSTANTS t1, t2

TwoPages == {<<t1, 2>>, <<t2, 2>>}

ThreePages == {<<t1, 3>>, <<t2, 3>>}
=============================================================================

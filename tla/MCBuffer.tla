------------------------------ MODULE MCBuffer ------------------------------
(***************************************************************************)
(* Buffer with a cheap prepend, an initial size and an extrabuf of a few   *)
(* bytes, so that runs of MaxLen bytes overflow each of them.              *)
(***************************************************************************)
EXTENDS Buffer
=============================================================================

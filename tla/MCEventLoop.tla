---------------------------- MODULE MCEventLoop ----------------------------
(***************************************************************************)
(* EventLoop with a few callers and functors.                              *)
(***************************************************************************)
EXTENDS EventLoop
=============================================================================

------------------------------ MODULE MCLogger ------------------------------
(***************************************************************************)
(* Logger with a few threads, messages and days.                           *)
(***************************************************************************)
EXTENDS Logger
=============================================================================

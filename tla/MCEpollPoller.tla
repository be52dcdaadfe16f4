--------------------------- MODULE MCEpollPoller ---------------------------
(***************************************************************************)
(* EpollPoller with three descriptors shared by four channel objects.      *)
(***************************************************************************)
EXTENDS EpollPoller, TLC

Symmetry == Permutations(Chan) \cup Permutations(Fd)
=============================================================================

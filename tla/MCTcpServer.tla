---------------------------- MODULE MCTcpServer ----------------------------
(***************************************************************************)
(* TcpServer with one or two connections, of which the first sends  *)
(* most.  The descriptors are interchangeable.                             *)
(***************************************************************************)
EXTENDS TcpServer, TLC

TwoNone == <<2, 0>>
OneNone == <<1, 0>>
OneEach == [c \in Conn |-> 1]
Silent  == [c \in Conn |-> 0]

Symmetry == Permutations(Fd)
=============================================================================

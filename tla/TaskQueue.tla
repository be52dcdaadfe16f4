----------------------------- MODULE TaskQueue -----------------------------
(***************************************************************************)
(* What queueInLoop promises: each submitted task is executed at most once *)
(* and tasks are executed in the order in which they were submitted.       *)
(***************************************************************************)
EXTENDS Sequences

CONSTANT Task

VARIABLES todo, done

tvars == <<todo, done>>

TInit == todo = <<>> /\ done = <<>>

Submit == \E f \in Task : todo' = Append(todo, f) /\ done' = done

Execute ==
    /\ todo # <<>>
    /\ done' = Append(done, Head(todo))
    /\ todo' = Tail(todo)

TNext == Submit \/ Execute

TSpec == TInit /\ [][TNext]_tvars
=============================================================================

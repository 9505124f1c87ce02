------------------------------ MODULE MCQueue ------------------------------
(***************************************************************************)
(* Small instances of Queue.                                               *)
(***************************************************************************)
EXTENDS Queue

CONSTANTS a, b, m1, m2

OneTask == {a}
TwoTasks == {a, b}
TwoMessages == {m1, m2}
OneMessage == {m1}
Symmetry == Permutations(TwoTasks) \cup Permutations(TwoMessages)

EqualPriority == [t \in Task |-> 1]
=============================================================================

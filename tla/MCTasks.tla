------------------------------ MODULE MCTasks ------------------------------
(***************************************************************************)
(* Small instances of Tasks: the idle task and two or three others.        *)
(***************************************************************************)
EXTENDS Tasks

CONSTANTS idle, a, b, c

TwoTasks == {idle, a, b}
ThreeTasks == {idle, a, b, c}

\* a above b.
TwoLevels == [p \in Priority |-> CASE p = 0 -> <<idle>> [] p = 1 -> <<b>> [] p = 2 -> <<a>>
                                   [] OTHER -> <<>>]
\* a and b share a level.
OneLevel == [p \in Priority |-> CASE p = 0 -> <<idle>> [] p = 1 -> <<a, b>> [] OTHER -> <<>>]
\* a and b share a level with c below.
PairOnTop == [p \in Priority |-> CASE p = 0 -> <<idle>> [] p = 1 -> <<c>> [] p = 2 -> <<a, b>>
                                  [] OTHER -> <<>>]
=============================================================================

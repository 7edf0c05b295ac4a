----------------------------- MODULE MCExecutor -----------------------------
(***************************************************************************)
(* A small graph for Executor: an implementer behind a shell gate, a shell *)
(* node and, beside it, the checker that repairs the implementer.  There   *)
(* are more local than global attempts, and a sibling without attempts     *)
(* left refuses the repair.                                                *)
(***************************************************************************)
EXTENDS Executor

SiblingDeps == <<{}, {1}, {1}>>
SiblingAgent == <<"implementer", "shell", "checker">>
SiblingFeedback == <<0, 0, 1>>
SiblingLimit == <<3, 2, 3>>
=============================================================================

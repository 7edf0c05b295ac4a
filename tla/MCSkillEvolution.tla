--------------------------- MODULE MCSkillEvolution ---------------------------
(***************************************************************************)
(* Two processes.  Promotion: a candidate that creates the skill file and  *)
(* one that revises that text, which may also be what the user has there.  *)
(* Review: one turn, audited live and by a plan.  Plan: two sealed chunks, *)
(* a checker, and fewer calls than two full batches of attempts would take.*)
(***************************************************************************)
EXTENDS SkillEvolution, TLC

CONSTANTS w1, w2, m1, fresh, revised
TheBasis == [c \in {fresh, revised} |-> IF c = fresh THEN "absent" ELSE "A"]
TheProposal == [c \in {fresh, revised} |-> IF c = fresh THEN "A" ELSE "B"]
Processes == Permutations({w1, w2})
=============================================================================

---------------------------- MODULE MCSkillReview ----------------------------
(***************************************************************************)
(* One process that audits two turns, and a plan over both.                *)
(***************************************************************************)
EXTENDS SkillReview

CONSTANTS w1, m1, m2
=============================================================================

---------------------- MODULE MCEnvironmentReplication ----------------------
(***************************************************************************)
(* Two databases that replicate to the same store.                         *)
(***************************************************************************)
EXTENDS EnvironmentReplication, TLC

CONSTANTS a, b, x, y

Two == {a, b}
TwoEvents == {x, y}
Sym == Permutations(Two) \cup Permutations(TwoEvents)
=============================================================================

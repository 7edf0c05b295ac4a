-------------------------- MODULE MCRunProjections --------------------------
(***************************************************************************)
(* Two calls that load and save a run of three attempts, one of them       *)
(* shown; two sessions with two runs whose index two processes write; two  *)
(* calls of a run with two attempts; two sessions with a run of their own. *)
(***************************************************************************)
EXTENDS RunProjections, TLC

CONSTANTS p1, p2, a1, a2, k1, k2, s1, s2, r1, r2

Own == r1 :> s1 @@ r2 :> s2
Swap == s1 :> s2 @@ s2 :> s1 @@ r1 :> r2 @@ r2 :> r1
Sym == Permutations(Caller) \cup {Swap}
=============================================================================

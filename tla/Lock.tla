-------------------------------- MODULE Lock --------------------------------
(***************************************************************************)
(* What a lock promises to the code that takes it: one holder at a time,   *)
(* and a holder that leaves by its own release, by losing the lock or by   *)
(* dying, before another one enters.                                       *)
(***************************************************************************)
CONSTANT Proc
VARIABLE holders    \* the processes that believe they hold the lock

Init == holders = {}

Take(p) ==
    /\ holders = {}
    /\ holders' = {p}

Leave(p) ==
    /\ holders = {p}
    /\ holders' = {}

Next == \E p \in Proc : Take(p) \/ Leave(p)

Spec == Init /\ [][Next]_holders
=============================================================================

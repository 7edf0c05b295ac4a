----------------------------- MODULE RemoteLog -----------------------------
(***************************************************************************)
(* What replication promises to whoever keeps a copy of an environment     *)
(* memory elsewhere: the remote history is only ever extended.  Nothing    *)
(* that was once replicated is dropped, reordered or replaced, whichever   *)
(* writers race and whatever is restored where.                            *)
(***************************************************************************)
EXTENDS Naturals, Sequences

VARIABLE log    \* the committed remote history

\* The history t continues the history s.
Extends(s, t) == Len(s) <= Len(t) /\ \A i \in 1..Len(s) : s[i] = t[i]

Init == log = << >>
Next == Extends(log, log')
Spec == Init /\ [][Next]_log
=============================================================================

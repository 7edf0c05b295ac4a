----------------------------- MODULE MCMemories -----------------------------
(***************************************************************************)
(* Two connections to one database and one to a replica; an entity that is *)
(* shared, narrowed and revoked, another one, and a relation of one end or *)
(* of both.  Two tool calls of two processes on one run.  A guarded call   *)
(* beside a delivery, two that overlap, two deliveries.                    *)
(***************************************************************************)
EXTENDS Memories, TLC

CONSTANTS main, replica, c1, c2, c3, a, b, r, o1, k1, k2, k3, s1, s2, s3, r1, q1, q2, q3, t1, t2

Homes == [c \in Connection |-> IF c = c3 THEN replica ELSE main]
Upsert(i, type, scope, brief, ends) ==
    [do |-> "upsert", id |-> i, type |-> type, scope |-> scope, brief |-> brief, ends |-> ends]
Asked ==
    {Upsert(a, "entity", Shared, FALSE, {}), Upsert(a, "entity", o1, TRUE, {}),
     Upsert(b, "entity", Shared, TRUE, {}),
     Upsert(r, "relation", Shared, FALSE, {a}), Upsert(r, "relation", o1, FALSE, {a, b}),
     [do |-> "revoke", id |-> a, type |-> "entity"]}
\* What others may make impossible before it is asked again.
Repeated ==
    {Upsert(r, "relation", Shared, FALSE, {a}), [do |-> "revoke", id |-> a, type |-> "entity"]}
Sym == Permutations(Key)
=============================================================================

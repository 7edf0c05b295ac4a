--------------------------- MODULE Executor_proofs ---------------------------
(***************************************************************************)
(* The durable executor for every graph, concurrency, wave limit and       *)
(* budget, and for any number of calls, crashes and faults: what it saves  *)
(* is legal, what it launches is charged before and happens once, no       *)
(* session is forgotten, nodes run on accepted inputs, and saved history   *)
(* is only extended.                                                       *)
(***************************************************************************)
EXTENDS Executor, FiniteSetTheorems, SequenceTheorems, WellFoundedInduction, TLAPS

-----------------------------------------------------------------------------
(* What the executor keeps of one node.                                    *)

NodeStatus == {"pending", "running", "done", "failed", "skipped"}

\* The node record x ends with an attempt of status st.
Ends(x, st) == Len(x.att) > 0 /\ x.att[Len(x.att)].status = st

AttemptSound(n, a) ==
    /\ a.status = "done" <=> a.outcome = "passed"
    /\ a.outcome = "substantive_rejection" => Agent[n] = "checker"
AttemptsSound(n, x) ==
    /\ Len(x.att) <= Limit[n]
    /\ \A i \in 1..Len(x.att) :
        /\ AttemptSound(n, x.att[i])
        /\ x.att[i].status = "running" => i = Len(x.att)
StatusFits(n, x) ==
    /\ x.status = "running" => Ends(x, "running")
    /\ x.status = "done" => Ends(x, "done")
    /\ x.status = "failed" => Len(x.att) = 0 \/ Ends(x, "failed")
    /\ x.status = "skipped" => ~Ends(x, "running")
    /\ x.status \in {"pending", "skipped"} /\ Ends(x, "done") => Len(x.att) < Limit[n]
NodeSound(n, x) == AttemptsSound(n, x) /\ StatusFits(n, x)
Attended(x) == Ends(x, "running") => x.status = "running"

\* What becomes of saved attempts.
Follows(a, b) ==
    /\ a.session => b.session
    /\ a.status # "running" => b \in {a, [a EXCEPT !.applied = TRUE]}
Continues(x, y) ==
    /\ Len(x.att) <= Len(y.att)
    /\ \A i \in 1..Len(x.att) : Follows(x.att[i], y.att[i])

\* y is x with its last attempt replaced by a.
Rewrites(x, y, a) ==
    /\ Len(x.att) > 0
    /\ Len(y.att) = Len(x.att)
    /\ y.att[Len(x.att)] = a
    /\ \A i \in 1..Len(x.att) : i # Len(x.att) => y.att[i] = x.att[i]

LEMMA NodeTypes == ASSUME NEW x \in NodeState
    PROVE /\ x.att \in Seq(AttemptState) /\ x.status \in NodeStatus
          /\ Len(x.att) \in Nat
          /\ \A i \in 1..Len(x.att) : x.att[i] \in AttemptState
          /\ Len(x.att) > 0 => Len(x.att) \in 1..Len(x.att) /\ x.att[Len(x.att)] \in AttemptState
<1>1. x.att \in Seq(AttemptState) /\ x.status \in NodeStatus
    BY DEF NodeState, NodeStatus
<1>2. Len(x.att) \in Nat /\ \A i \in 1..Len(x.att) : x.att[i] \in AttemptState
    BY <1>1, LenProperties, ElementOfSeq
<1>. QED BY <1>1, <1>2

LEMMA FollowsItself == ASSUME NEW a \in AttemptState PROVE Follows(a, a)
BY DEF Follows

LEMMA FollowsOn == ASSUME NEW a \in AttemptState, NEW b \in AttemptState, NEW c \in AttemptState,
                          Follows(a, b), Follows(b, c)
                   PROVE Follows(a, c)
<1>1. CASE a.status = "running"
    BY <1>1 DEF Follows
<1>2. CASE a.status # "running"
    <2>1. b.status = a.status /\ b \in {a, [a EXCEPT !.applied = TRUE]}
        BY <1>2 DEF Follows, AttemptState
    <2>2. c \in {b, [b EXCEPT !.applied = TRUE]}
        BY <1>2, <2>1 DEF Follows
    <2>3. c \in {a, [a EXCEPT !.applied = TRUE]}
        BY <2>1, <2>2 DEF AttemptState
    <2>. QED BY <2>3 DEF Follows
<1>. QED BY <1>1, <1>2

LEMMA ContinuesOn == ASSUME NEW x \in NodeState, NEW y \in NodeState, NEW z \in NodeState,
                            Continues(x, y), Continues(y, z)
                     PROVE Continues(x, z)
<1>1. Len(x.att) \in Nat /\ Len(y.att) \in Nat /\ Len(z.att) \in Nat
    BY NodeTypes
<1>2. Len(x.att) <= Len(y.att) /\ Len(y.att) <= Len(z.att)
    BY DEF Continues
<1>3. ASSUME NEW i \in 1..Len(x.att) PROVE Follows(x.att[i], z.att[i])
    <2>1. i \in 1..Len(y.att) /\ i \in 1..Len(z.att)
        BY <1>1, <1>2
    <2>2. Follows(x.att[i], y.att[i]) /\ Follows(y.att[i], z.att[i])
        BY <2>1 DEF Continues
    <2>3. x.att[i] \in AttemptState /\ y.att[i] \in AttemptState /\ z.att[i] \in AttemptState
        BY <2>1, NodeTypes
    <2>. QED BY <2>2, <2>3, FollowsOn
<1>. QED BY <1>1, <1>2, <1>3 DEF Continues

LEMMA ContinuesSame == ASSUME NEW x \in NodeState, NEW y \in NodeState, y.att = x.att
                       PROVE Continues(x, y)
<1>1. Len(x.att) \in Nat /\ \A i \in 1..Len(x.att) : x.att[i] \in AttemptState
    BY NodeTypes
<1>. QED BY <1>1, FollowsItself DEF Continues

LEMMA ContinuesRewritten ==
    ASSUME NEW x \in NodeState, NEW y \in NodeState, NEW a \in AttemptState,
           Rewrites(x, y, a), Follows(x.att[Len(x.att)], a)
    PROVE Continues(x, y)
<1>1. Len(x.att) \in Nat /\ \A i \in 1..Len(x.att) : x.att[i] \in AttemptState
    BY NodeTypes
<1>2. ASSUME NEW i \in 1..Len(x.att) PROVE Follows(x.att[i], y.att[i])
    <2>1. CASE i = Len(x.att)
        BY <2>1 DEF Rewrites
    <2>2. CASE i # Len(x.att)
        <3>1. y.att[i] = x.att[i]
            BY <2>2 DEF Rewrites
        <3>. QED BY <3>1, <1>1, FollowsItself
    <2>. QED BY <2>1, <2>2
<1>. QED BY <1>1, <1>2 DEF Continues, Rewrites

LEMMA SoundRewritten ==
    ASSUME NEW n \in Node, NEW x \in NodeState, NEW y \in NodeState, NEW a \in AttemptState,
           Rewrites(x, y, a), AttemptsSound(n, x), AttemptSound(n, a)
    PROVE /\ AttemptsSound(n, y)
          /\ \A st : Ends(y, st) <=> a.status = st
<1>1. Len(x.att) \in Nat
    BY NodeTypes
<1>2. Limit[n] \in Nat
    BY GraphAssumption DEF GraphDefSchema
<1>3. ASSUME NEW i \in 1..Len(y.att)
      PROVE /\ AttemptSound(n, y.att[i])
            /\ y.att[i].status = "running" => i = Len(y.att)
    <2>1. CASE i = Len(x.att)
        BY <2>1 DEF Rewrites
    <2>2. CASE i # Len(x.att)
        BY <2>2 DEF Rewrites, AttemptsSound
    <2>. QED BY <2>1, <2>2
<1>. QED BY <1>1, <1>2, <1>3 DEF AttemptsSound, Rewrites, Ends

LEMMA SoundSame == ASSUME NEW n \in Node, NEW x \in NodeState, NEW y \in NodeState, y.att = x.att,
                          AttemptsSound(n, x)
                   PROVE /\ AttemptsSound(n, y)
                         /\ \A st : Ends(y, st) <=> Ends(x, st)
BY DEF AttemptsSound, Ends

-----------------------------------------------------------------------------
(* The least element of a set of naturals, from the well-foundedness of    *)
(* strict inclusion on the finite sets {1..x : x \in S}.                   *)

LEMMA Least == ASSUME NEW S \in SUBSET Nat, S # {}
               PROVE \E x \in S : \A y \in S : x <= y
<1>. DEFINE T == {1..x : x \in S}
            R == StrictSubsetOrdering(Nat)
<1>1. T \subseteq FiniteSubsetsOf(Nat) /\ T # {}
    <2>1. \A x \in S : 1..x \subseteq Nat /\ IsFiniteSet(1..x)
        BY FS_Interval
    <2>. QED BY <2>1 DEF FiniteSubsetsOf
<1>2. PICK t \in T : \A u \in T : <<u, t>> \notin R
    <2>. HIDE DEF T
    <2>. QED BY <1>1, FS_StrictSubsetOrderingWellFounded, WFMin
<1>3. PICK x \in S : t = 1..x
    OBVIOUS
<1>4. SUFFICES ASSUME NEW y \in S, y < x PROVE FALSE
    BY SMT
<1>5. 1..y \subseteq 1..x /\ x \in 1..x /\ x \notin 1..y
    <2>1. x \in Nat /\ y \in Nat
        OBVIOUS
    <2>. HIDE DEF T, R
    <2>. QED BY <1>4, <2>1
<1>6. <<1..y, 1..x>> \in R
    BY <1>5 DEF StrictSubsetOrdering
<1>. QED BY <1>2, <1>3, <1>6

-----------------------------------------------------------------------------
(* What the executor keeps of a run.                                       *)

EdgesSound(r) == \A n \in Node :
    /\ r.node[n].status \in {"running", "done"} => DependenciesDone(r, n)
    /\ r.node[n].status = "skipped" =>
         \E d \in Deps[n] : r.node[d].status \in {"failed", "skipped"}
BudgetSound(r) ==
    /\ IsFiniteSet(History(r))
    /\ r.global = Cardinality(History(r))
    /\ r.global <= MaxGlobal
StatusSound(r) ==
    /\ r.status = "done" => HasStatus(r, {"done"}) = Node
    /\ r.status = "failed" => AnyFailed(r) /\ AllTerminal(r)
    /\ r.status = "planning" => r.global = 0 /\ HasStatus(r, {"pending"}) = Node
Sound(r) ==
    /\ r \in RunState
    /\ \A n \in Node : NodeSound(n, r.node[n])
    /\ EdgesSound(r)
    /\ BudgetSound(r)
Settled(r) == \A n \in Node : Attended(r.node[n])
Extends(r, s) == \A n \in Node : Continues(r.node[n], s.node[n])

LEMMA RunTypes == ASSUME NEW r \in RunState
    PROVE /\ r.node \in [Node -> NodeState]
          /\ r.global \in Nat
          /\ r.status \in {"planning", "running", "done", "failed", "blocked"}
          /\ r.criteria \in Node \cup {NoNode}
          /\ \A n \in Node : /\ r.node[n] \in NodeState
                             /\ Used(r, n) = Len(r.node[n].att)
                             /\ Used(r, n) \in Nat
                             /\ Last(r, n) = r.node[n].att[Len(r.node[n].att)]
                             /\ Used(r, n) > 0 => Last(r, n) \in AttemptState
                             /\ \A st : LastIs(r, n, st) <=> Ends(r.node[n], st)
<1>1. /\ r.node \in [Node -> NodeState] /\ r.global \in Nat
      /\ r.status \in {"planning", "running", "done", "failed", "blocked"}
      /\ r.criteria \in Node \cup {NoNode}
    BY DEF RunState
<1>2. ASSUME NEW n \in Node
      PROVE /\ r.node[n] \in NodeState
            /\ Used(r, n) \in Nat
            /\ Used(r, n) > 0 => Last(r, n) \in AttemptState
    BY <1>1, NodeTypes DEF Used, Last
<1>. QED BY <1>1, <1>2 DEF Used, Last, LastIs, Ends

\* [r EXCEPT !.node = f] and what it does not touch.
LEMMA Reshaped == ASSUME NEW r \in RunState, NEW f \in [Node -> NodeState]
    PROVE /\ [r EXCEPT !.node = f] \in RunState
          /\ [r EXCEPT !.node = f].node = f
          /\ [r EXCEPT !.node = f].global = r.global
          /\ [r EXCEPT !.node = f].status = r.status
          /\ [r EXCEPT !.node = f].criteria = r.criteria
BY DEF RunState

LEMMA ExtendsOn == ASSUME NEW r \in RunState, NEW s \in RunState, NEW t \in RunState,
                          Extends(r, s), Extends(s, t)
                   PROVE Extends(r, t)
<1>1. ASSUME NEW n \in Node PROVE Continues(r.node[n], t.node[n])
    BY ContinuesOn, RunTypes DEF Extends
<1>. QED BY <1>1 DEF Extends

LEMMA HistoryMember == ASSUME NEW r \in RunState, NEW n \in Node, NEW i \in Nat \ {0}
    PROVE <<n, i>> \in History(r) <=> i <= Used(r, n)
<1>1. \A m \in Node : Used(r, m) \in Nat
    BY RunTypes
<1>2. <<n, i>> \in History(r) <=> \E m \in Node : <<n, i>> \in {m} \X (1..Used(r, m))
    BY DEF History
<1>3. <<n, i>> \in History(r) <=> i \in 1..Used(r, n)
    <2>. HIDE DEF Node
    <2>. QED BY <1>2
<1>. QED BY <1>1, <1>3

LEMMA HistoryShape == ASSUME NEW r, NEW x \in History(r)
    PROVE /\ x[1] \in Node /\ x[2] \in 1..Used(r, x[1]) /\ x = <<x[1], x[2]>>
<1>1. PICK m \in Node : x \in {m} \X (1..Used(r, m))
    BY DEF History
<1>. QED BY <1>1

LEMMA HistoryGrows == ASSUME NEW r \in RunState, NEW s \in RunState, Extends(r, s)
    PROVE History(r) \subseteq History(s)
<1>1. ASSUME NEW x \in History(r) PROVE x \in History(s)
    <2>1. x[1] \in Node /\ x[2] \in 1..Used(r, x[1]) /\ x = <<x[1], x[2]>>
        BY HistoryShape
    <2>2. Used(r, x[1]) <= Used(s, x[1]) /\ Used(r, x[1]) \in Nat /\ Used(s, x[1]) \in Nat
        BY <2>1, RunTypes DEF Extends, Continues
    <2>3. x[2] \in Nat \ {0} /\ x[2] <= Used(s, x[1])
        BY <2>1, <2>2
    <2>. QED BY <2>1, <2>3, HistoryMember
<1>. QED BY <1>1

LEMMA HistorySame == ASSUME NEW r, NEW s, \A n \in Node : Used(s, n) = Used(r, n)
    PROVE History(s) = History(r)
BY DEF History

LEMMA BudgetSame == ASSUME NEW r, NEW s, \A n \in Node : Used(s, n) = Used(r, n),
                           s.global = r.global, BudgetSound(r)
                    PROVE BudgetSound(s)
BY HistorySame DEF BudgetSound

\* A mark changes statuses and nothing else.
LEMMA Marked == ASSUME NEW r \in RunState, NEW S, NEW st \in NodeStatus
    PROVE LET s == Mark(r, S, st) IN
          /\ s \in RunState
          /\ s.global = r.global /\ s.status = r.status /\ s.criteria = r.criteria
          /\ \A n \in Node : /\ s.node[n].att = r.node[n].att
                             /\ s.node[n].status = IF n \in S THEN st ELSE r.node[n].status
                             /\ Used(s, n) = Used(r, n)
                             /\ Last(s, n) = Last(r, n)
<1>. DEFINE f == [n \in Node |-> IF n \in S THEN [r.node[n] EXCEPT !.status = st] ELSE r.node[n]]
<1>1. \A n \in Node : r.node[n] \in NodeState
    BY RunTypes
<1>2. f \in [Node -> NodeState]
    <2>1. \A n \in Node : [r.node[n] EXCEPT !.status = st] \in NodeState
        BY <1>1 DEF NodeState, NodeStatus
    <2>. QED BY <1>1, <2>1
<1>3. \A n \in Node : f[n].att = r.node[n].att
                      /\ f[n].status = IF n \in S THEN st ELSE r.node[n].status
    BY <1>1 DEF NodeState
<1>4. Mark(r, S, st) = [r EXCEPT !.node = f]
    BY DEF Mark
<1>. HIDE DEF f
<1>. QED BY <1>2, <1>3, <1>4, Reshaped DEF Used, Last

\* The last attempt of n is replaced and nothing else.
LEMMA LastSet == ASSUME NEW r \in RunState, NEW n \in Node, NEW a \in AttemptState, Used(r, n) > 0
    PROVE LET s == SetLast(r, n, a) IN
          /\ s \in RunState
          /\ s.global = r.global /\ s.status = r.status /\ s.criteria = r.criteria
          /\ Rewrites(r.node[n], s.node[n], a)
          /\ s.node[n].status = r.node[n].status
          /\ \A m \in Node : m # n => s.node[m] = r.node[m]
          /\ \A m \in Node : Used(s, m) = Used(r, m)
<1>. DEFINE x == r.node[n]
            y == [x EXCEPT !.att = [x.att EXCEPT ![Used(r, n)] = a]]
            f == [r.node EXCEPT ![n] = y]
<1>1. r.node \in [Node -> NodeState] /\ x \in NodeState
    BY RunTypes
<1>2. x.att \in Seq(AttemptState) /\ Used(r, n) = Len(x.att) /\ Used(r, n) \in 1..Len(x.att)
    BY <1>1, NodeTypes DEF Used
<1>3. /\ [x.att EXCEPT ![Used(r, n)] = a] \in Seq(AttemptState)
      /\ Len([x.att EXCEPT ![Used(r, n)] = a]) = Len(x.att)
      /\ \A i \in 1..Len(x.att) : [x.att EXCEPT ![Used(r, n)] = a][i]
                                    = IF i = Used(r, n) THEN a ELSE x.att[i]
    <2>. HIDE DEF x
    <2>. QED BY <1>2, ExceptSeq
<1>4. y \in NodeState /\ y.status = x.status /\ y.att = [x.att EXCEPT ![Used(r, n)] = a]
    <2>. HIDE DEF x
    <2>. QED BY <1>1, <1>3 DEF NodeState
<1>5. Rewrites(x, y, a)
    <2>. HIDE DEF x, y
    <2>. QED BY <1>2, <1>3, <1>4 DEF Rewrites
<1>6. f \in [Node -> NodeState] /\ f[n] = y /\ \A m \in Node : m # n => f[m] = r.node[m]
    <2>. HIDE DEF x, y
    <2>. QED BY <1>1, <1>4
<1>7. SetLast(r, n, a) = [r EXCEPT !.node = f]
    BY DEF SetLast, RunState
<1>8. \A m \in Node : Len(f[m].att) = Len(r.node[m].att)
    <2>. HIDE DEF y, f
    <2>. QED BY <1>5, <1>6 DEF Rewrites
<1>. HIDE DEF y, f
<1>. QED BY <1>4, <1>5, <1>6, <1>7, <1>8, Reshaped DEF Used

-----------------------------------------------------------------------------
(* Skipping and failing the nodes that will not run.                       *)

LEMMA DescendantsClosed == ASSUME NEW f \in Node, NEW k \in Node, NEW d \in Deps[k],
                                  d \in DescendantsOf(f) \cup {f}
                           PROVE k \in DescendantsOf(f)
<1>. DEFINE Closed_(C) == \A j \in Node : Deps[j] \cap (C \cup {f}) # {} => j \in C
<1>1. DescendantsOf(f) = {m \in Node : \A C \in SUBSET Node : Closed_(C) => m \in C}
    BY DEF DescendantsOf, Descendants
<1>2. ASSUME NEW C \in SUBSET Node, Closed_(C) PROVE k \in C
    <2>1. d \in C \cup {f}
        BY <1>1, <1>2
    <2>. QED BY <2>1, <1>2
<1>. HIDE DEF Closed_
<1>. QED BY <1>1, <1>2

\* What SkippedBy adds is closed, and each node of it is under a failed or skipped one.
LEMMA SkippedByShape == ASSUME NEW r
    PROVE LET S == SkippedBy(r) IN
          /\ S \subseteq HasStatus(r, {"pending"})
          /\ \A k \in HasStatus(r, {"pending"}) :
                k \in S <=> \E d \in Deps[k] : d \in HasStatus(r, {"failed", "skipped"}) \cup S
<1>. DEFINE S == SkippedBy(r)
            P == HasStatus(r, {"pending"})
            B == HasStatus(r, {"failed", "skipped"})
            Shut(C) == \A k \in P : Deps[k] \cap (B \cup C) # {} => k \in C
<1>1. S = {m \in P : \A C \in SUBSET P : Shut(C) => m \in C}
    BY DEF SkippedBy
<1>2. S \in SUBSET P
    BY <1>1
<1>3. Shut(S)
    <2>1. SUFFICES ASSUME NEW k \in P, Deps[k] \cap (B \cup S) # {},
                          NEW C \in SUBSET P, Shut(C)
                   PROVE k \in C
        <3>. HIDE DEF P, B, S
        <3>. QED BY <1>1
    <2>2. S \subseteq C
        <3>. HIDE DEF P, B, S, Shut
        <3>. QED BY <1>1, <2>1
    <2>3. Deps[k] \cap (B \cup C) # {}
        BY <2>1, <2>2
    <2>. QED BY <2>1, <2>3
<1>4. ASSUME NEW m \in S PROVE Deps[m] \cap (B \cup S) # {}
    <2>1. SUFFICES ASSUME Deps[m] \cap (B \cup S) = {} PROVE FALSE
        OBVIOUS
    <2>. HIDE DEF P, B, S
    <2>2. Shut(S \ {m})
        BY <1>3, <2>1
    <2>3. S \ {m} \in SUBSET P
        BY <1>2
    <2>. QED BY <1>1, <2>2, <2>3
<1>. HIDE DEF P, B, S
<1>5. \A k \in P : k \in S <=> \E d \in Deps[k] : d \in B \cup S
    BY <1>3, <1>4
<1>. QED BY <1>2, <1>5 DEF P, B, S

\* Nodes that wait for their turn are failed or skipped.
LEMMA GivenUp ==
    ASSUME NEW r, Sound(r), Settled(r),
           NEW S, S \subseteq HasStatus(r, {"pending"}), NEW st \in {"failed", "skipped"},
           st = "failed" => \A n \in S : ~Ends(r.node[n], "done"),
           st = "skipped" => \A n \in S : \E d \in Deps[n] :
                                d \in S \/ r.node[d].status \in {"failed", "skipped"}
    PROVE LET s == Mark(r, S, st) IN Sound(s) /\ Settled(s) /\ Extends(r, s)
<1>. DEFINE s == Mark(r, S, st)
<1>1. r \in RunState /\ \A n \in Node : r.node[n] \in NodeState
    BY RunTypes DEF Sound
<1>2. /\ s \in RunState /\ s.global = r.global
      /\ \A n \in Node : /\ s.node[n].att = r.node[n].att
                         /\ s.node[n].status = IF n \in S THEN st ELSE r.node[n].status
                         /\ Used(s, n) = Used(r, n)
    BY <1>1, Marked DEF NodeStatus
<1>3. \A n \in Node : s.node[n] \in NodeState
    BY <1>2, RunTypes
<1>4. \A n \in S : n \in Node /\ r.node[n].status = "pending"
    BY DEF HasStatus
<1>. HIDE DEF s
<1>5. ASSUME NEW n \in Node
      PROVE NodeSound(n, s.node[n]) /\ Attended(s.node[n]) /\ Continues(r.node[n], s.node[n])
    <2>. DEFINE x == r.node[n]
                y == s.node[n]
    <2>1. x \in NodeState /\ y \in NodeState /\ y.att = x.att /\ NodeSound(n, x) /\ Attended(x)
          /\ y.status = IF n \in S THEN st ELSE x.status
        BY <1>1, <1>2, <1>3 DEF Sound, Settled
    <2>2. n \in S => /\ x.status = "pending"
                     /\ st = "failed" => ~Ends(x, "done")
        BY <1>4
    <2>. HIDE DEF x, y
    <2>3. AttemptsSound(n, y) /\ \A t : Ends(y, t) <=> Ends(x, t)
        BY <2>1, SoundSame DEF NodeSound
    <2>4. Ends(x, "failed") \/ Ends(x, "done") \/ Ends(x, "running") \/ Len(x.att) = 0
        BY <2>1, NodeTypes DEF Ends, AttemptState
    <2>5. StatusFits(n, y)
        BY <2>1, <2>2, <2>3, <2>4 DEF StatusFits, NodeSound, Attended
    <2>6. Attended(y)
        BY <2>1, <2>2, <2>3 DEF Attended
    <2>. QED BY <2>1, <2>3, <2>5, <2>6, ContinuesSame DEF NodeSound, x, y
<1>6. EdgesSound(s)
    <2>1. ASSUME NEW n \in Node, s.node[n].status \in {"running", "done"}
          PROVE DependenciesDone(s, n)
        <3>1. n \notin S /\ DependenciesDone(r, n)
            BY <1>2, <2>1 DEF Sound, EdgesSound
        <3>2. \A d \in Deps[n] : d \in Node
            BY GraphAssumption DEF GraphDefSchema
        <3>. QED BY <1>2, <1>4, <3>1, <3>2 DEF DependenciesDone
    <2>2. ASSUME NEW n \in Node, s.node[n].status = "skipped"
          PROVE \E d \in Deps[n] : s.node[d].status \in {"failed", "skipped"}
        <3>2. \A d \in Deps[n] : d \in Node
            BY GraphAssumption DEF GraphDefSchema
        <3>3. \A d \in Node : d \in S \/ r.node[d].status \in {"failed", "skipped"}
                => s.node[d].status \in {"failed", "skipped"}
            BY <1>2
        <3>4. \E d \in Deps[n] : d \in S \/ r.node[d].status \in {"failed", "skipped"}
            BY <1>2, <2>2 DEF Sound, EdgesSound
        <3>. QED BY <3>2, <3>3, <3>4
    <2>. QED BY <2>1, <2>2 DEF EdgesSound
<1>7. BudgetSound(s)
    BY <1>2, BudgetSame DEF Sound
<1>8. Sound(s) /\ Settled(s) /\ Extends(r, s)
    BY <1>2, <1>5, <1>6, <1>7 DEF Sound, Settled, Extends
<1>. QED BY <1>8 DEF s

LEMMA Skipped ==
    ASSUME NEW r, Sound(r), Settled(r)
    PROVE LET s == SkipFailedDescendants(r) IN
          /\ Sound(s) /\ Settled(s) /\ Extends(r, s)
          /\ s.global = r.global /\ s.status = r.status /\ s.criteria = r.criteria
          /\ \A n \in Node :
                /\ s.node[n].att = r.node[n].att
                /\ s.node[n].status # r.node[n].status =>
                     r.node[n].status = "pending" /\ s.node[n].status = "skipped"
                /\ s.node[n].status = "pending" =>
                     \A d \in Deps[n] : s.node[d].status \notin {"failed", "skipped"}
<1>. DEFINE S == SkippedBy(r)
            s == Mark(r, S, "skipped")
<1>1. r \in RunState
    BY DEF Sound
<1>2. /\ S \subseteq HasStatus(r, {"pending"})
      /\ \A k \in HasStatus(r, {"pending"}) :
            k \in S <=> \E d \in Deps[k] : d \in HasStatus(r, {"failed", "skipped"}) \cup S
    BY SkippedByShape
<1>3. /\ s.global = r.global /\ s.status = r.status /\ s.criteria = r.criteria
      /\ \A n \in Node : /\ s.node[n].att = r.node[n].att
                         /\ s.node[n].status = IF n \in S THEN "skipped" ELSE r.node[n].status
    BY <1>1, Marked DEF NodeStatus
<1>4. \A n \in S : \E d \in Deps[n] : d \in S \/ r.node[d].status \in {"failed", "skipped"}
    <2>. HIDE DEF S
    <2>. QED BY <1>2 DEF HasStatus
<1>5. Sound(s) /\ Settled(s) /\ Extends(r, s)
    <2>. HIDE DEF S
    <2>. QED BY <1>2, <1>4, GivenUp
<1>. HIDE DEF S, s
<1>6. ASSUME NEW n \in Node, s.node[n].status = "pending", NEW d \in Deps[n],
             s.node[d].status \in {"failed", "skipped"}
      PROVE FALSE
    <2>1. d \in Node
        BY GraphAssumption DEF GraphDefSchema
    <2>2. n \notin S /\ n \in HasStatus(r, {"pending"})
        BY <1>3, <1>6 DEF HasStatus
    <2>3. d \in HasStatus(r, {"failed", "skipped"}) \cup S
        BY <1>3, <1>6, <2>1 DEF HasStatus
    <2>. QED BY <1>2, <2>2, <2>3
<1>7. \A n \in Node : s.node[n].status # r.node[n].status =>
                     r.node[n].status = "pending" /\ s.node[n].status = "skipped"
    BY <1>2, <1>3 DEF HasStatus
<1>8. SkipFailedDescendants(r) = s
    BY DEF SkipFailedDescendants, s, S
<1>. QED BY <1>3, <1>5, <1>6, <1>7, <1>8

LEMMA LimitFinished ==
    ASSUME NEW r, Sound(r), Settled(r)
    PROVE LET s == FinishGlobalLimit(r) IN
          /\ Sound(s) /\ Settled(s) /\ Extends(r, s)
          /\ s.global = r.global /\ s.status = r.status
          /\ \A n \in HasStatus(r, {"done"}) : s.node[n].status = "done"
          /\ r.global < MaxGlobal => s = r
<1>. DEFINE S == {n \in ReadyNodes(r) : ~LastIs(r, n, "done")}
            q == Mark(r, S, "failed")
            s == SkipFailedDescendants(q)
<1>1. r \in RunState /\ r.global \in Nat /\ MaxGlobal \in Nat
    BY RunTypes, GraphAssumption DEF Sound, GraphDefSchema
<1>2. S \subseteq HasStatus(r, {"pending"}) /\ \A n \in S : n \in Node /\ ~Ends(r.node[n], "done")
    BY <1>1, RunTypes DEF ReadyNodes, HasStatus
<1>3. /\ q.global = r.global /\ q.status = r.status
      /\ \A n \in Node : q.node[n].status = IF n \in S THEN "failed" ELSE r.node[n].status
    BY <1>1, Marked DEF NodeStatus
<1>. HIDE DEF S
<1>4. Sound(q) /\ Settled(q) /\ Extends(r, q)
    BY <1>2, GivenUp
<1>. HIDE DEF q
<1>5. /\ Sound(s) /\ Settled(s) /\ Extends(q, s) /\ s.global = q.global /\ s.status = q.status
      /\ \A n \in Node : s.node[n].status # q.node[n].status => q.node[n].status = "pending"
    BY <1>4, Skipped
<1>. HIDE DEF s
<1>6. Extends(r, s)
    BY <1>1, <1>4, <1>5, ExtendsOn DEF Sound
<1>7. \A n \in HasStatus(r, {"done"}) : s.node[n].status = "done"
    BY <1>2, <1>3, <1>5 DEF HasStatus
<1>8. CASE r.global < MaxGlobal
    <2>1. FinishGlobalLimit(r) = r
        BY <1>8 DEF FinishGlobalLimit
    <2>2. \A n \in Node : Continues(r.node[n], r.node[n])
        BY <1>1, RunTypes, ContinuesSame
    <2>. QED BY <2>1, <2>2 DEF Extends, HasStatus
<1>9. CASE ~(r.global < MaxGlobal)
    <2>1. FinishGlobalLimit(r) = s
        BY <1>9 DEF FinishGlobalLimit, s, q, S
    <2>. QED BY <1>3, <1>5, <1>6, <1>7, <1>9, <2>1
<1>. QED BY <1>8, <1>9

\* A node is skipped only under a failed one: with none failed, none is skipped.
LEMMA NoneSkipped == ASSUME NEW r, Sound(r), ~AnyFailed(r), AllTerminal(r)
                     PROVE HasStatus(r, {"done"}) = Node
<1>1. \A n \in Node : r.node[n].status \in {"done", "skipped"}
    <2>1. \A n \in Node : r.node[n].status \in NodeStatus
        BY RunTypes, NodeTypes DEF Sound
    <2>. QED BY <2>1 DEF AnyFailed, AllTerminal, Unfinished, HasStatus, NodeStatus
<1>. DEFINE K == HasStatus(r, {"skipped"})
<1>2. SUFFICES ASSUME K # {} PROVE FALSE
    BY <1>1 DEF HasStatus
<1>3. K \in SUBSET Nat
    BY DEF HasStatus, Node
<1>4. PICK n \in K : \A m \in K : n <= m
    <2>. HIDE DEF K
    <2>. QED BY <1>2, <1>3, Least
<1>5. n \in Node /\ r.node[n].status = "skipped"
    BY DEF HasStatus
<1>6. PICK d \in Deps[n] : r.node[d].status \in {"failed", "skipped"}
    BY <1>5 DEF Sound, EdgesSound
<1>7. d \in Node /\ d < n
    BY <1>5, GraphAssumption DEF GraphDefSchema
<1>8. d \in K
    BY <1>1, <1>6, <1>7 DEF HasStatus
<1>9. n \in Nat /\ d \in Nat
    BY <1>3, <1>8
<1>. QED BY <1>4, <1>7, <1>8, <1>9

\* With no failed node left unpropagated, what is unfinished runs or can run.
LEMMA SomeReady ==
    ASSUME NEW r, Sound(r), ~AllTerminal(r), HasStatus(r, {"running"}) = {},
           \A n \in Node : r.node[n].status = "pending" =>
               \A d \in Deps[n] : r.node[d].status \notin {"failed", "skipped"}
    PROVE ReadyNodes(r) # {}
<1>. DEFINE K == Unfinished(r)
<1>1. K # {} /\ K \in SUBSET Nat
    BY DEF AllTerminal, Unfinished, HasStatus, Node
<1>2. PICK n \in K : \A m \in K : n <= m
    <2>. HIDE DEF K
    <2>. QED BY <1>1, Least
<1>3. n \in Node /\ r.node[n].status = "pending"
    BY DEF Unfinished, HasStatus
<1>4. ASSUME NEW d \in Deps[n] PROVE r.node[d].status = "done"
    <2>1. d \in Node /\ d < n
        BY <1>3, GraphAssumption DEF GraphDefSchema
    <2>2. d \notin K
        <3>1. n \in Nat /\ d \in Nat
            BY <1>1, <2>1 DEF Node
        <3>. QED BY <1>2, <2>1, <3>1
    <2>3. r.node[d].status \in NodeStatus
        BY <2>1, RunTypes, NodeTypes DEF Sound
    <2>. QED BY <1>3, <2>1, <2>2, <2>3 DEF Unfinished, HasStatus, NodeStatus
<1>5. n \in ReadyNodes(r)
    BY <1>3, <1>4 DEF ReadyNodes, HasStatus, DependenciesDone
<1>. QED BY <1>5

-----------------------------------------------------------------------------
(* Attempts that end.                                                      *)

\* Statuses may move on from pending and running without touching an edge.
LEMMA EdgesKept ==
    ASSUME NEW r, EdgesSound(r), NEW s,
           \A n \in Node : s.node[n].status # r.node[n].status =>
               /\ r.node[n].status \in {"pending", "running"}
               /\ s.node[n].status # "skipped"
               /\ s.node[n].status \in {"running", "done"} => DependenciesDone(r, n)
    PROVE EdgesSound(s)
<1>1. \A n \in Node : \A d \in Deps[n] : d \in Node
    BY GraphAssumption DEF GraphDefSchema
<1>2. ASSUME NEW n \in Node, s.node[n].status \in {"running", "done"}
      PROVE DependenciesDone(s, n)
    <2>1. DependenciesDone(r, n)
        BY <1>2 DEF EdgesSound
    <2>. QED BY <1>1, <2>1 DEF DependenciesDone
<1>3. ASSUME NEW n \in Node, s.node[n].status = "skipped"
      PROVE \E d \in Deps[n] : s.node[d].status \in {"failed", "skipped"}
    <2>1. \E d \in Deps[n] : r.node[d].status \in {"failed", "skipped"}
        BY <1>3 DEF EdgesSound
    <2>. QED BY <1>1, <2>1
<1>. QED BY <1>2, <1>3 DEF EdgesSound

LEMMA Ended ==
    ASSUME NEW n \in Node, NEW x \in NodeState, NEW y \in NodeState, NEW a \in AttemptState,
           NodeSound(n, x), Ends(x, "running"), Rewrites(x, y, a), AttemptSound(n, a),
           x.att[Len(x.att)].session => a.session,
           \/ a.status = "done" /\ y.status = "done"
           \/ a.status = "failed" /\ y.status \in {"pending", "failed"}
    PROVE NodeSound(n, y) /\ Attended(y) /\ Continues(x, y)
<1>1. AttemptsSound(n, y) /\ \A st : Ends(y, st) <=> a.status = st
    BY SoundRewritten DEF NodeSound
<1>2. Follows(x.att[Len(x.att)], a)
    BY DEF Follows, Ends
<1>3. Continues(x, y)
    BY <1>2, ContinuesRewritten
<1>4. StatusFits(n, y)
    BY <1>1 DEF StatusFits
<1>. QED BY <1>1, <1>3, <1>4 DEF NodeSound, Attended

LEMMA OutcomeShape == ASSUME NEW n \in Node, NEW o \in OutcomesOf(n)
    PROVE o \in Outcome /\ o # "none" /\ (o = "substantive_rejection" => Agent[n] = "checker")
<1>1. PICK reply \in Reply : o = Classify(n, reply)
    BY DEF OutcomesOf, Outcomes
<1>. QED BY <1>1 DEF Classify, Outcome, Reply

LEMMA SettledNode ==
    ASSUME NEW r, Sound(r), NEW n \in Node, r.node[n].status = "running",
           NEW o \in OutcomesOf(n)
    PROVE LET s == Settle(r, n, o) IN
          /\ Sound(s) /\ Extends(r, s) /\ (Settled(r) => Settled(s))
          /\ s.global = r.global /\ s.status = r.status
          /\ \A m \in Node : m # n => s.node[m] = r.node[m]
          /\ \A m \in Node : Used(s, m) = Used(r, m)
<1>. DEFINE passed == o = "passed"
            a == [Last(r, n) EXCEPT !.status = IF passed THEN "done" ELSE "failed", !.outcome = o]
            q == SetLast(r, n, a)
            st == IF passed THEN "done"
                  ELSE IF AwaitsRouting(n, o) THEN "failed" ELSE RetryStatus(r, n)
            t == Mark(q, {n}, st)
            c == IF passed /\ Agent[n] = "researcher" /\ r.criteria = NoNode THEN n ELSE t.criteria
            s == [t EXCEPT !.criteria = c]
<1>1. r \in RunState /\ r.node[n] \in NodeState /\ NodeSound(n, r.node[n])
    BY RunTypes DEF Sound
<1>2. Ends(r.node[n], "running") /\ Used(r, n) > 0 /\ Last(r, n) \in AttemptState
      /\ Last(r, n) = r.node[n].att[Len(r.node[n].att)]
    BY <1>1, RunTypes DEF NodeSound, StatusFits, Ends
<1>3. o \in Outcome /\ (o = "substantive_rejection" => Agent[n] = "checker")
    BY OutcomeShape
<1>4. /\ a \in AttemptState /\ a.status = (IF passed THEN "done" ELSE "failed")
      /\ a.outcome = o /\ a.session = Last(r, n).session
    BY <1>2, <1>3 DEF AttemptState
<1>5. st \in {"done", "pending", "failed"} /\ (st = "done" <=> passed)
    BY DEF RetryStatus
<1>. HIDE DEF a, st
<1>6. /\ q \in RunState /\ q.global = r.global /\ q.status = r.status
      /\ Rewrites(r.node[n], q.node[n], a)
      /\ \A m \in Node : m # n => q.node[m] = r.node[m]
      /\ \A m \in Node : Used(q, m) = Used(r, m)
    BY <1>1, <1>2, <1>4, LastSet
<1>. HIDE DEF q
<1>7. /\ t \in RunState /\ t.global = r.global /\ t.status = r.status
      /\ \A m \in Node : /\ t.node[m].att = q.node[m].att
                         /\ t.node[m].status = IF m = n THEN st ELSE q.node[m].status
                         /\ Used(t, m) = Used(r, m)
    BY <1>5, <1>6, Marked DEF NodeStatus
<1>8. \A m \in Node : m # n => t.node[m] = r.node[m]
    <2>1. ASSUME NEW m \in Node, m # n PROVE t.node[m] = r.node[m]
        <3>1. t.node[m] \in NodeState /\ r.node[m] \in NodeState
            BY <1>1, <1>7, RunTypes
        <3>2. t.node[m].att = r.node[m].att /\ t.node[m].status = r.node[m].status
            BY <1>6, <1>7, <2>1
        <3>. QED BY <3>1, <3>2 DEF NodeState
    <2>. QED BY <2>1
<1>. HIDE DEF t
<1>9. /\ s \in RunState /\ s.node = t.node /\ s.global = r.global /\ s.status = r.status
      /\ \A m \in Node : Used(s, m) = Used(r, m)
    <2>1. c \in Node \cup {NoNode}
        BY <1>7, RunTypes
    <2>. HIDE DEF c
    <2>2. s \in RunState /\ s.node = t.node /\ s.global = t.global /\ s.status = t.status
        BY <1>7, <2>1 DEF RunState
    <2>. QED BY <1>7, <2>2 DEF Used
<1>. HIDE DEF s
<1>10. NodeSound(n, s.node[n]) /\ Attended(s.node[n]) /\ Continues(r.node[n], s.node[n])
    <2>1. s.node[n] \in NodeState /\ Rewrites(r.node[n], s.node[n], a) /\ s.node[n].status = st
        BY <1>6, <1>7, <1>9, RunTypes DEF Rewrites
    <2>2. AttemptSound(n, a)
        BY <1>3, <1>4 DEF AttemptSound
    <2>. QED BY <1>1, <1>2, <1>4, <1>5, <2>1, <2>2, Ended
<1>11. \A m \in Node : m # n => s.node[m] = r.node[m]
    BY <1>8, <1>9
<1>12. EdgesSound(s)
    <2>1. DependenciesDone(r, n)
        BY DEF Sound, EdgesSound
    <2>2. s.node[n].status = st
        BY <1>7, <1>9
    <2>. QED BY <1>5, <1>11, <2>1, <2>2, EdgesKept DEF Sound
<1>13. BudgetSound(s)
    BY <1>9, BudgetSame DEF Sound
<1>14. \A m \in Node : NodeSound(m, s.node[m]) /\ Continues(r.node[m], s.node[m])
    BY <1>1, <1>10, <1>11, RunTypes, ContinuesSame DEF Sound
<1>15. Settled(r) => Settled(s)
    BY <1>10, <1>11 DEF Settled
<1>16. Settle(r, n, o) = s
    <2>1. t.criteria = r.criteria
        BY <1>1, <1>2, <1>4, <1>5, <1>6, LastSet, Marked DEF t, q, NodeStatus
    <2>2. Settle(r, n, o) = [t EXCEPT !.criteria =
                IF passed /\ Agent[n] = "researcher" /\ r.criteria = NoNode THEN n ELSE @]
        BY DEF Settle, t, q, a, st
    <2>. QED BY <2>2 DEF s
<1>. QED BY <1>9, <1>11, <1>12, <1>13, <1>14, <1>15, <1>16 DEF Sound, Extends

LEMMA RejectionRecorded ==
    ASSUME NEW r, Sound(r), NEW S, \A n \in S : n \in Node /\ r.node[n].status = "running"
    PROVE LET s == RecordRejection(r, S) IN
          /\ Sound(s) /\ Extends(r, s) /\ (Settled(r) => Settled(s))
          /\ s.global = r.global /\ s.status = r.status
          /\ \A m \in Node : m \notin S => s.node[m] = r.node[m]
          /\ \A m \in Node : Used(s, m) = Used(r, m)
<1>. DEFINE a(n) == [Last(r, n) EXCEPT !.status = "failed", !.outcome = "sdk_error"]
            y(n) == [status |-> RetryStatus(r, n),
                     att |-> [r.node[n].att EXCEPT ![Used(r, n)].status = "failed",
                                                   ![Used(r, n)].outcome = "sdk_error"]]
            f == [n \in Node |-> IF n \notin S THEN r.node[n] ELSE y(n)]
            s == [r EXCEPT !.node = f]
<1>1. r \in RunState
    BY DEF Sound
<1>2. ASSUME NEW n \in S
      PROVE /\ y(n) \in NodeState /\ Len(y(n).att) = Len(r.node[n].att)
            /\ NodeSound(n, y(n)) /\ Attended(y(n)) /\ Continues(r.node[n], y(n))
    <2>. DEFINE x == r.node[n]
    <2>1. n \in Node /\ x \in NodeState /\ NodeSound(n, x)
        BY <1>1, RunTypes DEF Sound
    <2>2. Ends(x, "running") /\ Used(r, n) = Len(x.att) /\ Last(r, n) \in AttemptState
          /\ Last(r, n) = x.att[Len(x.att)] /\ Len(x.att) \in 1..Len(x.att)
          /\ x.att \in Seq(AttemptState)
        BY <1>1, <2>1, RunTypes, NodeTypes DEF NodeSound, StatusFits, Ends
    <2>3. a(n) \in AttemptState /\ a(n).status = "failed" /\ a(n).outcome = "sdk_error"
          /\ a(n).session = Last(r, n).session
        BY <2>2 DEF AttemptState, Outcome
    <2>4. y(n).att = [x.att EXCEPT ![Len(x.att)] = a(n)]
        BY <2>2
    <2>5. RetryStatus(r, n) \in {"pending", "failed"}
        BY DEF RetryStatus
    <2>. HIDE DEF a, x
    <2>6. /\ [x.att EXCEPT ![Len(x.att)] = a(n)] \in Seq(AttemptState)
          /\ Len([x.att EXCEPT ![Len(x.att)] = a(n)]) = Len(x.att)
          /\ \A i \in 1..Len(x.att) : [x.att EXCEPT ![Len(x.att)] = a(n)][i]
                                        = IF i = Len(x.att) THEN a(n) ELSE x.att[i]
        BY <2>2, <2>3, ExceptSeq
    <2>7. y(n) \in NodeState
        BY <2>4, <2>5, <2>6 DEF NodeState
    <2>8. y(n).status \in {"pending", "failed"}
        BY <2>5
    <2>. HIDE DEF y
    <2>9. Rewrites(x, y(n), a(n))
        BY <2>2, <2>4, <2>6 DEF Rewrites
    <2>10. AttemptSound(n, a(n))
        BY <2>3 DEF AttemptSound
    <2>11. NodeSound(n, y(n)) /\ Attended(y(n)) /\ Continues(x, y(n))
        BY <2>1, <2>2, <2>3, <2>7, <2>8, <2>9, <2>10, Ended
    <2>. QED BY <2>4, <2>6, <2>7, <2>11 DEF x
<1>3. \A n \in S : y(n).status \in {"pending", "failed"}
    BY DEF RetryStatus
<1>4. RecordRejection(r, S) = s
    BY DEF RecordRejection
<1>. HIDE DEF y
<1>5. f \in [Node -> NodeState]
    BY <1>1, <1>2, RunTypes
<1>6. s \in RunState /\ s.node = f /\ s.global = r.global /\ s.status = r.status
    <2>. HIDE DEF f
    <2>. QED BY <1>1, <1>5, Reshaped
<1>7. \A m \in Node : m \notin S => s.node[m] = r.node[m]
    BY <1>6
<1>8. \A m \in Node : m \in S => s.node[m] = y(m)
    BY <1>6
<1>. HIDE DEF f, s
<1>9. \A m \in Node : Used(s, m) = Used(r, m)
    BY <1>2, <1>7, <1>8 DEF Used
<1>10. \A m \in Node : NodeSound(m, s.node[m]) /\ Continues(r.node[m], s.node[m])
    BY <1>1, <1>2, <1>7, <1>8, RunTypes, ContinuesSame DEF Sound
<1>11. Settled(r) => Settled(s)
    BY <1>2, <1>7, <1>8 DEF Settled
<1>12. EdgesSound(s)
    <2>1. \A n \in Node : s.node[n].status # r.node[n].status =>
               /\ r.node[n].status \in {"pending", "running"}
               /\ s.node[n].status \in {"pending", "failed"}
        BY <1>3, <1>7, <1>8
    <2>. QED BY <2>1, EdgesKept DEF Sound
<1>13. BudgetSound(s)
    BY <1>6, <1>9, BudgetSame DEF Sound
<1>. QED BY <1>4, <1>6, <1>7, <1>9, <1>10, <1>11, <1>12, <1>13 DEF Sound, Extends

-----------------------------------------------------------------------------
(* Checker feedback.                                                       *)

LEMMA Handled ==
    ASSUME NEW r, Sound(r), NEW c \in Unrouted(r)
    PROVE LET s == Handle(r, c) IN
          /\ Sound(s) /\ Extends(r, s) /\ (Settled(r) => Settled(s))
          /\ s.global = r.global /\ s.status = r.status
          /\ s.node[c].att[Used(r, c)].applied
          /\ \A n \in Node : /\ s.node[n].status = r.node[n].status
                             /\ Used(s, n) = Used(r, n)
                             /\ \A st : Ends(s.node[n], st) <=> Ends(r.node[n], st)
<1>. DEFINE a == [Last(r, c) EXCEPT !.applied = TRUE]
            s == SetLast(r, c, a)
<1>1. r \in RunState /\ c \in Node /\ r.node[c] \in NodeState /\ NodeSound(c, r.node[c])
      /\ r.node[c].status = "failed" /\ Used(r, c) > 0
    BY RunTypes DEF Sound, Unrouted, HasStatus
<1>2. Used(r, c) = Len(r.node[c].att) /\ Last(r, c) \in AttemptState
      /\ Last(r, c) = r.node[c].att[Len(r.node[c].att)] /\ Len(r.node[c].att) \in 1..Len(r.node[c].att)
    BY <1>1, RunTypes, NodeTypes
<1>3. Last(r, c).status = "failed" /\ AttemptSound(c, Last(r, c))
    BY <1>1, <1>2 DEF NodeSound, StatusFits, Ends, AttemptsSound
<1>4. a \in AttemptState /\ AttemptSound(c, a) /\ a.status = "failed" /\ a.applied
      /\ Follows(Last(r, c), a)
    BY <1>2, <1>3 DEF AttemptState, AttemptSound, Follows
<1>5. Handle(r, c) = s
    BY DEF Handle
<1>. HIDE DEF a
<1>6. /\ s \in RunState /\ s.global = r.global /\ s.status = r.status
      /\ Rewrites(r.node[c], s.node[c], a)
      /\ s.node[c].status = r.node[c].status
      /\ \A m \in Node : m # c => s.node[m] = r.node[m]
      /\ \A m \in Node : Used(s, m) = Used(r, m)
    BY <1>1, <1>4, LastSet
<1>. HIDE DEF s
<1>7. AttemptsSound(c, s.node[c]) /\ \A st : Ends(s.node[c], st) <=> a.status = st
    BY <1>1, <1>4, <1>6, RunTypes, SoundRewritten DEF NodeSound
<1>8. \A st : Ends(s.node[c], st) <=> Ends(r.node[c], st)
    BY <1>1, <1>2, <1>3, <1>4, <1>7 DEF Ends
<1>9. NodeSound(c, s.node[c])
    BY <1>1, <1>4, <1>6, <1>7 DEF NodeSound, StatusFits
<1>10. Continues(r.node[c], s.node[c])
    BY <1>1, <1>2, <1>4, <1>6, RunTypes, ContinuesRewritten
<1>11. \A n \in Node : NodeSound(n, s.node[n]) /\ Continues(r.node[n], s.node[n])
    BY <1>1, <1>6, <1>9, <1>10, RunTypes, ContinuesSame DEF Sound
<1>12. \A n \in Node : /\ s.node[n].status = r.node[n].status
                       /\ \A st : Ends(s.node[n], st) <=> Ends(r.node[n], st)
    BY <1>6, <1>8
<1>13. Settled(r) => Settled(s)
    BY <1>12 DEF Settled, Attended
<1>14. EdgesSound(s)
    BY <1>12, EdgesKept DEF Sound
<1>15. BudgetSound(s)
    BY <1>6, BudgetSame DEF Sound
<1>16. s.node[c].att[Used(r, c)].applied
    BY <1>2, <1>4, <1>6 DEF Rewrites
<1>. QED BY <1>5, <1>6, <1>11, <1>12, <1>13, <1>14, <1>15, <1>16 DEF Sound, Extends

\* A route reopens the target and all that depends on it, so that no node is left
\* running, done or skipped on inputs that are no longer there.
LEMMA Routed ==
    ASSUME NEW r, Sound(r), NEW c \in Unrouted(r), CanRoute(r, c)
    PROVE LET s == Route(r, c) IN
          /\ Sound(s) /\ Extends(r, s)
          /\ s.global = r.global /\ s.status = r.status
          /\ s.node[c].att[Used(r, c)].applied
          /\ \A n \in Node : n \notin {Feedback[c]} \cup DescendantsOf(Feedback[c]) =>
                s.node[n].status = r.node[n].status
<1>. DEFINE f == Feedback[c]
            D == DescendantsOf(f)
            O == {f} \cup {n \in D : Used(r, n) < Limit[n]}
            h == Handle(r, c)
            s == Mark(h, O, "pending")
<1>1. c \in Node /\ f \in Node
    BY GraphAssumption DEF Unrouted, HasStatus, GraphDefSchema
<1>2. /\ Sound(h) /\ Extends(r, h)
      /\ h.global = r.global /\ h.status = r.status
      /\ h.node[c].att[Used(r, c)].applied
      /\ \A n \in Node : /\ h.node[n].status = r.node[n].status
                         /\ Used(h, n) = Used(r, n)
                         /\ \A st : Ends(h.node[n], st) <=> Ends(r.node[n], st)
    BY Handled
<1>3. D \subseteq Node /\ O = {f} \cup D /\ \A n \in O : n \in Node /\ Used(r, n) < Limit[n]
    <2>1. D \subseteq Node
        BY <1>1 DEF DescendantsOf, Descendants
    <2>2. \A n \in D \cup {c, f} : Used(r, n) < Limit[n]
        BY DEF CanRoute
    <2>. QED BY <1>1, <2>1, <2>2
<1>4. ASSUME NEW k \in Node, NEW d \in Deps[k], d \in O PROVE k \in O
    BY <1>1, <1>3, <1>4, DescendantsClosed
<1>5. Route(r, c) = s
    BY DEF Route
<1>. HIDE DEF f, D, O, h
<1>6. /\ s \in RunState /\ s.global = h.global /\ s.status = h.status
      /\ \A n \in Node : /\ s.node[n].att = h.node[n].att
                         /\ s.node[n].status = IF n \in O THEN "pending" ELSE h.node[n].status
                         /\ Used(s, n) = Used(h, n)
    BY <1>2, Marked DEF Sound, NodeStatus
<1>. HIDE DEF s
<1>7. ASSUME NEW n \in Node PROVE NodeSound(n, s.node[n]) /\ Continues(h.node[n], s.node[n])
    <2>1. /\ h.node[n] \in NodeState /\ s.node[n] \in NodeState /\ NodeSound(n, h.node[n])
          /\ s.node[n].att = h.node[n].att
          /\ Used(s, n) = Len(s.node[n].att)
          /\ s.node[n].status = IF n \in O THEN "pending" ELSE h.node[n].status
        BY <1>2, <1>6, RunTypes DEF Sound
    <2>2. AttemptsSound(n, s.node[n]) /\ \A st : Ends(s.node[n], st) <=> Ends(h.node[n], st)
        BY <2>1, SoundSame DEF NodeSound
    <2>3. n \in O => Len(s.node[n].att) < Limit[n]
        BY <1>2, <1>3, <1>6, <2>1
    <2>4. StatusFits(n, s.node[n])
        BY <2>1, <2>2, <2>3 DEF StatusFits, NodeSound
    <2>. QED BY <2>1, <2>2, <2>4, ContinuesSame DEF NodeSound
<1>8. EdgesSound(s)
    <2>1. \A n \in Node : \A d \in Deps[n] : d \in Node
        BY GraphAssumption DEF GraphDefSchema
    <2>2. ASSUME NEW n \in Node, s.node[n].status \in {"running", "done"}
          PROVE DependenciesDone(s, n)
        <3>1. n \notin O /\ DependenciesDone(h, n)
            BY <1>2, <1>6, <2>2 DEF Sound, EdgesSound
        <3>2. \A d \in Deps[n] : d \notin O
            BY <1>4, <3>1
        <3>. QED BY <1>6, <2>1, <3>1, <3>2 DEF DependenciesDone
    <2>3. ASSUME NEW n \in Node, s.node[n].status = "skipped"
          PROVE \E d \in Deps[n] : s.node[d].status \in {"failed", "skipped"}
        <3>1. n \notin O
            BY <1>6, <2>3
        <3>2. PICK d \in Deps[n] : h.node[d].status \in {"failed", "skipped"}
            BY <1>2, <1>6, <2>3, <3>1 DEF Sound, EdgesSound
        <3>3. d \notin O
            BY <1>4, <3>1
        <3>. QED BY <1>6, <2>1, <3>2, <3>3
    <2>. QED BY <2>2, <2>3 DEF EdgesSound
<1>9. BudgetSound(s)
    BY <1>2, <1>6, BudgetSame DEF Sound
<1>10. Extends(r, s)
    <2>1. Extends(h, s)
        BY <1>7 DEF Extends
    <2>. QED BY <1>2, <1>6, <2>1, ExtendsOn DEF Sound
<1>11. s.node[c].att[Used(r, c)].applied
    BY <1>1, <1>2, <1>6
<1>12. \A n \in Node : n \notin {f} \cup D => s.node[n].status = r.node[n].status
    BY <1>2, <1>3, <1>6
<1>. QED BY <1>2, <1>5, <1>6, <1>7, <1>8, <1>9, <1>10, <1>11, <1>12 DEF Sound, f, D

-----------------------------------------------------------------------------
(* Reservation.                                                            *)

LEMMA NodesFinite == ASSUME NEW S \in SUBSET Node
                     PROVE IsFiniteSet(S) /\ Cardinality(S) \in Nat /\ S \in SUBSET Nat
<1>1. N \in Nat
    BY GraphAssumption DEF GraphDefSchema
<1>2. IsFiniteSet(Node) /\ Node \subseteq Nat
    BY <1>1, FS_Interval DEF Node
<1>. QED BY <1>2, FS_Subset, FS_CardinalityType

\* The greatest member of a set of nodes.
LEMMA Greatest == ASSUME NEW S \in SUBSET Node, S # {}
                  PROVE \E x \in S : \A y \in S : y <= x
<1>. DEFINE T == {N - x : x \in S}
<1>1. N \in Nat /\ \A x \in S : x \in Nat /\ x <= N
    BY GraphAssumption DEF GraphDefSchema, Node
<1>2. T \in SUBSET Nat /\ T # {}
    BY <1>1
<1>3. PICK t \in T : \A u \in T : t <= u
    <2>. HIDE DEF T
    <2>. QED BY <1>2, Least
<1>4. PICK x \in S : t = N - x
    OBVIOUS
<1>5. ASSUME NEW y \in S PROVE y <= x
    <2>1. N - x <= N - y
        BY <1>3, <1>4
    <2>. QED BY <1>1, <2>1
<1>. QED BY <1>5

\* The budget pays for every reservation of a batch.
LEMMA ReservedPaid ==
    ASSUME NEW r, Sound(r), NEW batch \in SUBSET Node
    PROVE r.global + Cardinality(Reserved(r, batch)) <= MaxGlobal
<1>. DEFINE S == Reserved(r, batch)
            before(n) == {m \in batch : m < n /\ Used(r, m) < Limit[m]}
            k == MaxGlobal - r.global
<1>1. r.global \in Nat /\ MaxGlobal \in Nat /\ r.global <= MaxGlobal
    BY RunTypes, GraphAssumption DEF Sound, BudgetSound, GraphDefSchema
<1>2. S \in SUBSET Node /\ \A n \in S : n \in batch /\ Used(r, n) < Limit[n] /\ Cardinality(before(n)) < k
    BY DEF Reserved
<1>. HIDE DEF S
<1>3. IsFiniteSet(S) /\ Cardinality(S) \in Nat /\ S \in SUBSET Nat
    BY <1>2, NodesFinite
<1>4. CASE S = {}
    <2>1. Cardinality(S) = 0
        BY <1>4, FS_EmptySet
    <2>. QED BY <1>1, <2>1 DEF S
<1>5. CASE S # {}
    <2>1. PICK x \in S : \A y \in S : y <= x
        BY <1>2, <1>5, Greatest
    <2>2. S \ {x} \subseteq before(x)
        <3>1. ASSUME NEW y \in S \ {x} PROVE y \in before(x)
            <4>1. y <= x /\ y # x /\ y \in Nat /\ x \in Nat
                BY <1>3, <2>1, <3>1
            <4>2. y < x
                BY <4>1
            <4>3. y \in batch /\ Used(r, y) < Limit[y]
                BY <1>2, <3>1
            <4>. QED BY <4>2, <4>3
        <3>. QED BY <3>1
    <2>3. before(x) \in SUBSET Node
        OBVIOUS
    <2>4. Cardinality(before(x)) < k
        BY <1>2, <2>1
    <2>. HIDE DEF before
    <2>5. IsFiniteSet(before(x)) /\ Cardinality(before(x)) \in Nat
        BY <2>3, NodesFinite
    <2>6. Cardinality(S \ {x}) = Cardinality(S) - 1
        BY <1>3, FS_RemoveElement
    <2>7. Cardinality(S \ {x}) <= Cardinality(before(x))
        BY <2>2, <2>5, FS_Subset
    <2>8. Cardinality(S) <= k
        <3>. HIDE DEF k
        <3>1. k \in Int
            BY <1>1 DEF k
        <3>. QED BY <1>3, <2>4, <2>5, <2>6, <2>7, <3>1
    <2>. QED BY <1>1, <1>3, <2>8 DEF S
<1>. QED BY <1>4, <1>5

\* One attempt more for each node of S, and one more charged for each.
LEMMA HistoryReserved ==
    ASSUME NEW r \in RunState, NEW s \in RunState, NEW S \in SUBSET Node, BudgetSound(r),
           \A n \in Node : Used(s, n) = Used(r, n) + (IF n \in S THEN 1 ELSE 0)
    PROVE IsFiniteSet(History(s)) /\ Cardinality(History(s)) = r.global + Cardinality(S)
<1>. DEFINE g == [n \in S |-> <<n, Used(r, n) + 1>>]
            A == {g[n] : n \in S}
<1>1. \A n \in Node : Used(r, n) \in Nat /\ Used(s, n) \in Nat
    BY RunTypes
<1>2. IsFiniteSet(S)
    BY NodesFinite
<1>3. g \in Bijection(S, A)
    <2>1. g \in [S -> A]
        OBVIOUS
    <2>2. \A m, n \in S : g[m] = g[n] => m = n
        OBVIOUS
    <2>3. \A t \in A : \E n \in S : g[n] = t
        OBVIOUS
    <2>. HIDE DEF g, A
    <2>. QED BY <2>1, <2>2, <2>3 DEF Bijection, Injection, Surjection, IsInjective
<1>4. IsFiniteSet(A) /\ Cardinality(A) = Cardinality(S)
    <2>1. ExistsBijection(S, A)
        BY <1>3 DEF ExistsBijection
    <2>. HIDE DEF A
    <2>. QED BY <1>2, <2>1, FS_Bijection
<1>5. \A x : x \in A <=> \E n \in S : x = <<n, Used(r, n) + 1>>
    OBVIOUS
<1>. HIDE DEF g, A
<1>6. History(s) = History(r) \cup A
    <2>1. ASSUME NEW x \in History(s) PROVE x \in History(r) \cup A
        <3>1. x[1] \in Node /\ x[2] \in 1..Used(s, x[1]) /\ x = <<x[1], x[2]>>
            BY <2>1, HistoryShape
        <3>2. x[2] \in Nat \ {0}
            BY <1>1, <3>1
        <3>3. CASE x[2] <= Used(r, x[1])
            BY <3>1, <3>2, <3>3, HistoryMember
        <3>4. CASE ~(x[2] <= Used(r, x[1]))
            <4>1. x[1] \in S /\ x[2] = Used(r, x[1]) + 1
                BY <1>1, <3>1, <3>2, <3>4
            <4>. QED BY <1>5, <3>1, <4>1
        <3>. QED BY <3>3, <3>4
    <2>2. ASSUME NEW x \in History(r) PROVE x \in History(s)
        <3>1. x[1] \in Node /\ x[2] \in 1..Used(r, x[1]) /\ x = <<x[1], x[2]>>
            BY <2>2, HistoryShape
        <3>2. x[2] \in Nat \ {0} /\ x[2] <= Used(s, x[1])
            BY <1>1, <3>1
        <3>. QED BY <3>1, <3>2, HistoryMember
    <2>3. ASSUME NEW x \in A PROVE x \in History(s)
        <3>1. PICK n \in S : x = <<n, Used(r, n) + 1>>
            BY <1>5, <2>3
        <3>2. n \in Node /\ Used(r, n) + 1 \in Nat \ {0} /\ Used(r, n) + 1 <= Used(s, n)
            BY <1>1
        <3>. QED BY <3>1, <3>2, HistoryMember
    <2>. QED BY <2>1, <2>2, <2>3
<1>7. History(r) \cap A = {}
    <2>1. SUFFICES ASSUME NEW x \in History(r), x \in A PROVE FALSE
        OBVIOUS
    <2>2. PICK n \in S : x = <<n, Used(r, n) + 1>>
        BY <1>5, <2>1
    <2>3. x[2] \in 1..Used(r, x[1]) /\ x[1] = n /\ x[2] = Used(r, n) + 1
        BY <2>1, <2>2, HistoryShape
    <2>4. n \in Node /\ Used(r, n) \in Nat
        BY <1>1
    <2>. QED BY <2>3, <2>4
<1>8. IsFiniteSet(History(r)) /\ r.global = Cardinality(History(r)) /\ r.global \in Nat
    BY RunTypes DEF BudgetSound
<1>9. Cardinality(S) \in Nat
    BY NodesFinite
<1>. QED BY <1>4, <1>6, <1>7, <1>8, <1>9, FS_Union, FS_EmptySet

\* The attempt a reservation appends.
NewAttempt == [status |-> "running", outcome |-> "none", session |-> FALSE, applied |-> FALSE]

LEMMA ReservedNodes ==
    ASSUME NEW r, Sound(r), Settled(r), NEW S \in SUBSET Node, r.global + Cardinality(S) <= MaxGlobal,
           \A n \in S : n \in ReadyNodes(r) /\ Used(r, n) < Limit[n]
    PROVE LET s == Reserve(r, S) IN
          /\ Sound(s) /\ Settled(s) /\ Extends(r, s)
          /\ s.status = r.status
          /\ \A n \in Node : n \notin S => s.node[n] = r.node[n]
          /\ \A n \in S : s.node[n].status = "running" /\ Used(s, n) = Used(r, n) + 1
<1>. DEFINE y(n) == [status |-> "running", att |-> Append(r.node[n].att, NewAttempt)]
            f == [n \in Node |-> IF n \notin S THEN r.node[n] ELSE y(n)]
            q == [r EXCEPT !.node = f]
            s == [q EXCEPT !.global = r.global + Cardinality(S)]
<1>1. r \in RunState /\ \A n \in Node : Limit[n] \in Nat
    BY GraphAssumption DEF Sound, GraphDefSchema
<1>2. \A n \in S : n \in Node /\ r.node[n].status = "pending" /\ DependenciesDone(r, n)
    BY DEF ReadyNodes, HasStatus
<1>3. NewAttempt \in AttemptState
    BY DEF NewAttempt, AttemptState, Outcome
<1>4. ASSUME NEW n \in S
      PROVE /\ y(n) \in NodeState /\ Len(y(n).att) = Len(r.node[n].att) + 1
            /\ NodeSound(n, y(n)) /\ Attended(y(n)) /\ Continues(r.node[n], y(n))
    <2>. DEFINE x == r.node[n]
    <2>1. /\ n \in Node /\ x \in NodeState /\ NodeSound(n, x) /\ Attended(x)
          /\ x.status = "pending" /\ Len(x.att) < Limit[n]
        BY <1>1, <1>2, RunTypes DEF Sound, Settled
    <2>. HIDE DEF x
    <2>2. /\ x.att \in Seq(AttemptState) /\ Len(x.att) \in Nat
          /\ \A i \in 1..Len(x.att) : x.att[i] \in AttemptState
        BY <2>1, NodeTypes
    <2>3. /\ Append(x.att, NewAttempt) \in Seq(AttemptState)
          /\ Len(Append(x.att, NewAttempt)) = Len(x.att) + 1
          /\ \A i \in 1..Len(x.att) : Append(x.att, NewAttempt)[i] = x.att[i]
          /\ Append(x.att, NewAttempt)[Len(x.att) + 1] = NewAttempt
        BY <1>3, <2>2, AppendProperties
    <2>4. y(n) \in NodeState /\ y(n).status = "running" /\ y(n).att = Append(x.att, NewAttempt)
        BY <2>3 DEF NodeState, x
    <2>. HIDE DEF y
    <2>5. ~Ends(x, "running")
        BY <2>1 DEF Attended
    <2>6. \A i \in 1..Len(x.att) : x.att[i].status # "running" /\ AttemptSound(n, x.att[i])
        <3>1. ASSUME NEW i \in 1..Len(x.att), x.att[i].status = "running" PROVE FALSE
            <4>1. i = Len(x.att) /\ Len(x.att) > 0
                BY <2>1, <2>2, <3>1 DEF NodeSound, AttemptsSound
            <4>. QED BY <2>5, <3>1, <4>1 DEF Ends
        <3>. QED BY <2>1, <3>1 DEF NodeSound, AttemptsSound
    <2>7. AttemptsSound(n, y(n))
        <3>1. Len(y(n).att) <= Limit[n]
            BY <1>1, <2>1, <2>2, <2>3, <2>4
        <3>2. AttemptSound(n, NewAttempt)
            BY DEF AttemptSound, NewAttempt
        <3>3. ASSUME NEW i \in 1..Len(y(n).att)
              PROVE AttemptSound(n, y(n).att[i]) /\ (y(n).att[i].status = "running" => i = Len(y(n).att))
            <4>1. i \in 1..Len(x.att) \/ i = Len(x.att) + 1
                BY <2>2, <2>3, <2>4
            <4>. QED BY <2>3, <2>4, <2>6, <3>2, <4>1
        <3>. QED BY <3>1, <3>3 DEF AttemptsSound
    <2>8. \A st : Ends(y(n), st) <=> st = "running"
        BY <2>2, <2>3, <2>4 DEF Ends, NewAttempt
    <2>9. StatusFits(n, y(n)) /\ Attended(y(n))
        BY <2>4, <2>8 DEF StatusFits, Attended
    <2>10. Continues(x, y(n))
        BY <2>2, <2>3, <2>4, FollowsItself DEF Continues
    <2>. QED BY <2>3, <2>4, <2>7, <2>9, <2>10 DEF NodeSound, x
<1>5. Reserve(r, S) = s
    BY <1>1 DEF Reserve, NewAttempt, RunState
<1>6. \A n \in S : y(n).status = "running"
    OBVIOUS
<1>. HIDE DEF y
<1>7. f \in [Node -> NodeState]
    BY <1>1, <1>4, RunTypes
<1>8. q \in RunState /\ q.node = f /\ q.global = r.global /\ q.status = r.status
    <2>. HIDE DEF f
    <2>. QED BY <1>1, <1>7, Reshaped
<1>9. Cardinality(S) \in Nat /\ r.global \in Nat
    BY <1>1, NodesFinite, RunTypes
<1>. HIDE DEF q
<1>10. s \in RunState /\ s.node = f /\ s.global = r.global + Cardinality(S) /\ s.status = r.status
    <2>1. r.global + Cardinality(S) \in Nat
        BY <1>9
    <2>. HIDE DEF f
    <2>. QED BY <1>8, <2>1 DEF RunState
<1>11. \A n \in Node : n \notin S => s.node[n] = r.node[n]
    BY <1>10
<1>12. \A n \in S : s.node[n] = y(n)
    BY <1>2, <1>10
<1>. HIDE DEF f, s
<1>13. \A n \in S : s.node[n].status = "running" /\ Used(s, n) = Used(r, n) + 1
    BY <1>4, <1>6, <1>12 DEF Used
<1>14. \A n \in Node : NodeSound(n, s.node[n]) /\ Attended(s.node[n]) /\ Continues(r.node[n], s.node[n])
    BY <1>1, <1>4, <1>11, <1>12, RunTypes, ContinuesSame DEF Sound, Settled
<1>15. EdgesSound(s)
    <2>1. \A n \in Node : s.node[n].status # r.node[n].status =>
            r.node[n].status = "pending" /\ s.node[n].status = "running" /\ DependenciesDone(r, n)
        BY <1>2, <1>11, <1>13
    <2>. QED BY <2>1, EdgesKept DEF Sound
<1>16. BudgetSound(s)
    <2>1. \A n \in Node : Used(s, n) = Used(r, n) + (IF n \in S THEN 1 ELSE 0)
        <3>1. \A n \in Node : n \notin S => Used(s, n) = Used(r, n) /\ Used(r, n) \in Nat
            BY <1>1, <1>11, RunTypes DEF Used
        <3>. QED BY <1>13, <3>1
    <2>2. IsFiniteSet(History(s)) /\ Cardinality(History(s)) = r.global + Cardinality(S)
        BY <1>1, <1>10, <2>1, HistoryReserved DEF Sound
    <2>. QED BY <1>10, <2>2 DEF BudgetSound
<1>. QED BY <1>5, <1>10, <1>11, <1>13, <1>14, <1>15, <1>16 DEF Sound, Settled, Extends

LEMMA PendingMarked == ASSUME NEW r \in RunState, NEW S, S \subseteq HasStatus(r, {"pending"})
                       PROVE Mark(r, S, "pending") = r
<1>1. r.node \in [Node -> NodeState]
    BY RunTypes
<1>2. ASSUME NEW n \in Node, n \in S PROVE [r.node[n] EXCEPT !.status = "pending"] = r.node[n]
    <2>1. r.node[n].status = "pending" /\ r.node[n] \in NodeState
        BY <1>1, <1>2 DEF HasStatus
    <2>. QED BY <2>1 DEF NodeState
<1>3. [n \in Node |-> IF n \in S THEN [r.node[n] EXCEPT !.status = "pending"] ELSE r.node[n]] = r.node
    BY <1>1, <1>2
<1>4. [r EXCEPT !.node = r.node] = r
    BY DEF RunState
<1>. QED BY <1>3, <1>4 DEF Mark

\* A batch of ready nodes, reserved as far as the budget goes.
LEMMA BatchReserved ==
    ASSUME NEW r, Sound(r), Settled(r), NEW batch \in SUBSET ReadyNodes(r)
    PROVE LET s == ReserveBatch(r, batch) IN
          /\ Sound(s) /\ Settled(s) /\ Extends(r, s)
          /\ s.status = r.status
          /\ \A n \in Node : n \notin batch => s.node[n] = r.node[n]
          /\ \A n \in Reserved(r, batch) :
                n \in Node /\ s.node[n].status = "running" /\ Used(s, n) = Used(r, n) + 1
<1>. DEFINE S == Reserved(r, batch)
            F == batch \ S
            q == Reserve(r, S)
            kept == {n \in F : Used(q, n) < Limit[n] /\ LastIs(q, n, "done")}
            G == F \ kept
            s == Mark(q, G, "failed")
<1>1. batch \in SUBSET Node /\ \A n \in batch : r.node[n].status = "pending"
    BY DEF ReadyNodes, HasStatus
<1>2. S \in SUBSET batch /\ \A n \in S : Used(r, n) < Limit[n]
    BY DEF Reserved
<1>3. r.global + Cardinality(S) <= MaxGlobal
    BY <1>1, ReservedPaid
<1>. HIDE DEF S
<1>4. /\ Sound(q) /\ Settled(q) /\ Extends(r, q) /\ q.status = r.status
      /\ \A n \in Node : n \notin S => q.node[n] = r.node[n]
      /\ \A n \in S : q.node[n].status = "running" /\ Used(q, n) = Used(r, n) + 1
    BY <1>1, <1>2, <1>3, ReservedNodes
<1>5. ReserveBatch(r, batch) = Mark(Mark(q, kept, "pending"), G, "failed")
    BY DEF ReserveBatch, Refuse, S
<1>. HIDE DEF q
<1>6. q \in RunState
    BY <1>4 DEF Sound
<1>7. F \subseteq HasStatus(q, {"pending"})
    BY <1>1, <1>4 DEF HasStatus
<1>8. Mark(q, kept, "pending") = q
    BY <1>6, <1>7, PendingMarked
<1>9. \A n \in G : ~Ends(q.node[n], "done")
    <2>1. SUFFICES ASSUME NEW n \in G, Ends(q.node[n], "done") PROVE FALSE
        OBVIOUS
    <2>2. n \in Node /\ q.node[n].status = "pending"
        BY <1>7 DEF HasStatus
    <2>3. Used(q, n) < Limit[n] /\ LastIs(q, n, "done")
        BY <1>4, <1>6, <2>1, <2>2, RunTypes DEF Sound, NodeSound, StatusFits
    <2>. QED BY <2>1, <2>3
<1>10. G \subseteq HasStatus(q, {"pending"}) /\ G \subseteq batch /\ G \cap S = {}
    BY <1>7
<1>. HIDE DEF kept, F, G
<1>11. Sound(s) /\ Settled(s) /\ Extends(q, s)
    BY <1>4, <1>9, <1>10, GivenUp
<1>12. /\ s \in RunState /\ s.status = q.status
       /\ \A n \in Node : /\ s.node[n].att = q.node[n].att
                          /\ s.node[n].status = IF n \in G THEN "failed" ELSE q.node[n].status
                          /\ Used(s, n) = Used(q, n)
    BY <1>6, Marked DEF NodeStatus
<1>. HIDE DEF s
<1>13. \A n \in Node : n \notin G => s.node[n] = q.node[n]
    <2>1. \A n \in Node : s.node[n] \in NodeState /\ q.node[n] \in NodeState
        BY <1>6, <1>12, RunTypes
    <2>. QED BY <1>12, <2>1 DEF NodeState
<1>14. Extends(r, s)
    BY <1>4, <1>6, <1>11, <1>12, ExtendsOn DEF Sound
<1>15. \A n \in Node : n \notin batch => s.node[n] = r.node[n]
    BY <1>2, <1>4, <1>10, <1>13
<1>16. \A n \in S : n \in Node /\ s.node[n].status = "running" /\ Used(s, n) = Used(r, n) + 1
    BY <1>1, <1>2, <1>4, <1>10, <1>12
<1>. QED BY <1>4, <1>5, <1>8, <1>11, <1>12, <1>14, <1>15, <1>16 DEF s, S

-----------------------------------------------------------------------------
(* Resume, close and the schema.                                           *)

LEMMA Resumed ==
    ASSUME NEW r, Sound(r), Settled(r)
    PROVE LET p == PrepareRunForResume(r) IN
          /\ Sound(p) /\ Settled(p) /\ Extends(r, p)
          /\ \A n \in HasStatus(r, {"done"}) : p.node[n].status = "done"
<1>. DEFINE interrupted == HasStatus(r, {"running"})
            reopened == HasStatus(r, {"skipped"})
                    \cup {n \in HasStatus(r, {"running", "failed"}) : Used(r, n) < Limit[n]}
            y(n) == [status |-> IF n \in reopened THEN "pending"
                               ELSE IF n \in interrupted THEN "failed" ELSE r.node[n].status,
                     att |-> IF n \in interrupted THEN InterruptedHistory(r, n)
                             ELSE r.node[n].att]
            f == [n \in Node |-> y(n)]
            q == [r EXCEPT !.node = f]
            p == [q EXCEPT !.status = IF reopened # {} THEN "blocked" ELSE @]
<1>1. r \in RunState
    BY DEF Sound
<1>2. ASSUME NEW n \in Node
      PROVE /\ y(n) \in NodeState /\ Len(y(n).att) = Len(r.node[n].att)
            /\ NodeSound(n, y(n)) /\ Attended(y(n)) /\ Continues(r.node[n], y(n))
            /\ y(n).status \in {"pending", "done", "failed"}
            /\ y(n).status = "done" <=> r.node[n].status = "done"
    <2>. DEFINE x == r.node[n]
    <2>1. x \in NodeState /\ NodeSound(n, x) /\ Attended(x) /\ Used(r, n) = Len(x.att)
        BY <1>1, RunTypes DEF Sound, Settled
    <2>2. x.status \in NodeStatus /\ x.att \in Seq(AttemptState) /\ Len(x.att) \in Nat
        BY <2>1, NodeTypes
    <2>3. CASE x.status = "running"
        <3>. DEFINE a == [Last(r, n) EXCEPT !.status = "failed"]
        <3>1. /\ Ends(x, "running") /\ LastIs(r, n, "running") /\ Last(r, n) \in AttemptState
              /\ Last(r, n) = x.att[Len(x.att)] /\ Len(x.att) \in 1..Len(x.att)
            BY <1>1, <2>1, <2>3, RunTypes, NodeTypes DEF NodeSound, StatusFits, Ends
        <3>2. AttemptSound(n, Last(r, n)) /\ Last(r, n).status = "running"
            BY <2>1, <3>1 DEF NodeSound, AttemptsSound, Ends
        <3>3. a \in AttemptState /\ a.status = "failed" /\ a.session = Last(r, n).session
              /\ AttemptSound(n, a)
            BY <3>1, <3>2 DEF AttemptState, AttemptSound
        <3>4. y(n).att = [x.att EXCEPT ![Len(x.att)] = a]
            BY <2>1, <2>3, <3>1 DEF HasStatus, InterruptedHistory
        <3>5. y(n).status \in {"pending", "failed"}
            BY <2>3 DEF HasStatus
        <3>. HIDE DEF a, x
        <3>6. /\ [x.att EXCEPT ![Len(x.att)] = a] \in Seq(AttemptState)
              /\ Len([x.att EXCEPT ![Len(x.att)] = a]) = Len(x.att)
              /\ \A i \in 1..Len(x.att) : [x.att EXCEPT ![Len(x.att)] = a][i]
                                            = IF i = Len(x.att) THEN a ELSE x.att[i]
            BY <2>2, <3>1, <3>3, ExceptSeq
        <3>7. y(n) \in NodeState
            <4>1. y(n).att \in Seq(AttemptState)
                BY <3>4, <3>6
            <4>2. y(n) = [status |-> y(n).status, att |-> y(n).att]
                OBVIOUS
            <4>. HIDE DEF y
            <4>. QED BY <3>5, <4>1, <4>2 DEF NodeState
        <3>. HIDE DEF y
        <3>8. Rewrites(x, y(n), a)
            BY <3>1, <3>4, <3>6 DEF Rewrites
        <3>9. NodeSound(n, y(n)) /\ Attended(y(n)) /\ Continues(x, y(n))
            BY <2>1, <3>1, <3>3, <3>5, <3>7, <3>8, Ended
        <3>. QED BY <2>3, <3>4, <3>5, <3>6, <3>7, <3>9 DEF x
    <2>4. CASE x.status # "running"
        <3>1. /\ y(n).att = x.att
              /\ y(n).status \in {"pending", x.status} \ {"skipped"}
              /\ x.status \in {"pending", "done"} => y(n).status = x.status
              /\ x.status = "failed" /\ y(n).status = "pending" => Len(x.att) < Limit[n]
            BY <2>1, <2>2, <2>4 DEF HasStatus, NodeStatus
        <3>2. y(n) = [status |-> y(n).status, att |-> y(n).att]
            OBVIOUS
        <3>. HIDE DEF y, x
        <3>3. y(n) \in NodeState
            BY <2>2, <3>1, <3>2 DEF NodeState, NodeStatus
        <3>4. AttemptsSound(n, y(n)) /\ \A st : Ends(y(n), st) <=> Ends(x, st)
            BY <2>1, <3>1, <3>3, SoundSame DEF NodeSound
        <3>5. ~Ends(x, "running")
            BY <2>1, <2>4 DEF Attended
        <3>6. StatusFits(n, y(n))
            BY <2>1, <2>2, <2>4, <3>1, <3>4, <3>5 DEF StatusFits, NodeSound, NodeStatus
        <3>7. Attended(y(n))
            BY <3>4, <3>5 DEF Attended
        <3>8. Continues(x, y(n))
            BY <2>1, <3>1, <3>3, ContinuesSame
        <3>9. y(n).status \in {"pending", "done", "failed"} /\ (y(n).status = "done" <=> x.status = "done")
            BY <2>2, <2>4, <3>1 DEF NodeStatus
        <3>. QED BY <3>1, <3>3, <3>4, <3>6, <3>7, <3>8, <3>9 DEF NodeSound, x
    <2>. QED BY <2>3, <2>4
<1>3. PrepareRunForResume(r) = p
    <2>1. PrepareRunForResume(r) = [r EXCEPT !.node = f, !.status = IF reopened # {} THEN "blocked" ELSE @]
        BY DEF PrepareRunForResume
    <2>. HIDE DEF f, reopened
    <2>. QED BY <2>1
<1>. HIDE DEF y, interrupted, reopened
<1>4. f \in [Node -> NodeState]
    BY <1>2
<1>5. q \in RunState /\ q.node = f /\ q.global = r.global
    <2>. HIDE DEF f
    <2>. QED BY <1>1, <1>4, Reshaped
<1>. HIDE DEF q
<1>6. p \in RunState /\ p.node = f /\ p.global = r.global
    BY <1>5 DEF RunState
<1>7. \A n \in Node : p.node[n] = y(n)
    BY <1>6
<1>. HIDE DEF p, f
<1>8. \A n \in Node : /\ NodeSound(n, p.node[n]) /\ Attended(p.node[n])
                      /\ Continues(r.node[n], p.node[n])
                      /\ Used(p, n) = Used(r, n)
    BY <1>2, <1>7 DEF Used
<1>9. EdgesSound(p)
    <2>1. \A n \in Node : p.node[n].status \in {"pending", "done", "failed"}
                          /\ (p.node[n].status = "done" <=> r.node[n].status = "done")
        BY <1>2, <1>7
    <2>2. \A n \in Node : \A d \in Deps[n] : d \in Node
        BY GraphAssumption DEF GraphDefSchema
    <2>3. ASSUME NEW n \in Node, p.node[n].status = "done" PROVE DependenciesDone(p, n)
        BY <2>1, <2>2, <2>3 DEF Sound, EdgesSound, DependenciesDone
    <2>. QED BY <2>1, <2>3 DEF EdgesSound
<1>10. BudgetSound(p)
    BY <1>6, <1>8, BudgetSame DEF Sound
<1>11. \A n \in HasStatus(r, {"done"}) : p.node[n].status = "done"
    BY <1>2, <1>7 DEF HasStatus
<1>. QED BY <1>3, <1>6, <1>8, <1>9, <1>10, <1>11 DEF Sound, Settled, Extends

\* RunStateSchema accepts a sound run in which every running attempt is attended.
LEMMA SoundIsValid == ASSUME NEW r, Sound(r), Settled(r), StatusSound(r)
                      PROVE SchemaValid(r)
<1>1. r \in RunState
    BY DEF Sound
<1>2. ASSUME NEW n \in Node
      PROVE /\ Used(r, n) <= Limit[n]
            /\ \A i \in 1..Used(r, n) : LET a == r.node[n].att[i] IN
                  /\ a.status = "running" => i = Used(r, n)
                  /\ (a.status = "done") <=> (a.outcome = "passed")
                  /\ a.outcome = "substantive_rejection" => Agent[n] = "checker"
    <2>1. AttemptsSound(n, r.node[n]) /\ Used(r, n) = Len(r.node[n].att)
        BY <1>1, RunTypes DEF Sound, NodeSound
    <2>. QED BY <2>1 DEF AttemptsSound, AttemptSound
<1>3. ASSUME NEW n \in Node
      PROVE /\ (r.node[n].status = "running") <=> LastIs(r, n, "running")
            /\ r.node[n].status = "done" => LastIs(r, n, "done") /\ DependenciesDone(r, n)
            /\ r.node[n].status = "failed" => Used(r, n) = 0 \/ LastIs(r, n, "failed")
            /\ r.node[n].status = "skipped" =>
                  \E d \in Deps[n] : r.node[d].status \in {"failed", "skipped"}
    <2>1. StatusFits(n, r.node[n]) /\ Attended(r.node[n])
        BY DEF Sound, NodeSound, Settled
    <2>2. Used(r, n) = Len(r.node[n].att) /\ \A st : LastIs(r, n, st) <=> Ends(r.node[n], st)
        BY <1>1, RunTypes
    <2>. QED BY <2>1, <2>2 DEF StatusFits, Attended, Sound, EdgesSound
<1>4. /\ r.global = Cardinality(History(r)) /\ r.global <= MaxGlobal
    BY DEF Sound, BudgetSound
<1>. QED BY <1>2, <1>3, <1>4 DEF SchemaValid, StatusSound

LEMMA ValidIsSettled == ASSUME NEW r \in RunState, SchemaValid(r)
                        PROVE Settled(r)
<1>1. ASSUME NEW n \in Node PROVE Attended(r.node[n])
    <2>1. (r.node[n].status = "running") <=> LastIs(r, n, "running")
        BY DEF SchemaValid
    <2>. QED BY <2>1, RunTypes DEF Attended
<1>. QED BY <1>1 DEF Settled

\* A closed run that the schema accepts is sound again.
LEMMA ClosedRun ==
    ASSUME NEW r, Sound(r), Settled(r), SchemaValid(Closed(r))
    PROVE LET s == Closed(r) IN
          /\ Sound(s) /\ Settled(s) /\ StatusSound(s) /\ Extends(r, s)
          /\ \A n \in HasStatus(r, {"done"}) : s.node[n].status = "done"
<1>. DEFINE p == PrepareRunForResume(r)
            kept == {n \in Unfinished(p) : LastIs(p, n, "done")}
            q == Mark(p, kept, "skipped")
            t == Mark(q, Unfinished(p) \ kept, "failed")
            s == [t EXCEPT !.status = "failed"]
<1>1. /\ Sound(p) /\ Settled(p) /\ Extends(r, p) /\ r \in RunState /\ p \in RunState
      /\ \A n \in HasStatus(r, {"done"}) : p.node[n].status = "done"
    BY Resumed DEF Sound
<1>2. Closed(r) = s
    BY DEF Closed
<1>. HIDE DEF p
<1>3. \A n \in kept : n \in Node /\ Ends(p.node[n], "done") /\ p.node[n].status \in {"pending", "running"}
    BY <1>1, RunTypes DEF Unfinished, HasStatus
<1>4. \A n \in Unfinished(p) \ kept : n \in Node /\ ~Ends(p.node[n], "done")
                                      /\ p.node[n].status \in {"pending", "running"}
    BY <1>1, RunTypes DEF Unfinished, HasStatus
<1>5. /\ q \in RunState
      /\ \A n \in Node : q.node[n].att = p.node[n].att
                         /\ q.node[n].status = IF n \in kept THEN "skipped" ELSE p.node[n].status
    BY <1>1, Marked DEF NodeStatus
<1>6. /\ t \in RunState
      /\ \A n \in Node : t.node[n].att = p.node[n].att
                         /\ t.node[n].status = IF n \in Unfinished(p) \ kept THEN "failed"
                                               ELSE IF n \in kept THEN "skipped" ELSE p.node[n].status
    <2>. HIDE DEF kept, q
    <2>. QED BY <1>5, Marked DEF NodeStatus
<1>. HIDE DEF t, q, kept
<1>7. s \in RunState /\ s.node = t.node
    BY <1>6 DEF RunState
<1>. HIDE DEF s
<1>8. SchemaValid(s) /\ Settled(s)
    BY <1>2, <1>7, ValidIsSettled
<1>9. ASSUME NEW n \in Node PROVE NodeSound(n, s.node[n]) /\ Continues(p.node[n], s.node[n])
    <2>1. /\ p.node[n] \in NodeState /\ s.node[n] \in NodeState /\ NodeSound(n, p.node[n])
          /\ Attended(p.node[n]) /\ s.node[n].att = p.node[n].att
          /\ s.node[n].status = IF n \in Unfinished(p) \ kept THEN "failed"
                                ELSE IF n \in kept THEN "skipped" ELSE p.node[n].status
        BY <1>1, <1>6, <1>7, RunTypes DEF Sound, Settled
    <2>2. AttemptsSound(n, s.node[n]) /\ \A st : Ends(s.node[n], st) <=> Ends(p.node[n], st)
        BY <2>1, SoundSame DEF NodeSound
    <2>3. Used(s, n) = Len(s.node[n].att) /\ \A st : LastIs(s, n, st) <=> Ends(s.node[n], st)
        BY <1>7, RunTypes
    <2>4. /\ s.node[n].status = "running" => Ends(s.node[n], "running")
          /\ s.node[n].status = "done" => Ends(s.node[n], "done")
          /\ s.node[n].status = "failed" => Len(s.node[n].att) = 0 \/ Ends(s.node[n], "failed")
          /\ s.node[n].status # "running" => ~Ends(s.node[n], "running")
        BY <1>8, <2>3 DEF SchemaValid
    <2>5. s.node[n].status \in {"pending", "skipped"} /\ Ends(s.node[n], "done")
            => Len(s.node[n].att) < Limit[n]
        <3>1. SUFFICES ASSUME s.node[n].status \in {"pending", "skipped"}, Ends(s.node[n], "done")
                       PROVE Len(p.node[n].att) < Limit[n]
            BY <2>1
        <3>2. p.node[n].status \in {"pending", "skipped"}
            <4>1. CASE n \in kept
                <5>1. Ends(p.node[n], "done") /\ p.node[n].status \in {"pending", "running"}
                    BY <1>3, <4>1
                <5>. QED BY <2>1, <5>1 DEF NodeSound, StatusFits, Ends
            <4>2. CASE n \notin kept
                BY <2>1, <3>1, <4>2
            <4>. QED BY <4>1, <4>2
        <3>. QED BY <2>1, <2>2, <3>1, <3>2 DEF NodeSound, StatusFits
    <2>6. StatusFits(n, s.node[n])
        BY <2>4, <2>5 DEF StatusFits
    <2>. QED BY <2>1, <2>2, <2>6, ContinuesSame DEF NodeSound
<1>10. EdgesSound(s)
    <2>1. ASSUME NEW n \in Node, s.node[n].status \in {"running", "done"} PROVE DependenciesDone(s, n)
        <3>1. s.node[n].status = "done"
            <4>1. p.node[n].status = "running" => n \in Unfinished(p)
                BY DEF Unfinished, HasStatus
            <4>. QED BY <1>6, <1>7, <2>1, <4>1
        <3>. QED BY <1>8, <3>1 DEF SchemaValid
    <2>2. \A n \in Node : s.node[n].status = "skipped" =>
                  \E d \in Deps[n] : s.node[d].status \in {"failed", "skipped"}
        BY <1>8 DEF SchemaValid
    <2>. QED BY <2>1, <2>2 DEF EdgesSound
<1>11. BudgetSound(s)
    <2>1. History(s) = History(p)
        BY <1>6, <1>7, HistorySame DEF Used
    <2>. QED BY <1>1, <1>8, <2>1 DEF SchemaValid, BudgetSound, Sound
<1>12. StatusSound(s)
    BY <1>8 DEF SchemaValid, StatusSound
<1>13. Extends(r, s)
    <2>1. Extends(p, s)
        BY <1>9 DEF Extends
    <2>. QED BY <1>1, <1>7, <2>1, ExtendsOn
<1>14. \A n \in HasStatus(r, {"done"}) : s.node[n].status = "done"
    <2>1. ASSUME NEW n \in HasStatus(r, {"done"}) PROVE s.node[n].status = "done"
        <3>1. n \in Node /\ p.node[n].status = "done"
            BY <1>1 DEF HasStatus
        <3>2. n \notin kept /\ n \notin Unfinished(p)
            BY <1>3, <1>4, <3>1
        <3>. QED BY <1>6, <1>7, <3>1, <3>2
    <2>. QED BY <2>1
<1>. QED BY <1>2, <1>7, <1>8, <1>9, <1>10, <1>11, <1>12, <1>13, <1>14 DEF Sound


-----------------------------------------------------------------------------
(* The inductive invariant.                                                *)

\* The sidecar x names an attempt of r whose session is known, or one still running.
Linked(r, x) == x[1] \in Node /\ x[2] \in 1..Used(r, x[1]) /\ r.node[x[1]].att[x[2]].session
Underway(r, x) ==
    /\ x[1] \in Node /\ Used(r, x[1]) > 0
    /\ x[2] = Used(r, x[1]) /\ r.node[x[1]].status = "running"
Running(r, n) == r.node[n].status = "running"

\* The phases in which a wave still holds ready nodes.
Batching == {"batch", "reserving", "launch", "children", "settleSave"}

\* Disk and memory are sound, and memory continues the disk; only a route may leave
\* an unattended running attempt, which its own save then refuses.
StatesSound ==
    /\ Sound(disk) /\ Settled(disk) /\ StatusSound(disk)
    /\ Sound(mem) /\ StatusSound(mem)
    /\ phase # "routeSave" => Settled(mem)
    /\ phase \notin {"idle", "preflightSave", "finalSave"} => mem.status = "running"
    /\ phase \in {"idle", "launch"} => mem = disk
    /\ Extends(disk, mem)

\* What waits in a wave stays ready to run.
QueueReady ==
    /\ phase \notin Batching => queue = {}
    /\ \A n \in queue : child[n] = "none" /\ mem.node[n].status = "pending" /\ DependenciesDone(mem, n)

\* A child exists only within its batch, and its node runs until it answers.
ChildrenTracked ==
    /\ phase \notin {"reserving", "launch", "children"} => child = NoChild
    /\ phase \in {"reserving", "launch"} => \A n \in Node : child[n] \in {"none", "reserved"}
    /\ \A n \in Node :
        /\ child[n] = "reserved" => /\ phase \in {"reserving", "launch"}
                                    /\ <<n, Used(mem, n)>> \notin launched
        /\ child[n] \in {"reserved", "working", "linking", "prompted", "rejected"} => Running(mem, n)
        /\ child[n] = "working" => Running(disk, n) /\ Used(disk, n) = Used(mem, n)

\* Launches and sidecars against the histories.
HistoriesAgree ==
    /\ launched \subseteq History(disk)
    /\ \A x \in sidecars : Linked(disk, x) \/ Underway(disk, x)
    /\ phase # "idle" => \A x \in sidecars : Linked(mem, x)

\* A done node is only reopened by a route whose rejection is on disk.
DoneKept ==
    /\ phase \in {"wave", "waveSaved", "batch", "feedback"} =>
        \A n \in HasStatus(mem, {"failed"}) : disk.node[n] = mem.node[n]
    /\ \A n \in HasStatus(disk, {"done"}) : mem.node[n].status # "done" =>
        phase = "routeSave" /\ \E c \in Unrouted(disk) :
            /\ n \in {Feedback[c]} \cup DescendantsOf(Feedback[c])
            /\ mem.node[c].att[Used(disk, c)].applied

Inv == StatesSound /\ QueueReady /\ ChildrenTracked /\ HistoriesAgree /\ DoneKept /\ BlockedHasCause
IInv == TypeOK /\ Inv

LEMMA SavePhases ==
    /\ DOMAIN SaveThen = {"opening", "reserving", "settleSave", "handledSave", "routeSave",
                          "waveSave", "preflightSave", "finalSave"}
    /\ SaveThen["opening"] = "wave" /\ SaveThen["reserving"] = "launch"
    /\ SaveThen["settleSave"] = "batch" /\ SaveThen["handledSave"] = "feedback"
    /\ SaveThen["routeSave"] = "waveEnd" /\ SaveThen["waveSave"] = "waveSaved"
    /\ SaveThen["preflightSave"] = "idle" /\ SaveThen["finalSave"] = "idle"
BY DEF SaveThen

LEMMA AttemptKept == ASSUME NEW r \in RunState, NEW s \in RunState, Extends(r, s), NEW n \in Node,
                            NEW i \in 1..Used(r, n)
                     PROVE i \in 1..Used(s, n) /\ Follows(r.node[n].att[i], s.node[n].att[i])
<1>1. Used(r, n) = Len(r.node[n].att) /\ Used(s, n) = Len(s.node[n].att)
      /\ Used(r, n) \in Nat /\ Used(s, n) \in Nat
    BY RunTypes
<1>2. Continues(r.node[n], s.node[n])
    BY DEF Extends
<1>3. Used(r, n) <= Used(s, n)
    BY <1>1, <1>2 DEF Continues
<1>4. i \in 1..Len(r.node[n].att) /\ i \in 1..Used(s, n)
    BY <1>1, <1>3
<1>. QED BY <1>2, <1>4 DEF Continues

LEMMA LinkedOn == ASSUME NEW r \in RunState, NEW s \in RunState, Extends(r, s), NEW x, Linked(r, x)
                  PROVE Linked(s, x)
<1>1. x[1] \in Node /\ x[2] \in 1..Used(r, x[1]) /\ r.node[x[1]].att[x[2]].session
    BY DEF Linked
<1>2. x[2] \in 1..Used(s, x[1]) /\ Follows(r.node[x[1]].att[x[2]], s.node[x[1]].att[x[2]])
    BY <1>1, AttemptKept
<1>3. s.node[x[1]].att[x[2]].session
    BY <1>1, <1>2 DEF Follows
<1>. QED BY <1>1, <1>2, <1>3 DEF Linked

LEMMA ExtendsSame == ASSUME NEW r \in RunState, NEW s \in RunState, s.node = r.node PROVE Extends(r, s)
<1>1. \A n \in Node : r.node[n] \in NodeState /\ s.node[n] = r.node[n]
    BY RunTypes
<1>. QED BY <1>1, ContinuesSame DEF Extends

\* Loading fills in the sessions that only a sidecar knows.
LEMMA ReconciledRun ==
    ASSUME NEW r, Sound(r), Settled(r), StatusSound(r),
           sidecars \in SUBSET (Node \X Nat),
           \A x \in sidecars : Linked(r, x) \/ Underway(r, x)
    PROVE LET s == Reconciled(r) IN
          /\ Sound(s) /\ Settled(s) /\ StatusSound(s) /\ Extends(r, s)
          /\ \A n \in Node : s.node[n].status = r.node[n].status /\ Used(s, n) = Used(r, n)
          /\ \A x \in sidecars : Linked(s, x)
<1>. DEFINE lost == {n \in HasStatus(r, {"running"}) : <<n, Used(r, n)>> \in sidecars}
            y(n) == [r.node[n] EXCEPT !.att[Used(r, n)].session = TRUE]
            f == [n \in Node |-> IF n \in lost THEN y(n) ELSE r.node[n]]
            s == [r EXCEPT !.node = f]
<1>1. r \in RunState
    BY DEF Sound
<1>2. ASSUME NEW n \in lost
      PROVE /\ y(n) \in NodeState /\ y(n).status = r.node[n].status
            /\ Len(y(n).att) = Len(r.node[n].att)
            /\ y(n).att[Len(r.node[n].att)].session
            /\ NodeSound(n, y(n)) /\ Attended(y(n)) /\ Continues(r.node[n], y(n))
    <2>. DEFINE x == r.node[n]
                a == [Last(r, n) EXCEPT !.session = TRUE]
    <2>1. n \in Node /\ x \in NodeState /\ NodeSound(n, x) /\ x.status = "running"
        BY <1>1, RunTypes DEF Sound, HasStatus
    <2>2. Ends(x, "running") /\ Used(r, n) = Len(x.att) /\ Last(r, n) \in AttemptState
          /\ Last(r, n) = x.att[Len(x.att)] /\ Len(x.att) \in 1..Len(x.att)
          /\ x.att \in Seq(AttemptState) /\ Last(r, n).status = "running"
        BY <1>1, <2>1, RunTypes, NodeTypes DEF NodeSound, StatusFits, Ends
    <2>3. a \in AttemptState /\ a.status = "running" /\ a.session /\ AttemptSound(n, a)
        <3>1. AttemptSound(n, Last(r, n))
            BY <2>1, <2>2 DEF NodeSound, AttemptsSound
        <3>. QED BY <2>2, <3>1 DEF AttemptState, AttemptSound
    <2>4. y(n) = [x EXCEPT !.att = [x.att EXCEPT ![Len(x.att)] = a]]
        BY <2>1, <2>2 DEF NodeState
    <2>. HIDE DEF a, x, y
    <2>5. /\ [x.att EXCEPT ![Len(x.att)] = a] \in Seq(AttemptState)
          /\ Len([x.att EXCEPT ![Len(x.att)] = a]) = Len(x.att)
          /\ \A i \in 1..Len(x.att) : [x.att EXCEPT ![Len(x.att)] = a][i]
                                        = IF i = Len(x.att) THEN a ELSE x.att[i]
        BY <2>2, <2>3, ExceptSeq
    <2>6. y(n) \in NodeState /\ y(n).status = x.status /\ y(n).att = [x.att EXCEPT ![Len(x.att)] = a]
        BY <2>1, <2>4, <2>5 DEF NodeState
    <2>7. Rewrites(x, y(n), a)
        BY <2>2, <2>5, <2>6 DEF Rewrites
    <2>8. AttemptsSound(n, y(n)) /\ \A st : Ends(y(n), st) <=> a.status = st
        BY <2>1, <2>3, <2>6, <2>7, SoundRewritten DEF NodeSound
    <2>9. StatusFits(n, y(n)) /\ Attended(y(n))
        BY <2>1, <2>3, <2>6, <2>8 DEF StatusFits, Attended
    <2>10. Continues(x, y(n))
        <3>1. Follows(x.att[Len(x.att)], a)
            BY <2>2, <2>3 DEF Follows
        <3>. QED BY <2>1, <2>3, <2>6, <2>7, <3>1, ContinuesRewritten
    <2>11. y(n).att[Len(x.att)].session /\ Len(y(n).att) = Len(x.att)
        BY <2>3, <2>7 DEF Rewrites
    <2>. QED BY <2>6, <2>8, <2>9, <2>10, <2>11 DEF NodeSound, x
<1>3. Reconciled(r) = s
    BY DEF Reconciled
<1>4. \A n \in Node : n \in lost <=> (r.node[n].status = "running" /\ <<n, Used(r, n)>> \in sidecars)
    BY DEF HasStatus
<1>. HIDE DEF y, lost
<1>5. f \in [Node -> NodeState]
    BY <1>1, <1>2, RunTypes
<1>6. s \in RunState /\ s.node = f /\ s.global = r.global /\ s.status = r.status
    <2>. HIDE DEF f
    <2>. QED BY <1>1, <1>5, Reshaped
<1>7. \A n \in Node : s.node[n] = IF n \in lost THEN y(n) ELSE r.node[n]
    BY <1>6
<1>. HIDE DEF f, s
<1>8. \A n \in Node : /\ NodeSound(n, s.node[n]) /\ Attended(s.node[n])
                      /\ Continues(r.node[n], s.node[n])
                      /\ Used(s, n) = Used(r, n) /\ s.node[n].status = r.node[n].status
    BY <1>1, <1>2, <1>7, RunTypes, ContinuesSame DEF Sound, Settled, Used
<1>9. EdgesSound(s)
    BY <1>8, EdgesKept DEF Sound
<1>10. BudgetSound(s)
    BY <1>6, <1>8, BudgetSame DEF Sound
<1>11. Sound(s) /\ Settled(s) /\ Extends(r, s)
    BY <1>6, <1>8, <1>9, <1>10 DEF Sound, Settled, Extends
<1>12. StatusSound(s)
    <2>1. \A S : HasStatus(s, S) = HasStatus(r, S)
        BY <1>8 DEF HasStatus
    <2>. QED BY <1>6, <2>1 DEF StatusSound, AnyFailed, AllTerminal, Unfinished
<1>13. ASSUME NEW x \in sidecars PROVE Linked(s, x)
    <2>1. CASE Linked(r, x)
        BY <1>1, <1>6, <1>11, <2>1, LinkedOn
    <2>2. CASE ~Linked(r, x)
        <3>1. /\ x[1] \in Node /\ Used(r, x[1]) > 0
              /\ x[2] = Used(r, x[1]) /\ r.node[x[1]].status = "running"
            BY <2>2 DEF Underway
        <3>2. CASE x[1] \in lost
            <4>1. s.node[x[1]].att[x[2]].session
                BY <1>2, <1>7, <3>1, <3>2 DEF Used
            <4>2. x[2] \in 1..Used(s, x[1])
                BY <1>1, <1>8, <3>1, RunTypes
            <4>. QED BY <3>1, <4>1, <4>2 DEF Linked
        <3>3. CASE x[1] \notin lost
            <4>1. x = <<x[1], x[2]>>
                OBVIOUS
            <4>. QED BY <1>4, <3>1, <3>3, <4>1
        <3>. QED BY <3>2, <3>3
    <2>. QED BY <2>1, <2>2
<1>. QED BY <1>3, <1>8, <1>11, <1>12, <1>13

-----------------------------------------------------------------------------
(* The first state, and the steps all actions are made of.                 *)

LEMMA PlannedSound == Sound(PlannedRun) /\ Settled(PlannedRun) /\ StatusSound(PlannedRun)
<1>. DEFINE r == PlannedRun
            x == [status |-> "pending", att |-> << >>]
<1>1. r.node = [n \in Node |-> x] /\ r.global = 0 /\ r.status = "planning" /\ r.criteria = NoNode
    BY DEF PlannedRun
<1>2. x \in NodeState
    BY EmptySeq DEF NodeState
<1>3. r \in RunState
    <2>. HIDE DEF x
    <2>1. r.node \in [Node -> NodeState]
        BY <1>1, <1>2
    <2>2. r = [status |-> "planning", global |-> 0, criteria |-> NoNode, node |-> r.node]
        BY <1>1 DEF PlannedRun, x
    <2>. QED BY <2>1, <2>2 DEF RunState
<1>. HIDE DEF r
<1>4. \A n \in Node : r.node[n].status = "pending" /\ Len(r.node[n].att) = 0 /\ Used(r, n) = 0
    BY <1>1, EmptySeq DEF Used
<1>5. \A n \in Node : NodeSound(n, r.node[n]) /\ Attended(r.node[n])
    <2>1. \A n \in Node : Limit[n] \in Nat
        BY GraphAssumption DEF GraphDefSchema
    <2>. QED BY <1>4, <2>1 DEF NodeSound, AttemptsSound, StatusFits, Attended, Ends
<1>6. History(r) = {}
    <2>1. ASSUME NEW y \in History(r) PROVE FALSE
        <3>1. y[1] \in Node /\ y[2] \in 1..Used(r, y[1])
            BY <2>1, HistoryShape
        <3>. QED BY <1>4, <3>1
    <2>. QED BY <2>1
<1>7. BudgetSound(r)
    <2>1. MaxGlobal \in Nat
        BY GraphAssumption DEF GraphDefSchema
    <2>. QED BY <1>1, <1>6, <2>1, FS_EmptySet DEF BudgetSound
<1>8. EdgesSound(r)
    BY <1>4 DEF EdgesSound
<1>9. StatusSound(r)
    BY <1>1, <1>4 DEF StatusSound, HasStatus
<1>. QED BY <1>3, <1>5, <1>7, <1>8, <1>9 DEF Sound, Settled, r

LEMMA InitInv == Init => IInv
<1>. SUFFICES ASSUME Init PROVE IInv
    OBVIOUS
<1>1. Sound(PlannedRun) /\ Settled(PlannedRun) /\ StatusSound(PlannedRun) /\ PlannedRun \in RunState
    BY PlannedSound DEF Sound
<1>2. TypeOK
    BY <1>1 DEF Init, TypeOK, Phase, ChildState, NoChild
<1>3. StatesSound
    <2>1. Extends(PlannedRun, PlannedRun)
        BY <1>1, ExtendsSame
    <2>. QED BY <1>1, <2>1 DEF Init, StatesSound
<1>4. QueueReady /\ ChildrenTracked /\ HistoriesAgree /\ BlockedHasCause
    BY DEF Init, QueueReady, ChildrenTracked, NoChild, HistoriesAgree, BlockedHasCause
<1>5. DoneKept
    <2>1. HasStatus(PlannedRun, {"done"}) = {} /\ HasStatus(PlannedRun, {"failed"}) = {}
        BY DEF PlannedRun, HasStatus
    <2>. QED BY <2>1 DEF Init, DoneKept
<1>. QED BY <1>2, <1>3, <1>4, <1>5 DEF IInv, Inv

LEMMA InvRuns == ASSUME IInv
    PROVE /\ Sound(disk) /\ Settled(disk) /\ StatusSound(disk) /\ Sound(mem) /\ StatusSound(mem)
          /\ disk \in RunState /\ mem \in RunState /\ Extends(disk, mem)
          /\ phase # "routeSave" => Settled(mem)
          /\ phase \notin {"idle", "preflightSave", "finalSave"} => mem.status = "running"
BY DEF IInv, Inv, StatesSound, Sound

\* The memory moves on, the disk stays.
LEMMA MemoryMoves ==
    ASSUME IInv, phase # "idle", Sound(mem'), Extends(mem, mem'),
           UNCHANGED <<disk, sidecars, launched>>
    PROVE Extends(disk', mem') /\ HistoriesAgree'
<1>1. Sound(disk) /\ Sound(mem) /\ disk \in RunState /\ mem \in RunState /\ mem' \in RunState
      /\ Extends(disk, mem)
    BY InvRuns DEF Sound
<1>2. Extends(disk', mem')
    BY <1>1, ExtendsOn
<1>3. \A x \in sidecars : Linked(mem', x)
    BY <1>1, LinkedOn DEF IInv, Inv, HistoriesAgree
<1>. QED BY <1>2, <1>3 DEF IInv, Inv, HistoriesAgree

\* The memory becomes the disk.
LEMMA MemorySaved ==
    ASSUME IInv, phase # "idle", Save, UNCHANGED <<mem, sidecars, launched>>
    PROVE /\ Sound(disk') /\ Settled(disk') /\ StatusSound(disk') /\ Extends(disk', mem')
          /\ disk' = mem /\ Settled(mem)
          /\ HistoriesAgree' /\ DoneKept'
<1>1. Sound(mem) /\ Settled(mem) /\ StatusSound(mem) /\ disk' = mem /\ mem \in RunState
      /\ disk \in RunState /\ Extends(disk, mem)
    BY InvRuns, ValidIsSettled DEF Save
<1>2. Extends(mem, mem)
    BY <1>1, ExtendsSame
<1>3. HistoriesAgree'
    <2>1. History(disk) \subseteq History(mem)
        BY <1>1, HistoryGrows
    <2>. QED BY <1>1, <2>1 DEF IInv, Inv, HistoriesAgree
<1>4. DoneKept'
    BY <1>1 DEF DoneKept, HasStatus
<1>. QED BY <1>1, <1>2, <1>3, <1>4

\* The call is gone.
LEMMA AbandonInv == ASSUME IInv, Abandon PROVE Inv'
<1>1. Sound(disk) /\ Settled(disk) /\ StatusSound(disk) /\ disk \in RunState
    BY InvRuns
<1>2. Extends(disk, disk)
    BY <1>1, ExtendsSame
<1>3. StatesSound'
    BY <1>1, <1>2 DEF StatesSound, Abandon
<1>4. QueueReady' /\ ChildrenTracked' /\ BlockedHasCause'
    BY DEF QueueReady, ChildrenTracked, BlockedHasCause, Abandon, NoChild
<1>5. HistoriesAgree'
    BY DEF IInv, Inv, HistoriesAgree, Abandon
<1>6. DoneKept'
    BY DEF DoneKept, Abandon, HasStatus
<1>. QED BY <1>3, <1>4, <1>5, <1>6 DEF Inv

-----------------------------------------------------------------------------
(* The tool calls.                                                         *)

LEMMA LoadedRun == ASSUME IInv
    PROVE LET s == Reconciled(disk) IN
          /\ Sound(s) /\ Settled(s) /\ StatusSound(s) /\ Extends(disk, s)
          /\ \A n \in Node : s.node[n].status = disk.node[n].status /\ Used(s, n) = Used(disk, n)
          /\ \A x \in sidecars : Linked(s, x)
BY InvRuns, ReconciledRun DEF IInv, Inv, HistoriesAgree, TypeOK

\* executeRun starts on a state that continues the loaded one and keeps what is done.
LEMMA OpenInv ==
    ASSUME IInv, NEW r, Open(r), Sound(r), Settled(r), Extends(Reconciled(disk), r),
           \A n \in HasStatus(Reconciled(disk), {"done"}) : r.node[n].status = "done"
    PROVE Inv'
<1>. DEFINE s == Reconciled(disk)
            m == [r EXCEPT !.status = "running"]
<1>1. /\ Sound(s) /\ Settled(s) /\ StatusSound(s) /\ Extends(disk, s)
      /\ \A n \in Node : s.node[n].status = disk.node[n].status /\ Used(s, n) = Used(disk, n)
      /\ \A x \in sidecars : Linked(s, x)
    BY LoadedRun
<1>2. disk \in RunState /\ s \in RunState /\ r \in RunState
    BY <1>1, InvRuns DEF Sound
<1>3. disk' = s /\ mem' = m
    BY DEF Open
<1>. HIDE DEF s
<1>4. m \in RunState /\ m.node = r.node /\ m.global = r.global /\ m.status = "running"
    BY <1>2 DEF RunState
<1>. HIDE DEF m
<1>5. Sound(m) /\ Settled(m) /\ StatusSound(m)
    <2>1. \A n \in Node : Used(m, n) = Used(r, n)
        BY <1>4 DEF Used
    <2>2. BudgetSound(m)
        BY <1>4, <2>1, BudgetSame DEF Sound
    <2>3. EdgesSound(m)
        BY <1>4, EdgesKept DEF Sound
    <2>. QED BY <1>4, <2>2, <2>3 DEF Sound, Settled, StatusSound
<1>6. Extends(s, m)
    <2>1. Extends(r, m)
        BY <1>2, <1>4, ExtendsSame
    <2>2. Extends(s, r)
        BY DEF s
    <2>. QED BY <1>2, <1>4, <2>1, <2>2, ExtendsOn
<1>7. StatesSound'
    BY <1>1, <1>3, <1>4, <1>5, <1>6 DEF Open, StatesSound
<1>8. phase = "idle" /\ queue = {} /\ child = NoChild
    BY DEF Open, IInv, Inv, QueueReady, ChildrenTracked, Batching
<1>9. QueueReady' /\ ChildrenTracked' /\ BlockedHasCause'
    BY <1>8 DEF Open, QueueReady, ChildrenTracked, BlockedHasCause, NoChild
<1>10. HistoriesAgree'
    <2>1. History(s) = History(disk)
        BY <1>1, HistorySame
    <2>2. \A x \in sidecars : Linked(m, x)
        BY <1>1, <1>2, <1>4, <1>6, LinkedOn
    <2>. QED BY <1>1, <1>3, <2>1, <2>2 DEF IInv, Inv, HistoriesAgree, Open
<1>11. DoneKept'
    <2>1. \A n \in HasStatus(s, {"done"}) : m.node[n].status = "done"
        BY <1>4 DEF s
    <2>. QED BY <1>3, <2>1 DEF DoneKept, Open
<1>. QED BY <1>7, <1>9, <1>10, <1>11 DEF Inv

LEMMA AlgRunInv == ASSUME IInv, AlgRun PROVE Inv'
<1>1. Sound(Reconciled(disk)) /\ Settled(Reconciled(disk)) /\ Reconciled(disk) \in RunState
    BY LoadedRun DEF Sound
<1>2. Extends(Reconciled(disk), Reconciled(disk))
    BY <1>1, ExtendsSame
<1>3. \A n \in HasStatus(Reconciled(disk), {"done"}) : Reconciled(disk).node[n].status = "done"
    BY DEF HasStatus
<1>. QED BY <1>1, <1>2, <1>3, OpenInv DEF AlgRun

LEMMA AlgResumeInv == ASSUME IInv, AlgResume PROVE Inv'
<1>1. Sound(Reconciled(disk)) /\ Settled(Reconciled(disk))
    BY LoadedRun
<1>. QED BY <1>1, Resumed, OpenInv DEF AlgResume

LEMMA AlgCloseInv == ASSUME IInv, AlgClose PROVE Inv'
<1>. DEFINE s == Reconciled(disk)
<1>1. /\ Sound(s) /\ Settled(s) /\ StatusSound(s) /\ Extends(disk, s)
      /\ \A n \in Node : s.node[n].status = disk.node[n].status /\ Used(s, n) = Used(disk, n)
      /\ \A x \in sidecars : Linked(s, x)
    BY LoadedRun
<1>2. disk \in RunState /\ s \in RunState
    BY <1>1, InvRuns DEF Sound
<1>3. /\ Sound(disk') /\ Settled(disk') /\ StatusSound(disk') /\ Extends(s, disk')
      /\ mem' = disk' /\ phase = "idle" /\ phase' = "idle"
    <2>1. CASE SchemaValid(Closed(s))
        <3>1. disk' = Closed(s)
            BY <2>1 DEF AlgClose
        <3>2. mem' = disk' /\ phase = "idle" /\ phase' = "idle"
            BY DEF AlgClose
        <3>. HIDE DEF s
        <3>. QED BY <1>1, <2>1, <3>1, <3>2, ClosedRun
    <2>2. CASE ~SchemaValid(Closed(s))
        <3>1. disk' = s
            BY <2>2 DEF AlgClose
        <3>2. mem' = disk' /\ phase = "idle" /\ phase' = "idle"
            BY DEF AlgClose
        <3>. HIDE DEF s
        <3>. QED BY <1>1, <1>2, <3>1, <3>2, ExtendsSame
    <2>. QED BY <2>1, <2>2
<1>4. disk' \in RunState
    BY <1>3 DEF Sound
<1>. HIDE DEF s
<1>5. StatesSound'
    <2>1. Extends(disk', disk')
        BY <1>4, ExtendsSame
    <2>. QED BY <1>3, <2>1 DEF StatesSound
<1>6. queue = {} /\ child = NoChild
    BY <1>3 DEF IInv, Inv, QueueReady, ChildrenTracked, Batching
<1>7. QueueReady' /\ ChildrenTracked' /\ BlockedHasCause'
    BY <1>3, <1>6 DEF AlgClose, QueueReady, ChildrenTracked, BlockedHasCause, NoChild
<1>8. HistoriesAgree'
    <2>1. History(disk) \subseteq History(disk')
        <3>1. Extends(disk, disk')
            BY <1>1, <1>2, <1>3, <1>4, ExtendsOn
        <3>. QED BY <1>2, <1>4, <3>1, HistoryGrows
    <2>2. \A x \in sidecars : Linked(disk', x)
        BY <1>1, <1>2, <1>3, <1>4, LinkedOn
    <2>. QED BY <1>3, <2>1, <2>2 DEF IInv, Inv, HistoriesAgree, AlgClose
<1>9. DoneKept'
    BY <1>3 DEF DoneKept, HasStatus
<1>. QED BY <1>5, <1>7, <1>8, <1>9 DEF Inv

-----------------------------------------------------------------------------
(* Saves, waves and batches.                                               *)

LEMMA CommitInv == ASSUME IInv, Commit PROVE Inv'
<1>1. phase \in {"opening", "reserving", "settleSave", "handledSave", "routeSave",
                 "waveSave", "preflightSave", "finalSave"}
      /\ phase' = SaveThen[phase] /\ Save
      /\ UNCHANGED <<sidecars, mem, queue, child, launched>>
    BY SavePhases DEF Commit
<1>2. /\ Sound(disk') /\ Settled(disk') /\ StatusSound(disk') /\ Extends(disk', mem')
      /\ disk' = mem /\ Settled(mem)
      /\ HistoriesAgree' /\ DoneKept'
    <2>1. phase # "idle"
        BY <1>1
    <2>. QED BY <1>1, <2>1, MemorySaved
<1>3. /\ phase' \in {"wave", "launch", "batch", "feedback", "waveEnd", "waveSaved", "idle"}
      /\ phase' = "idle" <=> phase \in {"preflightSave", "finalSave"}
      /\ phase' = "launch" <=> phase = "reserving"
      /\ phase' = "batch" <=> phase = "settleSave"
    BY <1>1, SavePhases
<1>4. StatesSound'
    BY <1>1, <1>2, <1>3, InvRuns DEF StatesSound
<1>5. QueueReady'
    BY <1>1, <1>3 DEF IInv, Inv, QueueReady, Batching
<1>6. ChildrenTracked'
    <2>1. phase # "reserving" => child = NoChild
        BY <1>1 DEF IInv, Inv, ChildrenTracked
    <2>2. phase = "reserving" => \A n \in Node : child[n] \in {"none", "reserved"}
        BY DEF IInv, Inv, ChildrenTracked
    <2>. QED BY <1>1, <1>2, <1>3, <2>1, <2>2 DEF IInv, Inv, ChildrenTracked, NoChild, Running
<1>7. BlockedHasCause'
    BY <1>3 DEF BlockedHasCause
<1>. QED BY <1>2, <1>4, <1>5, <1>6, <1>7 DEF Inv

\* How a call ends, and why a blocked one is blocked.
LEMMA FinishedRun ==
    ASSUME NEW r, Sound(r), Settled(r), Finish(r)
    PROVE /\ Sound(mem') /\ Settled(mem') /\ StatusSound(mem') /\ Extends(r, mem')
          /\ mem'.global = r.global
          /\ \A n \in HasStatus(r, {"done"}) : mem'.node[n].status = "done"
          /\ \/ mem'.status # "blocked"
             \/ r.global >= MaxGlobal
             \/ HasStatus(mem', {"running"}) # {}
             \/ ~AllTerminal(r) /\ ReadyNodes(SkipFailedDescendants(r)) # {}
<1>. DEFINE swept == SkipFailedDescendants(r)
            final == FinishGlobalLimit(swept)
            st == IF ~AllTerminal(final) THEN "blocked" ELSE IF AnyFailed(final) THEN "failed" ELSE "done"
            m == [final EXCEPT !.status = st]
<1>1. /\ Sound(swept) /\ Settled(swept) /\ Extends(r, swept) /\ swept.global = r.global
      /\ \A n \in Node :
            /\ swept.node[n].status # r.node[n].status =>
                 r.node[n].status = "pending" /\ swept.node[n].status = "skipped"
            /\ swept.node[n].status = "pending" =>
                 \A d \in Deps[n] : swept.node[d].status \notin {"failed", "skipped"}
    BY Skipped
<1>2. /\ Sound(final) /\ Settled(final) /\ Extends(swept, final) /\ final.global = swept.global
      /\ \A n \in HasStatus(swept, {"done"}) : final.node[n].status = "done"
      /\ swept.global < MaxGlobal => final = swept
    <2>. HIDE DEF swept
    <2>. QED BY <1>1, LimitFinished
<1>3. mem' = m
    BY DEF Finish
<1>. HIDE DEF swept, final
<1>4. r \in RunState /\ swept \in RunState /\ final \in RunState
    BY <1>1, <1>2 DEF Sound
<1>5. st \in {"blocked", "failed", "done"}
    OBVIOUS
<1>6. m \in RunState /\ m.node = final.node /\ m.global = final.global /\ m.status = st
    <2>. HIDE DEF st
    <2>. QED BY <1>4, <1>5 DEF RunState
<1>. HIDE DEF m
<1>7. Sound(m) /\ Settled(m)
    <2>1. BudgetSound(m)
        BY <1>2, <1>6, BudgetSame DEF Sound, Used
    <2>2. EdgesSound(m)
        BY <1>2, <1>6, EdgesKept DEF Sound
    <2>. QED BY <1>2, <1>6, <2>1, <2>2 DEF Sound, Settled
<1>8. AllTerminal(m) = AllTerminal(final) /\ AnyFailed(m) = AnyFailed(final)
      /\ \A S : HasStatus(m, S) = HasStatus(final, S)
    BY <1>6 DEF AllTerminal, AnyFailed, Unfinished, HasStatus
<1>9. StatusSound(m)
    <2>1. CASE st = "done"
        <3>1. AllTerminal(m) /\ ~AnyFailed(m)
            BY <1>8, <2>1
        <3>2. HasStatus(m, {"done"}) = Node
            BY <1>7, <3>1, NoneSkipped
        <3>. QED BY <1>6, <2>1, <3>2 DEF StatusSound
    <2>2. CASE st = "failed"
        BY <1>6, <1>8, <2>2 DEF StatusSound
    <2>3. CASE st = "blocked"
        BY <1>6, <2>3 DEF StatusSound
    <2>. QED BY <1>5, <2>1, <2>2, <2>3
<1>10. Extends(r, m)
    <2>1. Extends(final, m)
        BY <1>4, <1>6, ExtendsSame
    <2>2. Extends(r, final)
        BY <1>1, <1>2, <1>4, ExtendsOn
    <2>. QED BY <1>4, <1>6, <2>1, <2>2, ExtendsOn
<1>11. \A n \in HasStatus(r, {"done"}) : m.node[n].status = "done"
    <2>1. \A n \in HasStatus(r, {"done"}) : n \in HasStatus(swept, {"done"})
        BY <1>1 DEF HasStatus
    <2>. QED BY <1>2, <1>6, <2>1
<1>12. ASSUME m.status = "blocked", ~(r.global >= MaxGlobal), HasStatus(m, {"running"}) = {}
       PROVE ~AllTerminal(r) /\ ReadyNodes(swept) # {}
    <2>1. final = swept
        <3>1. r.global \in Nat /\ MaxGlobal \in Nat
            BY <1>4, RunTypes, GraphAssumption DEF GraphDefSchema
        <3>. QED BY <1>1, <1>2, <1>12, <3>1
    <2>2. ~AllTerminal(swept) /\ HasStatus(swept, {"running"}) = {}
        <3>1. ~AllTerminal(final)
            BY <1>6, <1>12
        <3>. QED BY <1>8, <1>12, <2>1, <3>1
    <2>3. ReadyNodes(swept) # {}
        BY <1>1, <2>2, SomeReady
    <2>4. ~AllTerminal(r)
        BY <1>1, <2>2 DEF AllTerminal, Unfinished, HasStatus
    <2>. QED BY <2>3, <2>4
<1>. QED BY <1>1, <1>2, <1>3, <1>6, <1>7, <1>9, <1>10, <1>11, <1>12 DEF swept

\* The end of a call, from any phase that ends it.
LEMMA FinishInv ==
    ASSUME IInv, Finish(mem), phase \in {"wave", "waveSaved"},
           UNCHANGED <<disk, sidecars, queue, child, wave, cancelled, launched>>,
           \/ cancelled \/ wave >= MaxWaves \/ mem.global >= MaxGlobal \/ AllTerminal(mem)
           \/ ReadyNodes(SkipFailedDescendants(mem)) = {}
    PROVE Inv'
<1>1. Settled(mem) /\ Sound(mem) /\ phase' = "finalSave"
    BY InvRuns DEF Finish
<1>2. /\ Sound(mem') /\ Settled(mem') /\ StatusSound(mem') /\ Extends(mem, mem')
      /\ mem'.global = mem.global
      /\ \A n \in HasStatus(mem, {"done"}) : mem'.node[n].status = "done"
      /\ \/ mem'.status # "blocked"
         \/ mem.global >= MaxGlobal
         \/ HasStatus(mem', {"running"}) # {}
         \/ ~AllTerminal(mem) /\ ReadyNodes(SkipFailedDescendants(mem)) # {}
    BY <1>1, FinishedRun
<1>3. Extends(disk', mem') /\ HistoriesAgree'
    BY <1>2, MemoryMoves
<1>4. StatesSound'
    BY <1>1, <1>2, <1>3, InvRuns DEF StatesSound
<1>5. queue = {} /\ child = NoChild
    BY DEF IInv, Inv, QueueReady, ChildrenTracked, Batching
<1>6. QueueReady' /\ ChildrenTracked'
    BY <1>1, <1>5 DEF QueueReady, ChildrenTracked, NoChild
<1>7. BlockedHasCause'
    BY <1>2 DEF BlockedHasCause
<1>8. DoneKept'
    <2>1. \A n \in HasStatus(disk, {"done"}) : n \in HasStatus(mem, {"done"})
        BY DEF IInv, Inv, DoneKept, HasStatus
    <2>. QED BY <1>1, <1>2, <2>1 DEF DoneKept
<1>. QED BY <1>3, <1>4, <1>6, <1>7, <1>8 DEF Inv

LEMMA WaveStartInv == ASSUME IInv, WaveStart PROVE Inv'
<1>. DEFINE swept == SkipFailedDescendants(mem)
            stop == wave >= MaxWaves \/ cancelled \/ AllTerminal(mem)
<1>1. phase = "wave" /\ UNCHANGED <<disk, sidecars, child, cancelled, launched>>
    BY DEF WaveStart
<1>2. CASE stop \/ ReadyNodes(swept) = {}
    <2>1. Finish(mem) /\ UNCHANGED <<queue, wave>>
        BY <1>2 DEF WaveStart
    <2>. QED BY <1>1, <1>2, <2>1, FinishInv
<1>3. CASE ~(stop \/ ReadyNodes(swept) = {})
    <2>1. mem' = swept /\ queue' = ReadyNodes(swept) /\ phase' = "batch"
        BY <1>3 DEF WaveStart
    <2>2. /\ Sound(swept) /\ Settled(swept) /\ Extends(mem, swept) /\ swept.status = mem.status
          /\ \A n \in Node :
                /\ swept.node[n].att = mem.node[n].att
                /\ swept.node[n].status # mem.node[n].status =>
                     mem.node[n].status = "pending" /\ swept.node[n].status = "skipped"
        BY <1>1, InvRuns, Skipped
    <2>. HIDE DEF swept
    <2>3. Extends(disk', mem') /\ HistoriesAgree'
        BY <1>1, <2>1, <2>2, MemoryMoves
    <2>4. StatesSound'
        BY <1>1, <2>1, <2>2, <2>3, InvRuns DEF StatesSound, StatusSound
    <2>5. child = NoChild
        BY <1>1 DEF IInv, Inv, ChildrenTracked
    <2>6. QueueReady' /\ ChildrenTracked' /\ BlockedHasCause'
        BY <1>1, <2>1, <2>5 DEF QueueReady, ReadyNodes, HasStatus, Batching, ChildrenTracked, NoChild,
                                BlockedHasCause
    <2>7. DoneKept'
        <3>1. \A n \in HasStatus(mem, {"failed"}) : disk.node[n] = mem.node[n]
            BY <1>1 DEF IInv, Inv, DoneKept
        <3>2. \A n \in HasStatus(disk, {"done"}) : swept.node[n].status = "done"
            BY <1>1, <2>2 DEF IInv, Inv, DoneKept, HasStatus
        <3>3. \A n \in HasStatus(swept, {"failed"}) : disk.node[n] = swept.node[n]
            <4>1. \A n \in Node : swept.node[n] \in NodeState /\ mem.node[n] \in NodeState
                BY <2>2, InvRuns, RunTypes DEF Sound
            <4>. QED BY <2>2, <3>1, <4>1 DEF HasStatus, NodeState
        <3>. QED BY <1>1, <2>1, <3>2, <3>3 DEF DoneKept
    <2>. QED BY <2>3, <2>4, <2>6, <2>7 DEF Inv
<1>. QED BY <1>2, <1>3

LEMMA ReserveNextInv == ASSUME IInv, ReserveNext PROVE Inv'
<1>. DEFINE batch == NextBatch
            S == Reserved(mem, batch)
            s == ReserveBatch(mem, batch)
<1>1. /\ phase = "batch" /\ phase' = "reserving" /\ UNCHANGED <<disk, sidecars, launched>>
      /\ mem' = s /\ queue' = queue \ batch
      /\ child' = [n \in Node |-> IF n \in S THEN "reserved" ELSE "none"]
    BY DEF ReserveNext
<1>2. batch \subseteq queue /\ queue \in SUBSET Node
    BY DEF NextBatch, IInv, TypeOK
<1>3. \A n \in queue : mem.node[n].status = "pending" /\ DependenciesDone(mem, n)
    BY DEF IInv, Inv, QueueReady
<1>4. batch \in SUBSET ReadyNodes(mem)
    BY <1>2, <1>3 DEF ReadyNodes, HasStatus
<1>. HIDE DEF batch
<1>5. /\ Sound(s) /\ Settled(s) /\ Extends(mem, s) /\ s.status = mem.status
      /\ \A n \in Node : n \notin batch => s.node[n] = mem.node[n]
      /\ \A n \in S : n \in Node /\ s.node[n].status = "running" /\ Used(s, n) = Used(mem, n) + 1
    BY <1>1, <1>4, InvRuns, BatchReserved
<1>6. S \subseteq batch
    BY DEF Reserved
<1>. HIDE DEF S, s
<1>7. Extends(disk', mem') /\ HistoriesAgree'
    BY <1>1, <1>5, MemoryMoves
<1>8. StatesSound'
    BY <1>1, <1>5, <1>7, InvRuns DEF StatesSound, StatusSound
<1>9. ASSUME NEW n \in S PROVE <<n, Used(s, n)>> \notin launched
    <2>1. SUFFICES ASSUME <<n, Used(s, n)>> \in launched PROVE FALSE
        OBVIOUS
    <2>2. disk \in RunState /\ mem \in RunState /\ Extends(disk, mem)
        BY InvRuns
    <2>3. <<n, Used(s, n)>> \in History(mem)
        BY <2>1, <2>2, HistoryGrows DEF IInv, Inv, HistoriesAgree
    <2>4. n \in Node /\ Used(mem, n) \in Nat /\ Used(s, n) = Used(mem, n) + 1
        BY <1>5, <2>2, RunTypes
    <2>. QED BY <2>2, <2>3, <2>4, HistoryMember
<1>10. ChildrenTracked'
    BY <1>1, <1>5, <1>9 DEF ChildrenTracked, Running
<1>11. QueueReady'
    <2>1. ASSUME NEW n \in queue \ batch
          PROVE child'[n] = "none" /\ s.node[n].status = "pending" /\ DependenciesDone(s, n)
        <3>1. n \in Node /\ n \notin S
            BY <1>2, <1>6
        <3>2. \A d \in Deps[n] : d \in Node /\ d \notin batch
            <4>1. \A d \in Deps[n] : d \in Node
                BY <3>1, GraphAssumption DEF GraphDefSchema
            <4>. QED BY <1>2, <1>3, <2>1, <4>1 DEF DependenciesDone
        <3>. QED BY <1>1, <1>3, <1>5, <2>1, <3>1, <3>2 DEF DependenciesDone
    <2>. QED BY <1>1, <2>1 DEF QueueReady, Batching
<1>12. DoneKept'
    <2>1. ASSUME NEW n \in HasStatus(disk, {"done"}) PROVE s.node[n].status = "done"
        <3>1. n \in Node /\ mem.node[n].status = "done"
            BY <1>1 DEF IInv, Inv, DoneKept, HasStatus
        <3>2. n \notin batch
            BY <1>2, <1>3, <3>1
        <3>. QED BY <1>5, <3>1, <3>2
    <2>. QED BY <1>1, <2>1 DEF DoneKept
<1>13. BlockedHasCause'
    BY <1>1 DEF BlockedHasCause
<1>. QED BY <1>7, <1>8, <1>10, <1>11, <1>12, <1>13 DEF Inv

LEMMA PreflightFailsInv == ASSUME IInv, PreflightFails PROVE Inv'
<1>. DEFINE m == [mem EXCEPT !.status = "blocked"]
<1>1. /\ phase = "batch" /\ phase' = "preflightSave" /\ mem' = m /\ queue' = {}
      /\ UNCHANGED <<disk, sidecars, child, launched>>
    BY DEF PreflightFails
<1>2. /\ m \in RunState /\ m.node = mem.node /\ m.global = mem.global /\ m.status = "blocked"
      /\ mem \in RunState
    BY InvRuns DEF RunState
<1>. HIDE DEF m
<1>3. Sound(m) /\ Settled(m) /\ StatusSound(m)
    <2>1. Sound(mem) /\ Settled(mem)
        BY <1>1, InvRuns
    <2>2. BudgetSound(m)
        BY <1>2, <2>1, BudgetSame DEF Sound, Used
    <2>3. EdgesSound(m)
        BY <1>2, <2>1, EdgesKept DEF Sound
    <2>. QED BY <1>2, <2>1, <2>2, <2>3 DEF Sound, Settled, StatusSound
<1>4. Extends(mem, m)
    BY <1>2, ExtendsSame
<1>5. Extends(disk', mem') /\ HistoriesAgree'
    BY <1>1, <1>3, <1>4, MemoryMoves
<1>6. StatesSound'
    BY <1>1, <1>2, <1>3, <1>5, InvRuns DEF StatesSound
<1>7. child = NoChild
    BY <1>1 DEF IInv, Inv, ChildrenTracked
<1>8. QueueReady' /\ ChildrenTracked' /\ BlockedHasCause'
    BY <1>1, <1>7 DEF QueueReady, ChildrenTracked, NoChild, BlockedHasCause
<1>9. DoneKept'
    BY <1>1, <1>2 DEF IInv, Inv, DoneKept, HasStatus
<1>. QED BY <1>5, <1>6, <1>8, <1>9 DEF Inv

\* Steps that leave the disk, the memory and the sidecars alone.
LEMMA StatesKept ==
    ASSUME IInv, UNCHANGED <<disk, mem, sidecars, launched>>,
           phase' # "idle" => phase # "idle",
           phase' # "routeSave" => phase # "routeSave",
           phase' \notin {"idle", "preflightSave", "finalSave"} =>
                phase \notin {"idle", "preflightSave", "finalSave"},
           phase' \in {"idle", "launch"} => phase \in {"idle", "launch"}
    PROVE StatesSound' /\ HistoriesAgree'
<1>1. StatesSound'
    BY DEF IInv, Inv, StatesSound
<1>2. HistoriesAgree'
    BY DEF IInv, Inv, HistoriesAgree
<1>. QED BY <1>1, <1>2

LEMMA WaveBatchedInv == ASSUME IInv, WaveBatched PROVE Inv'
<1>1. /\ phase = "batch" /\ phase' = "feedback" /\ queue' = {}
      /\ UNCHANGED <<disk, mem, sidecars, child, launched>>
    BY DEF WaveBatched
<1>2. StatesSound' /\ HistoriesAgree'
    BY <1>1, StatesKept
<1>3. child = NoChild
    BY <1>1 DEF IInv, Inv, ChildrenTracked
<1>4. QueueReady' /\ ChildrenTracked' /\ BlockedHasCause'
    BY <1>1, <1>3 DEF QueueReady, ChildrenTracked, NoChild, BlockedHasCause
<1>5. DoneKept'
    BY <1>1 DEF IInv, Inv, DoneKept, HasStatus
<1>. QED BY <1>2, <1>4, <1>5 DEF Inv

LEMMA LaunchInv == ASSUME IInv, Launch PROVE Inv'
<1>. DEFINE reserved == {n \in Node : child[n] = "reserved"}
<1>1. /\ phase = "launch" /\ phase' = "children" /\ UNCHANGED <<disk, sidecars, mem, queue>>
      /\ child' = [n \in Node |-> IF n \notin reserved THEN child[n]
                                  ELSE IF cancelled THEN "rejected" ELSE "working"]
      /\ launched' = IF cancelled THEN launched
                     ELSE launched \cup {<<n, Used(mem, n)>> : n \in reserved}
    BY DEF Launch
<1>2. mem = disk /\ Sound(mem) /\ mem \in RunState
    BY <1>1, InvRuns DEF IInv, Inv, StatesSound
<1>3. \A n \in reserved : n \in Node /\ Running(mem, n)
    BY DEF IInv, Inv, ChildrenTracked
<1>4. \A n \in Node : child[n] \in {"none", "reserved"}
    BY <1>1 DEF IInv, Inv, ChildrenTracked
<1>5. StatesSound'
    BY <1>1 DEF IInv, Inv, StatesSound
<1>6. HistoriesAgree'
    <2>1. ASSUME NEW n \in reserved PROVE <<n, Used(mem, n)>> \in History(disk)
        <3>1. n \in Node /\ mem.node[n].status = "running"
            BY <1>3 DEF Running
        <3>2. Used(mem, n) > 0 /\ Used(mem, n) \in Nat
            BY <1>2, <3>1, RunTypes DEF Sound, NodeSound, StatusFits, Ends
        <3>. QED BY <1>2, <3>1, <3>2, HistoryMember
    <2>2. launched' \subseteq History(disk)
        BY <1>1, <2>1 DEF IInv, Inv, HistoriesAgree
    <2>. QED BY <1>1, <2>2 DEF IInv, Inv, HistoriesAgree
<1>7. QueueReady'
    <2>1. \A n \in queue : n \in Node /\ child[n] = "none"
        BY DEF IInv, Inv, QueueReady, TypeOK
    <2>. QED BY <1>1, <2>1 DEF IInv, Inv, QueueReady, Batching
<1>8. ChildrenTracked'
    BY <1>1, <1>2, <1>3, <1>4 DEF ChildrenTracked, Running
<1>9. DoneKept' /\ BlockedHasCause'
    BY <1>1 DEF IInv, Inv, DoneKept, BlockedHasCause, HasStatus
<1>. QED BY <1>5, <1>6, <1>7, <1>8, <1>9 DEF Inv

-----------------------------------------------------------------------------
(* The children of a batch.                                                *)

\* While the children run, a done node of the disk is done in memory.
LEMMA ChildrenDone == ASSUME IInv, phase # "routeSave"
                      PROVE \A n \in HasStatus(disk, {"done"}) : n \in Node /\ mem.node[n].status = "done"
BY DEF IInv, Inv, DoneKept, HasStatus

\* One running node of the memory changes: what the queue and the other children need stays.
LEMMA QueueKept ==
    ASSUME IInv, phase = "children", phase' \in Batching, UNCHANGED queue,
           NEW S \in SUBSET Node, \A n \in S : Running(mem, n),
           \A n \in Node : n \notin S => mem'.node[n] = mem.node[n],
           \A n \in Node : child[n] = "none" => child'[n] = "none"
    PROVE QueueReady'
<1>1. ASSUME NEW n \in queue
      PROVE child'[n] = "none" /\ mem'.node[n].status = "pending" /\ DependenciesDone(mem', n)
    <2>1. n \in Node /\ child[n] = "none" /\ mem.node[n].status = "pending" /\ DependenciesDone(mem, n)
        BY DEF IInv, Inv, QueueReady, TypeOK
    <2>2. n \notin S
        BY <2>1 DEF Running
    <2>3. \A d \in Deps[n] : d \in Node /\ d \notin S
        <3>1. \A d \in Deps[n] : d \in Node
            BY <2>1, GraphAssumption DEF GraphDefSchema
        <3>. QED BY <2>1, <3>1 DEF DependenciesDone, Running
    <2>. QED BY <2>1, <2>2, <2>3 DEF DependenciesDone
<1>. QED BY <1>1 DEF QueueReady

LEMMA SessionCreatedInv == ASSUME IInv, NEW n \in Node, SessionCreated(n) PROVE Inv'
<1>. DEFINE a == [Last(mem, n) EXCEPT !.session = TRUE]
            s == SetLast(mem, n, a)
<1>1. /\ phase = "children" /\ phase' = "children" /\ child[n] = "working"
      /\ UNCHANGED <<disk, queue, launched>>
      /\ mem' = s /\ sidecars' = sidecars \cup {<<n, Used(mem, n)>>}
      /\ child' = [child EXCEPT ![n] = "linking"]
    BY DEF SessionCreated
<1>2. Sound(mem) /\ Settled(mem) /\ mem \in RunState /\ disk \in RunState /\ Extends(disk, mem)
      /\ mem.status = "running"
    BY <1>1, InvRuns
<1>3. Running(mem, n) /\ Running(disk, n) /\ Used(disk, n) = Used(mem, n)
    BY <1>1 DEF IInv, Inv, ChildrenTracked
<1>4. /\ mem.node[n] \in NodeState /\ NodeSound(n, mem.node[n]) /\ Ends(mem.node[n], "running")
      /\ Last(mem, n) = mem.node[n].att[Len(mem.node[n].att)] /\ Last(mem, n) \in AttemptState
      /\ Used(mem, n) = Len(mem.node[n].att) /\ Used(mem, n) > 0 /\ Used(mem, n) \in Nat
    BY <1>2, <1>3, RunTypes DEF Sound, NodeSound, StatusFits, Ends, Running
<1>5. a \in AttemptState /\ a.status = "running" /\ a.session /\ AttemptSound(n, a)
    <2>1. AttemptSound(n, Last(mem, n)) /\ Last(mem, n).status = "running"
        BY <1>4 DEF NodeSound, AttemptsSound, Ends
    <2>. QED BY <1>4, <2>1 DEF AttemptState, AttemptSound
<1>. HIDE DEF a
<1>6. /\ s \in RunState /\ s.global = mem.global /\ s.status = mem.status
      /\ Rewrites(mem.node[n], s.node[n], a)
      /\ s.node[n].status = mem.node[n].status
      /\ \A m \in Node : m # n => s.node[m] = mem.node[m]
      /\ \A m \in Node : Used(s, m) = Used(mem, m)
    BY <1>2, <1>4, <1>5, LastSet
<1>. HIDE DEF s
<1>7. s.node[n] \in NodeState
    BY <1>6, RunTypes
<1>8. NodeSound(n, s.node[n]) /\ Attended(s.node[n]) /\ Continues(mem.node[n], s.node[n])
    <2>1. AttemptsSound(n, s.node[n]) /\ \A st : Ends(s.node[n], st) <=> a.status = st
        BY <1>4, <1>5, <1>6, <1>7, SoundRewritten DEF NodeSound
    <2>2. s.node[n].status = "running"
        BY <1>3, <1>6 DEF Running
    <2>3. Follows(mem.node[n].att[Len(mem.node[n].att)], a)
        BY <1>4, <1>5 DEF Follows, Ends
    <2>4. Continues(mem.node[n], s.node[n])
        BY <1>4, <1>5, <1>6, <1>7, <2>3, ContinuesRewritten
    <2>. QED BY <1>5, <2>1, <2>2, <2>4 DEF NodeSound, StatusFits, Attended
<1>9. Sound(s) /\ Settled(s) /\ Extends(mem, s)
    <2>1. \A m \in Node : NodeSound(m, s.node[m]) /\ Attended(s.node[m]) /\ Continues(mem.node[m], s.node[m])
        BY <1>2, <1>6, <1>8, RunTypes, ContinuesSame DEF Sound, Settled
    <2>2. BudgetSound(s)
        BY <1>2, <1>6, BudgetSame DEF Sound
    <2>3. EdgesSound(s)
        <3>1. \A m \in Node : s.node[m].status = mem.node[m].status
            BY <1>6
        <3>. QED BY <1>2, <3>1, EdgesKept DEF Sound
    <2>. QED BY <1>6, <2>1, <2>2, <2>3 DEF Sound, Settled, Extends
<1>10. Extends(disk, s)
    BY <1>2, <1>6, <1>9, ExtendsOn
<1>11. StatesSound'
    <2>1. StatusSound(s)
        BY <1>2, <1>6 DEF StatusSound
    <2>. QED BY <1>1, <1>2, <1>6, <1>9, <1>10, <2>1, InvRuns DEF StatesSound
<1>12. HistoriesAgree'
    <2>1. \A x \in sidecars : Linked(s, x)
        BY <1>1, <1>2, <1>6, <1>9, LinkedOn DEF IInv, Inv, HistoriesAgree
    <2>2. Underway(disk, <<n, Used(mem, n)>>)
        BY <1>3, <1>4 DEF Underway, Running
    <2>3. Linked(s, <<n, Used(mem, n)>>)
        <3>1. s.node[n].att[Used(mem, n)].session
            BY <1>4, <1>5, <1>6 DEF Rewrites
        <3>2. Used(mem, n) \in 1..Used(s, n)
            BY <1>4, <1>6
        <3>. QED BY <3>1, <3>2 DEF Linked
    <2>. QED BY <1>1, <2>1, <2>2, <2>3 DEF IInv, Inv, HistoriesAgree
<1>13. QueueReady'
    <2>1. \A m \in Node : child[m] = "none" => child'[m] = "none"
        BY <1>1 DEF IInv, TypeOK
    <2>2. \A m \in Node : m \notin {n} => mem'.node[m] = mem.node[m]
        BY <1>1, <1>6
    <2>3. {n} \in SUBSET Node /\ \A m \in {n} : Running(mem, m)
        BY <1>3
    <2>. QED BY <1>1, <2>1, <2>2, <2>3, QueueKept DEF Batching
<1>14. ChildrenTracked'
    <2>1. child' \in [Node -> ChildState] /\ child'[n] = "linking"
          /\ \A m \in Node : m # n => child'[m] = child[m]
        BY <1>1 DEF IInv, TypeOK, ChildState
    <2>2. Running(s, n) /\ \A m \in Node : Used(s, m) = Used(mem, m) /\ (Running(s, m) <=> Running(mem, m))
        BY <1>3, <1>6 DEF Running
    <2>. QED BY <1>1, <2>1, <2>2 DEF IInv, Inv, ChildrenTracked, Running
<1>15. DoneKept'
    <2>1. \A m \in HasStatus(disk, {"done"}) : s.node[m].status = "done"
        BY <1>1, <1>6, ChildrenDone
    <2>. QED BY <1>1, <2>1 DEF DoneKept
<1>16. BlockedHasCause'
    BY <1>1 DEF BlockedHasCause
<1>. QED BY <1>11, <1>12, <1>13, <1>14, <1>15, <1>16 DEF Inv

\* A child's save: a commit in which the phase stays.
LEMMA ChildSavedInv ==
    ASSUME IInv, NEW n \in Node, phase = "children", Save, NEW st \in {"prompted", "settled"},
           child[n] \in {"linking", "settling"}, st = "prompted" => child[n] = "linking",
           child' = [child EXCEPT ![n] = st],
           UNCHANGED <<sidecars, mem, phase, queue, launched>>
    PROVE Inv'
<1>1. /\ Sound(disk') /\ Settled(disk') /\ StatusSound(disk') /\ Extends(disk', mem')
      /\ disk' = mem /\ Settled(mem)
      /\ HistoriesAgree' /\ DoneKept'
    BY MemorySaved
<1>2. StatesSound'
    BY <1>1, InvRuns DEF StatesSound
<1>3. child' \in [Node -> ChildState] /\ child'[n] = st
      /\ \A m \in Node : m # n => child'[m] = child[m]
    BY DEF IInv, TypeOK, ChildState
<1>4. QueueReady'
    BY <1>3 DEF IInv, Inv, QueueReady, TypeOK, Batching
<1>5. ChildrenTracked'
    BY <1>1, <1>3 DEF IInv, Inv, ChildrenTracked, Running
<1>6. BlockedHasCause'
    BY DEF BlockedHasCause
<1>. QED BY <1>1, <1>2, <1>4, <1>5, <1>6 DEF Inv

LEMMA AnswersInv == ASSUME IInv, NEW n \in Node, Answers(n) PROVE Inv'
<1>1. /\ phase = "children" /\ phase' = "children" /\ child[n] \in {"working", "prompted"}
      /\ UNCHANGED <<disk, sidecars, queue, launched>>
      /\ child' = [child EXCEPT ![n] = "settling"]
    BY DEF Answers
<1>2. PICK o \in OutcomesOf(n) : mem' = Settle(mem, n, o)
    BY DEF Answers
<1>. DEFINE s == Settle(mem, n, o)
<1>3. Running(mem, n) /\ Sound(mem) /\ Settled(mem) /\ mem \in RunState /\ disk \in RunState
    BY <1>1, InvRuns DEF IInv, Inv, ChildrenTracked
<1>4. /\ Sound(s) /\ Extends(mem, s) /\ Settled(s) /\ s.status = mem.status
      /\ \A m \in Node : m # n => s.node[m] = mem.node[m]
      /\ \A m \in Node : Used(s, m) = Used(mem, m)
    BY <1>3, SettledNode DEF Running
<1>. HIDE DEF s
<1>5. Extends(disk', mem') /\ HistoriesAgree'
    BY <1>1, <1>2, <1>4, MemoryMoves DEF s
<1>6. StatesSound'
    BY <1>1, <1>2, <1>4, <1>5, InvRuns DEF StatesSound, StatusSound, s
<1>7. child' \in [Node -> ChildState] /\ child'[n] = "settling"
      /\ \A m \in Node : m # n => child'[m] = child[m]
    BY <1>1 DEF IInv, TypeOK, ChildState
<1>8. mem' = s
    BY <1>2 DEF s
<1>9. QueueReady'
    <2>1. \A m \in Node : child[m] = "none" => child'[m] = "none"
        BY <1>1, <1>7
    <2>2. \A m \in Node : m \notin {n} => mem'.node[m] = mem.node[m]
        BY <1>4, <1>8
    <2>3. {n} \in SUBSET Node /\ \A m \in {n} : Running(mem, m)
        BY <1>3
    <2>. QED BY <1>1, <2>1, <2>2, <2>3, QueueKept DEF Batching
<1>10. ChildrenTracked'
    BY <1>1, <1>4, <1>7, <1>8 DEF IInv, Inv, ChildrenTracked, Running
<1>11. DoneKept'
    <2>1. \A m \in HasStatus(disk, {"done"}) : s.node[m].status = "done"
        BY <1>1, <1>3, <1>4, ChildrenDone DEF Running
    <2>. QED BY <1>1, <1>8, <2>1 DEF DoneKept
<1>12. BlockedHasCause'
    BY <1>1 DEF BlockedHasCause
<1>. QED BY <1>5, <1>6, <1>9, <1>10, <1>11, <1>12 DEF Inv

LEMMA ChildStepInv == ASSUME IInv, NEW n \in Node, ChildStep(n) PROVE Inv'
<1>1. CASE SessionCreated(n)
    BY <1>1, SessionCreatedInv
<1>2. CASE SessionSaved(n)
    BY <1>2, ChildSavedInv DEF SessionSaved
<1>3. CASE Answers(n)
    BY <1>3, AnswersInv
<1>4. CASE OutcomeSaved(n)
    BY <1>4, ChildSavedInv DEF OutcomeSaved
<1>. QED BY <1>1, <1>2, <1>3, <1>4 DEF ChildStep

\* A child that fails without touching the run.
LEMMA ChildFailsInv == ASSUME IInv, NEW n \in Node, Throws(n) \/ ChildSaveFails(n) PROVE Inv'
<1>. DEFINE st == IF Throws(n) THEN "rejected" ELSE "broken"
<1>1. /\ phase = "children" /\ UNCHANGED <<disk, sidecars, mem, phase, queue, launched>>
      /\ child' = [child EXCEPT ![n] = st]
      /\ child[n] # "none"
      /\ st = "rejected" => child[n] \in {"working", "prompted"}
    <2>1. CASE Throws(n)
        BY <2>1 DEF Throws
    <2>2. CASE ~Throws(n)
        BY <2>2 DEF ChildSaveFails
    <2>. QED BY <2>1, <2>2
<1>2. st \in {"rejected", "broken"}
    OBVIOUS
<1>. HIDE DEF st
<1>3. child'[n] = st /\ \A m \in Node : m # n => child'[m] = child[m]
    BY <1>1 DEF IInv, TypeOK
<1>4. StatesSound' /\ HistoriesAgree'
    BY <1>1, StatesKept
<1>5. QueueReady'
    BY <1>1, <1>3 DEF IInv, Inv, QueueReady, TypeOK
<1>6. ChildrenTracked'
    BY <1>1, <1>2, <1>3 DEF IInv, Inv, ChildrenTracked, Running
<1>7. DoneKept' /\ BlockedHasCause'
    BY <1>1 DEF IInv, Inv, DoneKept, BlockedHasCause, HasStatus
<1>. QED BY <1>4, <1>5, <1>6, <1>7 DEF Inv

LEMMA ChildrenSettledInv == ASSUME IInv, ChildrenSettled PROVE Inv'
<1>. DEFINE B == {n \in Node : child[n] \in {"broken"}}
            S == {n \in Node : child[n] \in {"rejected"}}
            s == RecordRejection(mem, S)
<1>1. phase = "children" /\ child' = NoChild /\ UNCHANGED <<disk, sidecars, launched>>
    BY DEF ChildrenSettled
<1>2. CASE B # {}
    <2>1. mem' = disk /\ queue' = {} /\ phase' = "idle"
        BY <1>2 DEF ChildrenSettled
    <2>2. Sound(disk) /\ Settled(disk) /\ StatusSound(disk) /\ disk \in RunState
        BY InvRuns
    <2>3. Extends(disk, disk)
        BY <2>2, ExtendsSame
    <2>4. StatesSound'
        BY <1>1, <2>1, <2>2, <2>3 DEF StatesSound
    <2>5. QueueReady' /\ ChildrenTracked' /\ BlockedHasCause'
        BY <1>1, <2>1 DEF QueueReady, ChildrenTracked, BlockedHasCause, NoChild
    <2>6. HistoriesAgree'
        BY <1>1, <2>1 DEF IInv, Inv, HistoriesAgree
    <2>7. DoneKept'
        BY <1>1, <2>1 DEF DoneKept, HasStatus
    <2>. QED BY <2>4, <2>5, <2>6, <2>7 DEF Inv
<1>3. CASE B = {}
    <2>1. mem' = s /\ phase' = "settleSave" /\ UNCHANGED queue
        BY <1>3 DEF ChildrenSettled
    <2>2. S \in SUBSET Node /\ \A n \in S : n \in Node /\ Running(mem, n)
        BY DEF IInv, Inv, ChildrenTracked
    <2>. HIDE DEF S
    <2>3. /\ Sound(s) /\ Extends(mem, s) /\ Settled(s) /\ s.status = mem.status
          /\ \A m \in Node : m \notin S => s.node[m] = mem.node[m]
        BY <1>1, <2>2, InvRuns, RejectionRecorded DEF Running
    <2>. HIDE DEF s
    <2>4. Extends(disk', mem') /\ HistoriesAgree'
        BY <1>1, <2>1, <2>3, MemoryMoves
    <2>5. StatesSound'
        BY <1>1, <2>1, <2>3, <2>4, InvRuns DEF StatesSound, StatusSound
    <2>6. QueueReady'
        <3>1. \A m \in Node : child[m] = "none" => child'[m] = "none"
            BY <1>1 DEF NoChild
        <3>. QED BY <1>1, <2>1, <2>2, <2>3, <3>1, QueueKept DEF Batching
    <2>7. ChildrenTracked' /\ BlockedHasCause'
        BY <1>1, <2>1 DEF ChildrenTracked, BlockedHasCause, NoChild
    <2>8. DoneKept'
        <3>1. \A m \in HasStatus(disk, {"done"}) : s.node[m].status = "done"
            BY <1>1, <2>2, <2>3, ChildrenDone DEF Running
        <3>. QED BY <1>1, <2>1, <3>1 DEF DoneKept
    <2>. QED BY <2>4, <2>5, <2>6, <2>7, <2>8 DEF Inv
<1>. QED BY <1>2, <1>3

-----------------------------------------------------------------------------
(* The end of a wave.                                                      *)

\* The scan starts with the first rejection that waits.
LEMMA FirstWaiting == ASSUME NEW r, Unrouted(r) # {}
    PROVE (CHOOSE c \in Unrouted(r) : \A other \in Unrouted(r) : c <= other) \in Unrouted(r)
<1>1. Unrouted(r) \in SUBSET Nat
    BY DEF Unrouted, HasStatus, Node
<1>2. \E c \in Unrouted(r) : \A other \in Unrouted(r) : c <= other
    BY <1>1, Least
<1>. QED BY <1>2

LEMMA ApplyFeedbackInv == ASSUME IInv, ApplyFeedback PROVE Inv'
<1>. DEFINE waiting == Unrouted(mem)
            first == CHOOSE c \in waiting : \A other \in waiting : c <= other
<1>1. phase = "feedback" /\ UNCHANGED <<disk, sidecars, queue, child, launched>>
    BY DEF ApplyFeedback
<1>2. Sound(mem) /\ Settled(mem) /\ mem \in RunState /\ disk \in RunState
    BY <1>1, InvRuns DEF Sound
<1>3. queue = {} /\ child = NoChild
    BY <1>1 DEF IInv, Inv, QueueReady, ChildrenTracked, Batching
<1>4. \A n \in HasStatus(disk, {"done"}) : n \in Node /\ mem.node[n].status = "done"
    BY <1>1, ChildrenDone
<1>5. CASE waiting = {} /\ phase' = "waveEnd" /\ UNCHANGED mem
    <2>1. StatesSound' /\ HistoriesAgree'
        BY <1>1, <1>5, StatesKept
    <2>2. QueueReady' /\ ChildrenTracked' /\ BlockedHasCause'
        BY <1>1, <1>3, <1>5 DEF QueueReady, ChildrenTracked, BlockedHasCause, NoChild
    <2>3. DoneKept'
        BY <1>1, <1>4, <1>5 DEF DoneKept
    <2>. QED BY <2>1, <2>2, <2>3 DEF Inv
<1>6. ASSUME NEW s, mem' = s, phase' \in {"handledSave", "routeSave"}, Sound(s), Extends(mem, s),
             s.status = mem.status, phase' = "handledSave" => Settled(s),
             \A n \in HasStatus(disk, {"done"}) : s.node[n].status # "done" =>
                phase' = "routeSave" /\ \E c \in Unrouted(disk) :
                    /\ n \in {Feedback[c]} \cup DescendantsOf(Feedback[c])
                    /\ s.node[c].att[Used(disk, c)].applied
      PROVE Inv'
    <2>1. Extends(disk', mem') /\ HistoriesAgree'
        BY <1>1, <1>6, MemoryMoves
    <2>2. StatesSound'
        BY <1>1, <1>6, <2>1, InvRuns DEF StatesSound, StatusSound
    <2>3. QueueReady' /\ ChildrenTracked' /\ BlockedHasCause'
        BY <1>1, <1>3, <1>6 DEF QueueReady, ChildrenTracked, BlockedHasCause, NoChild
    <2>4. DoneKept'
        BY <1>1, <1>6 DEF DoneKept
    <2>. QED BY <2>1, <2>2, <2>3, <2>4 DEF Inv
<1>7. CASE waiting # {} /\ ~CanRoute(mem, first) /\ mem' = Handle(mem, first) /\ phase' = "handledSave"
    <2>1. first \in waiting
        BY <1>7, FirstWaiting
    <2>. HIDE DEF first
    <2>. DEFINE s == Handle(mem, first)
    <2>2. /\ Sound(s) /\ Extends(mem, s) /\ Settled(s) /\ s.status = mem.status
          /\ \A n \in Node : s.node[n].status = mem.node[n].status
        BY <1>2, <2>1, Handled
    <2>3. mem' = s
        BY <1>7
    <2>. HIDE DEF s
    <2>. QED BY <1>4, <1>6, <1>7, <2>2, <2>3
<1>8. CASE waiting # {} /\ CanRoute(mem, first) /\ mem' = Route(mem, first) /\ phase' = "routeSave"
    <2>1. first \in waiting
        BY <1>8, FirstWaiting
    <2>. HIDE DEF first
    <2>. DEFINE s == Route(mem, first)
    <2>2. /\ Sound(s) /\ Extends(mem, s) /\ s.status = mem.status
          /\ s.node[first].att[Used(mem, first)].applied
          /\ \A n \in Node : n \notin {Feedback[first]} \cup DescendantsOf(Feedback[first]) =>
                s.node[n].status = mem.node[n].status
        BY <1>2, <1>8, <2>1, Routed
    <2>3. mem' = s
        BY <1>8
    <2>. HIDE DEF s
    <2>4. first \in Unrouted(disk) /\ Used(disk, first) = Used(mem, first)
        <3>1. first \in HasStatus(mem, {"failed"})
            BY <2>1 DEF Unrouted
        <3>2. disk.node[first] = mem.node[first]
            BY <1>1, <3>1 DEF IInv, Inv, DoneKept
        <3>. QED BY <2>1, <3>2 DEF Unrouted, HasStatus, Used, Last
    <2>5. ASSUME NEW n \in HasStatus(disk, {"done"}), s.node[n].status # "done"
          PROVE \E c \in Unrouted(disk) :
                    /\ n \in {Feedback[c]} \cup DescendantsOf(Feedback[c])
                    /\ s.node[c].att[Used(disk, c)].applied
        <3>1. n \in {Feedback[first]} \cup DescendantsOf(Feedback[first])
            BY <1>4, <2>2, <2>5
        <3>. QED BY <2>2, <2>4, <3>1
    <2>. QED BY <1>6, <1>8, <2>2, <2>3, <2>5
<1>. QED BY <1>5, <1>7, <1>8 DEF ApplyFeedback

LEMMA WaveEndInv == ASSUME IInv, WaveEnd PROVE Inv'
<1>. DEFINE s == FinishGlobalLimit(mem)
<1>1. phase = "waveEnd" /\ phase' = "waveSave" /\ mem' = s
      /\ UNCHANGED <<disk, sidecars, queue, child, launched>>
    BY DEF WaveEnd
<1>2. /\ Sound(s) /\ Settled(s) /\ Extends(mem, s) /\ s.status = mem.status
      /\ \A n \in HasStatus(mem, {"done"}) : s.node[n].status = "done"
    BY <1>1, InvRuns, LimitFinished
<1>. HIDE DEF s
<1>3. Extends(disk', mem') /\ HistoriesAgree'
    BY <1>1, <1>2, MemoryMoves
<1>4. StatesSound'
    BY <1>1, <1>2, <1>3, InvRuns DEF StatesSound, StatusSound
<1>5. queue = {} /\ child = NoChild
    BY <1>1 DEF IInv, Inv, QueueReady, ChildrenTracked, Batching
<1>6. QueueReady' /\ ChildrenTracked' /\ BlockedHasCause'
    BY <1>1, <1>5 DEF QueueReady, ChildrenTracked, BlockedHasCause, NoChild
<1>7. DoneKept'
    <2>1. \A n \in HasStatus(disk, {"done"}) : n \in HasStatus(mem, {"done"})
        BY <1>1, ChildrenDone DEF HasStatus
    <2>. QED BY <1>1, <1>2, <2>1 DEF DoneKept
<1>. QED BY <1>3, <1>4, <1>6, <1>7 DEF Inv

LEMMA WaveSavedInv == ASSUME IInv, WaveSaved PROVE Inv'
<1>1. phase = "waveSaved" /\ UNCHANGED <<disk, sidecars, queue, child, wave, cancelled, launched>>
    BY DEF WaveSaved
<1>2. CASE mem.global >= MaxGlobal
    <2>1. Finish(mem)
        BY <1>2 DEF WaveSaved
    <2>. QED BY <1>1, <1>2, <2>1, FinishInv
<1>3. CASE ~(mem.global >= MaxGlobal)
    <2>1. phase' = "wave" /\ UNCHANGED mem
        BY <1>3 DEF WaveSaved
    <2>2. StatesSound' /\ HistoriesAgree'
        BY <1>1, <2>1, StatesKept
    <2>3. queue = {} /\ child = NoChild
        BY <1>1 DEF IInv, Inv, QueueReady, ChildrenTracked, Batching
    <2>4. QueueReady' /\ ChildrenTracked' /\ BlockedHasCause'
        BY <1>1, <2>1, <2>3 DEF QueueReady, ChildrenTracked, BlockedHasCause, NoChild
    <2>5. DoneKept'
        BY <1>1, <2>1 DEF IInv, Inv, DoneKept, HasStatus
    <2>. QED BY <2>2, <2>4, <2>5 DEF Inv
<1>. QED BY <1>2, <1>3

LEMMA CancelInv == ASSUME IInv, Cancel PROVE Inv'
<1>1. UNCHANGED <<disk, sidecars, mem, phase, queue, child, wave, launched>> /\ cancelled'
    BY DEF Cancel
<1>2. StatesSound' /\ HistoriesAgree'
    BY <1>1, StatesKept
<1>3. QueueReady' /\ ChildrenTracked' /\ DoneKept' /\ BlockedHasCause'
    BY <1>1 DEF IInv, Inv, QueueReady, ChildrenTracked, DoneKept, HasStatus, BlockedHasCause, Running
<1>. QED BY <1>2, <1>3 DEF Inv

LEMMA StutterInv == ASSUME IInv, UNCHANGED vars PROVE Inv'
<1>1. StatesSound' /\ HistoriesAgree'
    BY StatesKept DEF vars
<1>2. QueueReady' /\ ChildrenTracked' /\ DoneKept' /\ BlockedHasCause'
    BY DEF IInv, Inv, QueueReady, ChildrenTracked, DoneKept, HasStatus, BlockedHasCause, Running, vars
<1>. QED BY <1>1, <1>2 DEF Inv

LEMMA NextInv == ASSUME IInv, [Next]_vars PROVE Inv'
<1>1. CASE AlgRun \/ AlgResume \/ AlgClose
    BY <1>1, AlgRunInv, AlgResumeInv, AlgCloseInv
<1>2. CASE Execute
    <2>1. CASE Commit \/ WaveStart \/ ReserveNext \/ WaveBatched \/ Launch
        BY <2>1, CommitInv, WaveStartInv, ReserveNextInv, WaveBatchedInv, LaunchInv
    <2>2. CASE \E n \in Node : ChildStep(n)
        BY <2>2, ChildStepInv
    <2>3. CASE ChildrenSettled \/ ApplyFeedback \/ WaveEnd \/ WaveSaved
        BY <2>3, ChildrenSettledInv, ApplyFeedbackInv, WaveEndInv, WaveSavedInv
    <2>4. CASE SaveRefused
        BY <2>4, AbandonInv DEF SaveRefused
    <2>. QED BY <1>2, <2>1, <2>2, <2>3, <2>4 DEF Execute
<1>3. CASE PreflightFails \/ Cancel
    BY <1>3, PreflightFailsInv, CancelInv
<1>4. CASE \E n \in Node : Throws(n) \/ ChildSaveFails(n)
    BY <1>4, ChildFailsInv
<1>5. CASE SaveFails \/ Crash
    BY <1>5, AbandonInv DEF SaveFails, Crash
<1>6. CASE UNCHANGED vars
    BY <1>6, StutterInv
<1>. QED BY <1>1, <1>2, <1>3, <1>4, <1>5, <1>6 DEF Next

-----------------------------------------------------------------------------
(* Types.                                                                  *)

LEMMA Phases == Phase = {"opening", "reserving", "settleSave", "handledSave", "routeSave", "waveSave",
                         "preflightSave", "finalSave", "idle", "wave", "batch", "launch", "children",
                         "feedback", "waveEnd", "waveSaved"}
BY SavePhases DEF Phase

LEMMA TypeStep == ASSUME IInv, [Next]_vars, Inv' PROVE TypeOK'
<1>1. disk' \in RunState /\ mem' \in RunState /\ mem \in RunState
    BY InvRuns DEF Inv, StatesSound, Sound
<1>2. TypeOK
    BY DEF IInv
<1>3. \A n \in Node : Used(mem, n) \in Nat
    BY <1>1, RunTypes
<1>4. CASE AlgRun \/ AlgResume \/ AlgClose
    <2>1. calls' = calls + 1 /\ phase' \in {"opening", "idle"} /\ wave' \in {wave, 0}
          /\ cancelled' \in {cancelled, FALSE}
          /\ UNCHANGED <<sidecars, queue, child, launched, crashes, faults>>
        <3>1. CASE AlgRun \/ AlgResume
            BY <3>1 DEF AlgRun, AlgResume, Open
        <3>2. CASE AlgClose
            BY <1>2, <3>2 DEF AlgClose, TypeOK
        <3>. QED BY <1>4, <3>1, <3>2
    <2>2. calls' \in Nat /\ wave' \in Nat
        BY <1>2, <2>1 DEF TypeOK
    <2>3. cancelled' \in BOOLEAN
        BY <1>2, <2>1, Zenon DEF TypeOK
    <2>4. phase' \in Phase
        BY <2>1, Phases
    <2>. QED BY <1>1, <1>2, <2>1, <2>2, <2>3, <2>4 DEF TypeOK
<1>5. CASE Commit
    <2>1. phase' \in Phase
        BY <1>5, SavePhases, Phases DEF Commit
    <2>. QED BY <1>1, <1>2, <1>5, <2>1 DEF TypeOK, Commit, bounds
<1>6. CASE WaveStart
    <2>1. ReadyNodes(SkipFailedDescendants(mem)) \in SUBSET Node
        BY DEF ReadyNodes, HasStatus
    <2>. HIDE DEF ReadyNodes
    <2>. QED BY <1>1, <1>2, <1>6, <2>1, Phases DEF TypeOK, WaveStart, Finish, bounds
<1>7. CASE ReserveNext
    <2>1. child' \in [Node -> ChildState]
        BY <1>7 DEF ReserveNext, ChildState
    <2>. QED BY <1>1, <1>2, <1>7, <2>1, Phases DEF TypeOK, ReserveNext, bounds
<1>8. CASE WaveBatched \/ PreflightFails \/ Cancel
    BY <1>1, <1>2, <1>8, Phases DEF TypeOK, WaveBatched, PreflightFails, Cancel, bounds
<1>9. CASE Launch
    <2>1. child' \in [Node -> ChildState]
        BY <1>2, <1>9 DEF TypeOK, Launch, ChildState
    <2>2. launched' \in SUBSET (Node \X Nat)
        BY <1>2, <1>3, <1>9 DEF TypeOK, Launch
    <2>. QED BY <1>1, <1>2, <1>9, <2>1, <2>2, Phases DEF TypeOK, Launch, bounds
<1>10. CASE \E n \in Node : ChildStep(n) \/ Throws(n) \/ ChildSaveFails(n)
    <2>1. PICK n \in Node : ChildStep(n) \/ Throws(n) \/ ChildSaveFails(n)
        BY <1>10
    <2>2. child' \in [Node -> ChildState]
        BY <1>2, <2>1 DEF TypeOK, ChildState, ChildStep, SessionCreated, SessionSaved, Answers,
                          OutcomeSaved, Throws, ChildSaveFails
    <2>3. sidecars' \in SUBSET (Node \X Nat)
        BY <1>2, <1>3, <2>1 DEF TypeOK, ChildStep, SessionCreated, SessionSaved, Answers,
                          OutcomeSaved, Throws, ChildSaveFails
    <2>4. UNCHANGED <<launched, phase, queue, wave, cancelled, calls, crashes>>
          /\ faults' \in {faults, faults + 1}
        BY <2>1 DEF ChildStep, SessionCreated, SessionSaved, Answers, OutcomeSaved, Throws,
                    ChildSaveFails, bounds
    <2>. QED BY <1>1, <1>2, <2>2, <2>3, <2>4 DEF TypeOK
<1>11. CASE ChildrenSettled
    BY <1>1, <1>2, <1>11, Phases DEF TypeOK, ChildrenSettled, NoChild, ChildState, bounds
<1>12. CASE ApplyFeedback \/ WaveEnd
    BY <1>1, <1>2, <1>12, Phases DEF TypeOK, ApplyFeedback, WaveEnd, bounds
<1>13. CASE WaveSaved
    BY <1>1, <1>2, <1>13, Phases DEF TypeOK, WaveSaved, Finish, bounds
<1>14. CASE SaveRefused \/ SaveFails \/ Crash
    BY <1>1, <1>2, <1>14, Phases DEF TypeOK, SaveRefused, SaveFails, Crash, Abandon, NoChild, ChildState
<1>15. CASE UNCHANGED vars
    BY <1>1, <1>2, <1>15 DEF TypeOK, vars
<1>. QED BY <1>4, <1>5, <1>6, <1>7, <1>8, <1>9, <1>10, <1>11, <1>12, <1>13, <1>14, <1>15
         DEF Next, Execute

-----------------------------------------------------------------------------
(* Theorems.                                                               *)

\* The executor keeps its inductive invariant, whatever calls, crashes, faults and
\* cancellations it meets.
THEOREM Inductive == Spec => []IInv
<1>1. Init => IInv
    BY InitInv
<1>2. IInv /\ [Next]_vars => IInv'
    BY NextInv, TypeStep DEF IInv
<1>. QED BY <1>1, <1>2, PTL DEF Spec

\* Every variable of the executor keeps its type, the run state on disk and in
\* memory included.
THEOREM TypeCorrect == Spec => []TypeOK
<1>1. IInv => TypeOK
    BY DEF IInv
<1>. QED BY <1>1, Inductive, PTL

\* No save the executor asks for is refused by RunStateSchema, except the route that
\* reopens a node whose interrupted attempt still runs: every state between two
\* awaits, with any set of siblings half done, is one the schema accepts.
THEOREM LegalSaves == Spec => []SavesAreLegal
<1>1. ASSUME IInv, SavePending, ~ReopensInterrupted PROVE SchemaValid(mem)
    <2>1. Sound(mem) /\ StatusSound(mem) /\ (phase # "routeSave" => Settled(mem)) /\ mem \in RunState
        BY <1>1, InvRuns
    <2>2. CASE phase # "routeSave"
        BY <2>1, <2>2, SoundIsValid
    <2>3. CASE phase = "routeSave"
        <3>1. ASSUME NEW n \in Node, Ends(mem.node[n], "running") PROVE mem.node[n].status = "running"
            <4>1. mem.node[n].status # "pending"
                BY <1>1, <2>1, <2>3, <3>1, RunTypes DEF ReopensInterrupted, HasStatus
            <4>2. StatusFits(n, mem.node[n]) /\ mem.node[n].status \in NodeStatus
                BY <2>1, RunTypes, NodeTypes DEF Sound, NodeSound
            <4>. QED BY <3>1, <4>1, <4>2 DEF StatusFits, Ends, NodeStatus
        <3>2. Settled(mem)
            BY <3>1 DEF Settled, Attended
        <3>. QED BY <2>1, <3>2, SoundIsValid
    <2>. QED BY <2>2, <2>3
<1>2. IInv => SavesAreLegal
    BY <1>1 DEF SavesAreLegal
<1>. QED BY <1>2, Inductive, PTL

\* Every attempt ever launched was counted in the manifest on disk before it was
\* launched, the launches stay within max_global_attempts over all crashes and
\* resumes, and no attempt number is launched twice.
THEOREM LaunchesAreAccounted == Spec => []LaunchesAccounted
<1>1. ASSUME IInv PROVE LaunchesCharged
    <2>1. launched \subseteq History(disk)
        BY <1>1 DEF IInv, Inv, HistoriesAgree
    <2>2. /\ IsFiniteSet(History(disk)) /\ disk.global = Cardinality(History(disk))
          /\ disk.global <= MaxGlobal /\ disk.global \in Nat /\ MaxGlobal \in Nat
        BY <1>1, InvRuns, RunTypes, GraphAssumption DEF Sound, BudgetSound, GraphDefSchema
    <2>3. Cardinality(launched) <= Cardinality(History(disk)) /\ IsFiniteSet(launched)
        BY <2>1, <2>2, FS_Subset
    <2>4. Cardinality(launched) \in Nat
        BY <2>3, FS_CardinalityType
    <2>. QED BY <2>1, <2>2, <2>3, <2>4 DEF LaunchesCharged
<1>2. ASSUME IInv PROVE NeverRelaunched
    BY <1>2 DEF IInv, Inv, ChildrenTracked, NeverRelaunched, ChildIn
<1>3. IInv => LaunchesAccounted
    BY <1>1, <1>2 DEF LaunchesAccounted
<1>. QED BY <1>3, Inductive, PTL

\* While a call runs, the session of every sidecar ever written is in the history the
\* call works on, whichever crash separated the sidecar from the save.
THEOREM SessionsAreAccounted == Spec => []SessionsAccounted
<1>1. ASSUME IInv, phase # "idle", NEW x \in sidecars
      PROVE x \in History(mem) /\ mem.node[x[1]].att[x[2]].session
    <2>1. Linked(mem, x) /\ x = <<x[1], x[2]>>
        BY <1>1 DEF IInv, Inv, HistoriesAgree, TypeOK
    <2>2. mem \in RunState
        BY <1>1, InvRuns
    <2>3. x[1] \in Node /\ x[2] \in 1..Used(mem, x[1]) /\ Used(mem, x[1]) \in Nat
        BY <2>1, <2>2, RunTypes DEF Linked
    <2>4. x[2] \in Nat \ {0} /\ x[2] <= Used(mem, x[1])
        BY <2>3
    <2>5. x \in History(mem)
        BY <2>1, <2>2, <2>3, <2>4, HistoryMember
    <2>. QED BY <2>1, <2>5 DEF Linked
<1>2. IInv => SessionsAccounted
    BY <1>1 DEF SessionsAccounted
<1>. QED BY <1>2, Inductive, PTL

\* A running node has done dependencies, feedback included, and a call that ends
\* blocked was stopped by something outside the schedule.
THEOREM ScheduleIsSound == Spec => []ScheduleSound
<1>1. ASSUME IInv PROVE InputsAccepted
    BY <1>1, InvRuns DEF InputsAccepted, Sound, EdgesSound, HasStatus
<1>2. IInv => ScheduleSound
    BY <1>1 DEF ScheduleSound, IInv, Inv
<1>. QED BY <1>2, Inductive, PTL

\* What a step leaves of the disk.
LEMMA DiskStep == ASSUME IInv, [Next]_vars
    PROVE \/ disk' = disk
          \/ disk' = mem /\ Save
          \/ /\ Extends(disk, disk')
             /\ \A n \in HasStatus(disk, {"done"}) : disk'.node[n].status = "done"
<1>1. disk \in RunState
    BY InvRuns
<1>. DEFINE s == Reconciled(disk)
<1>2. /\ Sound(s) /\ Settled(s) /\ Extends(disk, s)
      /\ \A n \in Node : s.node[n].status = disk.node[n].status
    BY LoadedRun
<1>3. s \in RunState /\ \A n \in HasStatus(disk, {"done"}) : n \in HasStatus(s, {"done"})
                                                             /\ s.node[n].status = "done"
    BY <1>2 DEF Sound, HasStatus
<1>4. CASE AlgRun \/ AlgResume
    <2>1. disk' = s
        BY <1>4 DEF AlgRun, AlgResume, Open
    <2>. QED BY <1>2, <1>3, <2>1
<1>5. CASE AlgClose
    <2>. DEFINE t == Closed(s)
    <2>1. disk' = IF SchemaValid(t) THEN t ELSE s
        BY <1>5 DEF AlgClose
    <2>2. CASE SchemaValid(t)
        <3>. HIDE DEF s
        <3>1. Sound(t) /\ Extends(s, t) /\ \A n \in HasStatus(s, {"done"}) : t.node[n].status = "done"
            BY <1>2, <2>2, ClosedRun
        <3>2. Extends(disk, t)
            BY <1>1, <1>2, <1>3, <3>1, ExtendsOn DEF Sound
        <3>. HIDE DEF t
        <3>. QED BY <1>3, <2>1, <2>2, <3>1, <3>2
    <2>3. CASE ~SchemaValid(t)
        BY <1>2, <1>3, <2>1, <2>3
    <2>. QED BY <2>2, <2>3
<1>6. CASE Commit
    BY <1>6 DEF Commit, Save
<1>7. CASE \E n \in Node : ChildStep(n)
    BY <1>7 DEF ChildStep, SessionCreated, SessionSaved, Answers, OutcomeSaved, Save
<1>8. CASE WaveStart \/ ReserveNext \/ WaveBatched \/ Launch \/ ChildrenSettled \/ ApplyFeedback
           \/ WaveEnd \/ WaveSaved
    BY <1>8 DEF WaveStart, ReserveNext, WaveBatched, Launch, ChildrenSettled, ApplyFeedback, WaveEnd,
                WaveSaved
<1>9. CASE PreflightFails \/ Cancel \/ SaveRefused \/ SaveFails \/ Crash
    BY <1>9 DEF PreflightFails, Cancel, SaveRefused, SaveFails, Crash, Abandon
<1>10. CASE \E n \in Node : Throws(n) \/ ChildSaveFails(n)
    BY <1>10 DEF Throws, ChildSaveFails
<1>11. CASE UNCHANGED vars
    BY <1>11 DEF vars
<1>. QED BY <1>4, <1>5, <1>6, <1>7, <1>8, <1>9, <1>10, <1>11 DEF Next, Execute

\* No save drops, renumbers or rewrites an attempt that had ended, except to mark its
\* rejection handled; and a saved result is withdrawn only by a commit that marks a
\* rejection handled whose target is the node or an ancestor of it.
THEOREM SavesOnlyExtend == Spec => SavesExtend
<1>1. ASSUME IInv, [Next]_vars
      PROVE [\A n \in Node : \A i \in 1..Used(disk, n) :
                /\ i <= Used(disk', n)
                /\ LET old == disk.node[n].att[i]  new == disk'.node[n].att[i] IN
                    /\ old.session => new.session
                    /\ old.status # "running" =>
                         new \in {old, [old EXCEPT !.applied = TRUE]}]_disk
    <2>1. SUFFICES ASSUME disk' # disk, NEW n \in Node, NEW i \in 1..Used(disk, n)
                   PROVE i <= Used(disk', n) /\ Follows(disk.node[n].att[i], disk'.node[n].att[i])
        BY DEF Follows
    <2>2. disk \in RunState /\ Extends(disk, mem)
        BY <1>1, InvRuns
    <2>3. Extends(disk, disk') /\ disk' \in RunState
        <3>1. Inv'
            BY <1>1, NextInv
        <3>. QED BY <1>1, <2>1, <2>2, <3>1, DiskStep DEF Inv, StatesSound, Sound
    <2>4. i \in 1..Used(disk', n) /\ Follows(disk.node[n].att[i], disk'.node[n].att[i])
        BY <2>2, <2>3, AttemptKept
    <2>5. Used(disk', n) \in Nat
        BY <2>3, RunTypes
    <2>. QED BY <2>4, <2>5
<1>2. ASSUME IInv, [Next]_vars
      PROVE [\A n \in HasStatus(disk, {"done"}) :
                disk'.node[n].status # "done" =>
                    \E c \in Node :
                        /\ Feedback[c] # NoNode
                        /\ n \in {Feedback[c]} \cup DescendantsOf(Feedback[c])
                        /\ c \in Unrouted(disk)
                        /\ disk'.node[c].att[Used(disk, c)].applied]_disk
    <2>1. SUFFICES ASSUME disk' # disk, NEW n \in HasStatus(disk, {"done"}), disk'.node[n].status # "done"
                   PROVE \E c \in Node :
                            /\ Feedback[c] # NoNode
                            /\ n \in {Feedback[c]} \cup DescendantsOf(Feedback[c])
                            /\ c \in Unrouted(disk)
                            /\ disk'.node[c].att[Used(disk, c)].applied
        OBVIOUS
    <2>2. disk' = mem
        BY <1>2, <2>1, DiskStep
    <2>3. PICK c \in Unrouted(disk) :
                /\ n \in {Feedback[c]} \cup DescendantsOf(Feedback[c])
                /\ mem.node[c].att[Used(disk, c)].applied
        BY <1>2, <2>1, <2>2 DEF IInv, Inv, DoneKept
    <2>4. c \in Node /\ Feedback[c] # NoNode
        BY DEF Unrouted, HasStatus
    <2>. QED BY <2>2, <2>3, <2>4
<1>3. Spec => HistoryKept
    BY <1>1, Inductive, PTL DEF Spec, HistoryKept
<1>4. Spec => ReopenedByFeedback
    BY <1>2, Inductive, PTL DEF Spec, ReopenedByFeedback
<1>. QED BY <1>3, <1>4, PTL DEF SavesExtend
=============================================================================

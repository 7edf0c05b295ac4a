------------------------ MODULE SkillEvolution_proofs ------------------------
(***************************************************************************)
(* Proofs about skill evolution, for every set of processes and turns and  *)
(* every number of chunks, attempts, calls, faults and lapses.             *)
(* A historical plan (HistoricalPlan): the inductive invariant is that its *)
(* log is what verifiedPlan asks for (LogInv: each committed entry follows *)
(* from those before it, the counts are the record's), and that the place  *)
(* of the executor says which entry may come next (HistPlaced) and what    *)
(* has been paid (HistCharged).                                            *)
(* Reviews (SkillReview): whoever works holds the lease (RevHeld), so that *)
(* one audit or one plan does; an audit's turn has no candidate yet        *)
(* (RevAudited), a turn with a candidate is in the ledger, and unchanged   *)
(* there only once the plan covers it (RevLive), and what the plan has     *)
(* passed was reviewed (RevPlan).  Every write of the ledger is Proper: it *)
(* takes no candidate back, and closes as unchanged only a turn that was   *)
(* reviewed and has none, or one that the plan has covered.                *)
(* Promotion (SkillPromotion): a transaction has done what stands before   *)
(* its place in its script (RunAt), and what a recovery has left to do     *)
(* spares some name of every text (FixAt), so that no text is kept only by *)
(* what is tidied (KeptOutside); a backup is written by one journal and    *)
(* removed only while no revision or rollback relies on it (Uses).         *)
(***************************************************************************)
EXTENDS SkillEvolution, SequenceTheorems, FunctionTheorems, FiniteSetTheorems, WellFoundedInduction, TLAPS

-----------------------------------------------------------------------------
(* A historical plan: its log.                                             *)

Stages == {"issued", "chunk", "rejected", "reduction", "checker", "final"}
Entries == [stage : Stages, key : 0 .. Chunks, paid : BOOLEAN, done : BOOLEAN]
PlanState == {"previewed", "running", "resumable", "completed", "cancelled"}
Plan ==
    [state : PlanState, next : 0 .. Chunks, calls : Nat, log : Seq(Entries), epoch : BOOLEAN,
     reduction : {"none", "candidate", "no-change"}, checker : BOOLEAN, final : BOOLEAN, named : BOOLEAN]

Staged(p, s) == Historical!Staged(p, s)
Issued(p) == Historical!Issued(p)
Paid(p) == Historical!Paid(p)
Before(p, i, s) == Historical!Before(p, i, s)
Named == Stages \ {"issued"}

LEMMA SameCount == \A S : Historical!Cardinality(S) = Cardinality(S)
BY DEF Historical!Cardinality, Cardinality

LEMMA LogSets ==
    ASSUME NEW p \in Plan
    PROVE  /\ Len(p.log) \in Nat /\ DOMAIN p.log = 1 .. Len(p.log)
           /\ \A i \in 1 .. Len(p.log) : p.log[i] \in Entries
           /\ \A s : Staged(p, s) \subseteq 1 .. Len(p.log) /\ IsFiniteSet(Staged(p, s))
           /\ Issued(p) \subseteq 1 .. Len(p.log) /\ IsFiniteSet(Issued(p))
           /\ Paid(p) \subseteq 1 .. Len(p.log) /\ IsFiniteSet(Paid(p))
<1>1. /\ Len(p.log) \in Nat /\ DOMAIN p.log = 1 .. Len(p.log)
      /\ \A i \in 1 .. Len(p.log) : p.log[i] \in Entries
    <2>1. p.log \in Seq(Entries)
        BY DEF Plan
    <2> QED
        BY <2>1, LenProperties
<1> DEFINE n == Len(p.log)
<1>2. IsFiniteSet(1 .. n)
    <2>1. 1 \in Int /\ n \in Int
        BY <1>1
    <2> HIDE DEF n
    <2> QED
        BY <2>1, FS_Interval
<1>3. \A T \in SUBSET (1 .. n) : IsFiniteSet(T)
    <2> HIDE DEF n
    <2> QED
        BY <1>2, FS_Subset
<1>4. /\ \A s : Staged(p, s) \in SUBSET (1 .. n)
      /\ Issued(p) \in SUBSET (1 .. n) /\ Paid(p) \in SUBSET (1 .. n)
    BY <1>1 DEF Staged, Issued, Paid, Historical!Staged, Historical!Issued, Historical!Paid
<1> QED
    BY <1>1, <1>3, <1>4

\* q has one entry more than p, or its last one committed, of stage s: what verifiedPlan reads.
Adds(p, q, k, s) ==
    /\ k \in Nat \ {0} /\ DOMAIN q.log = 1 .. k
    /\ \A i \in 1 .. k - 1 : i \in DOMAIN p.log /\ q.log[i] = p.log[i]
    /\ Issued(q) = {}
    /\ q.log[k].stage = s /\ q.log[k].done
    /\ k \notin Staged(p, s) /\ Staged(q, s) = Staged(p, s) \cup {k}
    /\ \A x \in Named \ {s} : Staged(q, x) = Staged(p, x)
    /\ \A x \in Named : Before(q, k, x) = Staged(p, x)
    /\ \A x \in Named, i \in 1 .. k - 1 : Before(q, i, x) = Before(p, i, x)

\* An entry is written that is committed as it is issued (Committed).
LEMMA Appends ==
    ASSUME NEW p \in Plan, NEW q, NEW s \in Named, NEW e \in Entries, e.stage = s, e.done, ~e.paid,
           q.log = Append(p.log, e), Issued(p) = {}
    PROVE  /\ Adds(p, q, Len(p.log) + 1, s) /\ Paid(q) = Paid(p) /\ q.log \in Seq(Entries)
           /\ q.log[Len(p.log) + 1] = e
<1> DEFINE n == Len(p.log)
<1>1. /\ n \in Nat /\ DOMAIN p.log = 1 .. n /\ \A i \in 1 .. n : p.log[i] \in Entries
      /\ \A x : Staged(p, x) \subseteq 1 .. n
    BY LogSets
<1>2. p.log \in Seq(Entries)
    BY DEF Plan
<1>3. /\ q.log \in Seq(Entries) /\ DOMAIN q.log = 1 .. n + 1 /\ q.log[n + 1] = e
      /\ \A i \in 1 .. n : q.log[i] = p.log[i]
    BY <1>2
<1> HIDE DEF n
<1>4. \A i \in 1 .. n + 1 : i \in 1 .. n \/ i = n + 1
    BY <1>1
<1>5. Issued(q) = {} /\ Paid(q) = Paid(p)
    BY <1>1, <1>3, <1>4 DEF Issued, Paid, Historical!Issued, Historical!Paid
<1>6. ASSUME NEW x PROVE Staged(q, x) = Staged(p, x) \cup (IF x = s THEN {n + 1} ELSE {})
    BY <1>1, <1>3, <1>4 DEF Staged, Historical!Staged
<1>7. ASSUME NEW x PROVE Before(q, n + 1, x) = Staged(p, x)
    <2>1. Before(q, n + 1, x) = {j \in Staged(q, x) : j < n + 1}
        BY DEF Before, Staged, Historical!Before
    <2>2. \A j \in Staged(p, x) : j \in Nat /\ j < n + 1
        BY <1>1
    <2>3. ~ n + 1 < n + 1
        BY <1>1
    <2> QED
        BY <1>6, <2>1, <2>2, <2>3
<1>8. ASSUME NEW x, NEW i \in 1 .. n PROVE Before(q, i, x) = Before(p, i, x)
    <2>1. /\ Before(q, i, x) = {j \in Staged(q, x) : j < i}
          /\ Before(p, i, x) = {j \in Staged(p, x) : j < i}
        BY DEF Before, Staged, Historical!Before
    <2>2. ~ n + 1 < i
        BY <1>1
    <2> QED
        BY <1>6, <2>1, <2>2
<1>9. n + 1 \notin Staged(p, s) /\ n + 1 - 1 = n /\ n + 1 \in Nat \ {0}
    BY <1>1
<1>10. Adds(p, q, n + 1, s)
    <2>1. \A i \in 1 .. n + 1 - 1 : i \in 1 .. n
        BY <1>9
    <2>2. q.log[n + 1].stage = s /\ q.log[n + 1].done
        BY <1>3
    <2>3. \A x \in Named \ {s} : Staged(q, x) = Staged(p, x)
        BY <1>6
    <2> QED
        BY <1>1, <1>3, <1>5, <1>6, <1>7, <1>8, <1>9, <2>1, <2>2, <2>3 DEF Adds
<1> QED
    BY <1>3, <1>5, <1>10 DEF n

\* Only the last entry may be issued and not committed.
LastIssued(p) == \A i \in DOMAIN p.log : ~p.log[i].done => i = Len(p.log) /\ p.log[i].stage = "issued"
Marked(p, e) == [p.log EXCEPT ![Len(p.log)] = e]

\* The issued entry is committed (Commit).
LEMMA Marks ==
    ASSUME NEW p \in Plan, NEW q, NEW s \in Named, NEW e \in Entries, e.stage = s, e.done,
           Issued(p) # {}, LastIssued(p), e.paid = p.log[Len(p.log)].paid,
           q.log = Marked(p, e)
    PROVE  /\ Adds(p, q, Len(p.log), s) /\ Paid(q) = Paid(p) /\ q.log \in Seq(Entries)
           /\ q.log[Len(p.log)] = e
<1> DEFINE n == Len(p.log)
<1>1. /\ n \in Nat /\ DOMAIN p.log = 1 .. n /\ \A i \in 1 .. n : p.log[i] \in Entries
      /\ \A x : Staged(p, x) \subseteq 1 .. n
    BY LogSets
<1>2. n \in 1 .. n /\ n > 0 /\ ~p.log[n].done /\ p.log[n].stage = "issued"
    BY <1>1 DEF Issued, Historical!Issued, LastIssued
<1>4. e \in Entries /\ e.stage = s /\ e.done /\ e.paid = p.log[n].paid
    OBVIOUS
<1>5. p.log \in Seq(Entries)
    BY DEF Plan
<1>6. /\ q.log \in Seq(Entries) /\ DOMAIN q.log = 1 .. n /\ q.log[n] = e
      /\ \A i \in 1 .. n - 1 : q.log[i] = p.log[i]
    BY <1>1, <1>2, <1>4, <1>5 DEF Marked
<1>7. \A i \in 1 .. n : i \in 1 .. n - 1 \/ i = n
    BY <1>1
<1>8. \A i \in 1 .. n - 1 : i \in 1 .. n /\ i # n /\ p.log[i].done
    BY <1>1 DEF n, LastIssued
<1>9. Issued(q) = {} /\ Paid(q) = Paid(p)
    BY <1>1, <1>2, <1>4, <1>6, <1>7, <1>8 DEF Issued, Paid, Historical!Issued, Historical!Paid
<1>10. ASSUME NEW x, x # "issued" PROVE Staged(q, x) = Staged(p, x) \cup (IF x = s THEN {n} ELSE {})
    <2>1. /\ Staged(q, x) = {i \in 1 .. n : q.log[i].stage = x}
          /\ Staged(p, x) = {i \in 1 .. n : p.log[i].stage = x}
        BY <1>1, <1>6 DEF Staged, Historical!Staged
    <2>2. \A i \in 1 .. n - 1 : q.log[i].stage = p.log[i].stage
        BY <1>6
    <2>3. q.log[n].stage = s /\ p.log[n].stage # x
        BY <1>2, <1>4, <1>6, <1>10
    <2> QED
        BY <1>2, <1>7, <2>1, <2>2, <2>3
<1>11. ASSUME NEW x, x # "issued" PROVE n \notin Staged(p, x)
    BY <1>2, <1>11 DEF Staged, Historical!Staged
<1>12. ASSUME NEW x, x # "issued" PROVE Before(q, n, x) = Staged(p, x)
    <2>1. Before(q, n, x) = {j \in Staged(q, x) : j < n}
        BY DEF Before, Staged, Historical!Before
    <2>2. \A j \in Staged(p, x) : j \in Nat /\ j <= n /\ j # n
        BY <1>1, <1>11, <1>12
    <2>3. ~ n < n
        BY <1>1
    <2> QED
        BY <1>1, <1>10, <1>12, <2>1, <2>2, <2>3
<1>13. ASSUME NEW x, x # "issued", NEW i \in 1 .. n - 1 PROVE Before(q, i, x) = Before(p, i, x)
    <2>1. /\ Before(q, i, x) = {j \in Staged(q, x) : j < i}
          /\ Before(p, i, x) = {j \in Staged(p, x) : j < i}
        BY DEF Before, Staged, Historical!Before
    <2>2. ~ n < i
        BY <1>1
    <2> QED
        BY <1>10, <1>13, <2>1, <2>2
<1>14. Adds(p, q, n, s)
    <2>1. n \in Nat \ {0} /\ q.log[n].stage = s /\ q.log[n].done /\ s # "issued"
        BY <1>1, <1>2, <1>4, <1>6 DEF Named
    <2>2. \A i \in 1 .. n - 1 : i \in DOMAIN p.log
        BY <1>1, <1>8
    <2>3. /\ n \notin Staged(p, s) /\ Staged(q, s) = Staged(p, s) \cup {n}
          /\ \A x \in Named \ {s} : Staged(q, x) = Staged(p, x)
        <3>1. Staged(q, s) = Staged(p, s) \cup {n} /\ n \notin Staged(p, s)
            BY <2>1, <1>10, <1>11
        <3>2. ASSUME NEW x \in Named \ {s} PROVE Staged(q, x) = Staged(p, x)
            <4>1. x # "issued" /\ x # s
                BY DEF Named
            <4>2. Staged(q, x) = Staged(p, x) \cup (IF x = s THEN {n} ELSE {})
                BY <4>1, <1>10
            <4> QED
                BY <4>1, <4>2
        <3> QED
            BY <3>1, <3>2
    <2>4. \A x \in Named : x # "issued"
        BY DEF Named
    <2> QED
        BY <1>6, <1>9, <1>12, <1>13, <2>1, <2>2, <2>3, <2>4 DEF Adds
<1> QED
    BY <1>4, <1>6, <1>9, <1>14 DEF n

\* A call is charged: its entry is written before it (Issue).
LEMMA Issues ==
    ASSUME NEW p \in Plan, NEW q, NEW e \in Entries, e.stage = "issued", ~e.done, e.paid,
           q.log = Append(p.log, e), Issued(p) = {}
    PROVE  /\ LastIssued(q) /\ q.log \in Seq(Entries) /\ Len(q.log) = Len(p.log) + 1
           /\ Len(p.log) + 1 \notin Paid(p) /\ Paid(q) = Paid(p) \cup {Len(p.log) + 1}
           /\ Issued(q) = {Len(p.log) + 1} /\ q.log[Len(p.log) + 1] = e
           /\ \A i \in 1 .. Len(p.log) : q.log[i] = p.log[i]
           /\ \A x \in Named : Staged(q, x) = Staged(p, x)
<1> DEFINE n == Len(p.log)
<1>1. /\ n \in Nat /\ DOMAIN p.log = 1 .. n /\ \A i \in 1 .. n : p.log[i] \in Entries
      /\ Paid(p) \subseteq 1 .. n
    BY LogSets
<1>2. p.log \in Seq(Entries)
    BY DEF Plan
<1>3. /\ q.log \in Seq(Entries) /\ DOMAIN q.log = 1 .. n + 1 /\ q.log[n + 1] = e
      /\ \A i \in 1 .. n : q.log[i] = p.log[i]
      /\ Len(q.log) = n + 1
    BY <1>2
<1> HIDE DEF n
<1>4. \A i \in 1 .. n + 1 : i \in 1 .. n \/ i = n + 1
    BY <1>1
<1>5. n + 1 \notin 1 .. n /\ n + 1 \in 1 .. n + 1 /\ \A i \in 1 .. n : i \in 1 .. n + 1
    BY <1>1
<1>6. \A i \in 1 .. n : p.log[i].done
    BY <1>1 DEF Issued, Historical!Issued
<1>7. Issued(q) = {n + 1}
    BY <1>3, <1>4, <1>5, <1>6 DEF Issued, Historical!Issued
<1>8. Paid(q) = Paid(p) \cup {n + 1}
    BY <1>1, <1>3, <1>4, <1>5 DEF Paid, Historical!Paid
<1>9. \A x \in Named : Staged(q, x) = Staged(p, x)
    BY <1>1, <1>3, <1>4, <1>5 DEF Staged, Named, Historical!Staged
<1>10. LastIssued(q)
    BY <1>3, <1>4, <1>6 DEF LastIssued
<1> QED
    BY <1>1, <1>3, <1>5, <1>7, <1>8, <1>9, <1>10 DEF n

\* How many entries of each kind there are.
LEMMA Counts ==
    ASSUME NEW p \in Plan
    PROVE  /\ \A x : Cardinality(Staged(p, x)) \in Nat
           /\ \A x : Cardinality(Staged(p, x)) = 0 <=> Staged(p, x) = {}
           /\ Cardinality(Paid(p)) \in Nat /\ Cardinality(Issued(p)) \in Nat
BY LogSets, FS_CardinalityType, FS_EmptySet

Count(p, x) == Cardinality(Staged(p, x))
LEMMA AddsOne ==
    ASSUME NEW p \in Plan, NEW q, NEW k, NEW s \in Named, Adds(p, q, k, s)
    PROVE  /\ Count(q, s) = Count(p, s) + 1
           /\ \A x \in Named \ {s} : Count(q, x) = Count(p, x)
<1>1. IsFiniteSet(Staged(p, s)) /\ k \notin Staged(p, s) /\ Staged(q, s) = Staged(p, s) \cup {k}
    BY LogSets DEF Adds
<1>2. Cardinality(Staged(p, s) \cup {k}) = Cardinality(Staged(p, s)) + 1
    BY <1>1, FS_AddElement
<1>3. \A x \in Named \ {s} : Staged(q, x) = Staged(p, x)
    BY DEF Adds
<1> QED
    BY <1>1, <1>2, <1>3 DEF Count

\* Of an entry, what comes before it is all that verifiedPlan reads.
LEMMA FollowsStill ==
    ASSUME NEW p, NEW q, NEW i, q.log[i] = p.log[i], Historical!Follows(p, i),
           \A x \in Named : Before(q, i, x) = Before(p, i, x)
    PROVE  Historical!Follows(q, i)
<1>1. /\ Historical!Before(q, i, "chunk") = Historical!Before(p, i, "chunk")
      /\ Historical!Before(q, i, "reduction") = Historical!Before(p, i, "reduction")
      /\ Historical!Before(q, i, "checker") = Historical!Before(p, i, "checker")
      /\ Historical!Before(q, i, "final") = Historical!Before(p, i, "final")
    BY DEF Before, Named, Stages
<1> QED
    BY <1>1 DEF Historical!Follows, Historical!Happened

LEMMA OrderKept ==
    ASSUME NEW p, NEW q, NEW k, NEW s \in Named, Historical!InOrder(p), Adds(p, q, k, s),
           Historical!Follows(q, k)
    PROVE  Historical!InOrder(q)
<1>1. k \in Nat /\ k > 0 /\ DOMAIN q.log = 1 .. k
    BY DEF Adds
<1> SUFFICES ASSUME NEW i \in 1 .. k, q.log[i].done PROVE Historical!Follows(q, i)
    BY <1>1 DEF Historical!InOrder
<1>2. i = k \/ i \in 1 .. k - 1
    BY <1>1
<1>3. CASE i = k
    BY <1>3
<1>4. CASE i \in 1 .. k - 1
    <2>1. /\ i \in DOMAIN p.log /\ q.log[i] = p.log[i]
          /\ \A x \in Named : Before(q, i, x) = Before(p, i, x)
        BY <1>4 DEF Adds
    <2>2. Historical!Follows(p, i)
        BY <2>1 DEF Historical!InOrder
    <2> QED
        BY <2>1, <2>2, FollowsStill
<1> QED
    BY <1>2, <1>3, <1>4

-----------------------------------------------------------------------------
(* What verifiedPlan finds in the log and the record of a plan.            *)

IfThen(b) == IF b THEN 1 ELSE 0
Agrees(p) ==
    /\ p.next = Count(p, "chunk")
    /\ Count(p, "reduction") = IfThen(p.reduction # "none")
    /\ Count(p, "checker") = IfThen(p.checker)
    /\ Count(p, "final") = IfThen(p.final)
    /\ p.checker => p.reduction = "candidate"
    /\ \A i \in Staged(p, "rejected") : p.log[i].key = 0 => p.reduction = "candidate"
    /\ p.reduction # "none" => p.next = Chunks
    /\ p.final => /\ Issued(p) = {} /\ p.reduction # "none"
                  /\ p.reduction = "candidate" => p.checker
LogInv(p) ==
    /\ p \in Plan /\ LastIssued(p)
    /\ p.calls = Cardinality(Paid(p)) /\ p.calls <= MaxModelCalls
    /\ Historical!InOrder(p)
    /\ Agrees(p)

LEMMA SameLog ==
    ASSUME NEW p, NEW q \in Plan, LogInv(p), q.log = p.log, q.next = p.next, q.calls = p.calls,
           q.reduction = p.reduction, q.checker = p.checker, q.final = p.final
    PROVE  LogInv(q) /\ Issued(q) = Issued(p)
<1>1. /\ \A x : Staged(q, x) = Staged(p, x)
      /\ Issued(q) = Issued(p) /\ Paid(q) = Paid(p)
    BY DEF Staged, Issued, Paid, Historical!Staged, Historical!Issued, Historical!Paid
<1>2. \A x, i : Before(q, i, x) = Before(p, i, x)
    BY <1>1 DEF Before, Staged, Historical!Before
<1>3. Historical!InOrder(q)
    <2> SUFFICES ASSUME NEW i \in DOMAIN p.log, p.log[i].done PROVE Historical!Follows(q, i)
        BY DEF Historical!InOrder
    <2>1. Historical!Follows(p, i)
        BY DEF LogInv, Historical!InOrder
    <2> QED
        BY <1>2, <2>1, FollowsStill
<1>4. LastIssued(q)
    BY DEF LogInv, LastIssued
<1>5. Agrees(q)
    BY <1>1 DEF LogInv, Agrees, Count
<1> QED
    BY <1>1, <1>3, <1>4, <1>5 DEF LogInv

\* What an entry of each kind needs of the record, and leaves true of it.
LEMMA EntryAdded ==
    ASSUME NEW p, NEW q \in Plan, NEW k, NEW s \in Named, LogInv(p), Adds(p, q, k, s),
           Paid(q) = Paid(p), q.calls = p.calls, Historical!Follows(q, k), Agrees(q)
    PROVE  LogInv(q) /\ Issued(q) = {}
<1>1. Historical!InOrder(q)
    BY OrderKept DEF LogInv
<1>2. LastIssued(q) /\ Issued(q) = {}
    BY DEF LastIssued, Adds, Issued, Historical!Issued
<1> QED
    BY <1>1, <1>2 DEF LogInv

\* The entries of other stages are where they were.
LEMMA StillThere ==
    ASSUME NEW p, NEW q, NEW k, NEW s \in Named, Adds(p, q, k, s), NEW x \in Named \ {s},
           NEW i \in Staged(q, x)
    PROVE  i \in Staged(p, x) /\ q.log[i] = p.log[i]
<1>1. k \in Nat /\ k > 0 /\ DOMAIN q.log = 1 .. k /\ q.log[k].stage = s
    BY DEF Adds
<1>2. i \in 1 .. k /\ q.log[i].stage = x
    BY <1>1 DEF Staged, Historical!Staged
<1>3. i \in 1 .. k - 1
    BY <1>1, <1>2
<1> QED
    BY <1>3 DEF Adds

LEMMA ReadsNow ==
    ASSUME NEW p \in Plan, NEW q, NEW k, NEW s \in Named, Adds(p, q, k, s)
    PROVE  /\ q.log[k].stage = s
           /\ Historical!Cardinality(Historical!Before(q, k, "chunk")) = Count(p, "chunk")
           /\ \A x \in Named : Historical!Happened(q, k, x) <=> Count(p, x) # 0
<1>1. \A x \in Named : Historical!Before(q, k, x) = Staged(p, x)
    BY DEF Adds, Before
<1>2. Historical!Before(q, k, "chunk") = Staged(p, "chunk")
    BY <1>1 DEF Named, Stages
<1>3. \A x \in Named : Historical!Happened(q, k, x) <=> Count(p, x) # 0
    BY <1>1, Counts DEF Count, Historical!Happened
<1> QED
    BY <1>2, <1>3, SameCount DEF Adds, Count

LEMMA Follow ==
    ASSUME NEW p \in Plan, NEW q, NEW k, NEW s \in Named, Adds(p, q, k, s),
           CASE s = "chunk" -> Count(p, "reduction") = 0 /\ q.log[k].key = Count(p, "chunk") + 1
             [] s = "rejected" ->
                  IF Count(p, "reduction") # 0
                  THEN Count(p, "checker") = 0 /\ Count(p, "final") = 0 /\ q.log[k].key = 0
                  ELSE Count(p, "chunk") < Chunks /\ q.log[k].key = Count(p, "chunk") + 1
             [] s = "reduction" -> Count(p, "reduction") = 0 /\ Count(p, "chunk") = Chunks
             [] s = "checker" -> Count(p, "reduction") # 0 /\ Count(p, "checker") = 0 /\ Count(p, "final") = 0
             [] s = "final" -> Count(p, "reduction") # 0 /\ Count(p, "final") = 0
             [] OTHER -> FALSE
    PROVE  Historical!Follows(q, k)
<1>1. /\ q.log[k].stage = s
      /\ Historical!Cardinality(Historical!Before(q, k, "chunk")) = Count(p, "chunk")
      /\ Historical!Happened(q, k, "reduction") <=> Count(p, "reduction") # 0
      /\ Historical!Happened(q, k, "checker") <=> Count(p, "checker") # 0
      /\ Historical!Happened(q, k, "final") <=> Count(p, "final") # 0
    BY ReadsNow DEF Named, Stages
<1> QED
    BY <1>1 DEF Historical!Follows, Historical!Final

\* A chunk is read: by an auditor (Accept), or concluded live (LiveChunk).
LEMMA ChunkAdded ==
    ASSUME NEW p, NEW q \in Plan, NEW k, LogInv(p), Adds(p, q, k, "chunk"), Paid(q) = Paid(p),
           p.next < Chunks, q.next = p.next + 1, q.calls = p.calls, q.reduction = p.reduction,
           q.checker = p.checker, q.final = p.final, q.log[k].key = p.next + 1
    PROVE  LogInv(q) /\ Issued(q) = {}
<1>1. /\ p \in Plan /\ Agrees(p) /\ p.next \in 0 .. Chunks /\ Chunks \in Nat
      /\ p.reduction = "none" /\ ~p.final
    <2>1. p \in Plan /\ Agrees(p) /\ Chunks \in Nat /\ p.next \in 0 .. Chunks
        BY EvolutionAssumption DEF LogInv, Plan
    <2> QED
        BY <2>1 DEF Agrees
<1>2. Count(p, "reduction") = 0 /\ Count(p, "chunk") = p.next
    BY <1>1 DEF Agrees, IfThen
<1>3. "chunk" \in Named /\ {"reduction", "checker", "final", "rejected"} \subseteq Named \ {"chunk"}
    BY DEF Named, Stages
<1>4. Historical!Follows(q, k)
    BY <1>1, <1>2, <1>3, Follow
<1>5. /\ Count(q, "chunk") = Count(p, "chunk") + 1 /\ Count(q, "reduction") = Count(p, "reduction")
      /\ Count(q, "checker") = Count(p, "checker") /\ Count(q, "final") = Count(p, "final")
    BY <1>1, <1>3, AddsOne
<1>6. \A i \in Staged(q, "rejected") : i \in Staged(p, "rejected") /\ q.log[i] = p.log[i]
    BY <1>3, StillThere
<1>7. Agrees(q)
    BY <1>1, <1>2, <1>5, <1>6 DEF Agrees
<1> QED
    BY <1>3, <1>4, <1>7, EntryAdded

Target(p) == IF p.next < Chunks THEN p.next + 1 ELSE 0
\* An invalid answer is recorded (Reject).
LEMMA RejectAdded ==
    ASSUME NEW p, NEW q \in Plan, NEW k, LogInv(p), Adds(p, q, k, "rejected"), Paid(q) = Paid(p),
           q.next = p.next, q.calls = p.calls, q.reduction = p.reduction, q.checker = p.checker,
           q.final = p.final, q.log[k].key = Target(p), ~p.final,
           p.next = Chunks => p.reduction = "candidate" /\ ~p.checker
    PROVE  LogInv(q) /\ Issued(q) = {}
<1>1. /\ p \in Plan /\ Agrees(p) /\ p.next \in 0 .. Chunks /\ Chunks \in Nat
      /\ p.reduction # "none" <=> p.next = Chunks
    <2>1. p \in Plan /\ Agrees(p) /\ Chunks \in Nat /\ p.next \in 0 .. Chunks
        BY EvolutionAssumption DEF LogInv, Plan
    <2> QED
        BY <2>1 DEF Agrees
<1>2. /\ Count(p, "chunk") = p.next /\ Count(p, "reduction") = IfThen(p.reduction # "none")
      /\ Count(p, "checker") = IfThen(p.checker) /\ Count(p, "final") = 0
    BY <1>1 DEF Agrees, IfThen
<1>3. /\ "rejected" \in Named
      /\ {"reduction", "checker", "final", "chunk"} \subseteq Named \ {"rejected"}
    BY DEF Named, Stages
<1>4. Historical!Follows(q, k)
    <2>1. CASE p.next < Chunks
        <3>1. Count(p, "reduction") = 0 /\ q.log[k].key = Count(p, "chunk") + 1 /\ Count(p, "chunk") < Chunks
            BY <1>1, <1>2, <2>1 DEF IfThen, Target
        <3> QED
            BY <1>1, <1>3, <3>1, Follow
    <2>2. CASE p.next = Chunks
        <3>1. /\ Count(p, "reduction") # 0 /\ Count(p, "checker") = 0 /\ Count(p, "final") = 0
              /\ q.log[k].key = 0
            BY <1>1, <1>2, <2>2 DEF IfThen, Target
        <3> QED
            BY <1>1, <1>3, <3>1, Follow
    <2> QED
        BY <1>1, <2>1, <2>2
<1>5. /\ Count(q, "chunk") = Count(p, "chunk") /\ Count(q, "reduction") = Count(p, "reduction")
      /\ Count(q, "checker") = Count(p, "checker") /\ Count(q, "final") = Count(p, "final")
    BY <1>1, <1>3, AddsOne
<1>6. \A i \in Staged(q, "rejected") : q.log[i].key = 0 => q.reduction = "candidate"
    <2> SUFFICES ASSUME NEW i \in Staged(q, "rejected"), q.log[i].key = 0, p.reduction # "candidate"
                 PROVE  FALSE
        OBVIOUS
    <2>1. i \in 1 .. k /\ k \in Nat
        BY DEF Adds, Staged, Historical!Staged
    <2>2. CASE i = k
        BY <1>1, <2>2 DEF Target
    <2>3. CASE i \in 1 .. k - 1
        <3>1. q.log[i] = p.log[i] /\ i \in DOMAIN p.log /\ q.log[i].stage = "rejected"
            BY <2>3 DEF Adds, Staged, Historical!Staged
        <3> QED
            BY <1>1, <3>1 DEF Agrees, Staged, Historical!Staged
    <2> QED
        BY <2>1, <2>2, <2>3
<1>7. Agrees(q)
    BY <1>1, <1>2, <1>5, <1>6 DEF Agrees
<1> QED
    BY <1>3, <1>4, <1>7, EntryAdded

\* Every chunk is read and a finding or none is chosen (Reduce).
LEMMA ReductionAdded ==
    ASSUME NEW p, NEW q \in Plan, NEW k, LogInv(p), Adds(p, q, k, "reduction"), Paid(q) = Paid(p),
           p.next = Chunks, p.reduction = "none", q.next = p.next, q.calls = p.calls,
           q.reduction # "none", q.checker = p.checker, q.final = p.final
    PROVE  LogInv(q) /\ Issued(q) = {}
<1>1. p \in Plan /\ Agrees(p) /\ p.next \in 0 .. Chunks /\ Chunks \in Nat
    BY EvolutionAssumption DEF LogInv, Plan
<1>2. ~p.final /\ ~p.checker /\ Count(p, "reduction") = 0 /\ Count(p, "chunk") = Chunks
    BY <1>1 DEF Agrees, IfThen
<1>3. /\ "reduction" \in Named
      /\ {"rejected", "checker", "final", "chunk"} \subseteq Named \ {"reduction"}
    BY DEF Named, Stages
<1>4. Historical!Follows(q, k)
    BY <1>1, <1>2, <1>3, Follow
<1>5. /\ Count(q, "chunk") = Count(p, "chunk") /\ Count(q, "reduction") = Count(p, "reduction") + 1
      /\ Count(q, "checker") = Count(p, "checker") /\ Count(q, "final") = Count(p, "final")
    BY <1>1, <1>3, AddsOne
<1>6. \A i \in Staged(q, "rejected") : i \in Staged(p, "rejected") /\ q.log[i] = p.log[i]
    BY <1>3, StillThere
<1>7. \A i \in Staged(q, "rejected") : q.log[i].key # 0
    BY <1>1, <1>6 DEF Agrees
<1>8. Agrees(q)
    BY <1>1, <1>2, <1>5, <1>7 DEF Agrees, IfThen
<1> QED
    BY <1>3, <1>4, <1>8, EntryAdded

\* The checker confirms the chosen finding (Accept).
LEMMA CheckerAdded ==
    ASSUME NEW p, NEW q \in Plan, NEW k, LogInv(p), Adds(p, q, k, "checker"), Paid(q) = Paid(p),
           ~p.final, p.reduction = "candidate", ~p.checker, q.next = p.next, q.calls = p.calls,
           q.reduction = p.reduction, q.checker, q.final = p.final
    PROVE  LogInv(q) /\ Issued(q) = {}
<1>1. p \in Plan /\ Agrees(p) /\ p.next \in 0 .. Chunks /\ Chunks \in Nat
    BY EvolutionAssumption DEF LogInv, Plan
<1>2. Count(p, "reduction") = 1 /\ Count(p, "checker") = 0 /\ Count(p, "final") = 0
    BY <1>1 DEF Agrees, IfThen
<1>3. /\ "checker" \in Named
      /\ {"rejected", "reduction", "final", "chunk"} \subseteq Named \ {"checker"}
    BY DEF Named, Stages
<1>4. Historical!Follows(q, k)
    BY <1>1, <1>2, <1>3, Follow
<1>5. /\ Count(q, "chunk") = Count(p, "chunk") /\ Count(q, "reduction") = Count(p, "reduction")
      /\ Count(q, "checker") = Count(p, "checker") + 1 /\ Count(q, "final") = Count(p, "final")
    BY <1>1, <1>3, AddsOne
<1>6. \A i \in Staged(q, "rejected") : i \in Staged(p, "rejected") /\ q.log[i] = p.log[i]
    BY <1>3, StillThere
<1>8. Agrees(q)
    BY <1>1, <1>2, <1>5, <1>6 DEF Agrees, IfThen
<1> QED
    BY <1>3, <1>4, <1>8, EntryAdded

\* The completion is committed (Finish).
LEMMA FinalAdded ==
    ASSUME NEW p, NEW q \in Plan, NEW k, LogInv(p), Adds(p, q, k, "final"), Paid(q) = Paid(p),
           ~p.final, p.reduction # "none", p.reduction = "candidate" => p.checker, q.next = p.next,
           q.calls = p.calls, q.reduction = p.reduction, q.checker = p.checker, q.final
    PROVE  LogInv(q) /\ Issued(q) = {}
<1>1. p \in Plan /\ Agrees(p) /\ p.next \in 0 .. Chunks /\ Chunks \in Nat
    BY EvolutionAssumption DEF LogInv, Plan
<1>2. Count(p, "reduction") = 1 /\ Count(p, "final") = 0 /\ Issued(q) = {}
    BY <1>1 DEF Agrees, IfThen, Adds
<1>3. /\ "final" \in Named
      /\ {"rejected", "reduction", "checker", "chunk"} \subseteq Named \ {"final"}
    BY DEF Named, Stages
<1>4. Historical!Follows(q, k)
    BY <1>1, <1>2, <1>3, Follow
<1>5. /\ Count(q, "chunk") = Count(p, "chunk") /\ Count(q, "reduction") = Count(p, "reduction")
      /\ Count(q, "checker") = Count(p, "checker") /\ Count(q, "final") = Count(p, "final") + 1
    BY <1>1, <1>3, AddsOne
<1>6. \A i \in Staged(q, "rejected") : i \in Staged(p, "rejected") /\ q.log[i] = p.log[i]
    BY <1>3, StillThere
<1>8. Agrees(q)
    BY <1>1, <1>2, <1>5, <1>6 DEF Agrees, IfThen
<1> QED
    BY <1>3, <1>4, <1>8, EntryAdded

\* A call is charged (Issue).
LEMMA ChargeAdded ==
    ASSUME NEW p, NEW q \in Plan, NEW e \in Entries, LogInv(p), e.stage = "issued", ~e.done, e.paid,
           q.log = Append(p.log, e), Issued(p) = {}, ~p.final, p.calls < MaxModelCalls,
           q.calls = p.calls + 1, q.next = p.next, q.reduction = p.reduction,
           q.checker = p.checker, q.final = p.final
    PROVE  /\ LogInv(q) /\ Issued(q) # {} /\ q.log[Len(q.log)] = e
<1>1. /\ p \in Plan /\ Agrees(p) /\ Historical!InOrder(p) /\ p.calls = Cardinality(Paid(p))
      /\ MaxModelCalls \in Nat /\ p.calls \in Nat
    BY EvolutionAssumption DEF LogInv, Plan
<1>0. p \in Plan
    BY <1>1
<1>2. /\ LastIssued(q) /\ Len(p.log) + 1 \notin Paid(p) /\ Paid(q) = Paid(p) \cup {Len(p.log) + 1}
      /\ Issued(q) = {Len(p.log) + 1} /\ q.log[Len(p.log) + 1] = e /\ Len(q.log) = Len(p.log) + 1
      /\ \A i \in 1 .. Len(p.log) : q.log[i] = p.log[i]
      /\ \A x \in Named : Staged(q, x) = Staged(p, x)
    BY <1>0, Issues
<1>3. Len(p.log) \in Nat /\ DOMAIN p.log = 1 .. Len(p.log) /\ DOMAIN q.log = 1 .. Len(q.log)
    BY <1>1, LogSets
<1>4. q.calls = Cardinality(Paid(q)) /\ q.calls <= MaxModelCalls
    <2>1. Cardinality(Paid(q)) = Cardinality(Paid(p)) + 1
        BY <1>1, <1>2, LogSets, FS_AddElement
    <2> QED
        BY <1>1, <2>1
<1>5. Historical!InOrder(q)
    <2> SUFFICES ASSUME NEW i \in 1 .. Len(p.log) + 1, q.log[i].done PROVE Historical!Follows(q, i)
        BY <1>2, <1>3 DEF Historical!InOrder
    <2>1. i \in 1 .. Len(p.log) /\ q.log[i] = p.log[i]
        BY <1>2, <1>3
    <2>2. Historical!Follows(p, i)
        BY <1>1, <1>3, <2>1 DEF Historical!InOrder
    <2>3. \A x \in Named : Before(q, i, x) = Before(p, i, x)
        BY <1>2 DEF Before, Staged, Historical!Before
    <2> QED
        BY <2>1, <2>2, <2>3, FollowsStill
<1>6. Agrees(q)
    <2>1. {"rejected", "reduction", "checker", "chunk", "final"} \subseteq Named
        BY DEF Named, Stages
    <2>2. /\ Count(q, "chunk") = Count(p, "chunk") /\ Count(q, "reduction") = Count(p, "reduction")
          /\ Count(q, "checker") = Count(p, "checker") /\ Count(q, "final") = Count(p, "final")
          /\ Staged(q, "rejected") = Staged(p, "rejected")
        BY <1>2, <2>1 DEF Count
    <2>3. \A i \in Staged(p, "rejected") : q.log[i] = p.log[i]
        BY <1>1, <1>2, LogSets
    <2> QED
        BY <1>1, <2>2, <2>3 DEF Agrees
<1> QED
    BY <1>2, <1>4, <1>5, <1>6 DEF LogInv

-----------------------------------------------------------------------------
(* A historical plan: its runs.                                            *)

Out == {"issued", "calling", "answered", "accept", "reject"}
Places == Out \cup {"idle", "reserve", "chunk", "attempt", "issue", "reduced", "publish", "finish",
                    "finished", "interrupt"}
HistTyped ==
    /\ exec \in [pc : Places, tries : Nat] /\ candidate \in {"none", "created", "reviewed"}
    /\ epochFile \in BOOLEAN /\ sent \in Nat /\ unknown \in BOOLEAN
HistDone ==
    /\ plan.state = "completed" => plan.final
    /\ plan.named <=> plan.final /\ plan.reduction = "candidate"
    /\ plan.final /\ plan.reduction = "candidate" => candidate # "none"
    /\ candidate # "none" => plan.next = Chunks /\ plan.reduction = "candidate" /\ plan.checker
    /\ Historical!Begun(plan)
HistPlaced ==
    /\ exec.pc \in Out => Issued(plan) # {} /\ plan.log[Len(plan.log)].key = Target(plan)
    /\ exec.pc \notin Out \cup {"idle", "interrupt"} => Issued(plan) = {}
    /\ exec.pc \notin {"idle", "reserve", "interrupt"} => plan.epoch
    /\ exec.pc \in {"attempt", "issue"} \cup Out /\ plan.next = Chunks =>
          plan.reduction = "candidate" /\ ~plan.checker
    /\ exec.pc = "reduced" => plan.reduction # "none"
    /\ exec.pc = "publish" => plan.reduction = "candidate" /\ plan.checker
    /\ exec.pc = "finish" =>
          plan.reduction # "none" /\ (plan.reduction = "candidate" => plan.checker /\ candidate # "none")
    /\ plan.final => exec.pc \in {"finished", "interrupt", "idle"}
    /\ exec.pc = "issue" => plan.calls < MaxModelCalls
HistCharged ==
    /\ sent <= plan.calls /\ (exec.pc = "issued" => sent < plan.calls)
    /\ unknown => exec.pc \in {"idle", "interrupt"} /\ Issued(plan) # {}
HistInv == LogInv(plan) /\ HistTyped /\ HistDone /\ HistPlaced /\ HistCharged

LEMMA NewPlanHolds == Historical!Init => HistInv
<1> SUFFICES ASSUME Historical!Init PROVE HistInv
    OBVIOUS
<1>1. /\ plan.log = <<>> /\ plan.state = "previewed" /\ plan.next = 0 /\ plan.calls = 0
      /\ plan.epoch = FALSE /\ plan.reduction = "none" /\ plan.checker = FALSE
      /\ plan.final = FALSE /\ plan.named = FALSE
    BY DEF Historical!Init, Historical!NewPlan
<1>2. plan \in Plan
    <2>1. <<>> \in Seq(Entries) /\ 0 \in 0 .. Chunks /\ 0 \in Nat
        BY EvolutionAssumption
    <2>2. plan = [state |-> "previewed", next |-> 0, calls |-> 0, log |-> <<>>, epoch |-> FALSE,
                  reduction |-> "none", checker |-> FALSE, final |-> FALSE, named |-> FALSE]
        BY DEF Historical!Init, Historical!NewPlan
    <2> QED
        BY <2>1, <2>2 DEF Plan, PlanState
<1>3. DOMAIN plan.log = {}
    BY <1>1
<1>4. /\ \A x : Staged(plan, x) = {}
      /\ Issued(plan) = {} /\ Paid(plan) = {}
    BY <1>3 DEF Staged, Issued, Paid, Historical!Staged, Historical!Issued, Historical!Paid
<1>5. Cardinality({}) = 0
    BY FS_EmptySet
<1>6. Agrees(plan)
    BY <1>1, <1>4, <1>5 DEF Agrees, Count, IfThen
<1>7. LogInv(plan)
    BY <1>1, <1>2, <1>3, <1>4, <1>5, <1>6, EvolutionAssumption DEF LogInv, LastIssued, Historical!InOrder
<1>8. exec.pc = "idle" /\ exec \in [pc : Places, tries : Nat] /\ candidate = "none"
      /\ epochFile = FALSE /\ sent = 0 /\ unknown = FALSE
    BY DEF Historical!Init, Historical!Idle, Places
<1>9. HistTyped
    BY <1>8 DEF HistTyped
<1>10. Historical!Begun(plan)
    BY <1>1 DEF Historical!Begun
<1>11. HistDone
    BY <1>1, <1>8, <1>10 DEF HistDone
<1>12. HistPlaced
    BY <1>1, <1>4, <1>8 DEF HistPlaced, Out
<1>13. HistCharged
    BY <1>1, <1>8 DEF HistCharged
<1> QED
    BY <1>7, <1>9, <1>11, <1>12, <1>13 DEF HistInv

\* What the executor's place becomes.
LEMMA Moves ==
    ASSUME HistTyped, NEW x \in Places
    PROVE  /\ Historical!Goes(x) =>
                 exec' \in [pc : Places, tries : Nat] /\ exec'.pc = x /\ exec'.tries = exec.tries
           /\ exec' = Historical!Idle => exec' \in [pc : Places, tries : Nat] /\ exec'.pc = "idle"
           /\ \A n \in Nat : exec' = [pc |-> x, tries |-> n] =>
                 exec' \in [pc : Places, tries : Nat] /\ exec'.pc = x
BY DEF HistTyped, Historical!Goes, Historical!Idle, Places

\* A place where no call is out and nothing is yet chosen or final is kept from another.
LEMMA Stands ==
    ASSUME HistInv, UNCHANGED <<plan, candidate, epochFile, sent>>,
           exec' \in [pc : Places, tries : Nat], unknown' \in BOOLEAN,
           HistPlaced', HistCharged'
    PROVE  HistInv'
BY DEF HistInv, HistTyped, HistDone, Historical!Begun

\* What Accepted says of a plan that is not completed.
LEMMA AcceptedOpen ==
    ASSUME HistInv, Historical!Accepted, plan.state # "completed"
    PROVE  ~plan.final
BY DEF Historical!Accepted, Historical!Verified, Historical!Proved

LEMMA QuietSteps ==
    ASSUME HistInv,
           \/ Historical!Run \/ Historical!Chunk \/ Historical!Attempt \/ Historical!Answer
           \/ Historical!NoAnswer \/ Historical!Unsent \/ Historical!Judge \/ Historical!Report
           \/ Historical!Fails \/ Historical!Die
    PROVE  HistInv'
<1>1. /\ HistTyped /\ HistPlaced /\ HistCharged /\ UNCHANGED <<plan, candidate, epochFile, sent>>
      /\ plan \in Plan /\ plan.next \in 0 .. Chunks
    BY DEF HistInv, LogInv, Plan, Historical!Run, Historical!Chunk, Historical!Attempt, Historical!Answer,
           Historical!NoAnswer, Historical!Unsent, Historical!Judge, Historical!Report,
           Historical!Fails, Historical!Die
<1>2. Issued(plan)' = Issued(plan) /\ Target(plan)' = Target(plan)
    BY <1>1 DEF Issued, Historical!Issued, Target
<1>3. exec.tries \in Nat /\ exec.tries + 1 \in Nat /\ 0 \in Nat /\ unknown \in BOOLEAN
    BY <1>1 DEF HistTyped
<1> DEFINE Done == exec' \in [pc : Places, tries : Nat] /\ unknown' \in BOOLEAN /\ HistPlaced' /\ HistCharged'
<1>4. CASE Historical!Run
    <2>1. exec' \in [pc : Places, tries : Nat] /\ exec'.pc = "reserve" /\ unknown' = unknown
        BY <1>1, <1>4, Moves DEF Historical!Run, Places
    <2>2. ~plan.final /\ Issued(plan) = {}
        BY <1>4, AcceptedOpen DEF Historical!Run, Issued
    <2>3. HistPlaced'
        BY <1>1, <1>2, <2>1, <2>2 DEF HistPlaced, Out
    <2>4. HistCharged'
        BY <1>1, <1>2, <2>1, <2>2 DEF HistCharged, Out
    <2> QED
        BY <1>1, <1>3, <2>1, <2>3, <2>4, Stands
<1>5. CASE Historical!Chunk
    <2>1. /\ exec' \in [pc : Places, tries : Nat] /\ exec'.pc \in {"idle", "interrupt", "attempt"}
          /\ exec.pc = "chunk" /\ plan.next < Chunks /\ unknown' = unknown
        BY <1>1, <1>3, <1>5, Moves DEF Historical!Chunk, Places
    <2>2. Issued(plan) = {} /\ plan.epoch /\ ~plan.final /\ ~(plan.next = Chunks)
        BY <1>1, <2>1, EvolutionAssumption DEF HistPlaced, Out
    <2>3. HistPlaced'
        BY <1>1, <1>2, <2>1, <2>2 DEF HistPlaced, Out
    <2>4. HistCharged'
        BY <1>1, <1>2, <2>1, <2>2 DEF HistCharged, Out
    <2> QED
        BY <1>1, <1>3, <2>1, <2>3, <2>4, Stands
<1>6. CASE Historical!Attempt
    <2>1. /\ exec' \in [pc : Places, tries : Nat] /\ exec'.pc \in {"idle", "interrupt", "issue"}
          /\ exec.pc = "attempt" /\ unknown' = unknown
          /\ exec'.pc = "issue" => ~Historical!Spent
        BY <1>1, <1>3, <1>6, Moves DEF Historical!Attempt, Historical!Goes, Places
    <2>2. Issued(plan) = {} /\ plan.epoch /\ ~plan.final
        BY <1>1, <2>1 DEF HistPlaced, Out
    <2>3. exec'.pc = "issue" => plan.calls < MaxModelCalls
        BY <1>1, <2>1, EvolutionAssumption DEF Historical!Spent, Plan
    <2>4. HistPlaced'
        BY <1>1, <1>2, <2>1, <2>2, <2>3 DEF HistPlaced, Out
    <2>5. HistCharged'
        BY <1>1, <1>2, <2>1, <2>2 DEF HistCharged, Out
    <2> QED
        BY <1>1, <1>3, <2>1, <2>4, <2>5, Stands
<1>7. CASE Historical!Answer
    <2>1. /\ exec' \in [pc : Places, tries : Nat] /\ exec'.pc \in {"idle", "accept", "reject"}
          /\ exec.pc = "calling" /\ unknown' = unknown
        BY <1>1, <1>3, <1>7, Moves DEF Historical!Answer, Historical!Goes, Places, Out
    <2>2. HistPlaced'
        BY <1>1, <1>2, <2>1 DEF HistPlaced, Out
    <2>3. HistCharged'
        BY <1>1, <1>2, <2>1 DEF HistCharged, Out
    <2> QED
        BY <1>1, <1>3, <2>1, <2>2, <2>3, Stands
<1>8. CASE Historical!NoAnswer
    <2>1. /\ exec' \in [pc : Places, tries : Nat] /\ exec'.pc \in {"idle", "interrupt"}
          /\ exec.pc = "calling" /\ unknown' = TRUE
        BY <1>1, <1>3, <1>8, Moves DEF Historical!NoAnswer, Historical!Goes, Places, Out
    <2>2. HistPlaced'
        BY <1>1, <1>2, <2>1 DEF HistPlaced, Out
    <2>3. HistCharged'
        BY <1>1, <1>2, <2>1 DEF HistCharged, HistPlaced, Out
    <2> QED
        BY <1>1, <1>3, <2>1, <2>2, <2>3, Stands
<1>9. CASE Historical!Unsent
    <2>1. /\ exec' \in [pc : Places, tries : Nat] /\ exec'.pc = "idle"
          /\ exec.pc = "answered" /\ unknown' = unknown
        BY <1>1, <1>9, Moves DEF Historical!Unsent, Places
    <2>2. HistPlaced'
        BY <1>1, <1>2, <2>1 DEF HistPlaced, Out
    <2>3. HistCharged'
        BY <1>1, <1>2, <2>1 DEF HistCharged, Out
    <2> QED
        BY <1>1, <1>3, <2>1, <2>2, <2>3, Stands
<1>10. CASE Historical!Judge
    <2>1. /\ exec' \in [pc : Places, tries : Nat]
          /\ exec'.pc \in {"finish", "interrupt", "publish", "idle", "attempt"}
          /\ exec.pc = "reduced" /\ unknown' = unknown
          /\ exec'.pc = "finish" => plan.reduction = "no-change"
          /\ exec'.pc = "publish" => plan.reduction # "no-change" /\ plan.checker
          /\ exec'.pc = "attempt" => plan.reduction # "no-change" /\ ~plan.checker
        BY <1>1, <1>3, <1>10, Moves DEF Historical!Judge, Historical!Goes, Places
    <2>2. /\ Issued(plan) = {} /\ plan.epoch /\ ~plan.final /\ plan.reduction \in {"candidate", "no-change"}
        BY <1>1, <2>1 DEF HistPlaced, Out, Plan
    <2>3. HistPlaced'
        BY <1>1, <1>2, <2>1, <2>2 DEF HistPlaced, Out
    <2>4. HistCharged'
        BY <1>1, <1>2, <2>1, <2>2 DEF HistCharged, Out
    <2> QED
        BY <1>1, <1>3, <2>1, <2>3, <2>4, Stands
<1>11. CASE Historical!Report
    <2>1. /\ exec' \in [pc : Places, tries : Nat] /\ exec'.pc \in {"idle", "interrupt"}
          /\ exec.pc = "finished" /\ unknown' = unknown
        BY <1>1, <1>3, <1>11, Moves DEF Historical!Report, Historical!Goes, Places
    <2>2. HistPlaced'
        BY <1>1, <1>2, <2>1 DEF HistPlaced, Out
    <2>3. HistCharged'
        BY <1>1, <1>2, <2>1 DEF HistCharged, Out
    <2> QED
        BY <1>1, <1>3, <2>1, <2>2, <2>3, Stands
<1>12. CASE Historical!Fails \/ Historical!Die
    <2>1. /\ exec' \in [pc : Places, tries : Nat] /\ exec'.pc \in {"idle", "interrupt"}
          /\ unknown' = (unknown \/ exec.pc = "calling")
        BY <1>1, <1>3, <1>12, Moves DEF Historical!Fails, Historical!Die, Places
    <2>2. HistPlaced'
        BY <1>1, <1>2, <2>1 DEF HistPlaced, Out
    <2>3. unknown' \in BOOLEAN /\ (unknown' => Issued(plan) # {})
        BY <1>1, <1>3, <2>1 DEF HistCharged, HistPlaced, Out
    <2>4. HistCharged'
        BY <1>1, <1>2, <2>1, <2>3 DEF HistCharged
    <2> QED
        BY <1>1, <1>3, <2>1, <2>2, <2>3, <2>4, Stands
<1> QED
    BY <1>4, <1>5, <1>6, <1>7, <1>8, <1>9, <1>10, <1>11, <1>12

\* The state of the plan changes, its log does not.
LEMMA StateSteps ==
    ASSUME HistInv,
           \/ Historical!Blocked \/ Historical!Begin \/ Historical!Interrupt \/ Historical!Recover
           \/ Historical!Cancel
    PROVE  HistInv'
<1>1. /\ HistTyped /\ HistDone /\ HistPlaced /\ HistCharged /\ LogInv(plan)
      /\ plan \in Plan /\ plan.next \in 0 .. Chunks /\ plan.state \in PlanState
    BY DEF HistInv, LogInv, Plan
<1>2. /\ UNCHANGED <<candidate, sent, unknown>>
      /\ exec' \in [pc : Places, tries : Nat] /\ epochFile' \in BOOLEAN
    BY <1>1, Moves DEF HistTyped, Places, Historical!Blocked, Historical!Begin, Historical!Interrupt,
       Historical!Recover, Historical!Cancel
<1>3. /\ plan' \in Plan /\ plan'.log = plan.log /\ plan'.next = plan.next /\ plan'.calls = plan.calls
      /\ plan'.reduction = plan.reduction /\ plan'.checker = plan.checker /\ plan'.final = plan.final
      /\ plan'.named = plan.named
      /\ \/ plan' = plan
         \/ plan'.state \in {"resumable", "cancelled"} /\ plan'.epoch = plan.epoch
         \/ plan'.state = "running" /\ plan'.epoch
    <2>1. \/ plan' = plan
          \/ plan' = [plan EXCEPT !.state = "resumable"]
          \/ plan' = [plan EXCEPT !.state = "cancelled"]
          \/ plan' = [plan EXCEPT !.state = "running", !.epoch = TRUE]
        BY DEF Historical!Blocked, Historical!Begin, Historical!Interrupt, Historical!Recover,
               Historical!Cancel
    <2>2. CASE plan' = plan
        BY <1>1, <2>2
    <2>3. CASE plan' = [plan EXCEPT !.state = "resumable"]
        BY <1>1, <2>3 DEF Plan, PlanState
    <2>4. CASE plan' = [plan EXCEPT !.state = "cancelled"]
        BY <1>1, <2>4 DEF Plan, PlanState
    <2>5. CASE plan' = [plan EXCEPT !.state = "running", !.epoch = TRUE]
        BY <1>1, <2>5 DEF Plan, PlanState
    <2> QED
        BY <2>1, <2>2, <2>3, <2>4, <2>5
<1>4. LogInv(plan') /\ Issued(plan') = Issued(plan) /\ Target(plan') = Target(plan)
    BY <1>1, <1>3, SameLog DEF Target
<1>5. /\ exec'.pc \in {"chunk"} => exec.pc \in {"reserve", "chunk"} /\ (exec.pc = "reserve" => plan'.epoch)
      /\ exec'.pc \in {"idle", "chunk"} \/ exec' = exec
      /\ exec' # exec => exec.pc \in {"reserve", "interrupt"}
      /\ plan'.state = "running" => plan' = plan \/ exec.pc = "reserve"
    <2>1. CASE Historical!Blocked \/ Historical!Interrupt
        <3>1. exec.pc \in {"reserve", "interrupt"} /\ exec'.pc = "idle"
            BY <2>1 DEF Historical!Blocked, Historical!Interrupt, Historical!Idle
        <3>2. \/ plan' = plan \/ plan' = [plan EXCEPT !.state = "resumable"]
            BY <2>1 DEF Historical!Blocked, Historical!Interrupt
        <3>3. plan'.state = "running" => plan' = plan
            BY <1>1, <3>2 DEF Plan
        <3> QED
            BY <3>1, <3>3
    <2>2. CASE Historical!Begin
        <3>1. /\ exec.pc = "reserve"
              /\ \/ exec' = Historical!Idle
                 \/ /\ exec' = [exec EXCEPT !.pc = "chunk"]
                    /\ plan' = [plan EXCEPT !.state = "running", !.epoch = TRUE]
            BY <2>2 DEF Historical!Begin, Historical!Goes, Historical!Cancelled, Historical!Idle
        <3>2. exec'.pc = "idle" \/ exec'.pc = "chunk"
            BY <1>1, <3>1, Moves DEF Places, Historical!Goes
        <3>3. exec'.pc = "chunk" => plan' = [plan EXCEPT !.state = "running", !.epoch = TRUE]
            BY <3>1 DEF Historical!Idle
        <3>4. exec'.pc = "chunk" => plan'.epoch
            BY <1>1, <3>3 DEF Plan
        <3> QED
            BY <3>1, <3>2, <3>4
    <2>3. CASE Historical!Recover \/ Historical!Cancel
        BY <1>1, <1>3, <2>3 DEF Historical!Recover, Historical!Cancel, Plan
    <2> QED
        BY <2>1, <2>2, <2>3
<1>6. plan.epoch => plan'.epoch
    BY <1>3
<1>7. HistDone'
    <2>1. plan'.state = "completed" => plan'.final
        BY <1>1, <1>3 DEF HistDone
    <2>2. Historical!Begun(plan')
        BY <1>1, <1>3 DEF HistDone, Historical!Begun
    <2> QED
        BY <1>1, <1>2, <1>3, <2>1, <2>2 DEF HistDone
<1>8. HistPlaced'
    BY <1>1, <1>2, <1>3, <1>4, <1>5, <1>6 DEF HistPlaced, Out
<1>9. HistCharged'
    BY <1>1, <1>2, <1>3, <1>4, <1>5 DEF HistCharged
<1> QED
    BY <1>1, <1>2, <1>4, <1>7, <1>8, <1>9 DEF HistInv, HistTyped

LEMMA SendStep ==
    ASSUME HistInv, Historical!Send
    PROVE  HistInv'
<1>1. /\ HistTyped /\ HistDone /\ HistPlaced /\ HistCharged /\ LogInv(plan)
      /\ UNCHANGED <<plan, epochFile, candidate, unknown>> /\ exec.pc = "issued"
      /\ plan.calls \in Nat /\ sent \in Nat
    BY DEF HistInv, HistTyped, LogInv, Plan, Historical!Send
<1>2. /\ exec' \in [pc : Places, tries : Nat]
      /\ \/ exec'.pc = "answered" /\ sent' = sent
         \/ exec'.pc = "calling" /\ sent' = sent + 1
    <2>1. \/ exec' = [exec EXCEPT !.pc = "answered"] /\ sent' = sent
          \/ exec' = [exec EXCEPT !.pc = "calling"] /\ sent' = sent + 1
        BY <1>1 DEF Historical!Send, Historical!Goes, Historical!Cancelled
    <2> QED
        BY <1>1, <2>1 DEF HistTyped, Places, Out
<1>3. Issued(plan)' = Issued(plan) /\ Target(plan)' = Target(plan)
    BY <1>1 DEF Issued, Historical!Issued, Target
<1>4. HistPlaced'
    BY <1>1, <1>2, <1>3 DEF HistPlaced, Out
<1>5. HistCharged' /\ sent' \in Nat
    BY <1>1, <1>2, <1>3 DEF HistCharged
<1> QED
    BY <1>1, <1>2, <1>4, <1>5 DEF HistInv, HistTyped, HistDone, Historical!Begun

LEMMA CandidateSteps ==
    ASSUME HistInv, Historical!Publish \/ Historical!Review
    PROVE  HistInv'
<1>1. /\ HistTyped /\ HistDone /\ HistPlaced /\ HistCharged /\ LogInv(plan)
      /\ UNCHANGED <<plan, epochFile, sent, unknown>> /\ plan \in Plan
    BY DEF HistInv, LogInv, Historical!Publish, Historical!Review
<1>2. Issued(plan)' = Issued(plan) /\ Target(plan)' = Target(plan)
    BY <1>1 DEF Issued, Historical!Issued, Target
<1>3. CASE Historical!Publish
    <2>1. /\ exec' \in [pc : Places, tries : Nat] /\ exec.pc = "publish"
          /\ \/ exec'.pc \in {"idle", "interrupt"} /\ candidate' = candidate
             \/ exec'.pc = "finish" /\ candidate' \in {"created", "reviewed"}
        BY <1>1, <1>3, Moves DEF Historical!Publish, HistTyped, Places, Historical!Goes
    <2>2. /\ Issued(plan) = {} /\ plan.epoch /\ ~plan.final /\ plan.reduction = "candidate" /\ plan.checker
          /\ plan.next = Chunks
        BY <1>1, <2>1 DEF HistPlaced, Out, LogInv, Agrees
    <2>3. HistPlaced'
        BY <1>1, <1>2, <2>1, <2>2 DEF HistPlaced, Out
    <2>4. HistCharged'
        BY <1>1, <1>2, <2>1, <2>2 DEF HistCharged, Out
    <2>5. HistDone'
        BY <1>1, <2>1, <2>2 DEF HistDone, Historical!Begun
    <2> QED
        BY <1>1, <2>1, <2>3, <2>4, <2>5 DEF HistInv, HistTyped
<1>4. CASE Historical!Review
    <2>1. exec' = exec /\ candidate = "created" /\ candidate' = "reviewed"
        BY <1>4 DEF Historical!Review
    <2>2. HistPlaced' /\ HistCharged'
        BY <1>1, <1>2, <2>1 DEF HistPlaced, HistCharged
    <2>3. HistDone'
        BY <1>1, <2>1 DEF HistDone, Historical!Begun
    <2> QED
        BY <1>1, <2>1, <2>2, <2>3 DEF HistInv, HistTyped
<1> QED
    BY <1>3, <1>4

\* An entry as the steps write it.
LEMMA NewEntry ==
    ASSUME NEW s \in Stages, NEW y \in 0 .. Chunks, NEW b \in BOOLEAN, NEW d \in BOOLEAN
    PROVE  /\ Historical!Entry(s, y, b, d) \in Entries
           /\ Historical!Entry(s, y, b, d).stage = s /\ Historical!Entry(s, y, b, d).key = y
           /\ Historical!Entry(s, y, b, d).paid <=> b
           /\ Historical!Entry(s, y, b, d).done <=> d
BY DEF Entries, Historical!Entry

LEMMA LastEntry ==
    ASSUME NEW p \in Plan, LastIssued(p), Issued(p) # {}
    PROVE  Len(p.log) \in DOMAIN p.log /\ p.log[Len(p.log)] \in Entries
<1>1. \E i \in DOMAIN p.log : ~p.log[i].done
    BY DEF Issued, Historical!Issued
<1> QED
    BY <1>1, LogSets DEF LastIssued

LEMMA TargetTyped == ASSUME NEW p \in Plan PROVE Target(p) \in 0 .. Chunks
<1>1. p.next \in 0 .. Chunks /\ Chunks \in Nat
    BY EvolutionAssumption DEF Plan
<1> QED
    BY <1>1 DEF Target

\* What committing the issued entry makes of the log (Commit).
LEMMA Commits ==
    ASSUME NEW p \in Plan, NEW q, NEW s \in Named, Issued(p) # {}, LastIssued(p),
           q.log = [p.log EXCEPT ![Len(p.log)] =
                       Historical!Entry(s, p.log[Len(p.log)].key, p.log[Len(p.log)].paid, TRUE)]
    PROVE  /\ Adds(p, q, Len(p.log), s) /\ Paid(q) = Paid(p) /\ q.log \in Seq(Entries)
           /\ q.log[Len(p.log)].key = p.log[Len(p.log)].key
<1> DEFINE last == p.log[Len(p.log)]
           e == Historical!Entry(s, last.key, last.paid, TRUE)
<1>1. last \in Entries
    BY LastEntry
<1>2. s \in Stages /\ last.key \in 0 .. Chunks /\ last.paid \in BOOLEAN /\ TRUE \in BOOLEAN
    BY <1>1 DEF Entries, Named
<1>3. e \in Entries /\ e.stage = s /\ e.key = last.key /\ e.paid = last.paid /\ e.done
    BY <1>2 DEF Entries, Historical!Entry
<1>4. q.log = Marked(p, e)
    BY DEF Marked
<1> HIDE DEF e
<1>6. /\ Adds(p, q, Len(p.log), s) /\ Paid(q) = Paid(p) /\ q.log \in Seq(Entries)
      /\ q.log[Len(p.log)] = e
    BY <1>3, <1>4, Marks
<1> QED
    BY <1>3, <1>6

\* What writing a committed entry makes of it (Committed).
LEMMA Writes ==
    ASSUME NEW p \in Plan, NEW q, NEW s \in Named, NEW y \in 0 .. Chunks, Issued(p) = {},
           q.log = Append(p.log, Historical!Entry(s, y, FALSE, TRUE))
    PROVE  /\ Adds(p, q, Len(p.log) + 1, s) /\ Paid(q) = Paid(p) /\ q.log \in Seq(Entries)
           /\ q.log[Len(p.log) + 1].key = y
<1> DEFINE e == Historical!Entry(s, y, FALSE, TRUE)
<1>1. e \in Entries /\ e.stage = s /\ e.key = y /\ ~e.paid /\ e.done
    BY NewEntry DEF Named
<1>2. q.log = Append(p.log, e)
    OBVIOUS
<1> HIDE DEF e
<1> QED
    BY <1>1, <1>2, Appends

LEMMA LiveChunkStep ==
    ASSUME HistInv, Historical!LiveChunk
    PROVE  HistInv'
<1>1. /\ HistTyped /\ HistDone /\ HistPlaced /\ HistCharged /\ LogInv(plan)
      /\ UNCHANGED <<epochFile, candidate, sent, unknown>> /\ exec.pc = "attempt"
      /\ plan \in Plan /\ plan.next < Chunks /\ plan.next \in 0 .. Chunks /\ Chunks \in Nat
      /\ plan.next + 1 \in 0 .. Chunks
    <2>1. plan \in Plan /\ plan.next \in 0 .. Chunks /\ Chunks \in Nat /\ plan.next < Chunks
        BY EvolutionAssumption DEF HistInv, LogInv, Plan, Historical!LiveChunk
    <2> QED
        BY <2>1 DEF HistInv, Historical!LiveChunk
<1>2. /\ Issued(plan) = {} /\ plan.epoch /\ ~plan.final
    BY <1>1 DEF HistPlaced, Out
<1>3. exec' \in [pc : Places, tries : Nat] /\ exec'.pc = "chunk"
    BY <1>1, Moves DEF Historical!LiveChunk, Places
<1> DEFINE entries == Historical!Committed("chunk", plan.next + 1)
<1>4. plan' = [plan EXCEPT !.next = plan.next + 1, !.log = entries]
    BY DEF Historical!LiveChunk
<1>5. /\ Adds(plan, plan', Len(plan.log) + 1, "chunk") /\ Paid(plan') = Paid(plan)
      /\ plan'.log \in Seq(Entries) /\ plan'.log[Len(plan.log) + 1].key = plan.next + 1
    <2>1. plan'.log = entries
        BY <1>1, <1>4 DEF Plan
    <2>2. "chunk" \in Named
        BY DEF Named, Stages
    <2>3. plan'.log = Append(plan.log, Historical!Entry("chunk", plan.next + 1, FALSE, TRUE))
        BY <2>1 DEF Historical!Committed
    <2> QED
        BY <1>1, <1>2, <2>2, <2>3, Writes
<1> HIDE DEF entries
<1>6. /\ plan' \in Plan /\ plan'.next = plan.next + 1 /\ plan'.calls = plan.calls
      /\ plan'.reduction = plan.reduction /\ plan'.checker = plan.checker /\ plan'.final = plan.final
      /\ plan'.named = plan.named /\ plan'.state = plan.state /\ plan'.epoch = plan.epoch
    <2>1. plan'.log = entries
        BY <1>1, <1>4 DEF Plan
    <2> QED
        BY <1>1, <1>4, <1>5, <2>1 DEF Plan
<1>7. LogInv(plan') /\ Issued(plan') = {}
    BY <1>1, <1>5, <1>6, ChunkAdded
<1>8. HistDone'
    <2>1. candidate = "none"
        BY <1>1 DEF HistDone
    <2> QED
        BY <1>1, <1>2, <1>6, <2>1 DEF HistDone, Historical!Begun
<1>9. HistPlaced'
    BY <1>1, <1>2, <1>3, <1>6, <1>7 DEF HistPlaced, Out
<1>10. HistCharged'
    BY <1>1, <1>2, <1>3, <1>6 DEF HistCharged
<1> QED
    BY <1>1, <1>3, <1>7, <1>8, <1>9, <1>10 DEF HistInv, HistTyped

LEMMA IssueStep ==
    ASSUME HistInv, Historical!Issue
    PROVE  HistInv'
<1>1. /\ HistTyped /\ HistDone /\ HistPlaced /\ HistCharged /\ LogInv(plan)
      /\ UNCHANGED <<epochFile, candidate, sent, unknown>> /\ exec.pc = "issue"
      /\ plan \in Plan /\ plan.calls \in Nat /\ sent \in Nat
    BY DEF HistInv, HistTyped, LogInv, Plan, Historical!Issue
<1>2. /\ Issued(plan) = {} /\ plan.epoch /\ ~plan.final /\ ~unknown /\ plan.calls < MaxModelCalls
    BY <1>1 DEF HistPlaced, HistCharged, Out
<1>3. exec' \in [pc : Places, tries : Nat] /\ exec'.pc = "issued"
    BY <1>1, Moves DEF Historical!Issue, Places, Out
<1> DEFINE e == Historical!Entry("issued", Historical!Target, TRUE, FALSE)
<1>4. e \in Entries /\ e.stage = "issued" /\ e.key = Target(plan) /\ e.paid /\ ~e.done
    <2>1. Historical!Target = Target(plan)
        BY DEF Target, Historical!Target, Historical!Final
    <2>2. Target(plan) \in 0 .. Chunks /\ "issued" \in Stages
        BY <1>1, TargetTyped DEF Stages
    <2> QED
        BY <2>1, <2>2, NewEntry
<1>5. plan' = [plan EXCEPT !.calls = plan.calls + 1, !.log = Append(plan.log, e)]
    BY DEF Historical!Issue
<1> HIDE DEF e
<1>6. plan'.log = Append(plan.log, e) /\ plan.log \in Seq(Entries) /\ Append(plan.log, e) \in Seq(Entries)
    BY <1>1, <1>4, <1>5 DEF Plan
<1>7. /\ plan' \in Plan /\ plan'.next = plan.next /\ plan'.calls = plan.calls + 1
      /\ plan'.reduction = plan.reduction /\ plan'.checker = plan.checker /\ plan'.final = plan.final
      /\ plan'.named = plan.named /\ plan'.state = plan.state /\ plan'.epoch = plan.epoch
    <2> DEFINE more == Append(plan.log, e)
    <2>1. more \in Seq(Entries) /\ plan' = [plan EXCEPT !.calls = plan.calls + 1, !.log = more]
        BY <1>5, <1>6
    <2> HIDE DEF more
    <2>2. plan.calls + 1 \in Nat
        BY <1>1
    <2> QED
        BY <1>1, <2>1, <2>2 DEF Plan
<1>8. LogInv(plan') /\ Issued(plan') # {} /\ plan'.log[Len(plan'.log)] = e
    BY <1>1, <1>2, <1>4, <1>6, <1>7, ChargeAdded
<1>9. Target(plan') = Target(plan)
    BY <1>7 DEF Target
<1>10. HistDone'
    BY <1>1, <1>2, <1>7 DEF HistDone, Historical!Begun
<1>11. HistPlaced'
    BY <1>1, <1>2, <1>3, <1>4, <1>7, <1>8, <1>9 DEF HistPlaced, Out
<1>12. HistCharged'
    BY <1>1, <1>2, <1>3, <1>7 DEF HistCharged
<1> QED
    BY <1>1, <1>3, <1>8, <1>10, <1>11, <1>12 DEF HistInv, HistTyped

\* An answer is recorded: the facts that are the same for each kind of it.
LEMMA Recorded ==
    ASSUME HistInv, Historical!Accept \/ Historical!Reject, plan.state # "cancelled",
           NEW s \in Named, plan'.log = Historical!Commit(s)
    PROVE  /\ Adds(plan, plan', Len(plan.log), s) /\ Paid(plan') = Paid(plan)
           /\ plan'.log \in Seq(Entries) /\ plan'.log[Len(plan.log)].key = Target(plan)
           /\ plan.epoch /\ ~plan.final
           /\ plan.next = Chunks => plan.reduction = "candidate" /\ ~plan.checker
           /\ UNCHANGED <<epochFile, candidate, sent, unknown>> /\ ~unknown
           /\ exec.pc \in {"accept", "reject"}
<1>1. /\ HistPlaced /\ HistCharged /\ LogInv(plan) /\ plan \in Plan
      /\ UNCHANGED <<epochFile, candidate, sent, unknown>> /\ exec.pc \in {"accept", "reject"}
    BY DEF HistInv, LogInv, Historical!Accept, Historical!Reject
<1>2. /\ Issued(plan) # {} /\ plan.log[Len(plan.log)].key = Target(plan)
      /\ plan.epoch /\ ~plan.final /\ ~unknown
      /\ plan.next = Chunks => plan.reduction = "candidate" /\ ~plan.checker
    BY <1>1 DEF HistPlaced, HistCharged, Out
<1>3. LastIssued(plan)
    BY <1>1 DEF LogInv
<1>4. plan'.log = [plan.log EXCEPT ![Len(plan.log)] =
                       Historical!Entry(s, plan.log[Len(plan.log)].key, plan.log[Len(plan.log)].paid, TRUE)]
    BY Zenon DEF Historical!Commit
<1>5. /\ Adds(plan, plan', Len(plan.log), s) /\ Paid(plan') = Paid(plan) /\ plan'.log \in Seq(Entries)
      /\ plan'.log[Len(plan.log)].key = plan.log[Len(plan.log)].key
    BY <1>1, <1>2, <1>3, <1>4, Commits
<1> QED
    BY <1>1, <1>2, <1>5

LEMMA AcceptStep ==
    ASSUME HistInv, Historical!Accept
    PROVE  HistInv'
<1>1. /\ HistTyped /\ HistDone /\ HistPlaced /\ HistCharged /\ LogInv(plan)
      /\ UNCHANGED <<epochFile, candidate, sent, unknown>> /\ exec.pc = "accept" /\ unknown \in BOOLEAN
      /\ plan \in Plan /\ plan.next \in 0 .. Chunks /\ Chunks \in Nat
    BY EvolutionAssumption DEF HistInv, HistTyped, LogInv, Plan, Historical!Accept
<1>2. CASE plan.state = "cancelled"
    <2>1. UNCHANGED plan /\ Historical!Goes("interrupt")
        BY <1>2 DEF Historical!Accept, Historical!Cancelled
    <2>2. exec' \in [pc : Places, tries : Nat] /\ exec'.pc = "interrupt"
        BY <1>1, <2>1, Moves DEF Places
    <2>3. Issued(plan)' = Issued(plan) /\ Target(plan)' = Target(plan)
        BY <2>1 DEF Issued, Historical!Issued, Target
    <2>4. HistPlaced'
        BY <1>1, <2>1, <2>2, <2>3 DEF HistPlaced, Out
    <2>5. HistCharged'
        BY <1>1, <2>1, <2>2, <2>3 DEF HistCharged
    <2> QED
        BY <1>1, <2>1, <2>2, <2>4, <2>5, Stands
<1>3. CASE plan.state # "cancelled" /\ plan.next = Chunks
    <2> DEFINE entries == Historical!Commit("checker")
    <2>0. Historical!Target = Historical!Final
        BY <1>1, <1>3 DEF Historical!Target, Historical!Final
    <2>1. /\ plan' = [plan EXCEPT !.checker = TRUE, !.log = entries] /\ Historical!Goes("publish")
        BY <1>3, <2>0 DEF Historical!Accept, Historical!Cancelled
    <2>2. plan'.log = entries /\ "checker" \in Named
        BY <1>1, <2>1 DEF Plan, Named, Stages
    <2>3. /\ Adds(plan, plan', Len(plan.log), "checker") /\ Paid(plan') = Paid(plan)
          /\ plan'.log \in Seq(Entries) /\ plan.epoch /\ ~plan.final /\ ~unknown
          /\ plan.reduction = "candidate" /\ ~plan.checker
        BY <1>3, <2>2, Recorded
    <2> HIDE DEF entries
    <2>4. /\ plan' \in Plan /\ plan'.next = plan.next /\ plan'.calls = plan.calls
          /\ plan'.reduction = plan.reduction /\ plan'.checker /\ plan'.final = plan.final
          /\ plan'.named = plan.named /\ plan'.state = plan.state /\ plan'.epoch = plan.epoch
        BY <1>1, <2>1, <2>2, <2>3 DEF Plan
    <2>5. LogInv(plan') /\ Issued(plan') = {}
        BY <1>1, <2>3, <2>4, CheckerAdded
    <2>6. exec' \in [pc : Places, tries : Nat] /\ exec'.pc = "publish"
        BY <1>1, <2>1, Moves DEF Places
    <2>7. HistDone'
        BY <1>1, <2>3, <2>4 DEF HistDone, Historical!Begun
    <2>8. HistPlaced'
        BY <1>1, <2>3, <2>4, <2>5, <2>6 DEF HistPlaced, Out
    <2>9. HistCharged'
        BY <1>1, <2>3, <2>4, <2>6 DEF HistCharged
    <2> QED
        BY <1>1, <2>5, <2>6, <2>7, <2>8, <2>9 DEF HistInv, HistTyped
<1>4. CASE plan.state # "cancelled" /\ plan.next < Chunks
    <2> DEFINE entries == Historical!Commit("chunk")
    <2>0. Historical!Target # Historical!Final
        BY <1>1, <1>4 DEF Historical!Target, Historical!Final
    <2>1. /\ plan' = [plan EXCEPT !.next = plan.next + 1, !.log = entries] /\ Historical!Goes("chunk")
        BY <1>4, <2>0 DEF Historical!Accept, Historical!Cancelled
    <2>2. plan'.log = entries /\ "chunk" \in Named /\ plan.next + 1 \in 0 .. Chunks
        BY <1>1, <1>4, <2>1 DEF Plan, Named, Stages
    <2>3. /\ Adds(plan, plan', Len(plan.log), "chunk") /\ Paid(plan') = Paid(plan)
          /\ plan'.log \in Seq(Entries) /\ plan.epoch /\ ~plan.final /\ ~unknown
          /\ plan'.log[Len(plan.log)].key = plan.next + 1
        BY <1>4, <2>2, Recorded DEF Target
    <2> HIDE DEF entries
    <2>4. /\ plan' \in Plan /\ plan'.next = plan.next + 1 /\ plan'.calls = plan.calls
          /\ plan'.reduction = plan.reduction /\ plan'.checker = plan.checker /\ plan'.final = plan.final
          /\ plan'.named = plan.named /\ plan'.state = plan.state /\ plan'.epoch = plan.epoch
        BY <1>1, <2>1, <2>2, <2>3 DEF Plan
    <2>5. LogInv(plan') /\ Issued(plan') = {}
        BY <1>1, <1>4, <2>3, <2>4, ChunkAdded
    <2>6. exec' \in [pc : Places, tries : Nat] /\ exec'.pc = "chunk"
        BY <1>1, <2>1, Moves DEF Places
    <2>7. HistDone'
        <3>1. candidate = "none"
            BY <1>1, <1>4 DEF HistDone
        <3> QED
            BY <1>1, <2>3, <2>4, <3>1 DEF HistDone, Historical!Begun
    <2>8. HistPlaced'
        BY <1>1, <2>3, <2>4, <2>5, <2>6 DEF HistPlaced, Out
    <2>9. HistCharged'
        BY <1>1, <2>3, <2>4, <2>6 DEF HistCharged
    <2> QED
        BY <1>1, <2>5, <2>6, <2>7, <2>8, <2>9 DEF HistInv, HistTyped
<1> QED
    BY <1>1, <1>2, <1>3, <1>4

LEMMA RejectStep ==
    ASSUME HistInv, Historical!Reject
    PROVE  HistInv'
<1>1. /\ HistTyped /\ HistDone /\ HistPlaced /\ HistCharged /\ LogInv(plan)
      /\ UNCHANGED <<epochFile, candidate, sent, unknown>> /\ exec.pc = "reject" /\ unknown \in BOOLEAN
      /\ plan \in Plan /\ plan.next \in 0 .. Chunks /\ Chunks \in Nat
    BY EvolutionAssumption DEF HistInv, HistTyped, LogInv, Plan, Historical!Reject
<1>2. CASE plan.state = "cancelled"
    <2>1. UNCHANGED plan /\ Historical!Goes("interrupt")
        BY <1>2 DEF Historical!Reject, Historical!Cancelled
    <2>2. exec' \in [pc : Places, tries : Nat] /\ exec'.pc = "interrupt"
        BY <1>1, <2>1, Moves DEF Places
    <2>3. Issued(plan)' = Issued(plan) /\ Target(plan)' = Target(plan)
        BY <2>1 DEF Issued, Historical!Issued, Target
    <2>4. HistPlaced'
        BY <1>1, <2>1, <2>2, <2>3 DEF HistPlaced, Out
    <2>5. HistCharged'
        BY <1>1, <2>1, <2>2, <2>3 DEF HistCharged
    <2> QED
        BY <1>1, <2>1, <2>2, <2>4, <2>5, Stands
<1>3. CASE plan.state # "cancelled"
    <2> DEFINE entries == Historical!Commit("rejected")
    <2>1. /\ plan' = [plan EXCEPT !.log = entries]
          /\ Historical!Goes(IF exec.tries < MaxAttempts THEN "attempt" ELSE "interrupt")
        BY <1>3 DEF Historical!Reject, Historical!Cancelled
    <2>2. plan'.log = entries /\ "rejected" \in Named
        BY <1>1, <2>1 DEF Plan, Named, Stages
    <2>3. /\ Adds(plan, plan', Len(plan.log), "rejected") /\ Paid(plan') = Paid(plan)
          /\ plan'.log \in Seq(Entries) /\ plan.epoch /\ ~plan.final /\ ~unknown
          /\ plan'.log[Len(plan.log)].key = Target(plan)
          /\ plan.next = Chunks => plan.reduction = "candidate" /\ ~plan.checker
        BY <1>3, <2>2, Recorded
    <2> HIDE DEF entries
    <2>4. /\ plan' \in Plan /\ plan'.next = plan.next /\ plan'.calls = plan.calls
          /\ plan'.reduction = plan.reduction /\ plan'.checker = plan.checker /\ plan'.final = plan.final
          /\ plan'.named = plan.named /\ plan'.state = plan.state /\ plan'.epoch = plan.epoch
        BY <1>1, <2>1, <2>2, <2>3 DEF Plan
    <2>5. LogInv(plan') /\ Issued(plan') = {}
        BY <1>1, <2>3, <2>4, RejectAdded
    <2>6. exec' \in [pc : Places, tries : Nat] /\ exec'.pc \in {"attempt", "interrupt"}
        <3>1. Historical!Goes("attempt") \/ Historical!Goes("interrupt")
            BY <2>1
        <3> QED
            BY <1>1, <3>1, Moves DEF Places
    <2>7. HistDone'
        BY <1>1, <2>3, <2>4 DEF HistDone, Historical!Begun
    <2>8. HistPlaced'
        BY <1>1, <2>3, <2>4, <2>5, <2>6 DEF HistPlaced, Out
    <2>9. HistCharged'
        BY <1>1, <2>3, <2>4, <2>6 DEF HistCharged
    <2> QED
        BY <1>1, <2>5, <2>6, <2>7, <2>8, <2>9 DEF HistInv, HistTyped
<1> QED
    BY <1>2, <1>3

LEMMA ReduceStep ==
    ASSUME HistInv, Historical!Reduce
    PROVE  HistInv'
<1>1. /\ HistTyped /\ HistDone /\ HistPlaced /\ HistCharged /\ LogInv(plan)
      /\ UNCHANGED <<epochFile, candidate, sent, unknown>> /\ exec.pc = "chunk" /\ unknown \in BOOLEAN
      /\ plan \in Plan /\ plan.next = Chunks /\ Chunks \in Nat
    BY EvolutionAssumption DEF HistInv, HistTyped, LogInv, Plan, Historical!Reduce
<1>2. Issued(plan) = {} /\ plan.epoch /\ ~plan.final /\ ~unknown
    BY <1>1 DEF HistPlaced, HistCharged, Out
<1>3. \/ /\ UNCHANGED plan /\ (exec' = Historical!Idle \/ Historical!Goes("interrupt"))
      \/ UNCHANGED plan /\ Historical!Goes("reduced") /\ plan.reduction # "none"
      \/ /\ plan.reduction = "none" /\ Historical!Goes("reduced")
         /\ \E r \in {"candidate", "no-change"} :
               plan' = [plan EXCEPT !.reduction = r,
                                    !.log = Historical!Committed("reduction", Historical!Final)]
    BY Zenon DEF Historical!Reduce
<1>4. CASE UNCHANGED plan
    <2>1. /\ exec' \in [pc : Places, tries : Nat]
          /\ \/ exec'.pc \in {"idle", "interrupt"}
             \/ exec'.pc = "reduced" /\ plan.reduction # "none"
        <3>1. CASE exec' = Historical!Idle \/ Historical!Goes("interrupt")
            BY <1>1, <3>1, Moves DEF Places
        <3>2. CASE Historical!Goes("reduced") /\ plan.reduction # "none"
            BY <1>1, <3>2, Moves DEF Places
        <3>3. CASE plan.reduction = "none" /\ \E r \in {"candidate", "no-change"} :
                      plan' = [plan EXCEPT !.reduction = r,
                                    !.log = Historical!Committed("reduction", Historical!Final)]
            <4> DEFINE entries == Historical!Committed("reduction", Historical!Final)
            <4>1. PICK r \in {"candidate", "no-change"} : plan' = [plan EXCEPT !.reduction = r, !.log = entries]
                BY <3>3
            <4> HIDE DEF entries
            <4>2. plan'.reduction = r
                BY <1>1, <4>1 DEF Plan
            <4> QED
                BY <1>4, <3>3, <4>2
        <3> QED
            BY <1>3, <3>1, <3>2, <3>3
    <2>2. Issued(plan)' = Issued(plan) /\ Target(plan)' = Target(plan)
        BY <1>4 DEF Issued, Historical!Issued, Target
    <2>3. HistPlaced'
        BY <1>1, <1>2, <1>4, <2>1, <2>2 DEF HistPlaced, Out
    <2>4. HistCharged'
        BY <1>1, <1>2, <1>4, <2>1, <2>2 DEF HistCharged
    <2> QED
        BY <1>1, <1>4, <2>1, <2>3, <2>4, Stands
<1>5. CASE ~ UNCHANGED plan
    <2> DEFINE entries == Historical!Committed("reduction", Historical!Final)
    <2>1. /\ plan.reduction = "none" /\ Historical!Goes("reduced")
          /\ \E r \in {"candidate", "no-change"} :
                plan' = [plan EXCEPT !.reduction = r, !.log = entries]
        BY <1>3, <1>5
    <2>2. PICK r \in {"candidate", "no-change"} : plan' = [plan EXCEPT !.reduction = r, !.log = entries]
        BY <2>1
    <2>3. plan'.log = entries /\ "reduction" \in Named /\ 0 \in 0 .. Chunks
        BY <1>1, <2>2 DEF Plan, Named, Stages
    <2>4. plan'.log = Append(plan.log, Historical!Entry("reduction", 0, FALSE, TRUE))
        BY <2>3, Zenon DEF Historical!Committed, Historical!Final
    <2>5. /\ Adds(plan, plan', Len(plan.log) + 1, "reduction") /\ Paid(plan') = Paid(plan)
          /\ plan'.log \in Seq(Entries)
        BY <1>1, <1>2, <2>3, <2>4, Writes
    <2> HIDE DEF entries
    <2>6. /\ plan' \in Plan /\ plan'.next = plan.next /\ plan'.calls = plan.calls
          /\ plan'.reduction = r /\ plan'.checker = plan.checker /\ plan'.final = plan.final
          /\ plan'.named = plan.named /\ plan'.state = plan.state /\ plan'.epoch = plan.epoch
        BY <1>1, <2>2, <2>3, <2>5 DEF Plan
    <2>7. LogInv(plan') /\ Issued(plan') = {}
        BY <1>1, <2>1, <2>5, <2>6, ReductionAdded
    <2>8. exec' \in [pc : Places, tries : Nat] /\ exec'.pc = "reduced"
        BY <1>1, <2>1, Moves DEF Places
    <2>9. HistDone'
        <3>1. candidate = "none"
            BY <1>1, <2>1 DEF HistDone
        <3> QED
            BY <1>1, <1>2, <2>6, <3>1 DEF HistDone, Historical!Begun
    <2>10. HistPlaced'
        BY <1>1, <1>2, <2>6, <2>7, <2>8 DEF HistPlaced, Out
    <2>11. HistCharged'
        BY <1>1, <1>2, <2>6, <2>8 DEF HistCharged
    <2> QED
        BY <1>1, <2>7, <2>8, <2>9, <2>10, <2>11 DEF HistInv, HistTyped
<1> QED
    BY <1>4, <1>5

LEMMA FinishStep ==
    ASSUME HistInv, Historical!Finish
    PROVE  HistInv'
<1>1. /\ HistTyped /\ HistDone /\ HistPlaced /\ HistCharged /\ LogInv(plan)
      /\ UNCHANGED <<epochFile, candidate, sent, unknown>> /\ exec.pc = "finish" /\ unknown \in BOOLEAN
      /\ plan \in Plan /\ Chunks \in Nat
    BY EvolutionAssumption DEF HistInv, HistTyped, LogInv, Plan, Historical!Finish
<1>2. /\ Issued(plan) = {} /\ plan.epoch /\ ~plan.final /\ ~unknown /\ plan.reduction # "none"
      /\ plan.reduction = "candidate" => plan.checker /\ candidate # "none"
    BY <1>1 DEF HistPlaced, HistCharged, Out
<1>3. CASE Historical!Cancelled \/ ~Historical!Accepted
    <2>1. UNCHANGED plan /\ Historical!Goes("interrupt")
        BY <1>3 DEF Historical!Finish
    <2>2. exec' \in [pc : Places, tries : Nat] /\ exec'.pc = "interrupt"
        BY <1>1, <2>1, Moves DEF Places
    <2>3. Issued(plan)' = Issued(plan) /\ Target(plan)' = Target(plan)
        BY <2>1 DEF Issued, Historical!Issued, Target
    <2>4. HistPlaced'
        BY <1>1, <2>1, <2>2, <2>3 DEF HistPlaced, Out
    <2>5. HistCharged'
        BY <1>1, <1>2, <2>1, <2>2, <2>3 DEF HistCharged
    <2> QED
        BY <1>1, <2>1, <2>2, <2>4, <2>5, Stands
<1>4. CASE ~(Historical!Cancelled \/ ~Historical!Accepted)
    <2> DEFINE entries == Historical!Committed("final", Historical!Final)
               chosen == (plan.reduction = "candidate")
    <2>1. /\ plan' = [plan EXCEPT !.state = "completed", !.final = TRUE, !.named = chosen, !.log = entries]
          /\ Historical!Goes("finished")
        BY <1>4 DEF Historical!Finish
    <2>2. /\ plan'.log = entries /\ "final" \in Named /\ 0 \in 0 .. Chunks
        <3> HIDE DEF entries, chosen
        <3> QED
            BY <1>1, <2>1 DEF Plan, Named, Stages
    <2>3. plan'.log = Append(plan.log, Historical!Entry("final", 0, FALSE, TRUE))
        BY <2>2, Zenon DEF Historical!Committed, Historical!Final
    <2>4. /\ Adds(plan, plan', Len(plan.log) + 1, "final") /\ Paid(plan') = Paid(plan)
          /\ plan'.log \in Seq(Entries)
        BY <1>1, <1>2, <2>2, <2>3, Writes
    <2>5. chosen \in BOOLEAN
        OBVIOUS
    <2>6. chosen <=> plan.reduction = "candidate"
        OBVIOUS
    <2> HIDE DEF entries, chosen
    <2>7. /\ plan' \in Plan /\ plan'.next = plan.next /\ plan'.calls = plan.calls
          /\ plan'.reduction = plan.reduction /\ plan'.checker = plan.checker /\ plan'.final
          /\ plan'.state = "completed" /\ plan'.epoch = plan.epoch /\ plan'.named = chosen
        BY <1>1, <2>1, <2>2, <2>4, <2>5 DEF Plan, PlanState
    <2>8. LogInv(plan') /\ Issued(plan') = {}
        BY <1>1, <1>2, <2>4, <2>7, FinalAdded
    <2>9. exec' \in [pc : Places, tries : Nat] /\ exec'.pc = "finished"
        BY <1>1, <2>1, Moves DEF Places
    <2>10. HistDone'
        <3>1. Historical!Begun(plan')
            BY <1>2, <2>7 DEF Historical!Begun
        <3>2. plan'.named <=> plan'.final /\ plan'.reduction = "candidate"
            BY <2>6, <2>7
        <3>3. candidate' = candidate /\ plan'.next = plan.next /\ plan'.checker = plan.checker
            BY <1>1, <2>7
        <3> QED
            BY <1>1, <1>2, <2>7, <3>1, <3>2, <3>3 DEF HistDone
    <2>11. HistPlaced'
        BY <1>1, <1>2, <2>7, <2>8, <2>9 DEF HistPlaced, Out
    <2>12. HistCharged'
        BY <1>1, <1>2, <2>7, <2>9 DEF HistCharged
    <2> QED
        BY <1>1, <2>8, <2>9, <2>10, <2>11, <2>12 DEF HistInv, HistTyped
<1> QED
    BY <1>3, <1>4

LEMMA PlanSteps == HistInv /\ Historical!Next => HistInv'
<1> SUFFICES ASSUME HistInv, Historical!Next PROVE HistInv'
    OBVIOUS
<1> QED
    BY QuietSteps, StateSteps, SendStep, CandidateSteps, LiveChunkStep, IssueStep, AcceptStep, RejectStep,
       ReduceStep, FinishStep
    DEF Historical!Next, Historical!Execute

-----------------------------------------------------------------------------
(* A historical plan: what its properties say of the invariant.            *)

LEMMA LogVerified ==
    ASSUME NEW p, LogInv(p)
    PROVE  Historical!Accounted(p) /\ Historical!InOrder(p) /\ Historical!Referenced(p)
<1>1. /\ p \in Plan /\ Agrees(p) /\ LastIssued(p) /\ Historical!InOrder(p)
      /\ p.calls = Cardinality(Paid(p)) /\ p.calls <= MaxModelCalls /\ p.next \in 0 .. Chunks
    BY DEF LogInv, Plan
<1>2. Historical!Cardinality(Historical!Issued(p)) <= 1
    <2>1. Issued(p) = {} \/ Issued(p) = {Len(p.log)}
        BY <1>1 DEF LastIssued, Issued, Historical!Issued
    <2>2. Cardinality({}) = 0 /\ Cardinality({Len(p.log)}) = 1
        BY FS_EmptySet, FS_Singleton
    <2>3. Cardinality(Issued(p)) = 0 \/ Cardinality(Issued(p)) = 1
        BY <2>1, <2>2, Zenon
    <2>4. Cardinality(Issued(p)) <= 1
        BY <2>3
    <2> QED
        BY <2>4, SameCount DEF Issued
<1>3. Historical!Accounted(p)
    <2>1. /\ p.calls = Historical!Cardinality(Historical!Paid(p))
          /\ p.next = Historical!Cardinality(Historical!Staged(p, "chunk"))
        BY <1>1, SameCount DEF Agrees, Count, Paid, Staged
    <2> QED
        BY <1>1, <1>2, <2>1 DEF Historical!Accounted, LastIssued
<1>4. Historical!Referenced(p)
    <2>1. /\ Historical!Cardinality(Historical!Staged(p, "reduction")) = IfThen(p.reduction # "none")
          /\ Historical!Cardinality(Historical!Staged(p, "checker")) = IfThen(p.checker)
        BY <1>1, SameCount DEF Agrees, Count, Staged
    <2>2. \A i \in DOMAIN p.log : p.log[i].stage = "rejected" /\ p.log[i].key = Historical!Final =>
                                     p.reduction = "candidate"
        BY <1>1 DEF Agrees, Staged, Historical!Staged, Historical!Final
    <2> QED
        BY <1>1, <2>1, <2>2 DEF Agrees, IfThen, Historical!Referenced
<1> QED
    BY <1>1, <1>3, <1>4

LEMMA PlanVerified ==
    ASSUME HistInv
    PROVE  Historical!VerifierAccepts /\ Historical!CandidateIsBacked
<1>1. LogInv(plan) /\ HistTyped /\ HistDone /\ plan \in Plan /\ Agrees(plan)
    BY DEF HistInv, LogInv
<1>2. /\ Historical!Accounted(plan) /\ Historical!InOrder(plan) /\ Historical!Referenced(plan)
      /\ Historical!Begun(plan)
    BY <1>1, LogVerified DEF HistDone
<1>3. Historical!CandidateIsBacked
    BY <1>1, <1>2 DEF HistDone, Historical!CandidateIsBacked
<1>4. Historical!Cardinality(Historical!Staged(plan, "final")) = IfThen(plan.final)
    BY <1>1, SameCount DEF Agrees, Count, Staged
<1>5. CASE ~plan.final
    <2>1. Historical!Staged(plan, "final") = {}
        BY <1>1, <1>5, Counts DEF Agrees, Count, IfThen, Staged
    <2>2. Historical!Proved(plan, candidate)
        BY <1>1, <1>5, <2>1 DEF HistDone, Historical!Proved
    <2> QED
        BY <1>2, <1>3, <2>2 DEF Historical!VerifierAccepts, Historical!Accepted, Historical!Verified
<1>6. CASE plan.final /\ (plan.state # "completed" \/ candidate = "reviewed")
    BY <1>3, <1>6 DEF Historical!VerifierAccepts, Historical!CompletionDisturbed
<1>7. CASE plan.final /\ plan.state = "completed" /\ candidate # "reviewed"
    <2>1. /\ Historical!Issued(plan) = {} /\ plan.next = Chunks /\ plan.reduction # "none"
          /\ Historical!Cardinality(Historical!Staged(plan, "final")) = 1
        BY <1>1, <1>4, <1>7 DEF Agrees, Issued, IfThen
    <2>2. plan.reduction = "candidate" => plan.checker /\ plan.named /\ candidate = "created"
        BY <1>1, <1>7 DEF Agrees, HistDone, HistTyped
    <2>3. Historical!Proved(plan, candidate)
        BY <1>7, <2>1, <2>2 DEF Historical!Proved
    <2> QED
        BY <1>2, <1>3, <2>3 DEF Historical!VerifierAccepts, Historical!Accepted, Historical!Verified
<1> QED
    BY <1>3, <1>5, <1>6, <1>7

LEMMA PlanCharged ==
    ASSUME HistInv
    PROVE  Historical!CallsCharged /\ Historical!UnknownNeverReplayed
BY DEF HistInv, LogInv, HistCharged, Historical!CallsCharged, Historical!UnknownNeverReplayed

-----------------------------------------------------------------------------
(* Reviews: the ledger and what a write may make of it.                    *)

Statuses == {"none", "pending", "running", "failed", "no-change", "candidate"}
Whys == {"none", "covered", "blocked", "backlog", "deleted", "limit", "fenced", "audit"}
Turn == [status : Statuses, attempts : Nat, forced : Nat, why : Whys]
Ledgers == [Message -> Turn]

\* An audit that may still publish: its turn is not to be closed as unchanged.
Busy(m) ==
    /\ m \notin covered
    /\ \E v \in Worker : worker[v].pc \in {"capture", "audit", "check", "publish"} /\ worker[v].m = m
\* No write takes a candidate back or names one that is not there, closes a turn as
\* unchanged that nobody reviewed or, unless it is covered, that has one, or counts
\* an attempt.
Fair(m, a, b) ==
    /\ b \in Turn
    /\ b.attempts = a.attempts
    /\ a.status = "candidate" => b.status = "candidate"
    /\ b.status = "candidate" => a.status = "candidate" \/ m \in live
    /\ b.status = "no-change" =>
          a.status = "no-change" \/ (m \in seen /\ (m \notin live \/ m \in covered) /\ ~Busy(m))
    /\ a.status # "none" => b.status # "none"
Proper(l, k) == k \in Ledgers /\ \A m \in Message : Fair(m, l[m], k[m])

LEMMA FairSelf == \A m, a : a \in Turn => Fair(m, a, a)
BY DEF Fair
LEMMA FairTwice == \A m, a, b, c : Fair(m, a, b) /\ Fair(m, b, c) => Fair(m, a, c)
BY DEF Fair
LEMMA ProperSelf == \A l \in Ledgers : Proper(l, l)
BY FairSelf DEF Proper, Ledgers

\* A turn is settled, or queued again.
LEMMA SettledAt ==
    ASSUME NEW l \in Ledgers, NEW m \in Message, NEW s \in Statuses, NEW y \in Whys
    PROVE  /\ Reviewing!Settled(l, m, s, y) \in Ledgers
           /\ Reviewing!Settled(l, m, s, y)[m].status = s
           /\ Reviewing!Settled(l, m, s, y)[m].attempts = l[m].attempts
           /\ \A x \in Message \ {m} : Reviewing!Settled(l, m, s, y)[x] = l[x]
BY DEF Reviewing!Settled, Ledgers, Turn

MaySettle(l, m, s) ==
    /\ s # "none"
    /\ s = "candidate" \/ l[m].status # "candidate"
    /\ s = "candidate" => m \in live
    /\ s = "no-change" => m \in seen /\ (m \notin live \/ m \in covered) /\ ~Busy(m)
LEMMA SettledFairly ==
    ASSUME NEW l \in Ledgers, NEW m \in Message, NEW s \in Statuses, NEW y \in Whys, MaySettle(l, m, s)
    PROVE  /\ Fair(m, l[m], Reviewing!Settled(l, m, s, y)[m])
           /\ Proper(l, Reviewing!Settled(l, m, s, y))
<1>1. /\ Reviewing!Settled(l, m, s, y) \in Ledgers /\ Reviewing!Settled(l, m, s, y)[m].status = s
      /\ Reviewing!Settled(l, m, s, y)[m].attempts = l[m].attempts
      /\ \A x \in Message \ {m} : Reviewing!Settled(l, m, s, y)[x] = l[x]
    BY SettledAt
<1>2. Fair(m, l[m], Reviewing!Settled(l, m, s, y)[m])
    BY <1>1 DEF Fair, MaySettle, Ledgers
<1>3. \A x \in Message \ {m} : Fair(x, l[x], Reviewing!Settled(l, m, s, y)[x])
    BY <1>1, FairSelf DEF Ledgers
<1> QED
    BY <1>1, <1>2, <1>3 DEF Proper

\* A published candidate is recorded.
LEMMA RecordedFairly ==
    ASSUME NEW l \in Ledgers, NEW S \in SUBSET live
    PROVE  Proper(l, Reviewing!FinalLedger(l, S))
<1>1. \A m \in Message : l[m] \in Turn /\ [l[m] EXCEPT !.status = "candidate", !.why = "none"] \in Turn
    BY DEF Ledgers, Turn, Statuses, Whys
<1>2. Reviewing!FinalLedger(l, S) =
         [m \in Message |-> IF m \in S THEN [l[m] EXCEPT !.status = "candidate", !.why = "none"] ELSE l[m]]
    BY DEF Reviewing!FinalLedger, Reviewing!None
<1>3. \A m \in Message : Fair(m, l[m], [l[m] EXCEPT !.status = "candidate", !.why = "none"]) \/ m \notin S
    BY <1>1 DEF Fair, Turn
<1> QED
    BY <1>1, <1>2, <1>3, FairSelf DEF Proper, Ledgers

-----------------------------------------------------------------------------
(* Reviews: the invariant.                                                 *)

Auditing == {"capture", "audit", "check", "skip", "publish"}
Steps == {"idle", "acquire", "failing", "release"} \cup Auditing
Process == [pc : Steps, m : Message \cup {"none"}, queue : SUBSET Message, boot : BOOLEAN]
Leases == [by : Worker \cup {"none", "plan"}, valid : BOOLEAN]
Published == {"reconcile", "reconcile again", "again", "checker", "publish", "create", "final", "claims"}
Reads == {"start", "chunk", "reading", "checkpoint", "cover"}
Runs == {"idle", "reserve", "interrupt", "release"} \cup Published \cup Reads
Cursor ==
    [state : {"previewed", "running", "resumable", "completed", "cancelled"},
     done : SUBSET Message, found : SUBSET Message, reduction : Message \cup {"none", "no-change"},
     issued : BOOLEAN, checked : BOOLEAN, final : BOOLEAN]
Left(p) == Message \ p.done

RevTyped ==
    /\ ledger \in Ledgers /\ audits \in [Message -> Nat] /\ worker \in [Worker -> Process]
    /\ live \subseteq Message /\ covered \subseteq Message /\ seen \subseteq Message
    /\ lease \in Leases /\ plan \in Cursor /\ run \in Runs
\* Whoever works holds the lease, so that one does.
RevHeld ==
    /\ \A w \in Worker : worker[w].pc # "idle" => lease.by = w /\ worker[w].m \in Message
    /\ run # "idle" => lease.by = "plan"
RevAudited ==
    /\ \A w \in Worker : worker[w].pc \in Auditing =>
          /\ worker[w].m \notin live /\ ledger[worker[w].m].status # "none"
          /\ worker[w].pc = "capture" => audits[worker[w].m] < ledger[worker[w].m].attempts
          /\ worker[w].pc # "capture" => worker[w].m \in seen
          /\ ledger[worker[w].m].status = "no-change" => worker[w].pc = "skip" \/ worker[w].m \in covered
    /\ \A m \in Message : audits[m] <= ledger[m].attempts /\ ledger[m].attempts <= MaxAttempts
\* A turn with a candidate is in the ledger, and only coverage calls it unchanged there.
RevLive ==
    \A m \in Message :
        /\ m \in live => m \in seen /\ ledger[m].status # "none"
        /\ m \in live /\ ledger[m].status = "no-change" => m \in covered
        /\ ledger[m].status = "candidate" => m \in live
        /\ ledger[m].status = "no-change" \/ m \in covered => m \in seen
RevPlan ==
    /\ plan.done \subseteq seen
    /\ run \in {"reading", "checkpoint"} => Left(plan) # {}
    /\ run = "checkpoint" => (CHOOSE x \in Left(plan) : TRUE) \in seen
    /\ run = "cover" => Left(plan) = {}
    /\ run \in Published \/ plan.state = "completed" => covered = Message
RevInv == RevTyped /\ RevHeld /\ RevAudited /\ RevLive /\ RevPlan

-----------------------------------------------------------------------------
(* Reviews: steps that only settle turns and stop work.                    *)

Calm ==
    /\ worker' \in [Worker -> Process] /\ lease' \in Leases
    /\ \A v \in Worker :
          \/ worker'[v].pc = "idle"
          \/ /\ worker'[v].pc \in {"release", "failing"} /\ worker[v].pc # "idle"
             /\ worker'[v].m = worker[v].m /\ lease'.by = lease.by
          \/ /\ worker'[v].pc = worker[v].pc /\ worker'[v].m = worker[v].m /\ lease'.by = lease.by
    /\ run # "idle" => lease'.by = "plan"
MayGo(w, me) ==
    /\ me \in Process
    /\ \/ worker[w].pc # "idle" /\ me.pc \in {"release", "failing"} /\ me.m = worker[w].m
       \/ me.pc = worker[w].pc /\ me.m = worker[w].m

LEMMA CalmBecomes ==
    ASSUME RevTyped, RevHeld, NEW w \in Worker, NEW me, MayGo(w, me), worker' = [worker EXCEPT ![w] = me],
           lease' \in Leases, lease'.by = lease.by
    PROVE  Calm
<1>1. worker' \in [Worker -> Process] /\ worker'[w] = me /\ \A v \in Worker \ {w} : worker'[v] = worker[v]
    BY DEF RevTyped, MayGo
<1> QED
    BY <1>1 DEF Calm, MayGo, RevHeld

LEMMA CalmDies ==
    ASSUME RevTyped, RevHeld, NEW w \in Worker, worker' = [worker EXCEPT ![w] = Reviewing!Off],
           lease' = Reviewing!Freed(w)
    PROVE  Calm
<1>1. Reviewing!Off \in Process /\ Reviewing!Off.pc = "idle"
    BY DEF Reviewing!Off, Reviewing!None, Process, Steps
<1>2. /\ worker' \in [Worker -> Process] /\ worker'[w].pc = "idle"
      /\ \A v \in Worker \ {w} : worker'[v] = worker[v]
    BY <1>1 DEF RevTyped
<1>3. Reviewing!Free \in Leases
    BY DEF Reviewing!Free, Reviewing!None, Leases
<1>4. lease' \in Leases /\ (lease.by # w => lease' = lease)
    BY <1>3 DEF RevTyped, Reviewing!Freed
<1>5. \A v \in Worker \ {w} : worker[v].pc # "idle" => lease' = lease
    BY <1>4 DEF RevHeld
<1>6. run # "idle" => lease'.by = "plan"
    BY <1>4, EvolutionAssumption DEF RevHeld
<1> QED
    BY <1>2, <1>4, <1>5, <1>6 DEF Calm

LEMMA Quietly ==
    ASSUME RevInv, Calm, Proper(ledger, ledger'), UNCHANGED <<live, covered, plan, run, audits, seen>>
    PROVE  RevInv'
<1>1. /\ RevTyped /\ RevHeld /\ RevAudited /\ RevLive /\ RevPlan
      /\ ledger' \in Ledgers /\ \A m \in Message : Fair(m, ledger[m], ledger'[m])
    BY DEF RevInv, Proper
<1>2. RevTyped'
    BY <1>1 DEF RevTyped, Calm
<1>3. RevHeld'
    BY <1>1 DEF RevHeld, Calm
<1>4. RevLive'
    BY <1>1 DEF RevLive, Fair
<1>5. RevPlan'
    BY DEF RevInv, RevPlan, Left
<1>6. RevAudited'
    <2>1. \A m \in Message : audits'[m] <= ledger'[m].attempts /\ ledger'[m].attempts <= MaxAttempts
        BY <1>1 DEF RevAudited, Fair
    <2>2. ASSUME NEW w \in Worker, worker'[w].pc \in Auditing
          PROVE  /\ worker'[w].m \notin live' /\ ledger'[worker'[w].m].status # "none"
                 /\ worker'[w].pc = "capture" => audits'[worker'[w].m] < ledger'[worker'[w].m].attempts
                 /\ worker'[w].pc # "capture" => worker'[w].m \in seen'
                 /\ ledger'[worker'[w].m].status = "no-change" =>
                       worker'[w].pc = "skip" \/ worker'[w].m \in covered'
        <3>1. worker'[w].pc = worker[w].pc /\ worker'[w].m = worker[w].m
            BY <2>2 DEF Calm, Auditing
        <3>2. worker[w].m \in Message
            BY <1>1, <2>2, <3>1 DEF RevHeld, Auditing
        <3>3. Fair(worker[w].m, ledger[worker[w].m], ledger'[worker[w].m])
            BY <1>1, <3>2
        <3>4. worker[w].m \notin covered /\ worker[w].pc # "skip" => Busy(worker[w].m)
            BY <2>2, <3>1 DEF Busy, Auditing
        <3> QED
            BY <1>1, <2>2, <3>1, <3>2, <3>3, <3>4 DEF RevAudited, Fair
    <2> QED
        BY <2>1, <2>2 DEF RevAudited
<1> QED
    BY <1>2, <1>3, <1>4, <1>5, <1>6 DEF RevInv

Kept(w, l, me) ==
    \/ ledger' = l /\ worker' = [worker EXCEPT ![w] = me] /\ lease' = lease
    \/ /\ ledger' \in {l, ledger} /\ worker' = [worker EXCEPT ![w] = Reviewing!Off]
       /\ lease' = Reviewing!Freed(w)
LEMMA SavesKept ==
    \A w, c, l, me :
        Reviewing!Saves(w, c, l, me) \/ Reviewing!SavesLedgerFirst(w, c, l, me) => Kept(w, l, me)
BY DEF Reviewing!Saves, Reviewing!SavesLedgerFirst, Reviewing!Dies, Reviewing!Becomes, Kept
LEMMA KeptQuietly ==
    ASSUME RevInv, NEW w \in Worker, NEW l, NEW me, MayGo(w, me), Proper(ledger, l), Kept(w, l, me),
           UNCHANGED <<live, covered, plan, run, audits, seen>>
    PROVE  RevInv'
<1>1. RevTyped /\ RevHeld
    BY DEF RevInv
<1>2. Proper(ledger, ledger)
    BY <1>1, ProperSelf DEF RevTyped
<1>3. CASE ledger' = l /\ worker' = [worker EXCEPT ![w] = me] /\ lease' = lease
    <2>1. lease' \in Leases /\ lease'.by = lease.by
        BY <1>1, <1>3 DEF RevTyped
    <2>2. Calm
        BY <1>1, <1>3, <2>1, CalmBecomes
    <2> QED
        BY <1>3, <2>2, Quietly
<1>4. CASE /\ ledger' \in {l, ledger} /\ worker' = [worker EXCEPT ![w] = Reviewing!Off]
           /\ lease' = Reviewing!Freed(w)
    <2>1. Calm
        BY <1>1, <1>4, CalmDies
    <2>2. Proper(ledger, ledger')
        BY <1>2, <1>4
    <2> QED
        BY <2>1, <2>2, Quietly
<1> QED
    BY <1>3, <1>4 DEF Kept

\* The process goes on as it was, or ends what it was doing.
LEMMA GoesOn ==
    ASSUME RevTyped, NEW w \in Worker
    PROVE  /\ MayGo(w, worker[w])
           /\ \A m \in Message : MayGo(w, Reviewing!Queued(w, m))
           /\ worker[w].pc # "idle" =>
                 /\ MayGo(w, [worker[w] EXCEPT !.pc = "release"])
                 /\ MayGo(w, [worker[w] EXCEPT !.pc = "failing"])
BY DEF RevTyped, MayGo, Process, Steps, Reviewing!Queued

\* A turn that the plan has covered may be closed as unchanged unless it is concluded.
LEMMA MayClose ==
    ASSUME RevInv, NEW m \in Message, m \in covered, ~Reviewing!Concluded(m)
    PROVE  MaySettle(ledger, m, "no-change")
BY DEF RevInv, RevLive, MaySettle, Busy, Reviewing!Concluded

LEMMA Words ==
    /\ {"pending", "running", "failed", "no-change", "candidate"} \subseteq Statuses
    /\ {"none", "covered", "blocked", "backlog", "deleted", "limit", "fenced", "audit"} \subseteq Whys
    /\ Reviewing!None = "none"
BY DEF Statuses, Whys, Reviewing!None

LEMMA EnqueueStep ==
    ASSUME RevInv, NEW w \in Worker, NEW m \in Message, Reviewing!Enqueue(w, m)
    PROVE  RevInv'
<1>1. /\ RevTyped /\ ledger \in Ledgers
      /\ UNCHANGED <<live, covered, plan, run, audits, seen>>
    BY DEF RevInv, RevTyped, Reviewing!Enqueue, Reviewing!history
<1>2. \/ /\ ledger[m] = Reviewing!NoRecord
         /\ Kept(w, Reviewing!Settled(ledger, m, "failed", "blocked"), worker[w])
      \/ /\ m \in covered /\ ~Reviewing!Concluded(m)
         /\ Kept(w, Reviewing!Settled(ledger, m, "no-change", "covered"), worker[w])
      \/ /\ ledger[m].status = "failed" \/ ledger[m] = Reviewing!NoRecord
         /\ Kept(w, Reviewing!Settled(ledger, m, "pending", "none"), Reviewing!Queued(w, m))
      \/ /\ ledger[m] = Reviewing!NoRecord
         /\ Kept(w, Reviewing!Settled(ledger, m, "failed", "backlog"), worker[w])
    BY SavesKept, Words, Zenon DEF Reviewing!Enqueue, Reviewing!IsCovered
<1>3. ledger[m] = Reviewing!NoRecord => ledger[m].status = "none"
    BY DEF Reviewing!NoRecord, Reviewing!None
<1>4. ASSUME NEW s \in Statuses, NEW y \in Whys, MaySettle(ledger, m, s), NEW me, MayGo(w, me),
             Kept(w, Reviewing!Settled(ledger, m, s, y), me)
      PROVE  RevInv'
    <2>1. Proper(ledger, Reviewing!Settled(ledger, m, s, y))
        BY <1>1, <1>4, SettledFairly
    <2> QED
        BY <1>1, <1>4, <2>1, KeptQuietly
<1>5. MayGo(w, worker[w]) /\ MayGo(w, Reviewing!Queued(w, m))
    BY <1>1, GoesOn
<1>6. /\ ledger[m].status \in {"none", "failed"} =>
            MaySettle(ledger, m, "failed") /\ MaySettle(ledger, m, "pending")
      /\ m \in covered /\ ~Reviewing!Concluded(m) => MaySettle(ledger, m, "no-change")
    BY MayClose DEF MaySettle
<1> QED
    BY <1>2, <1>3, <1>4, <1>5, <1>6, Words

LEMMA ForceStep ==
    ASSUME RevInv, NEW w \in Worker, NEW m \in Message, Reviewing!Force(w, m)
    PROVE  RevInv'
<1>1. /\ RevTyped /\ ledger \in Ledgers
      /\ UNCHANGED <<live, covered, plan, run, audits, seen>>
      /\ ledger[m].status \in {"failed", "no-change"}
    BY DEF RevInv, RevTyped, Reviewing!Force, Reviewing!history
<1> DEFINE k == Reviewing!Settled(ledger, m, "pending", "none")
           l == [k EXCEPT ![m].forced = @ + 1]
<1>2. \/ Kept(w, l, Reviewing!Queued(w, m))
      \/ Kept(w, Reviewing!Settled(l, m, "failed", "blocked"), worker[w])
    BY SavesKept, Words, Zenon DEF Reviewing!Force
<1>3. /\ k \in Ledgers /\ Proper(ledger, k) /\ k[m].status = "pending"
    <2>1. MaySettle(ledger, m, "pending") /\ "pending" \in Statuses /\ "none" \in Whys
        BY <1>1, Words DEF MaySettle
    <2> QED
        BY <1>1, <2>1, SettledAt, SettledFairly
<1> HIDE DEF k
<1>4. l \in Ledgers /\ Proper(k, l) /\ l[m].status = "pending"
    <2>1. l \in Ledgers /\ l[m].status = k[m].status /\ l[m].attempts = k[m].attempts
          /\ \A x \in Message \ {m} : l[x] = k[x]
        BY <1>3 DEF Ledgers, Turn
    <2>2. Fair(m, k[m], l[m])
        BY <1>3, <2>1 DEF Fair, Ledgers
    <2> QED
        BY <1>3, <2>1, <2>2, FairSelf DEF Proper, Ledgers
<1> HIDE DEF l
<1>5. Proper(ledger, l)
    BY <1>3, <1>4, FairTwice DEF Proper
<1>6. Proper(l, Reviewing!Settled(l, m, "failed", "blocked"))
    BY <1>4, SettledFairly, Words DEF MaySettle
<1>7. Proper(ledger, Reviewing!Settled(l, m, "failed", "blocked"))
    BY <1>5, <1>6, FairTwice DEF Proper
<1> QED
    BY <1>1, <1>2, <1>5, <1>7, GoesOn, KeptQuietly

LEMMA DiesKept == \A w, c, l, me : Reviewing!Dies(w, c, l) => Kept(w, l, me)
BY DEF Reviewing!Dies, Reviewing!Becomes, Kept

LEMMA SettledTogether ==
    ASSUME NEW l \in Ledgers, NEW S, NEW s \in Statuses, NEW y \in Whys,
           \A m \in Message : m \in S => MaySettle(l, m, s)
    PROVE  Proper(l, [m \in Message |-> IF m \in S THEN Reviewing!Settled(l, m, s, y)[m] ELSE l[m]])
<1>1. \A m \in Message : m \in S => Fair(m, l[m], Reviewing!Settled(l, m, s, y)[m])
    BY SettledFairly
<1>2. \A m \in Message : Fair(m, l[m], IF m \in S THEN Reviewing!Settled(l, m, s, y)[m] ELSE l[m])
    BY <1>1, FairSelf DEF Ledgers
<1> QED
    BY <1>2 DEF Proper, Fair, Ledgers

LEMMA DeleteStep ==
    ASSUME RevInv, NEW w \in Worker, Reviewing!Delete(w)
    PROVE  RevInv'
<1>1. /\ RevTyped /\ ledger \in Ledgers
      /\ UNCHANGED <<live, covered, plan, run, audits, seen>>
    BY DEF RevInv, RevTyped, Reviewing!Delete, Reviewing!history
<1> DEFINE ended == {m \in Message : ledger[m].status \in Reviewing!Open}
           l == [m \in Message |-> IF m \in ended
                    THEN Reviewing!Settled(ledger, m, "failed", "deleted")[m] ELSE ledger[m]]
<1>2. Kept(w, l, worker[w]) \/ Kept(w, ledger, worker[w])
    BY SavesKept, DiesKept, Zenon DEF Reviewing!Delete
<1>3. \A m \in Message : m \in ended => MaySettle(ledger, m, "failed")
    BY DEF MaySettle, Reviewing!Open
<1> HIDE DEF ended
<1>4. Proper(ledger, l)
    BY <1>1, <1>3, SettledTogether, Words
<1> HIDE DEF l
<1>5. Proper(ledger, ledger) /\ MayGo(w, worker[w])
    BY <1>1, ProperSelf, GoesOn
<1> QED
    BY <1>1, <1>2, <1>4, <1>5, KeptQuietly

LEMMA StartupStep ==
    ASSUME RevInv, NEW w \in Worker, Reviewing!Startup(w)
    PROVE  RevInv'
<1>1. /\ RevTyped /\ RevLive /\ ledger \in Ledgers
      /\ UNCHANGED <<live, covered, plan, run, audits, seen>>
    BY DEF RevInv, RevTyped, Reviewing!Startup, Reviewing!history
<1> DEFINE s1 == {m \in Reviewing!Reviewed : ~Reviewing!Concluded(m)}
           l1 == Reviewing!FinalLedger(ledger, s1)
           stopped == {m \in Message : l1[m].status = "running"}
           l2 == [m \in Message |-> IF m \notin stopped THEN l1[m]
                    ELSE IF Reviewing!Allowed(l1[m]) THEN [l1[m] EXCEPT !.status = "pending"]
                    ELSE [l1[m] EXCEPT !.status = "failed", !.why = "limit"]]
           gone == {m \in Message : deleted /\ l2[m].status \in Reviewing!Open}
           l3 == [m \in Message |-> IF m \in gone
                    THEN Reviewing!Settled(l2, m, "failed", "deleted")[m] ELSE l2[m]]
           blocked == {m \in Message : l3[m].status = "failed" /\ l3[m].why = "blocked"}
           again == {m \in blocked : ~Reviewing!IsCovered(m) /\ Reviewing!MayClaim(m)}
           l4 == [m \in Message |-> IF m \in again THEN Reviewing!Settled(l3, m, "pending", Reviewing!None)[m]
                    ELSE IF m \in blocked /\ Reviewing!IsCovered(m)
                    THEN Reviewing!Settled(l3, m, "no-change", "covered")[m]
                    ELSE l3[m]]
           pending == {m \in Message : l4[m].status = "pending"}
<1>2. \/ \E kept \in SUBSET pending :
            Kept(w, [m \in Message |-> IF m \in pending \ kept
                        THEN Reviewing!Settled(l4, m, "failed", "backlog")[m] ELSE l4[m]],
                 [worker[w] EXCEPT !.queue = @ \cup kept, !.boot = FALSE])
      \/ Kept(w, ledger, worker[w])
    BY SavesKept, DiesKept, Zenon DEF Reviewing!Startup
<1>3. Proper(ledger, l1) /\ l1 \in Ledgers
    <2>1. s1 \in SUBSET live
        BY DEF Reviewing!Reviewed
    <2> HIDE DEF s1
    <2> QED
        BY <1>1, <2>1, RecordedFairly DEF Proper
<1> HIDE DEF l1
<1>4. Proper(l1, l2) /\ l2 \in Ledgers
    <2>1. \A m \in Message : l1[m] \in Turn
        BY <1>3 DEF Ledgers
    <2>2. \A m \in Message : m \in stopped =>
             /\ Fair(m, l1[m], [l1[m] EXCEPT !.status = "pending"])
             /\ Fair(m, l1[m], [l1[m] EXCEPT !.status = "failed", !.why = "limit"])
        BY <2>1 DEF Fair, Turn, Statuses, Whys
    <2>3. \A m \in Message : Fair(m, l1[m], l2[m])
        BY <2>1, <2>2, FairSelf
    <2> QED
        BY <2>3 DEF Proper, Fair, Ledgers
<1> HIDE DEF l2, stopped
<1>5. Proper(l2, l3) /\ l3 \in Ledgers
    <2>1. \A m \in Message : m \in gone => MaySettle(l2, m, "failed")
        BY DEF MaySettle, Reviewing!Open
    <2> HIDE DEF gone
    <2>2. "failed" \in Statuses /\ "deleted" \in Whys
        BY Words
    <2>3. Proper(l2, l3)
        BY <1>4, <2>1, <2>2, SettledTogether
    <2> QED
        BY <2>3 DEF Proper
<1> HIDE DEF l3, gone
<1>6. Proper(ledger, l3)
    BY <1>3, <1>4, <1>5, FairTwice DEF Proper
<1>7. Proper(l3, l4) /\ l4 \in Ledgers
    <2>1. \A m \in Message : m \in again => MaySettle(l3, m, "pending")
        BY DEF MaySettle
    <2>2. \A m \in Message : m \in blocked /\ m \in covered => MaySettle(l3, m, "no-change")
        BY <1>1, <1>6 DEF MaySettle, Proper, Fair, RevLive, Busy
    <2>3. \A m \in Message : m \in again => Fair(m, l3[m], Reviewing!Settled(l3, m, "pending", "none")[m])
        BY <1>5, <2>1, SettledFairly, Words
    <2>4. \A m \in Message : m \in blocked /\ m \in covered =>
             Fair(m, l3[m], Reviewing!Settled(l3, m, "no-change", "covered")[m])
        BY <1>5, <2>2, SettledFairly, Words
    <2> HIDE DEF again, blocked
    <2>5. \A m \in Message : Fair(m, l3[m], l4[m])
        BY <1>5, <2>3, <2>4, FairSelf DEF Ledgers, Reviewing!IsCovered, Reviewing!None
    <2> QED
        BY <2>5 DEF Proper, Fair, Ledgers
<1> HIDE DEF l4, again, blocked
<1>8. Proper(ledger, l4)
    BY <1>6, <1>7, FairTwice DEF Proper
<1>9. ASSUME NEW kept \in SUBSET pending
      PROVE  /\ Proper(ledger, [m \in Message |-> IF m \in pending \ kept
                                  THEN Reviewing!Settled(l4, m, "failed", "backlog")[m] ELSE l4[m]])
             /\ MayGo(w, [worker[w] EXCEPT !.queue = @ \cup kept, !.boot = FALSE])
    <2> DEFINE rest == pending \ kept
               l5 == [m \in Message |-> IF m \in rest
                         THEN Reviewing!Settled(l4, m, "failed", "backlog")[m] ELSE l4[m]]
    <2>1. \A m \in Message : m \in rest => MaySettle(l4, m, "failed")
        BY DEF MaySettle
    <2>2. kept \in SUBSET Message
        OBVIOUS
    <2>3. MayGo(w, [worker[w] EXCEPT !.queue = @ \cup kept, !.boot = FALSE])
        BY <1>1, <2>2 DEF RevTyped, MayGo, Process
    <2> HIDE DEF rest
    <2>4. Proper(l4, l5)
        BY <1>7, <2>1, SettledTogether, Words
    <2> HIDE DEF l5
    <2>5. Proper(ledger, l5)
        BY <1>8, <2>4, FairTwice DEF Proper
    <2> QED
        BY <2>3, <2>5 DEF l5, rest
<1> HIDE DEF pending
<1>10. Proper(ledger, ledger) /\ MayGo(w, worker[w])
    BY <1>1, ProperSelf, GoesOn
<1> QED
    BY <1>1, <1>2, <1>9, <1>10, KeptQuietly

LEMMA PausedSteps ==
    ASSUME RevInv, NEW w \in Worker,
           \/ Reviewing!GiveUp(w) \/ Reviewing!Error(w) \/ Reviewing!Suppressed(w)
           \/ Reviewing!Disowned(w)
    PROVE  RevInv'
<1>1. /\ RevTyped /\ RevHeld /\ ledger \in Ledgers /\ lease \in Leases /\ lease' = lease
      /\ UNCHANGED <<live, covered, plan, run, audits, seen>>
      /\ worker[w].pc # "idle" /\ worker[w].m \in Message
    BY DEF RevInv, RevTyped, RevHeld, Reviewing!GiveUp, Reviewing!Error, Reviewing!Suppressed,
           Reviewing!Disowned, Reviewing!history, Reviewing!files, Reviewing!Keeps, Reviewing!Stages
<1>2. worker' = [worker EXCEPT ![w] = [worker[w] EXCEPT !.pc = "release"]]
      \/ worker' = [worker EXCEPT ![w] = [worker[w] EXCEPT !.pc = "failing"]]
    BY DEF Reviewing!GiveUp, Reviewing!Error, Reviewing!Suppressed, Reviewing!Disowned,
           Reviewing!Goes, Reviewing!Becomes
<1>3. PICK me : MayGo(w, me) /\ worker' = [worker EXCEPT ![w] = me]
    BY <1>1, <1>2, GoesOn
<1>4. Calm
    BY <1>1, <1>3, CalmBecomes
<1>5. Proper(ledger, ledger')
    <2>1. CASE ledger' = ledger
        BY <1>1, <2>1, ProperSelf
    <2>2. CASE ledger' # ledger
        <3>1. /\ worker[w].m \in covered /\ ~Reviewing!Concluded(worker[w].m)
              /\ ledger' = Reviewing!Settled(ledger, worker[w].m, "no-change", "covered")
            BY <2>2, Zenon
            DEF Reviewing!GiveUp, Reviewing!Error, Reviewing!Suppressed, Reviewing!Disowned,
                Reviewing!IsCovered, Reviewing!files
        <3>2. MaySettle(ledger, worker[w].m, "no-change")
            BY <1>1, <3>1, MayClose
        <3> QED
            BY <1>1, <3>1, <3>2, SettledFairly, Words
    <2> QED
        BY <2>1, <2>2
<1> QED
    BY <1>1, <1>4, <1>5, Quietly

LEMMA SkipStep ==
    ASSUME RevInv, NEW w \in Worker, Reviewing!Skip(w)
    PROVE  RevInv'
<1>1. /\ RevTyped /\ RevHeld /\ RevAudited /\ ledger \in Ledgers /\ worker[w].pc = "skip"
      /\ UNCHANGED <<live, covered, plan, run, audits, seen>>
    BY DEF RevInv, RevTyped, Reviewing!Skip, Reviewing!Keeps, Reviewing!history
<1> DEFINE me == [worker[w] EXCEPT !.pc = "release"]
<1>2. \/ /\ ledger[worker[w].m].status = "running"
         /\ Kept(w, Reviewing!Settled(ledger, worker[w].m, "no-change", "none"), me)
      \/ Kept(w, ledger, me)
    <2>1. \/ /\ ledger[worker[w].m].status = "running"
             /\ Kept(w, Reviewing!Settled(ledger, worker[w].m, "no-change", "none"), me)
          \/ Reviewing!Becomes(w, me) /\ UNCHANGED <<ledger, lease>>
        BY SavesKept, Words, Zenon DEF Reviewing!Skip
    <2> QED
        BY <2>1 DEF Kept, Reviewing!Becomes
<1>3. MayGo(w, me)
    BY <1>1, GoesOn
<1>4. /\ worker[w].m \in Message /\ worker[w].m \in seen /\ worker[w].m \notin live
      /\ ~Busy(worker[w].m)
    BY <1>1 DEF RevHeld, RevAudited, Auditing, Busy
<1>5. ledger[worker[w].m].status = "running" =>
         Proper(ledger, Reviewing!Settled(ledger, worker[w].m, "no-change", "none"))
    <2>1. ledger[worker[w].m].status = "running" => MaySettle(ledger, worker[w].m, "no-change")
        BY <1>4 DEF MaySettle
    <2> QED
        BY <1>1, <1>4, <2>1, SettledFairly, Words
<1> HIDE DEF me
<1> QED
    BY <1>1, <1>2, <1>3, <1>5, ProperSelf, KeptQuietly

LEMMA FailStep ==
    ASSUME RevInv, NEW w \in Worker, Reviewing!FailAudit(w)
    PROVE  RevInv'
<1>1. /\ RevTyped /\ RevHeld /\ ledger \in Ledgers /\ worker[w].pc = "failing"
      /\ UNCHANGED <<live, covered, plan, run, audits, seen>>
    BY DEF RevInv, RevTyped, Reviewing!FailAudit, Reviewing!Keeps, Reviewing!history
<1> DEFINE me == [worker[w] EXCEPT !.pc = "release"]
           t == worker[w].m
<1>2. \/ Kept(w, ledger, me)
      \/ t \in Reviewing!Reviewed /\ Kept(w, Reviewing!FinalLedger(ledger, {t}), me)
      \/ /\ t \in covered /\ ~Reviewing!Concluded(t)
         /\ Kept(w, Reviewing!Settled(ledger, t, "no-change", "covered"), me)
      \/ ~Reviewing!Concluded(t) /\ Kept(w, Reviewing!Settled(ledger, t, "failed", "audit"), me)
    BY SavesKept, Zenon DEF Reviewing!FailAudit, Reviewing!IsCovered
<1>3. MayGo(w, me) /\ t \in Message
    BY <1>1, GoesOn DEF RevHeld
<1> HIDE DEF me, t
<1>4. CASE Kept(w, ledger, me)
    BY <1>1, <1>3, <1>4, ProperSelf, KeptQuietly
<1>5. CASE t \in Reviewing!Reviewed /\ Kept(w, Reviewing!FinalLedger(ledger, {t}), me)
    <2>1. {t} \in SUBSET live
        BY <1>5 DEF Reviewing!Reviewed
    <2> QED
        BY <1>1, <1>3, <1>5, <2>1, RecordedFairly, KeptQuietly
<1>6. CASE /\ t \in covered /\ ~Reviewing!Concluded(t)
           /\ Kept(w, Reviewing!Settled(ledger, t, "no-change", "covered"), me)
    <2>1. Proper(ledger, Reviewing!Settled(ledger, t, "no-change", "covered"))
        BY <1>1, <1>3, <1>6, MayClose, SettledFairly, Words
    <2> QED
        BY <1>1, <1>3, <1>6, <2>1, KeptQuietly
<1>7. CASE ~Reviewing!Concluded(t) /\ Kept(w, Reviewing!Settled(ledger, t, "failed", "audit"), me)
    <2>1. MaySettle(ledger, t, "failed")
        BY <1>7 DEF MaySettle, Reviewing!Concluded
    <2>2. Proper(ledger, Reviewing!Settled(ledger, t, "failed", "audit"))
        BY <1>1, <1>3, <2>1, SettledFairly, Words
    <2> QED
        BY <1>1, <1>3, <1>7, <2>2, KeptQuietly
<1> QED
    BY <1>2, <1>4, <1>5, <1>6, <1>7

LEMMA DieStep ==
    ASSUME RevInv, NEW w \in Worker, Reviewing!Die(w)
    PROVE  RevInv'
<1>1. /\ RevTyped /\ ledger \in Ledgers /\ UNCHANGED <<live, covered, plan, run, audits, seen>>
      /\ Kept(w, ledger, worker[w])
    BY DiesKept DEF RevInv, RevTyped, Reviewing!Die, Reviewing!Keeps, Reviewing!history
<1> QED
    BY <1>1, ProperSelf, GoesOn, KeptQuietly

LEMMA ReleaseStep ==
    ASSUME RevInv, NEW w \in Worker, Reviewing!Release(w)
    PROVE  RevInv'
<1>1. /\ RevTyped /\ RevHeld /\ worker[w].pc = "release" /\ lease' = Reviewing!Freed(w)
      /\ worker' = [worker EXCEPT ![w] = [worker[w] EXCEPT !.pc = "idle", !.m = "none"]]
      /\ UNCHANGED <<ledger, live, covered, plan, run, audits, seen>>
    BY DEF RevInv, Reviewing!Release, Reviewing!Becomes, Reviewing!None, Reviewing!history
<1>2. lease.by = w /\ lease' = Reviewing!Free /\ run = "idle"
    BY <1>1, EvolutionAssumption DEF RevHeld, Reviewing!Freed
<1>3. \A v \in Worker \ {w} : worker[v].pc = "idle"
    BY <1>1, <1>2 DEF RevHeld
<1>4. /\ worker' \in [Worker -> Process] /\ worker'[w].pc = "idle"
      /\ \A v \in Worker \ {w} : worker'[v] = worker[v]
    BY <1>1 DEF RevTyped, Process, Steps
<1>5. lease' \in Leases
    BY <1>2 DEF Reviewing!Free, Reviewing!None, Leases
<1>6. Calm
    BY <1>2, <1>3, <1>4, <1>5 DEF Calm
<1>7. Proper(ledger, ledger')
    BY <1>1, ProperSelf DEF RevTyped
<1> QED
    BY <1>1, <1>6, <1>7, Quietly

LEMMA LapseSteps ==
    ASSUME RevInv, (\E m \in Message : Reviewing!Lapse(m)) \/ Reviewing!LeaseLapse
    PROVE  RevInv'
<1>1. /\ RevTyped /\ RevHeld /\ UNCHANGED <<ledger, worker, live, covered, plan, run, audits, seen>>
      /\ lease' = lease \/ lease' = [lease EXCEPT !.valid = FALSE]
    BY DEF RevInv, Reviewing!Lapse, Reviewing!LeaseLapse, Reviewing!history, Reviewing!files
<1>2. lease' \in Leases /\ lease'.by = lease.by
    BY <1>1 DEF RevTyped, Leases
<1>3. Calm
    BY <1>1, <1>2 DEF Calm, RevTyped, RevHeld
<1>4. Proper(ledger, ledger')
    BY <1>1, ProperSelf DEF RevTyped
<1> QED
    BY <1>1, <1>3, <1>4, Quietly

-----------------------------------------------------------------------------
(* Reviews: an audit takes a turn, goes on with it and publishes.          *)

\* While a process works, no other does, and no plan runs.
LEMMA Alone ==
    ASSUME RevInv, NEW w \in Worker, lease.by \in {w, "none"}
    PROVE  run = "idle" /\ \A v \in Worker \ {w} : worker[v].pc = "idle"
BY EvolutionAssumption DEF RevInv, RevHeld

LEMMA TakeStep ==
    ASSUME RevInv, NEW w \in Worker, NEW m \in Message, Reviewing!Take(w, m)
    PROVE  RevInv'
<1>1. /\ RevTyped /\ RevHeld /\ RevAudited /\ RevLive /\ RevPlan
      /\ UNCHANGED <<ledger, live, covered, plan, run, audits, seen>>
      /\ lease = Reviewing!Free /\ lease' = [Reviewing!Free EXCEPT !.by = w]
    BY DEF RevInv, Reviewing!Take, Reviewing!history, Reviewing!files
<1> DEFINE me == [worker[w] EXCEPT !.pc = "acquire", !.m = m, !.queue = @ \ {m}]
<1>2. worker' = [worker EXCEPT ![w] = me]
    BY DEF Reviewing!Take, Reviewing!Becomes
<1>3. me \in Process /\ me.pc = "acquire" /\ me.m = m
    BY <1>1 DEF RevTyped, Process, Steps
<1> HIDE DEF me
<1>4. /\ worker' \in [Worker -> Process] /\ worker'[w] = me
      /\ \A v \in Worker \ {w} : worker'[v] = worker[v]
    BY <1>1, <1>2, <1>3 DEF RevTyped
<1>5. lease.by = "none" /\ lease' \in Leases /\ lease'.by = w
    BY <1>1 DEF Reviewing!Free, Reviewing!None, Leases
<1>6. run = "idle" /\ \A v \in Worker \ {w} : worker[v].pc = "idle"
    BY <1>5, Alone
<1>7. RevTyped'
    BY <1>1, <1>4, <1>5 DEF RevTyped
<1>8. RevHeld'
    BY <1>1, <1>3, <1>4, <1>5, <1>6 DEF RevHeld
<1>9. RevAudited'
    BY <1>1, <1>3, <1>4, <1>6 DEF RevAudited, Auditing
<1>10. RevLive' /\ RevPlan'
    BY <1>1 DEF RevLive, RevPlan, Left
<1> QED
    BY <1>7, <1>8, <1>9, <1>10 DEF RevInv

\* beginSkillAudit, when the audit begins.
LEMMA BeginAudit ==
    ASSUME RevInv, NEW w \in Worker, NEW t \in Message, t = worker[w].m, worker[w].pc = "acquire",
           ledger[t].status = "pending", t \notin Reviewing!Reviewed, Reviewing!Allowed(ledger[t]),
           Kept(w, [Reviewing!Settled(ledger, t, "running", "none") EXCEPT ![t].attempts = @ + 1],
                [worker[w] EXCEPT !.pc = "capture"]),
           UNCHANGED <<live, covered, plan, run, audits, seen>>
    PROVE  RevInv'
<1>1. /\ RevTyped /\ RevHeld /\ RevAudited /\ RevLive /\ RevPlan /\ ledger \in Ledgers
      /\ t \notin live /\ lease \in Leases /\ lease.by = w
    BY DEF RevInv, RevTyped, RevHeld, Reviewing!Reviewed, Reviewing!None
<1> DEFINE k == Reviewing!Settled(ledger, t, "running", "none")
           l == [k EXCEPT ![t].attempts = @ + 1]
           me == [worker[w] EXCEPT !.pc = "capture"]
<1>2. /\ k \in Ledgers /\ k[t].status = "running" /\ k[t].attempts = ledger[t].attempts
      /\ \A x \in Message \ {t} : k[x] = ledger[x]
    <2>1. "running" \in Statuses /\ "none" \in Whys
        BY Words
    <2> QED
        BY <1>1, <2>1, SettledAt
<1>3. MaySettle(ledger, t, "running")
    BY DEF MaySettle
<1> HIDE DEF k
<1>4. /\ l \in Ledgers /\ l[t].status = "running" /\ l[t].attempts = ledger[t].attempts + 1
      /\ \A x \in Message \ {t} : l[x] = ledger[x]
    BY <1>2 DEF Ledgers, Turn
<1>5. ledger[t].attempts + 1 <= MaxAttempts /\ ledger[t].attempts \in Nat
    BY <1>1, EvolutionAssumption DEF Reviewing!Allowed, Ledgers, Turn
<1>6. me \in Process /\ me.pc = "capture" /\ me.m = t
    BY <1>1 DEF RevTyped, Process, Steps, Auditing
<1>7. Kept(w, l, me)
    BY DEF k
<1> HIDE DEF l, me
<1>8. run = "idle" /\ \A v \in Worker \ {w} : worker[v].pc = "idle"
    BY <1>1, Alone
<1>9. Reviewing!Off \in Process /\ Reviewing!Off.pc = "idle" /\ Reviewing!Free \in Leases
    BY DEF Reviewing!Off, Reviewing!None, Reviewing!Free, Leases, Process, Steps
<1>10. /\ worker' \in [Worker -> Process] /\ lease' \in Leases
       /\ \A v \in Worker \ {w} : worker'[v].pc = "idle"
       /\ ledger' \in {l, ledger}
       /\ \/ worker'[w] = me /\ ledger' = l /\ lease' = lease
          \/ worker'[w].pc = "idle"
    <2>1. CASE ledger' = l /\ worker' = [worker EXCEPT ![w] = me] /\ lease' = lease
        BY <1>1, <1>6, <1>8, <2>1 DEF RevTyped
    <2>2. CASE /\ ledger' \in {l, ledger} /\ worker' = [worker EXCEPT ![w] = Reviewing!Off]
               /\ lease' = Reviewing!Freed(w)
        BY <1>1, <1>8, <1>9, <2>2 DEF RevTyped, Reviewing!Freed
    <2> QED
        BY <1>7, <2>1, <2>2 DEF Kept
<1>11. ledger' \in Ledgers /\ RevTyped'
    BY <1>1, <1>4, <1>10 DEF RevTyped
<1>12. RevHeld'
    BY <1>1, <1>6, <1>8, <1>10 DEF RevHeld
<1>13. /\ \A x \in Message \ {t} : ledger'[x] = ledger[x]
       /\ ledger'[t].status \in {"pending", "running"}
       /\ ledger'[t].attempts \in {ledger[t].attempts, ledger[t].attempts + 1}
    BY <1>4, <1>10
<1>14. RevLive'
    BY <1>1, <1>13 DEF RevLive
<1>15. RevPlan'
    BY <1>1 DEF RevPlan, Left
<1>16. \A m \in Message : audits'[m] <= ledger'[m].attempts /\ ledger'[m].attempts <= MaxAttempts
    <2>1. \A m \in Message \ {t} : audits'[m] <= ledger'[m].attempts /\ ledger'[m].attempts <= MaxAttempts
        BY <1>1, <1>13 DEF RevAudited
    <2>2. audits[t] <= ledger[t].attempts /\ audits[t] \in Nat /\ MaxAttempts \in Nat
        BY <1>1, EvolutionAssumption DEF RevAudited, RevTyped
    <2>3. audits'[t] <= ledger'[t].attempts /\ ledger'[t].attempts <= MaxAttempts
        BY <1>5, <1>13, <2>2
    <2> QED
        BY <2>1, <2>3
<1>17. worker'[w] = me /\ ledger' = l =>
          /\ worker'[w].m \notin live' /\ ledger'[worker'[w].m].status = "running"
          /\ audits'[worker'[w].m] < ledger'[worker'[w].m].attempts /\ worker'[w].pc = "capture"
    <2>1. audits[t] <= ledger[t].attempts /\ audits[t] \in Nat
        BY <1>1 DEF RevAudited, RevTyped
    <2> QED
        BY <1>1, <1>4, <1>5, <1>6, <2>1
<1>18. RevAudited'
    BY <1>10, <1>16, <1>17 DEF RevAudited, Auditing
<1> QED
    BY <1>11, <1>12, <1>14, <1>15, <1>18 DEF RevInv

LEMMA AcquireStep ==
    ASSUME RevInv, NEW w \in Worker, Reviewing!Acquire(w)
    PROVE  RevInv'
<1>1. /\ RevTyped /\ RevHeld /\ ledger \in Ledgers /\ worker[w].pc = "acquire"
      /\ UNCHANGED <<live, covered, plan, run, audits, seen>>
    BY DEF RevInv, RevTyped, Reviewing!Acquire, Reviewing!Keeps, Reviewing!history
<1> DEFINE me == [worker[w] EXCEPT !.pc = "release"]
           t == worker[w].m
<1>2. \/ Reviewing!Goes(w, "release") /\ UNCHANGED <<ledger, lease>>
      \/ t \in Reviewing!Reviewed /\ Kept(w, Reviewing!FinalLedger(ledger, {t}), me)
      \/ /\ t \in covered /\ ledger[t].status = "pending"
         /\ Kept(w, Reviewing!Settled(ledger, t, "no-change", "covered"), me)
      \/ /\ ledger[t].status = "pending"
         /\ Kept(w, Reviewing!Settled(ledger, t, "failed", "limit"), me)
      \/ /\ ledger[t].status = "pending"
         /\ Kept(w, Reviewing!Settled(ledger, t, "failed", "blocked"), me)
      \/ /\ ledger[t].status = "pending" /\ t \notin Reviewing!Reviewed /\ Reviewing!Allowed(ledger[t])
         /\ Kept(w, [Reviewing!Settled(ledger, t, "running", "none") EXCEPT ![t].attempts = @ + 1],
                 [worker[w] EXCEPT !.pc = "capture"])
    BY SavesKept, Words, ZenonT(60) DEF Reviewing!Acquire, Reviewing!IsCovered
<1>3. MayGo(w, me) /\ t \in Message
    BY <1>1, GoesOn DEF RevHeld
<1>4. CASE Reviewing!Goes(w, "release") /\ UNCHANGED <<ledger, lease>>
    <2>1. Kept(w, ledger, me)
        BY <1>4 DEF Reviewing!Goes, Reviewing!Becomes, Kept
    <2> HIDE DEF me
    <2> QED
        BY <1>1, <1>3, <2>1, ProperSelf, KeptQuietly
<1>5. CASE /\ ledger[t].status = "pending" /\ t \notin Reviewing!Reviewed /\ Reviewing!Allowed(ledger[t])
           /\ Kept(w, [Reviewing!Settled(ledger, t, "running", "none") EXCEPT ![t].attempts = @ + 1],
                   [worker[w] EXCEPT !.pc = "capture"])
    BY <1>1, <1>3, <1>5, BeginAudit
<1> HIDE DEF me, t
<1>6. CASE t \in Reviewing!Reviewed /\ Kept(w, Reviewing!FinalLedger(ledger, {t}), me)
    <2>1. {t} \in SUBSET live
        BY <1>6 DEF Reviewing!Reviewed
    <2> QED
        BY <1>1, <1>3, <1>6, <2>1, RecordedFairly, KeptQuietly
<1>7. ASSUME NEW s \in Statuses, NEW y \in Whys, MaySettle(ledger, t, s),
             Kept(w, Reviewing!Settled(ledger, t, s, y), me)
      PROVE  RevInv'
    BY <1>1, <1>3, <1>7, SettledFairly, KeptQuietly
<1>8. ledger[t].status = "pending" =>
         MaySettle(ledger, t, "failed") /\ (t \in covered => MaySettle(ledger, t, "no-change"))
    BY <1>3, MayClose DEF MaySettle, Reviewing!Concluded
<1> QED
    BY <1>2, <1>4, <1>5, <1>6, <1>7, <1>8, Words

LEMMA ProceedStep ==
    ASSUME RevInv, NEW w \in Worker, Reviewing!Proceed(w)
    PROVE  RevInv'
<1> DEFINE t == worker[w].m
<1>1. /\ RevTyped /\ RevHeld /\ RevAudited /\ RevLive /\ RevPlan
      /\ UNCHANGED <<ledger, live, covered, plan, run, lease>>
      /\ worker[w].pc \in {"capture", "audit", "check"} /\ t \notin covered
      /\ seen' = seen \cup {t}
    BY DEF RevInv, Reviewing!Proceed, Reviewing!Keeps, Reviewing!Stages, Reviewing!Owned, Reviewing!IsCovered
<1>2. PICK next \in Reviewing!Stages[worker[w].pc] :
         /\ worker' = [worker EXCEPT ![w] = [worker[w] EXCEPT !.pc = next]]
         /\ audits' = IF next = "audit" THEN [audits EXCEPT ![t] = @ + 1] ELSE audits
    BY DEF Reviewing!Proceed, Reviewing!Goes, Reviewing!Becomes
<1>3. next \in {"audit", "skip", "check", "publish"} /\ (next = "audit" => worker[w].pc = "capture")
    BY <1>1, <1>2 DEF Reviewing!Stages
<1>4. t \in Message /\ lease.by = w
    BY <1>1 DEF RevHeld
<1>5. run = "idle" /\ \A v \in Worker \ {w} : worker[v].pc = "idle"
    BY <1>4, Alone
<1>6. [worker[w] EXCEPT !.pc = next] \in Process
    BY <1>1, <1>3 DEF RevTyped, Process, Steps, Auditing
<1>7. /\ worker' \in [Worker -> Process] /\ worker'[w].pc = next /\ worker'[w].m = t
      /\ \A v \in Worker \ {w} : worker'[v] = worker[v]
    BY <1>1, <1>2, <1>6 DEF RevTyped, Process
<1>8. /\ t \notin live /\ ledger[t].status \notin {"none", "no-change"}
      /\ worker[w].pc = "capture" => audits[t] < ledger[t].attempts
      /\ \A m \in Message : audits[m] <= ledger[m].attempts /\ ledger[m].attempts <= MaxAttempts
    BY <1>1 DEF RevAudited, Auditing
<1>9. /\ audits' \in [Message -> Nat]
      /\ \A m \in Message \ {t} : audits'[m] = audits[m]
      /\ audits'[t] = audits[t] \/ (worker[w].pc = "capture" /\ audits'[t] = audits[t] + 1)
    BY <1>1, <1>2, <1>3, <1>4 DEF RevTyped
<1>10. \A m \in Message : audits[m] \in Nat /\ ledger[m].attempts \in Nat
    BY <1>1 DEF RevTyped, Ledgers, Turn
<1>11. \A m \in Message : audits'[m] <= ledger'[m].attempts /\ ledger'[m].attempts <= MaxAttempts
    BY <1>1, <1>4, <1>8, <1>9, <1>10
<1>12. RevTyped'
    BY <1>1, <1>4, <1>7, <1>9 DEF RevTyped
<1>13. RevHeld'
    BY <1>1, <1>4, <1>5, <1>7 DEF RevHeld
<1>14. RevAudited'
    BY <1>1, <1>3, <1>5, <1>7, <1>8, <1>11 DEF RevAudited, Auditing
<1>15. RevLive'
    BY <1>1 DEF RevLive
<1>16. RevPlan'
    BY <1>1, <1>5 DEF RevPlan
<1> QED
    BY <1>12, <1>13, <1>14, <1>15, <1>16 DEF RevInv

LEMMA PublishStep ==
    ASSUME RevInv, NEW w \in Worker, Reviewing!Publish(w)
    PROVE  RevInv'
<1> DEFINE t == worker[w].m
           me == [worker[w] EXCEPT !.pc = "release"]
<1>1. /\ RevTyped /\ RevHeld /\ RevAudited /\ RevLive /\ RevPlan /\ ledger \in Ledgers
      /\ UNCHANGED <<covered, plan, run, audits, seen>>
      /\ worker[w].pc = "publish" /\ t \notin covered /\ live' = live \cup {t}
    BY DEF RevInv, RevTyped, Reviewing!Publish, Reviewing!history, Reviewing!Owned, Reviewing!IsCovered
<1>2. Kept(w, Reviewing!FinalLedger(ledger, {t}), me)
    <2>1. Reviewing!Saves(w, Reviewing!FinalClaims(claims, {t}), Reviewing!FinalLedger(ledger, {t}), me)
          \/ Reviewing!Dies(w, claims, ledger)
        BY Zenon DEF Reviewing!Publish
    <2> HIDE DEF me
    <2>2. Reviewing!Dies(w, claims, ledger) => Kept(w, Reviewing!FinalLedger(ledger, {t}), me)
        BY DEF Reviewing!Dies, Reviewing!Becomes, Kept
    <2> QED
        BY <2>1, <2>2, SavesKept
<1>3. t \in Message /\ lease.by = w /\ lease \in Leases
    BY <1>1 DEF RevHeld, RevTyped
<1>4. run = "idle" /\ \A v \in Worker \ {w} : worker[v].pc = "idle"
    BY <1>3, Alone
<1>5. t \in seen /\ ledger[t].status \notin {"none", "no-change"}
    BY <1>1 DEF RevAudited, Auditing
<1>6. me \in Process /\ me.pc = "release" /\ me.m = t
    BY <1>1 DEF RevTyped, Process, Steps
<1>7. Reviewing!Off \in Process /\ Reviewing!Off.pc = "idle" /\ Reviewing!Free \in Leases
    BY DEF Reviewing!Off, Reviewing!None, Reviewing!Free, Leases, Process, Steps
<1>8. ledger[t] \in Turn
    BY <1>1, <1>3 DEF Ledgers
<1> DEFINE l == Reviewing!FinalLedger(ledger, {t})
<1>9. /\ l \in Ledgers /\ l[t].status = "candidate" /\ l[t].attempts = ledger[t].attempts
      /\ \A x \in Message \ {t} : l[x] = ledger[x]
    BY <1>1, <1>3, <1>8 DEF Reviewing!FinalLedger, Reviewing!None, Ledgers, Turn, Statuses, Whys
<1> HIDE DEF l, me
<1>10. /\ worker' \in [Worker -> Process] /\ lease' \in Leases
       /\ \A v \in Worker \ {w} : worker'[v].pc = "idle"
       /\ ledger' \in {l, ledger}
       /\ \/ worker'[w] = me /\ ledger' = l /\ lease' = lease
          \/ worker'[w].pc = "idle"
    <2>1. CASE ledger' = l /\ worker' = [worker EXCEPT ![w] = me] /\ lease' = lease
        BY <1>1, <1>3, <1>4, <1>6, <2>1 DEF RevTyped
    <2>2. CASE /\ ledger' \in {l, ledger} /\ worker' = [worker EXCEPT ![w] = Reviewing!Off]
               /\ lease' = Reviewing!Freed(w)
        BY <1>1, <1>3, <1>4, <1>7, <2>2 DEF RevTyped, Reviewing!Freed
    <2> QED
        BY <1>2, <2>1, <2>2 DEF Kept, l
<1>11. RevTyped'
    BY <1>1, <1>3, <1>9, <1>10 DEF RevTyped
<1>12. RevHeld'
    BY <1>1, <1>3, <1>4, <1>6, <1>10 DEF RevHeld
<1>13. /\ \A x \in Message \ {t} : ledger'[x] = ledger[x]
       /\ ledger'[t].status \in {"candidate", ledger[t].status}
       /\ \A x \in Message : ledger'[x].attempts = ledger[x].attempts
    BY <1>9, <1>10
<1>14. RevAudited'
    <2>1. \A v \in Worker : worker'[v].pc \notin Auditing
        BY <1>6, <1>10 DEF Auditing
    <2>2. \A m \in Message : audits'[m] <= ledger'[m].attempts /\ ledger'[m].attempts <= MaxAttempts
        BY <1>1, <1>13 DEF RevAudited
    <2> QED
        BY <2>1, <2>2 DEF RevAudited
<1>15. RevLive'
    BY <1>1, <1>4, <1>5, <1>13 DEF RevLive, Reads
<1>16. RevPlan'
    BY <1>1 DEF RevPlan, Left
<1> QED
    BY <1>11, <1>12, <1>14, <1>15, <1>16 DEF RevInv

-----------------------------------------------------------------------------
(* Reviews: the executor of a plan.                                        *)

LEMMA Executes ==
    ASSUME RevInv, \A w \in Worker : worker[w].pc = "idle",
           plan' \in Cursor, run' \in Runs, lease' \in Leases, run' # "idle" => lease'.by = "plan",
           UNCHANGED <<live, worker, audits>>, Proper(ledger, ledger'),
           covered \subseteq covered', covered' \subseteq Message, covered' \ covered \subseteq seen,
           seen \subseteq seen', seen' \subseteq Message, RevPlan'
    PROVE  RevInv'
<1>1. /\ RevTyped /\ RevHeld /\ RevAudited /\ RevLive /\ RevPlan
      /\ ledger' \in Ledgers /\ \A m \in Message : Fair(m, ledger[m], ledger'[m])
    BY DEF RevInv, Proper
<1>2. RevTyped'
    BY <1>1 DEF RevTyped
<1>3. RevHeld'
    BY DEF RevHeld
<1>4. RevAudited'
    BY <1>1 DEF RevAudited, Fair, Auditing
<1>5. RevLive'
    <2>1. \A m \in Message : m \in live => m \in seen' /\ ledger'[m].status # "none"
        BY <1>1 DEF RevLive, Fair
    <2>2. \A m \in Message : ledger'[m].status = "candidate" => m \in live
        BY <1>1 DEF RevLive, Fair
    <2>3. \A m \in Message : ledger'[m].status = "no-change" \/ m \in covered' => m \in seen'
        BY <1>1 DEF RevLive, Fair
    <2>4. \A m \in Message : m \in live /\ ledger'[m].status = "no-change" => m \in covered'
        BY <1>1 DEF RevLive, RevTyped, Fair
    <2> QED
        BY <2>1, <2>2, <2>3, <2>4 DEF RevLive
<1> QED
    BY <1>2, <1>3, <1>4, <1>5 DEF RevInv

\* While the plan runs it holds the lease, and no audit goes on.
LEMMA PlanAlone ==
    ASSUME RevInv, run # "idle" \/ lease.by \in {"none", "plan"}
    PROVE  \A w \in Worker : worker[w].pc = "idle"
BY EvolutionAssumption DEF RevInv, RevHeld

\* A step of the executor that writes neither ledger nor coverage and reads no turn.
LEMMA ExecutesQuietly ==
    ASSUME RevInv, run # "idle", plan' \in Cursor, run' \in Runs,
           UNCHANGED <<ledger, live, covered, worker, lease, audits, seen>>, RevPlan'
    PROVE  RevInv'
<1>1. /\ lease' \in Leases /\ lease'.by = "plan" /\ covered' \subseteq Message /\ seen' \subseteq Message
      /\ Proper(ledger, ledger')
    BY ProperSelf DEF RevInv, RevTyped, RevHeld
<1> QED
    BY <1>1, PlanAlone, Executes

LEMMA RunStartStep ==
    ASSUME RevInv, Reviewing!RunStart
    PROVE  RevInv'
<1>1. /\ lease.by = "none" /\ lease' \in Leases /\ lease'.by = "plan" /\ plan' = plan
      /\ UNCHANGED <<ledger, live, covered, worker, audits, seen>>
      /\ run' = IF plan.state = "completed" THEN "again" ELSE "reserve"
    BY DEF Reviewing!RunStart, Reviewing!Free, Reviewing!None, Leases, Reviewing!files, Reviewing!history
<1>2. /\ plan' \in Cursor /\ run' \in Runs /\ run' \notin Reads /\ Proper(ledger, ledger')
      /\ covered' \subseteq Message /\ seen' \subseteq Message
    BY <1>1, ProperSelf DEF RevInv, RevTyped, Runs, Published, Reads
<1>3. RevPlan'
    BY <1>1 DEF RevInv, RevPlan, Left, Published
<1>4. \A w \in Worker : worker[w].pc = "idle"
    BY <1>1, PlanAlone
<1> QED
    BY <1>1, <1>2, <1>3, <1>4, Executes

\* A run that ends, dies or finds the plan cancelled reads and publishes nothing.
LEMMA Stopped ==
    ASSUME RevInv, run' \in {"idle", "reserve", "interrupt", "release", "start"},
           plan'.done = plan.done, plan'.state = "completed" => plan.state = "completed",
           UNCHANGED <<covered, seen>>
    PROVE  RevPlan'
BY DEF RevInv, RevPlan, Left, Published

\* Whichever turn of a live candidate is the first to change the ledger.
LEMMA FencedFairly ==
    ASSUME RevInv, NEW first
    PROVE  Proper(ledger, Reviewing!Fenced(first))
<1>1. ledger \in Ledgers
    BY DEF RevInv, RevTyped
<1> DEFINE f == Reviewing!Fenced(first)
<1>2. f = [m \in Message |->
             IF m \in Reviewing!Reviewed \cap {first} THEN Reviewing!FinalLedger(ledger, {m})[m]
             ELSE IF m \in Reviewing!Unsettled \ Reviewing!Reviewed
                  THEN Reviewing!Settled(ledger, m, "failed", "fenced")[m]
             ELSE ledger[m]]
    BY DEF Reviewing!Fenced
<1> HIDE DEF f
<1>3. ASSUME NEW m \in Message
      PROVE  Fair(m, ledger[m], f[m])
    <2>1. CASE m \in Reviewing!Reviewed \cap {first}
        <3>1. {m} \in SUBSET live
            BY <2>1 DEF Reviewing!Reviewed
        <3>2. Fair(m, ledger[m], Reviewing!FinalLedger(ledger, {m})[m])
            BY <1>1, <3>1, RecordedFairly DEF Proper
        <3> QED
            BY <1>2, <2>1, <3>2
    <2>2. CASE m \notin Reviewing!Reviewed \cap {first} /\ m \in Reviewing!Unsettled \ Reviewing!Reviewed
        <3>1. MaySettle(ledger, m, "failed") /\ "failed" \in Statuses /\ "fenced" \in Whys
            BY <2>2, Words DEF MaySettle, Reviewing!Unsettled, Reviewing!Open
        <3>2. Fair(m, ledger[m], Reviewing!Settled(ledger, m, "failed", "fenced")[m])
            BY <1>1, <3>1, SettledFairly
        <3> QED
            BY <1>2, <2>2, <3>2
    <2>3. CASE m \notin Reviewing!Reviewed \cap {first} /\ m \notin Reviewing!Unsettled \ Reviewing!Reviewed
        BY <1>1, <1>2, <2>3, FairSelf DEF Ledgers
    <2> QED
        BY <2>1, <2>2, <2>3
<1>4. f \in Ledgers
    <2>1. \A m \in Message : f[m] \in Turn
        BY <1>3 DEF Fair
    <2>2. f = [m \in Message |-> f[m]]
        BY <1>2
    <2> QED
        BY <2>1, <2>2 DEF Ledgers
<1> QED
    BY <1>3, <1>4 DEF Proper, f

\* A run that dies, whatever of the ledger it has written.
LEMMA RunDiesStep ==
    ASSUME RevInv, run # "idle", NEW c, NEW l, Proper(ledger, l), Reviewing!RunDies(c, l),
           UNCHANGED <<live, covered, plan, audits, seen>>
    PROVE  RevInv'
<1>1. /\ run' = "idle" /\ ledger' = l /\ lease' = Reviewing!Freed("plan") /\ UNCHANGED worker
    BY DEF Reviewing!RunDies
<1>2. lease' \in Leases
    BY <1>1 DEF RevInv, RevTyped, Reviewing!Freed, Reviewing!Free, Reviewing!None, Leases
<1>3. plan' \in Cursor /\ run' \in Runs /\ covered' \subseteq Message /\ seen' \subseteq Message
    BY <1>1 DEF RevInv, RevTyped, Runs
<1>4. RevPlan'
    BY <1>1, Stopped
<1>5. Proper(ledger, ledger')
    BY <1>1
<1> QED
    BY <1>1, <1>2, <1>3, <1>4, <1>5, PlanAlone, Executes

LEMMA ReserveStep ==
    ASSUME RevInv, Reviewing!Reserve
    PROVE  RevInv'
<1>1. /\ run = "reserve" /\ UNCHANGED <<live, covered, audits, seen>>
      /\ plan \in Cursor /\ lease \in Leases /\ lease.by = "plan"
      /\ covered \subseteq Message /\ seen \subseteq Message
    BY DEF RevInv, RevTyped, RevHeld, Reviewing!Reserve, Reviewing!history
<1>2. PICK l : Proper(ledger, l) /\
      (\/ /\ plan' = Reviewing!Resumable(plan) /\ run' = "release"
          /\ UNCHANGED <<ledger, lease, worker>>
       \/ ledger' = l /\ run' = "start" /\ UNCHANGED <<lease, worker, plan>>
       \/ Reviewing!RunDies([m \in Message |-> Reviewing!PlanClaim], ledger) /\ UNCHANGED plan)
    <2>1. \E first :
            \/ /\ plan' = Reviewing!Resumable(plan) /\ run' = "release"
               /\ UNCHANGED <<ledger, lease, worker>>
            \/ /\ ledger' = Reviewing!Fenced(first) /\ run' = "start"
               /\ UNCHANGED <<lease, worker, plan>>
            \/ Reviewing!RunDies([m \in Message |-> Reviewing!PlanClaim], ledger) /\ UNCHANGED plan
        BY Zenon DEF Reviewing!Reserve
    <2> QED
        BY <2>1, FencedFairly
<1>3. \/ /\ plan' = Reviewing!Resumable(plan) /\ run' = "release"
         /\ UNCHANGED <<ledger, lease, worker>>
      \/ ledger' = l /\ run' = "start" /\ UNCHANGED <<lease, worker, plan>>
      \/ Reviewing!RunDies([m \in Message |-> Reviewing!PlanClaim], ledger) /\ UNCHANGED plan
    BY <1>2
<1>4. CASE /\ plan' = Reviewing!Resumable(plan) /\ run' = "release"
           /\ UNCHANGED <<ledger, lease, worker>>
    <2>1. /\ plan' \in Cursor /\ plan'.done = plan.done /\ (plan'.state = "completed" => plan.state = "completed")
        BY <1>1, <1>4 DEF Reviewing!Resumable, Cursor
    <2>2. RevPlan'
        BY <1>1, <1>4, <2>1, Stopped
    <2>3. run' \in Runs /\ run' \notin Reads /\ run # "idle"
        BY <1>1, <1>4 DEF Runs, Reads
    <2> QED
        BY <1>1, <1>4, <2>1, <2>2, <2>3, ExecutesQuietly
<1>5. CASE ledger' = l /\ run' = "start" /\ UNCHANGED <<lease, worker, plan>>
    <2>1. RevPlan'
        BY <1>1, <1>5, Stopped
    <2>2. run' \in Runs /\ Proper(ledger, ledger')
        BY <1>2, <1>5 DEF Runs, Reads
    <2>3. \A w \in Worker : worker[w].pc = "idle"
        BY <1>1, PlanAlone
    <2> QED
        BY <1>1, <1>5, <2>1, <2>2, <2>3, Executes
<1>6. CASE Reviewing!RunDies([m \in Message |-> Reviewing!PlanClaim], ledger) /\ UNCHANGED plan
    <2>1. Proper(ledger, ledger) /\ run # "idle"
        BY <1>1, ProperSelf DEF RevInv, RevTyped
    <2> QED
        BY <1>1, <1>6, <2>1, RunDiesStep
<1> QED
    BY <1>3, <1>4, <1>5, <1>6

\* Steps that only move the cursor of the plan, before its coverage is published.
LEMMA ReadSteps ==
    ASSUME RevInv, Reviewing!Start \/ Reviewing!Chunk \/ (\E f \in BOOLEAN : Reviewing!Checkpoint(f))
    PROVE  RevInv'
<1>1. /\ run \in {"start", "chunk", "checkpoint"} /\ plan \in Cursor /\ RevPlan /\ RevLive
      /\ UNCHANGED <<ledger, live, covered, worker, lease, audits, seen>>
    BY DEF RevInv, RevTyped, Reviewing!Start, Reviewing!Chunk, Reviewing!Checkpoint, Reviewing!Live
<1>2. \/ run' \in {"release", "interrupt"} /\ plan' = plan
      \/ run' = "chunk" /\ plan' = [plan EXCEPT !.state = "running"]
      \/ /\ run = "chunk" /\ Left(plan) # {} /\ run' = "reading"
         /\ plan' = [plan EXCEPT !.issued = TRUE]
      \/ \E m \in Message :
            /\ m \in seen /\ run' = "chunk"
            /\ \/ plan' = [plan EXCEPT !.done = @ \cup {m}]
               \/ plan' = [plan EXCEPT !.done = @ \cup {m}, !.issued = FALSE, !.found = @ \cup {m}]
               \/ plan' = [plan EXCEPT !.done = @ \cup {m}, !.issued = FALSE, !.found = @]
    <2>0. PICK c : c = CHOOSE x \in Left(plan) : TRUE
        OBVIOUS
    <2>1. CASE Reviewing!Start
        BY <2>1 DEF Reviewing!Start
    <2>2. CASE Reviewing!Chunk
        <3>1. Left(plan) # {} /\ c \in Message /\ run = "chunk" /\ c = (CHOOSE x \in Reviewing!Left : TRUE)
            BY <2>0, <2>2 DEF Reviewing!Chunk, Reviewing!Left, Left
        <3>2. Reviewing!LiveCovers(c) => c \in seen
            BY <1>1, <3>1 DEF Reviewing!LiveCovers, Reviewing!Reviewed, RevLive
        <3> QED
            BY <2>2, <3>1, <3>2 DEF Reviewing!Chunk
    <2>3. CASE \E f \in BOOLEAN : Reviewing!Checkpoint(f)
        <3>1. run = "checkpoint" /\ c = (CHOOSE x \in Reviewing!Left : TRUE)
            BY <2>0, <2>3 DEF Reviewing!Checkpoint, Reviewing!Left, Left
        <3>2. c \in seen /\ c \in Message
            BY <1>1, <2>0, <3>1 DEF RevPlan, Left
        <3> QED
            BY <2>3, <3>1, <3>2 DEF Reviewing!Checkpoint, Reviewing!Interrupted
    <2> QED
        BY <2>1, <2>2, <2>3
<1>3. /\ plan' \in Cursor /\ run' \in Runs
      /\ run' = "chunk" => plan'.done \subseteq seen /\ (plan'.state = "completed" => plan.state = "completed")
    <2>1. run' \in Runs
        BY <1>2 DEF Runs, Reads
    <2>2. ASSUME NEW m \in Message, m \in seen,
                 \/ plan' = [plan EXCEPT !.done = @ \cup {m}]
                 \/ plan' = [plan EXCEPT !.done = @ \cup {m}, !.issued = FALSE, !.found = @ \cup {m}]
                 \/ plan' = [plan EXCEPT !.done = @ \cup {m}, !.issued = FALSE, !.found = @]
          PROVE  plan' \in Cursor /\ plan'.done = plan.done \cup {m} /\ plan'.state = plan.state
        <3>1. plan.done \cup {m} \in SUBSET Message /\ plan.found \cup {m} \in SUBSET Message
            BY <1>1 DEF Cursor
        <3>2. CASE plan' = [plan EXCEPT !.done = @ \cup {m}]
            BY <1>1, <3>1, <3>2 DEF Cursor
        <3>3. CASE plan' = [plan EXCEPT !.done = @ \cup {m}, !.issued = FALSE, !.found = @ \cup {m}]
            BY <1>1, <3>1, <3>3 DEF Cursor
        <3>4. CASE plan' = [plan EXCEPT !.done = @ \cup {m}, !.issued = FALSE, !.found = @]
            BY <1>1, <3>1, <3>4 DEF Cursor
        <3> QED
            BY <2>2, <3>2, <3>3, <3>4
    <2>3. ASSUME plan' = plan \/ plan' = [plan EXCEPT !.state = "running"]
                 \/ plan' = [plan EXCEPT !.issued = TRUE]
          PROVE  plan' \in Cursor /\ plan'.done = plan.done /\ plan'.state \in {plan.state, "running"}
        BY <1>1, <2>3 DEF Cursor
    <2>4. plan.done \subseteq seen
        BY <1>1 DEF RevPlan
    <2>5. \/ plan' = plan \/ plan' = [plan EXCEPT !.state = "running"]
          \/ plan' = [plan EXCEPT !.issued = TRUE] /\ run' = "reading"
          \/ \E m \in Message :
                /\ m \in seen
                /\ \/ plan' = [plan EXCEPT !.done = @ \cup {m}]
                   \/ plan' = [plan EXCEPT !.done = @ \cup {m}, !.issued = FALSE, !.found = @ \cup {m}]
                   \/ plan' = [plan EXCEPT !.done = @ \cup {m}, !.issued = FALSE, !.found = @]
        BY <1>2
    <2>6. CASE plan' = plan \/ plan' = [plan EXCEPT !.state = "running"]
               \/ plan' = [plan EXCEPT !.issued = TRUE]
        BY <2>1, <2>3, <2>4, <2>6
    <2>7. CASE \E m \in Message :
                /\ m \in seen
                /\ \/ plan' = [plan EXCEPT !.done = @ \cup {m}]
                   \/ plan' = [plan EXCEPT !.done = @ \cup {m}, !.issued = FALSE, !.found = @ \cup {m}]
                   \/ plan' = [plan EXCEPT !.done = @ \cup {m}, !.issued = FALSE, !.found = @]
        <3>1. PICK m \in Message :
                /\ m \in seen
                /\ \/ plan' = [plan EXCEPT !.done = @ \cup {m}]
                   \/ plan' = [plan EXCEPT !.done = @ \cup {m}, !.issued = FALSE, !.found = @ \cup {m}]
                   \/ plan' = [plan EXCEPT !.done = @ \cup {m}, !.issued = FALSE, !.found = @]
            BY <2>7
        <3>2. plan' \in Cursor /\ plan'.done = plan.done \cup {m} /\ plan'.state = plan.state
            BY <2>2, <3>1
        <3> QED
            BY <2>1, <2>4, <3>1, <3>2
    <2> QED
        BY <2>5, <2>6, <2>7
<1>4. RevPlan'
    <2>1. CASE run' \in {"release", "interrupt"} /\ plan' = plan
        BY <1>1, <2>1, Stopped
    <2>2. CASE run' = "chunk"
        <3>1. plan'.done \subseteq seen /\ (plan'.state = "completed" => plan.state = "completed")
            BY <1>3, <2>2
        <3> QED
            BY <1>1, <2>2, <3>1 DEF RevPlan, Left, Published
    <2>3. CASE /\ run = "chunk" /\ Left(plan) # {} /\ run' = "reading"
               /\ plan' = [plan EXCEPT !.issued = TRUE]
        <3>1. plan'.done = plan.done /\ plan'.state = plan.state
            BY <1>1, <2>3 DEF Cursor
        <3> QED
            BY <1>1, <2>3, <3>1 DEF RevPlan, Left, Published
    <2> QED
        BY <1>2, <2>1, <2>2, <2>3
<1> QED
    BY <1>1, <1>3, <1>4, ExecutesQuietly DEF Reads

LEMMA ReadStep ==
    ASSUME RevInv, Reviewing!Read
    PROVE  RevInv'
<1>0. PICK c : c = CHOOSE x \in Left(plan) : TRUE
    OBVIOUS
<1>1. /\ run = "reading" /\ plan \in Cursor /\ RevPlan /\ lease \in Leases /\ lease.by = "plan"
      /\ UNCHANGED <<ledger, live, covered, plan, worker, lease, audits>>
      /\ seen' = seen \cup {c} /\ run' \in {"release", "checkpoint"}
      /\ covered \subseteq Message /\ seen \subseteq Message
    BY <1>0 DEF RevInv, RevTyped, RevHeld, Reviewing!Read, Reviewing!Live, Reviewing!Left, Left
<1>2. c \in Message /\ Left(plan) # {}
    BY <1>0, <1>1 DEF RevPlan, Left
<1>3. RevPlan'
    <2>1. Left(plan') = Left(plan) /\ (CHOOSE x \in Left(plan') : TRUE) = c
        BY <1>0, <1>1
    <2>2. plan.done \subseteq seen' /\ (plan.state = "completed" => covered = Message) /\ c \in seen'
        BY <1>1 DEF RevPlan
    <2> QED
        BY <1>1, <1>2, <2>1, <2>2 DEF RevPlan, Published
<1>4. run' \in Runs /\ run \in Reads /\ Proper(ledger, ledger') /\ seen' \subseteq Message
    BY <1>1, <1>2, ProperSelf DEF RevInv, RevTyped, Runs, Reads
<1>5. \A w \in Worker : worker[w].pc = "idle"
    BY <1>1, PlanAlone
<1> QED
    BY <1>1, <1>3, <1>4, <1>5, Executes

LEMMA ReduceReviewStep ==
    ASSUME RevInv, Reviewing!Reduce
    PROVE  RevInv'
<1>1. /\ run = "chunk" /\ plan \in Cursor /\ RevPlan /\ run' = "cover" /\ Left(plan) = {}
      /\ UNCHANGED <<ledger, live, covered, worker, lease, audits, seen>>
    BY DEF RevInv, RevTyped, Reviewing!Reduce, Reviewing!Live, Reviewing!Left, Left
<1>2. PICK r \in Message \cup {"none", "no-change"} : plan' = [plan EXCEPT !.reduction = r]
    <2>1. plan.reduction \in Message \cup {"none", "no-change"} /\ plan.found \subseteq Message
        BY <1>1 DEF Cursor
    <2> QED
        BY <2>1 DEF Reviewing!Reduce
<1>3. plan' \in Cursor /\ plan'.done = plan.done /\ plan'.state = plan.state
    BY <1>1, <1>2 DEF Cursor
<1>4. RevPlan'
    BY <1>1, <1>3 DEF RevPlan, Left, Published
<1> QED
    BY <1>1, <1>3, <1>4, ExecutesQuietly DEF Runs, Reads

LEMMA CoverStep ==
    ASSUME RevInv, Reviewing!Cover
    PROVE  RevInv'
<1>1. /\ run \in {"cover", "again"} /\ RevPlan /\ plan \in Cursor /\ lease \in Leases /\ lease.by = "plan"
      /\ UNCHANGED <<ledger, live, plan, worker, lease, audits, seen>> /\ covered' = Message
      /\ run' \in {"reconcile", "reconcile again"}
      /\ covered \subseteq Message /\ seen \subseteq Message
    BY DEF RevInv, RevTyped, RevHeld, Reviewing!Cover, Reviewing!Live
<1>2. run = "cover" => Message \subseteq seen
    BY <1>1 DEF RevPlan, Left
<1>3. run = "again" => covered = Message
    BY <1>1 DEF RevPlan, Published
<1>4. covered' \ covered \subseteq seen /\ (covered' # covered => run \in Reads)
    BY <1>1, <1>2, <1>3 DEF Reads
<1>5. RevPlan'
    BY <1>1 DEF RevPlan, Published, Left
<1>6. run' \in Runs /\ run' \notin Reads /\ Proper(ledger, ledger')
    BY <1>1, ProperSelf DEF RevInv, RevTyped, Runs, Reads, Published
<1>7. \A w \in Worker : worker[w].pc = "idle"
    BY <1>1, PlanAlone
<1> QED
    BY <1>1, <1>4, <1>5, <1>6, <1>7, Executes

LEMMA ReconcileStep ==
    ASSUME RevInv, Reviewing!Reconcile
    PROVE  RevInv'
<1> DEFINE S == {m \in Message : ledger[m].status \in Reviewing!Open \cup {"failed"}}
           l == [m \in Message |-> IF m \in S THEN Reviewing!Settled(ledger, m, "no-change", "covered")[m]
                                   ELSE ledger[m]]
<1>1. /\ run \in {"reconcile", "reconcile again"} /\ RevPlan /\ plan \in Cursor
      /\ lease \in Leases /\ lease.by = "plan" /\ ledger \in Ledgers /\ RevLive
      /\ UNCHANGED <<live, covered, plan, worker, lease, audits, seen>>
      /\ run' \in {"release", "final", "publish", "checker"}
      /\ covered \subseteq Message /\ seen \subseteq Message /\ live \subseteq Message
    BY DEF RevInv, RevTyped, RevHeld, Reviewing!Reconcile, Reviewing!Live
<1>2. ledger' = l
    BY DEF Reviewing!Reconcile
<1>3. covered = Message
    BY <1>1 DEF RevPlan, Published
<1>4. \A m \in Message : m \in S => MaySettle(ledger, m, "no-change")
    BY <1>1, <1>3 DEF MaySettle, RevLive, Busy, Reviewing!Open
<1> HIDE DEF S
<1>5. Proper(ledger, l)
    <2>1. "no-change" \in Statuses /\ "covered" \in Whys
        BY Words
    <2> QED
        BY <1>1, <1>4, <2>1, SettledTogether
<1>6. RevPlan'
    BY <1>1, <1>3 DEF RevPlan, Published, Left
<1>7. run' \in Runs /\ run' \notin Reads /\ Proper(ledger, ledger')
    BY <1>1, <1>2, <1>5 DEF Runs, Reads, Published
<1>8. \A w \in Worker : worker[w].pc = "idle"
    BY <1>1, PlanAlone
<1> HIDE DEF l
<1> QED
    BY <1>1, <1>6, <1>7, <1>8, Executes

\* After the coverage: the checker, the candidate, the end of the plan and its claims.
LEMMA PublishedSteps ==
    ASSUME RevInv,
           \/ Reviewing!Check \/ Reviewing!Publishable \/ Reviewing!Create \/ Reviewing!Final
           \/ Reviewing!CompleteClaims
    PROVE  RevInv'
<1>1. /\ run \in {"checker", "publish", "create", "final", "claims"} /\ plan \in Cursor /\ RevPlan
      /\ UNCHANGED <<ledger, live, covered, worker, lease, audits, seen>>
      /\ run' \in {"release", "interrupt", "publish", "create", "final", "claims", "again"}
      /\ plan' \in {plan, [plan EXCEPT !.checked = TRUE], [plan EXCEPT !.final = TRUE, !.state = "completed"]}
    BY DEF RevInv, RevTyped, Reviewing!Check, Reviewing!Publishable, Reviewing!Create, Reviewing!Final,
           Reviewing!CompleteClaims, Reviewing!Live, Reviewing!Interrupted, Reviewing!files
<1>2. plan' \in Cursor /\ plan'.done = plan.done
    BY <1>1 DEF Cursor
<1>3. RevPlan'
    BY <1>1, <1>2 DEF RevPlan, Published, Left
<1> QED
    BY <1>1, <1>2, <1>3, ExecutesQuietly DEF Runs, Reads, Published

LEMMA StopSteps ==
    ASSUME RevInv, Reviewing!RunFails \/ Reviewing!Interrupt \/ Reviewing!RunRelease \/ Reviewing!RunDie
    PROVE  RevInv'
<1>1. /\ plan \in Cursor /\ ledger \in Ledgers /\ lease \in Leases /\ run # "idle"
      /\ UNCHANGED <<live, covered, audits, seen>>
      /\ covered \subseteq Message /\ seen \subseteq Message
    BY DEF RevInv, RevTyped, Reviewing!RunFails, Reviewing!Interrupt, Reviewing!RunRelease,
           Reviewing!RunDie, Reviewing!files, Reviewing!Live, Reviewing!history
<1>2. CASE Reviewing!RunFails \/ Reviewing!Interrupt
    <2>1. /\ UNCHANGED <<ledger, worker, lease>> /\ run' \in {"interrupt", "release"}
          /\ plan' \in {plan, Reviewing!Resumable(plan)}
        BY <1>2 DEF Reviewing!RunFails, Reviewing!Interrupt, Reviewing!Interrupted, Reviewing!files,
                    Reviewing!Live
    <2>2. plan' \in Cursor /\ plan'.done = plan.done /\ (plan'.state = "completed" => plan.state = "completed")
        BY <1>1, <2>1 DEF Reviewing!Resumable, Cursor
    <2>3. RevPlan'
        BY <1>1, <2>1, <2>2, Stopped
    <2> QED
        BY <1>1, <2>1, <2>2, <2>3, ExecutesQuietly DEF Runs, Reads
<1>3. CASE Reviewing!RunRelease
    <2>1. /\ UNCHANGED <<ledger, worker, plan>> /\ run' = "idle" /\ lease' = Reviewing!Freed("plan")
        BY <1>3 DEF Reviewing!RunRelease
    <2>2. lease' \in Leases
        BY <1>1, <2>1 DEF Reviewing!Freed, Reviewing!Free, Reviewing!None, Leases
    <2>3. RevPlan'
        BY <1>1, <2>1, Stopped
    <2>4. Proper(ledger, ledger') /\ run' \in Runs /\ run' \notin Reads
        BY <1>1, <2>1, ProperSelf DEF Runs, Reads
    <2> QED
        BY <1>1, <2>1, <2>2, <2>3, <2>4, PlanAlone, Executes
<1>4. CASE Reviewing!RunDie
    BY <1>1, <1>4, ProperSelf, RunDiesStep DEF Reviewing!RunDie
<1> QED
    BY <1>2, <1>3, <1>4

LEMMA CancelPlanStep ==
    ASSUME RevInv, Reviewing!Cancel
    PROVE  RevInv'
<1>1. /\ plan \in Cursor /\ plan' = [plan EXCEPT !.state = "cancelled"]
      /\ UNCHANGED <<ledger, live, covered, lease, worker, run, audits, seen>>
    <2>1. plan' = [plan EXCEPT !.state = "cancelled"]
        BY DEF Reviewing!Cancel
    <2>2. UNCHANGED <<ledger, live, covered, lease, worker, run, audits, seen>>
        BY DEF Reviewing!Cancel, Reviewing!history
    <2> QED
        BY <2>1, <2>2 DEF RevInv, RevTyped
<1>2. plan' \in Cursor /\ plan'.done = plan.done /\ plan'.state = "cancelled"
    BY <1>1 DEF Cursor
<1>3. RevTyped' /\ RevHeld'
    BY <1>1, <1>2 DEF RevInv, RevTyped, RevHeld
<1>4. RevAudited' /\ RevLive'
    BY <1>1 DEF RevInv, RevAudited, RevLive
<1>5. RevPlan'
    BY <1>1, <1>2 DEF RevInv, RevPlan, Left
<1> QED
    BY <1>3, <1>4, <1>5 DEF RevInv

LEMMA ReviewInit ==
    ASSUME Reviewing!Init
    PROVE  RevInv
<1>1. /\ ledger = [m \in Message |-> Reviewing!NoRecord] /\ live = {} /\ covered = {} /\ seen = {}
      /\ plan = Reviewing!NewPlan /\ lease = Reviewing!Free
      /\ worker = [w \in Worker |-> Reviewing!Off] /\ run = "idle" /\ audits = [m \in Message |-> 0]
    BY DEF Reviewing!Init
<1>2. Reviewing!NoRecord \in Turn /\ Reviewing!NoRecord.status = "none" /\ Reviewing!NoRecord.attempts = 0
    BY DEF Reviewing!NoRecord, Reviewing!None, Turn, Statuses, Whys
<1>3. Reviewing!Off \in Process /\ Reviewing!Off.pc = "idle" /\ Reviewing!Free \in Leases
    BY DEF Reviewing!Off, Reviewing!None, Reviewing!Free, Leases, Process, Steps
<1>4. Reviewing!NewPlan \in Cursor /\ Reviewing!NewPlan.done = {} /\ Reviewing!NewPlan.state = "previewed"
    BY DEF Reviewing!NewPlan, Reviewing!None, Cursor
<1>5. RevTyped
    BY <1>1, <1>2, <1>3, <1>4 DEF RevTyped, Ledgers, Runs
<1>6. RevHeld /\ RevPlan
    BY <1>1, <1>3, <1>4 DEF RevHeld, RevPlan, Left, Published
<1>7. RevAudited
    BY <1>1, <1>2, <1>3, EvolutionAssumption DEF RevAudited, Auditing
<1>8. RevLive
    BY <1>1, <1>2 DEF RevLive
<1> QED
    BY <1>5, <1>6, <1>7, <1>8 DEF RevInv

LEMMA ReviewStep ==
    ASSUME RevInv, Reviewing!Next
    PROVE  RevInv'
<1>1. CASE \E w \in Worker : Reviewing!Audit(w)
    BY <1>1, TakeStep, StartupStep, AcquireStep, PausedSteps, ProceedStep, SkipStep, PublishStep,
       FailStep, ReleaseStep DEF Reviewing!Audit
<1>2. CASE \E w \in Worker : \/ Reviewing!Die(w) \/ Reviewing!Delete(w)
                             \/ \E m \in Message : Reviewing!Enqueue(w, m) \/ Reviewing!Force(w, m)
    BY <1>2, DieStep, DeleteStep, EnqueueStep, ForceStep
<1>3. CASE Reviewing!Execute
    BY <1>3, ReserveStep, ReadSteps, ReadStep, ReduceReviewStep, CoverStep, ReconcileStep, PublishedSteps,
       StopSteps DEF Reviewing!Execute
<1>4. CASE Reviewing!RunStart \/ Reviewing!RunDie \/ Reviewing!Cancel
    BY <1>4, RunStartStep, StopSteps, CancelPlanStep
<1>5. CASE (\E m \in Message : Reviewing!Lapse(m)) \/ Reviewing!LeaseLapse
    BY <1>5, LapseSteps
<1> QED
    BY <1>1, <1>2, <1>3, <1>4, <1>5 DEF Reviewing!Next

\* What the ledger and the coverage say, from the invariant.
LEMMA ReviewSays ==
    ASSUME RevInv
    PROVE  Reviewing!AuditsBounded /\ Reviewing!SettledWasReviewed /\ Reviewing!CandidateRecorded
<1>1. Reviewing!AuditsBounded
    <2>1. \A m \in Message : audits[m] \in Nat /\ ledger[m].attempts \in Nat
        BY DEF RevInv, RevTyped, Ledgers, Turn
    <2> QED
        BY <2>1, EvolutionAssumption DEF RevInv, RevAudited, Reviewing!AuditsBounded
<1>2. Reviewing!SettledWasReviewed
    BY DEF RevInv, RevLive, Reviewing!SettledWasReviewed, Reviewing!Concluded
<1>3. Reviewing!CandidateRecorded
    BY DEF RevInv, RevLive, Reviewing!CandidateRecorded
<1> QED
    BY <1>1, <1>2, <1>3

\* Nothing starts on, or publishes for, a covered turn, and it stays covered.
LEMMA ReviewFences ==
    ASSUME RevInv, Reviewing!Next
    PROVE  Reviewing!FenceStep
<1>1. RevTyped /\ RevHeld
    BY DEF RevInv
<1>2. ASSUME NEW w \in Worker, Reviewing!Publish(w)
      PROVE  Reviewing!FenceStep
    BY <1>2 DEF Reviewing!Publish, Reviewing!Owned, Reviewing!IsCovered, Reviewing!history,
                Reviewing!FenceStep
<1>3. ASSUME NEW w \in Worker, Reviewing!Proceed(w)
      PROVE  Reviewing!FenceStep
    <2>1. worker[w].m \in Message
        BY <1>1, <1>3 DEF RevHeld, Reviewing!Proceed, Reviewing!Stages
    <2>2. /\ worker[w].m \notin covered /\ UNCHANGED <<live, covered>>
          /\ audits' \in {audits, [audits EXCEPT ![worker[w].m] = @ + 1]}
        BY <1>3 DEF Reviewing!Proceed, Reviewing!Owned, Reviewing!IsCovered, Reviewing!Keeps
    <2> QED
        BY <1>1, <2>1, <2>2 DEF RevTyped, Reviewing!FenceStep
<1>4. CASE UNCHANGED <<live, covered, audits>>
    BY <1>4 DEF Reviewing!FenceStep
<1>5. CASE Reviewing!Cover
    BY <1>1, <1>5 DEF RevTyped, Reviewing!Cover, Reviewing!Live, Reviewing!FenceStep
<1>6. ASSUME NEW w \in Worker,
             \/ \E m \in Message : Reviewing!Take(w, m)
             \/ Reviewing!Startup(w) \/ Reviewing!Acquire(w) \/ Reviewing!GiveUp(w)
             \/ Reviewing!Disowned(w) \/ Reviewing!Error(w) \/ Reviewing!Skip(w) \/ Reviewing!Suppressed(w)
             \/ Reviewing!FailAudit(w) \/ Reviewing!Release(w)
      PROVE  UNCHANGED <<live, covered, audits>>
    BY <1>6 DEF Reviewing!Take, Reviewing!Startup, Reviewing!Acquire, Reviewing!GiveUp,
        Reviewing!Disowned, Reviewing!Error, Reviewing!Skip, Reviewing!Suppressed, Reviewing!FailAudit,
        Reviewing!Release, Reviewing!files, Reviewing!history, Reviewing!Keeps
<1>7. ASSUME NEW w \in Worker,
             \/ Reviewing!Die(w) \/ Reviewing!Delete(w)
             \/ \E m \in Message : Reviewing!Enqueue(w, m) \/ Reviewing!Force(w, m)
      PROVE  UNCHANGED <<live, covered, audits>>
    BY <1>7 DEF Reviewing!Die, Reviewing!Delete, Reviewing!Enqueue, Reviewing!Force, Reviewing!Keeps,
        Reviewing!history
<1>8. ASSUME \/ Reviewing!Reserve \/ Reviewing!Start \/ Reviewing!Chunk \/ Reviewing!Read
             \/ (\E finds \in BOOLEAN : Reviewing!Checkpoint(finds)) \/ Reviewing!Reduce
             \/ Reviewing!Reconcile \/ Reviewing!Check \/ Reviewing!Publishable \/ Reviewing!Create
             \/ Reviewing!Final \/ Reviewing!CompleteClaims \/ Reviewing!RunFails \/ Reviewing!Interrupt
             \/ Reviewing!RunRelease
      PROVE  UNCHANGED <<live, covered, audits>>
    BY <1>8 DEF Reviewing!Reserve, Reviewing!Start, Reviewing!Chunk, Reviewing!Read, Reviewing!Checkpoint,
        Reviewing!Reduce, Reviewing!Reconcile, Reviewing!Check, Reviewing!Publishable, Reviewing!Create,
        Reviewing!Final, Reviewing!CompleteClaims, Reviewing!RunFails, Reviewing!Interrupt,
        Reviewing!RunRelease, Reviewing!files, Reviewing!history, Reviewing!Live
<1>9. ASSUME \/ Reviewing!RunStart \/ Reviewing!RunDie \/ Reviewing!Cancel
             \/ (\E m \in Message : Reviewing!Lapse(m)) \/ Reviewing!LeaseLapse
      PROVE  UNCHANGED <<live, covered, audits>>
    BY <1>9 DEF Reviewing!RunStart, Reviewing!RunDie, Reviewing!Cancel, Reviewing!Lapse,
        Reviewing!LeaseLapse, Reviewing!files, Reviewing!history
<1> QED
    BY <1>2, <1>3, <1>4, <1>5, <1>6, <1>7, <1>8, <1>9, Zenon
    DEF Reviewing!Next, Reviewing!Audit, Reviewing!Execute

-----------------------------------------------------------------------------
(* The theorems.                                                           *)

\* After a cancellation a plan completes nothing and creates no candidate.
LEMMA PlanFences ==
    ASSUME HistInv, Historical!Next
    PROVE  Historical!CancelStep
<1>1. plan \in Plan
    BY DEF HistInv, LogInv
<1>2. SUFFICES ASSUME plan.state = "cancelled"
               PROVE  /\ plan'.state = "cancelled" /\ plan'.final = plan.final
                      /\ candidate' \in {candidate, "reviewed"}
    BY DEF Historical!CancelStep
<1>3. CASE Historical!LiveChunk
    <2>1. PICK x, y : plan' = [plan EXCEPT !.next = x, !.log = y]
        BY <1>3 DEF Historical!LiveChunk
    <2>2. candidate' = candidate
        BY <1>3 DEF Historical!LiveChunk
    <2> QED
        BY <1>1, <1>2, <2>1, <2>2 DEF Plan
<1>4. CASE Historical!Issue
    <2>1. PICK x, y : plan' = [plan EXCEPT !.calls = x, !.log = y]
        BY <1>4 DEF Historical!Issue
    <2>2. candidate' = candidate
        BY <1>4 DEF Historical!Issue
    <2> QED
        BY <1>1, <1>2, <2>1, <2>2 DEF Plan
<1>5. CASE \/ Historical!Run \/ Historical!Die \/ Historical!Recover \/ Historical!Cancel
           \/ Historical!Review \/ Historical!Blocked \/ Historical!Begin \/ Historical!Chunk
           \/ Historical!Attempt \/ Historical!Send \/ Historical!Answer \/ Historical!NoAnswer
           \/ Historical!Unsent \/ Historical!Judge \/ Historical!Report \/ Historical!Fails
           \/ Historical!Interrupt
    BY <1>2, <1>5
    DEF Historical!Run, Historical!Die, Historical!Recover, Historical!Cancel, Historical!Review,
        Historical!Blocked, Historical!Begin, Historical!Chunk, Historical!Attempt, Historical!Send,
        Historical!Answer, Historical!NoAnswer, Historical!Unsent, Historical!Judge, Historical!Report,
        Historical!Fails, Historical!Interrupt, Historical!Cancelled
<1>6. CASE \/ Historical!Accept \/ Historical!Reject \/ Historical!Reduce \/ Historical!Publish
           \/ Historical!Finish
    <2>1. plan' = plan /\ candidate' = candidate
        BY <1>2, <1>6 DEF Historical!Accept, Historical!Reject, Historical!Reduce, Historical!Publish,
            Historical!Finish, Historical!Cancelled
    <2> QED
        BY <1>2, <2>1
<1> QED
    BY <1>3, <1>4, <1>5, <1>6 DEF Historical!Next, Historical!Execute

-----------------------------------------------------------------------------
(* The promotion of candidates: the inductive invariant.                   *)

\* The names that keep a text: a prepared file is tidied whatever it holds.
Lasting == {Promotion!Target} \cup Promotion!Tx \X {"swap", "backup"}
\* Every text of the user's is kept by a name outside S.
KeptOutside(S) == \A t \in owed : \E n \in Lasting \ S : file[n].text = t
Fits(x) == x.text = Absent <=> x.ino = 0

PublishTexts == Promotion!Text \cup {Absent} \cup {Basis[c] : c \in Candidate}
FileValues == [ino : 0 .. (3 * MaxCalls + 2), text : PublishTexts]
PromJournals ==
    [id : Promotion!Tx, whole : BOOLEAN, op : {"promote", "rollback"}, cand : Candidate, rev : Nat,
     before : PublishTexts, ino : 0 .. (3 * MaxCalls + 2), after : PublishTexts, backup : 0 .. MaxCalls]
CallNames ==
    {"open journal", "write journal", "check", "open backup", "write backup", "open prepared",
     "write prepared", "claim", "unlink", "publish", "prepared", "swap", "commit", "forget"}
PromWorkers ==
    [op : {"none", "promote", "rollback", "review", "recover"}, cand : Candidate \cup {"none"},
     stage : {"idle", "recover", "recovering", "begin", "running"}, todo : Seq(CallNames \cup {"relink", "backup"}),
     left : SUBSET Promotion!Tx, bad : BOOLEAN, j : PromJournals \cup {Promotion!NoJournal}, rev : Nat]
PromRecords ==
    [state : {"validated", "rejected", "promoted", "rolled_back"}, rev : Nat, backup : 0 .. MaxCalls]

\* Links of an inode have one text; an independent backup has no other link.
Exclusive(n) == \A m \in Promotion!Name \ {n} : file[m].ino # file[n].ino
PromFiles ==
    /\ file \in [Promotion!Name -> FileValues]
    /\ \A m, n \in Promotion!Name : file[m].ino = file[n].ino => file[m] = file[n]
    /\ \A n \in Promotion!Name : Fits(file[n])
    /\ \A k \in Promotion!Tx : file[<<k, "backup">>].ino # 0 => Exclusive(<<k, "backup">>)

PromTyped ==
    /\ PromFiles
    /\ journals \subseteq PromJournals
    /\ record \in [Candidate -> PromRecords]
    /\ worker \in [Worker -> PromWorkers]
    /\ spent \in [calls : Nat, tx : 0 .. MaxCalls, faults : Nat, edits : Nat]
    /\ holder \in Worker \cup {"none"}
    /\ trouble \subseteq {"edit", "torn", "overlap"}
    /\ owed \subseteq (UserText \cup Original) \ {Absent}

PromFresh ==
    \A k \in Promotion!Tx, s \in {"swap", "prepared", "backup"} : k > spent.tx => file[<<k, s>>].ino = 0

Transacts(w) == worker[w].stage = "running"
Recovers(w) == worker[w].stage = "recovering"
PromLocked ==
    \A w \in Worker :
        /\ Transacts(w) \/ Recovers(w) => holder = w
        /\ worker[w].todo # <<>> => Transacts(w) \/ Recovers(w)
        /\ worker[w].stage = "begin" => worker[w].op \in {"promote", "rollback", "review"}
        /\ worker[w].op \in {"promote", "rollback", "review"} => worker[w].cand \in Candidate
        /\ worker[w].stage # "idle" => worker[w].op # "none"

\* The journals that are on disk or about to be, and what they may say.
Known == journals \cup {worker[w].j : w \in {v \in Worker : Transacts(v)}}
JournalFits(x) ==
    /\ x \in PromJournals /\ x.id <= spent.tx /\ x.backup <= spent.tx
    /\ x.op = "promote" => /\ x.before = Basis[x.cand] /\ x.after = Proposal[x.cand]
                           /\ x.backup = IF x.before = Absent THEN 0 ELSE x.id
    /\ x.op = "rollback" => /\ x.before = Proposal[x.cand] /\ x.after = Basis[x.cand]
                            /\ x.after # Absent /\ x.backup # 0
    /\ x.before = Absent <=> x.ino = 0
    /\ x.rev <= record[x.cand].rev
    /\ x.op = "promote" /\ x.backup # 0 => file[Promotion!Backup(x)].text \in {Absent, Torn, x.before}
\* A revision, or a rollback under way, relies on the backup k.
Uses(c, k) ==
    \/ record[c].backup = k
    \/ \E x \in Known : x.op = "rollback" /\ x.cand = c /\ x.backup = k
PromJournaled ==
    /\ \A x \in Known : JournalFits(x)
    /\ \A x, y \in Known : x.id = y.id => x.op = y.op /\ x.cand = y.cand /\ x.rev = y.rev
    /\ \A y \in Known, c \in Candidate :
          y.op = "promote" /\ y.backup # 0 /\ Uses(c, y.id) => c = y.cand /\ y.rev < record[c].rev

Backed(c) == record[c].backup # 0 /\ file[<<record[c].backup, "backup">>].text = Basis[c]
PromRecorded ==
    \A c \in Candidate :
        /\ record[c].backup <= spent.tx
        /\ record[c].backup # 0 => Basis[c] # Absent
        /\ record[c].state = "promoted" /\ Basis[c] # Absent => Backed(c)

\* The calls of a transaction, the place of each, and which it skips.
PublishCalls ==
    <<"open journal", "write journal", "check", "open backup", "write backup", "check",
      "open prepared", "write prepared", "claim", "check", "unlink",
      "publish", "prepared", "swap", "commit", "forget">>
PlacesOf(j) ==
    IF j.op = "rollback" THEN <<1, 2, 6, 7, 8, 9, 10, 11, 12, 13, 14, 15, 16, 17>>
    ELSE IF j.before = Absent THEN <<1, 2, 7, 8, 12, 13, 14, 15, 16, 17>>
    ELSE <<1, 2, 3, 4, 5, 6, 7, 8, 9, 10, 11, 12, 13, 14, 15, 16, 17>>
Placed(todo, j, p) ==
    LET n == Len(Promotion!Script(j)) IN
    \E i \in 1 .. n + 1 : p = PlacesOf(j)[i] /\ todo = SubSeq(Promotion!Script(j), i, n)
RunAt(j, p) ==
    /\ j.op = "promote" /\ j.before # Absent =>
          /\ p <= 4 => file[Promotion!Backup(j)].ino = 0
          /\ p = 5 => file[Promotion!Backup(j)].ino # 0
          /\ p >= 6 => file[Promotion!Backup(j)].text = j.before
    /\ p <= 7 => file[Promotion!Prepared(j)].ino = 0
    /\ p = 8 => file[Promotion!Prepared(j)].ino # 0 /\ Exclusive(Promotion!Prepared(j))
    /\ p <= 9 => file[Promotion!Swap(j)].ino = 0
    /\ p \in {10, 11} => file[Promotion!Swap(j)].ino = j.ino
    /\ p = 11 =>
          /\ KeptOutside({Promotion!Target})
          /\ \/ file[Promotion!Swap(j)].ino = file[Promotion!Target].ino
             \/ file[Promotion!Target].ino = 0
             \/ Exclusive(Promotion!Target)
Transacting(w) ==
    LET j == worker[w].j IN
    /\ j \in PromJournals /\ j.whole
    /\ \E p \in 1 .. 17 : Placed(worker[w].todo, j, p) /\ RunAt(j, p)

\* What recovery of j may still remove.
Doomed(j) ==
    {Promotion!Swap(j)} \cup (IF j.op = "promote" /\ j.backup # 0 THEN {Promotion!Backup(j)} ELSE {})
Clearing == {<<"swap", "prepared", "backup", "forget">>, <<"prepared", "backup", "forget">>, <<"backup", "forget">>}
Relinking == <<"relink", "swap", "prepared", "backup", "forget">>
Applying == <<"commit", "swap", "prepared", "forget">>
Sweeping == {<<"swap", "prepared", "forget">>, <<"prepared", "forget">>}
FixAt(j, todo) ==
    \/ /\ todo = Relinking
       /\ file[Promotion!Swap(j)].text = j.before
       /\ file[Promotion!Swap(j)].ino \notin {0, file[Promotion!Target].ino}
    \/ todo \in Clearing /\ KeptOutside(Doomed(j))
    \/ /\ todo = Applying /\ KeptOutside({Promotion!Swap(j)})
       /\ j.op = "promote" /\ j.before # Absent => file[Promotion!Backup(j)].text = j.before
    \/ todo \in Sweeping /\ KeptOutside({Promotion!Swap(j)})
    \/ todo = <<"forget">>
Recovering(w) ==
    /\ \A k \in worker[w].left : \E x \in journals : x.id = k
    /\ worker[w].todo # <<>> =>
          /\ worker[w].j \in journals /\ worker[w].j.whole /\ worker[w].j.id \notin worker[w].left
          /\ FixAt(worker[w].j, worker[w].todo)
PromWork == \A w \in Worker : (Transacts(w) => Transacting(w)) /\ (Recovers(w) => Recovering(w))

PromInv == PromTyped /\ PromFresh /\ PromLocked /\ PromJournaled /\ PromRecorded /\ KeptOutside({}) /\ PromWork


-----------------------------------------------------------------------------
(* The names of a transaction, and the inodes.                             *)

LEMMA PromNumbers == MaxCalls \in Nat /\ Promotion!Tx = 1 .. MaxCalls /\ Promotion!Tx \subseteq Nat \ {0}
BY EvolutionAssumption DEF Promotion!Tx

LEMMA PromNames ==
    ASSUME NEW x \in PromJournals
    PROVE  /\ Promotion!Target \in Promotion!Name /\ Promotion!Target = <<0, "target">>
           /\ Promotion!Swap(x) \in Promotion!Name /\ Promotion!Swap(x) = <<x.id, "swap">>
           /\ Promotion!Prepared(x) \in Promotion!Name /\ Promotion!Prepared(x) = <<x.id, "prepared">>
           /\ Promotion!Backup(x) = <<x.backup, "backup">>
           /\ x.backup # 0 => Promotion!Backup(x) \in Promotion!Name
           /\ x.id \in Promotion!Tx
BY PromNumbers DEF PromJournals, Promotion!Target, Promotion!Name, Promotion!Swap, Promotion!Prepared, Promotion!Backup

LEMMA PromBackup == \A k \in Promotion!Tx : <<k, "backup">> \in Promotion!Name
BY DEF Promotion!Name

LEMMA PromLasting ==
    /\ Lasting \subseteq Promotion!Name /\ Promotion!Target \in Lasting
    /\ \A k \in Promotion!Tx : <<k, "swap">> \in Lasting /\ <<k, "backup">> \in Lasting
    /\ \A k : <<k, "prepared">> \notin Lasting
BY DEF Lasting, Promotion!Name, Promotion!Target

\* One inode more than names: there always is one to create a file with.
LEMMA PromUnused ==
    ASSUME PromFiles
    PROVE  /\ Promotion!Unused \in Promotion!Inode
           /\ \A n \in Promotion!Name : Promotion!Unused # file[n].ino
<1> DEFINE Tx3 == Promotion!Tx \X {"swap", "prepared", "backup"}
           Last == 3 * MaxCalls + 2
           Used == {file[n].ino : n \in Promotion!Name}
<1>1. MaxCalls \in Nat /\ Last \in Nat
    BY PromNumbers
<1>2. IsFiniteSet(Promotion!Tx) /\ Cardinality(Promotion!Tx) = MaxCalls
    <2>1. IsFiniteSet(1 .. MaxCalls) /\ Cardinality(1 .. MaxCalls) = IF 1 > MaxCalls THEN 0 ELSE MaxCalls - 1 + 1
        BY <1>1, FS_Interval
    <2> QED
        BY <1>1, <2>1 DEF Promotion!Tx
<1>3. IsFiniteSet({"swap", "prepared", "backup"}) /\ Cardinality({"swap", "prepared", "backup"}) = 3
    <2>1. IsFiniteSet({}) /\ Cardinality({}) = 0
        BY FS_EmptySet
    <2>2. IsFiniteSet({} \cup {"swap"}) /\ Cardinality({} \cup {"swap"}) = 1
        BY <2>1, FS_AddElement
    <2>3. IsFiniteSet(({} \cup {"swap"}) \cup {"prepared"}) /\ Cardinality(({} \cup {"swap"}) \cup {"prepared"}) = 2
        BY <2>2, FS_AddElement
    <2>4. /\ IsFiniteSet((({} \cup {"swap"}) \cup {"prepared"}) \cup {"backup"})
          /\ Cardinality((({} \cup {"swap"}) \cup {"prepared"}) \cup {"backup"}) = 3
        BY <2>3, FS_AddElement
    <2>5. (({} \cup {"swap"}) \cup {"prepared"}) \cup {"backup"} = {"swap", "prepared", "backup"}
        OBVIOUS
    <2> QED
        BY <2>4, <2>5
<1>4. IsFiniteSet(Tx3) /\ Cardinality(Tx3) = 3 * MaxCalls
    <2>1. IsFiniteSet(Tx3) /\ Cardinality(Tx3) = Cardinality(Promotion!Tx) * Cardinality({"swap", "prepared", "backup"})
        BY <1>2, <1>3, FS_Product
    <2> QED
        BY <1>1, <1>2, <1>3, <2>1
<1>5. IsFiniteSet(Promotion!Name) /\ Cardinality(Promotion!Name) <= 3 * MaxCalls + 1
    <2>1. IsFiniteSet(Tx3 \cup {Promotion!Target})
          /\ Cardinality(Tx3 \cup {Promotion!Target}) =
                IF Promotion!Target \in Tx3 THEN Cardinality(Tx3) ELSE Cardinality(Tx3) + 1
        BY <1>4, FS_AddElement
    <2>2. Tx3 \cup {Promotion!Target} = Promotion!Name
        BY DEF Promotion!Name
    <2> QED
        BY <1>1, <1>4, <2>1, <2>2
<1>6. IsFiniteSet(Used) /\ Cardinality(Used) <= Cardinality(Promotion!Name)
    <2> DEFINE ino == [n \in Promotion!Name |-> file[n].ino]
    <2>1. ino \in Surjection(Promotion!Name, Used)
        <3>1. ino \in [Promotion!Name -> Used]
            OBVIOUS
        <3>2. \A i \in Used : \E n \in Promotion!Name : ino[n] = i
            OBVIOUS
        <3> HIDE DEF ino, Used
        <3> QED
            BY <3>1, <3>2, Fun_IsSurj
    <2> HIDE DEF ino, Used
    <2> QED
        BY <1>5, <2>1, FS_Surjection
<1>7. \E i \in 1 .. Last : i \notin Used
    <2> SUFFICES ASSUME 1 .. Last \subseteq Used
                 PROVE  FALSE
        OBVIOUS
    <2>1. IsFiniteSet(1 .. Last) /\ Cardinality(1 .. Last) = Last
        <3> HIDE DEF Last
        <3>1. IsFiniteSet(1 .. Last) /\ Cardinality(1 .. Last) = IF 1 > Last THEN 0 ELSE Last - 1 + 1
            BY <1>1, FS_Interval
        <3> QED
            BY <1>1, <3>1
    <2>2. Cardinality(1 .. Last) <= Cardinality(Used)
        <3> HIDE DEF Last, Used
        <3> QED
            BY <1>6, FS_Subset
    <2>3. Cardinality(Used) \in Nat /\ Cardinality(Promotion!Name) \in Nat
        BY <1>5, <1>6, FS_CardinalityType
    <2> QED
        BY <1>1, <1>5, <1>6, <2>1, <2>2, <2>3
<1>8. \E i \in Promotion!Inode : \A n \in Promotion!Name : file[n].ino # i
    BY <1>7 DEF Promotion!Inode
<1> QED
    BY <1>8 DEF Promotion!Unused


-----------------------------------------------------------------------------
(* What a call, or the user, does to the names.                            *)

LEMMA FileIs ==
    ASSUME PromFiles, NEW n \in Promotion!Name
    PROVE  /\ file[n] \in FileValues /\ file[n].ino \in 0 .. (3 * MaxCalls + 2) /\ file[n].text \in PublishTexts
           /\ file[n] = [ino |-> file[n].ino, text |-> file[n].text]
           /\ file[n].text = Absent <=> file[n].ino = 0
           /\ file[n] = Promotion!NoFile <=> file[n].ino = 0
<1>1. file[n] \in FileValues
    BY DEF PromFiles
<1>2. file[n].text = Absent <=> file[n].ino = 0
    BY DEF PromFiles, Fits
<1>3. file[n] = [ino |-> file[n].ino, text |-> file[n].text]
    BY <1>1 DEF FileValues
<1>4. file[n].ino \in 0 .. (3 * MaxCalls + 2) /\ file[n].text \in PublishTexts
    BY <1>1 DEF FileValues
<1> QED
    BY <1>1, <1>2, <1>3, <1>4 DEF Promotion!NoFile

LEMMA NoFileFits ==
    /\ Promotion!NoFile \in FileValues /\ Fits(Promotion!NoFile)
    /\ Promotion!NoFile.ino = 0 /\ Promotion!NoFile.text = Absent
BY PromNumbers DEF Promotion!NoFile, FileValues, Fits, PublishTexts

LEMMA FileGone ==
    ASSUME PromFiles, NEW n \in Promotion!Name, file' = [file EXCEPT ![n] = Promotion!NoFile]
    PROVE  PromFiles'
<1>1. file' \in [Promotion!Name -> FileValues]
    BY NoFileFits DEF PromFiles
<1>2. file'[n] = Promotion!NoFile /\ \A m \in Promotion!Name \ {n} : file'[m] = file[m]
    BY DEF PromFiles
<1>3. \A m \in Promotion!Name : Fits(file'[m])
    BY <1>2, NoFileFits DEF PromFiles
<1>4. \A m \in Promotion!Name : file'[m].ino # 0 => m # n
    BY <1>2, NoFileFits
<1>5. ASSUME NEW m \in Promotion!Name, NEW k \in Promotion!Name, file'[m].ino = file'[k].ino
      PROVE  file'[m] = file'[k]
    BY <1>2, <1>5, NoFileFits, FileIs DEF PromFiles
<1>6. ASSUME NEW k \in Promotion!Tx, file'[<<k, "backup">>].ino # 0
      PROVE  Exclusive(<<k, "backup">>)'
    <2>1. <<k, "backup">> # n /\ file'[<<k, "backup">>] = file[<<k, "backup">>]
        BY <1>2, <1>4, <1>6, PromBackup
    <2>2. Exclusive(<<k, "backup">>)
        BY <1>6, <2>1 DEF PromFiles
    <2> QED
        BY <1>2, <1>6, <2>1, <2>2, NoFileFits DEF Exclusive
<1> QED
    BY <1>1, <1>3, <1>5, <1>6 DEF PromFiles

\* A file is created under a name that leads nowhere, or the user saves a new one.
LEMMA FileMade ==
    ASSUME PromFiles, NEW n \in Promotion!Name, NEW t \in PublishTexts \ {Absent},
           file[n].ino = 0 \/ n = Promotion!Target,
           file' = [file EXCEPT ![n] = Promotion!New(t)]
    PROVE  /\ PromFiles' /\ file'[n].ino # 0 /\ file'[n].text = t /\ Exclusive(n)'
           /\ \A m \in Promotion!Name : file[m].ino # file'[n].ino
           /\ \A m \in Promotion!Name \ {n} : file'[m] = file[m]
<1> DEFINE f == Promotion!New(t)
<1>1. /\ f = [ino |-> Promotion!Unused, text |-> t] /\ f \in FileValues /\ f.ino # 0 /\ f.text = t /\ Fits(f)
      /\ \A m \in Promotion!Name : file[m].ino # f.ino
    BY PromUnused, PromNumbers DEF Promotion!New, Promotion!Inode, FileValues, Fits
<1> HIDE DEF f
<1>2. file'[n] = f /\ \A m \in Promotion!Name \ {n} : file'[m] = file[m]
    BY DEF PromFiles, f
<1>3. file' \in [Promotion!Name -> FileValues]
    BY <1>1, <1>2 DEF PromFiles, f
<1>4. \A m \in Promotion!Name : Fits(file'[m])
    BY <1>1, <1>2 DEF PromFiles
<1>5. ASSUME NEW m \in Promotion!Name, NEW k \in Promotion!Name, file'[m].ino = file'[k].ino
      PROVE  file'[m] = file'[k]
    BY <1>1, <1>2, <1>5 DEF PromFiles
<1>6. Exclusive(n)'
    BY <1>1, <1>2 DEF Exclusive
<1>7. ASSUME NEW k \in Promotion!Tx, file'[<<k, "backup">>].ino # 0
      PROVE  Exclusive(<<k, "backup">>)'
    <2>1. CASE <<k, "backup">> = n
        BY <1>6, <2>1
    <2>2. CASE <<k, "backup">> # n
        <3>1. file'[<<k, "backup">>] = file[<<k, "backup">>] /\ <<k, "backup">> \in Promotion!Name
            BY <1>2, <2>2, PromBackup
        <3>2. Exclusive(<<k, "backup">>)
            BY <1>7, <3>1 DEF PromFiles
        <3> QED
            BY <1>1, <1>2, <3>1, <3>2 DEF Exclusive
    <2> QED
        BY <2>1, <2>2
<1> QED
    BY <1>1, <1>2, <1>3, <1>4, <1>5, <1>6, <1>7 DEF PromFiles

\* The text of a file that only this name leads to is written.
LEMMA FileWritten ==
    ASSUME PromFiles, NEW n \in Promotion!Name, NEW t \in PublishTexts \ {Absent},
           Exclusive(n), file[n].ino # 0,
           file' = [file EXCEPT ![n].text = t]
    PROVE  /\ PromFiles' /\ file'[n].ino = file[n].ino /\ file'[n].text = t /\ Exclusive(n)'
           /\ \A m \in Promotion!Name \ {n} : file'[m] = file[m]
<1> DEFINE f == [ino |-> file[n].ino, text |-> t]
<1>1. f \in FileValues /\ f.ino = file[n].ino /\ f.text = t /\ Fits(f)
    BY FileIs DEF FileValues, Fits
<1>2. file'[n] = f /\ \A m \in Promotion!Name \ {n} : file'[m] = file[m]
    BY FileIs DEF PromFiles
<1>3. file' \in [Promotion!Name -> FileValues]
    BY <1>1, <1>2, FileIs DEF PromFiles
<1> HIDE DEF f
<1>4. \A m \in Promotion!Name : Fits(file'[m])
    BY <1>1, <1>2 DEF PromFiles
<1>5. ASSUME NEW m \in Promotion!Name, NEW k \in Promotion!Name, file'[m].ino = file'[k].ino
      PROVE  file'[m] = file'[k]
    BY <1>1, <1>2, <1>5 DEF PromFiles, Exclusive
<1>6. Exclusive(n)'
    BY <1>1, <1>2 DEF Exclusive
<1>7. ASSUME NEW k \in Promotion!Tx, file'[<<k, "backup">>].ino # 0
      PROVE  Exclusive(<<k, "backup">>)'
    <2>1. file'[<<k, "backup">>].ino = file[<<k, "backup">>].ino /\ <<k, "backup">> \in Promotion!Name
        BY <1>1, <1>2, PromBackup
    <2>2. Exclusive(<<k, "backup">>)
        BY <1>7, <2>1 DEF PromFiles
    <2> QED
        BY <1>1, <1>2, <2>1, <2>2 DEF Exclusive
<1> QED
    BY <1>1, <1>2, <1>3, <1>4, <1>5, <1>6, <1>7 DEF PromFiles

\* A second link is made; no independent backup has one.
LEMMA FileLinked ==
    ASSUME PromFiles, NEW n \in Promotion!Name, NEW m \in Promotion!Name,
           \A k : n # <<k, "backup">> /\ m # <<k, "backup">>,
           file' = [file EXCEPT ![n] = file[m]]
    PROVE  /\ PromFiles' /\ file'[n] = file[m]
           /\ \A k \in Promotion!Name \ {n} : file'[k] = file[k]
<1>1. file'[n] = file[m] /\ \A k \in Promotion!Name \ {n} : file'[k] = file[k]
    BY DEF PromFiles
<1>2. file' \in [Promotion!Name -> FileValues]
    BY DEF PromFiles
<1>3. \A k \in Promotion!Name : Fits(file'[k])
    BY <1>1 DEF PromFiles
<1>4. ASSUME NEW a \in Promotion!Name, NEW b \in Promotion!Name, file'[a].ino = file'[b].ino
      PROVE  file'[a] = file'[b]
    BY <1>1, <1>4 DEF PromFiles
<1>5. ASSUME NEW k \in Promotion!Tx, file'[<<k, "backup">>].ino # 0
      PROVE  Exclusive(<<k, "backup">>)'
    <2>1. /\ file'[<<k, "backup">>] = file[<<k, "backup">>] /\ <<k, "backup">> \in Promotion!Name
          /\ <<k, "backup">> # m
        BY <1>1, PromBackup
    <2>2. Exclusive(<<k, "backup">>)
        BY <1>5, <2>1 DEF PromFiles
    <2> QED
        BY <1>1, <2>1, <2>2 DEF Exclusive
<1> QED
    BY <1>1, <1>2, <1>3, <1>4, <1>5 DEF PromFiles

\* The user writes in place: every link of the target has the new text.
LEMMA FileEdited ==
    ASSUME PromFiles, NEW t \in PublishTexts \ {Absent}, file[Promotion!Target].ino # 0,
           file' = [n \in Promotion!Name |-> IF file[n].ino = file[Promotion!Target].ino
                                              THEN [file[n] EXCEPT !.text = t] ELSE file[n]]
    PROVE  /\ PromFiles' /\ \A n \in Promotion!Name : file'[n].ino = file[n].ino
           /\ \A n \in Promotion!Name : file[n].ino = file[Promotion!Target].ino => file'[n].text = t
           /\ \A n \in Promotion!Name : file[n].ino # file[Promotion!Target].ino => file'[n] = file[n]
<1>1. Promotion!Target \in Promotion!Name
    BY DEF Promotion!Name
<1>2. ASSUME NEW n \in Promotion!Name
      PROVE  /\ file[n].ino = file[Promotion!Target].ino => file'[n] = [ino |-> file[n].ino, text |-> t]
             /\ file[n].ino # file[Promotion!Target].ino => file'[n] = file[n]
    <2>1. file'[n] = IF file[n].ino = file[Promotion!Target].ino
                        THEN [file[n] EXCEPT !.text = t] ELSE file[n]
        OBVIOUS
    <2>2. [file[n] EXCEPT !.text = t] = [ino |-> file[n].ino, text |-> t]
        <3>1. PICK i, x : file[n] = [ino |-> i, text |-> x] /\ file[n].ino = i
            BY FileIs
        <3>2. [[ino |-> i, text |-> x] EXCEPT !.text = t] = [ino |-> i, text |-> t]
            OBVIOUS
        <3> QED
            BY <3>1, <3>2
    <2> QED
        BY <2>1, <2>2
<1>3. ASSUME NEW n \in Promotion!Name
      PROVE  file'[n] \in FileValues /\ Fits(file'[n]) /\ file'[n].ino = file[n].ino
    BY <1>1, <1>2, FileIs DEF FileValues, Fits
<1>4. file' \in [Promotion!Name -> FileValues]
    BY <1>3
<1>5. ASSUME NEW a \in Promotion!Name, NEW b \in Promotion!Name, file'[a].ino = file'[b].ino
      PROVE  file'[a] = file'[b]
    <2>1. file[a].ino = file[b].ino
        BY <1>3, <1>5
    <2> QED
        BY <1>2, <2>1 DEF PromFiles
<1>6. ASSUME NEW k \in Promotion!Tx, file'[<<k, "backup">>].ino # 0
      PROVE  Exclusive(<<k, "backup">>)'
    <2>1. file[<<k, "backup">>].ino # 0 /\ <<k, "backup">> \in Promotion!Name
        BY <1>3, <1>6, PromBackup
    <2>2. Exclusive(<<k, "backup">>)
        BY <2>1 DEF PromFiles
    <2> QED
        BY <1>3, <2>1, <2>2 DEF Exclusive
<1>7. PromFiles'
    BY <1>3, <1>4, <1>5, <1>6 DEF PromFiles
<1> QED
    BY <1>2, <1>3, <1>7


-----------------------------------------------------------------------------
(* The calls of a transaction.                                             *)

CreateCalls ==
    <<"open journal", "write journal", "open prepared", "write prepared",
      "publish", "prepared", "swap", "commit", "forget">>
RevertCalls ==
    <<"open journal", "write journal", "check", "open prepared", "write prepared", "claim", "check", "unlink",
      "publish", "prepared", "swap", "commit", "forget">>

LEMMA Concatenates ==
    ASSUME NEW S, NEW s \in Seq(S), NEW t \in Seq(S), NEW u \in Seq(S),
           Len(u) = Len(s) + Len(t),
           \A i \in 1 .. Len(s) : u[i] = s[i],
           \A i \in 1 .. Len(t) : u[Len(s) + i] = t[i]
    PROVE  s \o t = u
<1>1. /\ s \o t \in Seq(S) /\ Len(s \o t) = Len(s) + Len(t)
      /\ \A i \in 1 .. Len(s) + Len(t) : (s \o t)[i] = IF i <= Len(s) THEN s[i] ELSE t[i - Len(s)]
    BY ConcatProperties
<1>2. Len(s) \in Nat /\ Len(t) \in Nat
    BY LenProperties
<1>3. ASSUME NEW i \in 1 .. Len(u)
      PROVE  (s \o t)[i] = u[i]
    <2>1. CASE i <= Len(s)
        BY <1>1, <1>2, <2>1
    <2>2. CASE i > Len(s)
        <3>1. i - Len(s) \in 1 .. Len(t) /\ Len(s) + (i - Len(s)) = i
            BY <1>2, <2>2
        <3> QED
            BY <1>1, <1>2, <2>2, <3>1
    <2> QED
        BY <1>2, <2>1, <2>2
<1> QED
    BY <1>1, <1>3, SeqEqual

Joins(s, t, u) ==
    /\ Len(u) = Len(s) + Len(t)
    /\ \A i \in 1 .. Len(s) : u[i] = s[i]
    /\ \A i \in 1 .. Len(t) : u[Len(s) + i] = t[i]
LEMMA Joined == \A s, t, u \in Seq(CallNames) : Joins(s, t, u) => s \o t = u
<1> SUFFICES ASSUME NEW s \in Seq(CallNames), NEW t \in Seq(CallNames), NEW u \in Seq(CallNames), Joins(s, t, u)
             PROVE  s \o t = u
    OBVIOUS
<1> QED
    BY Concatenates DEF Joins

LEMMA RevertOnce == <<"open journal", "write journal">> \o <<"check">> =
    <<"open journal", "write journal", "check">>
<1> DEFINE s == <<"open journal", "write journal">>
           t == <<"check">>
           u == <<"open journal", "write journal", "check">>
<1>1. s \in Seq(CallNames) /\ t \in Seq(CallNames) /\ u \in Seq(CallNames)
    BY DEF CallNames
<1>2. Len(s) = 2 /\ Len(t) = 1 /\ Len(u) = 2 + 1
    OBVIOUS
<1>3. (\A i \in 1 .. 2 : u[i] = s[i]) /\ (\A i \in 1 .. 1 : u[2 + i] = t[i])
    OBVIOUS
<1>4. s \o t = u
    <2> HIDE DEF s, t, u
    <2>1. Joins(s, t, u)
        BY <1>2, <1>3 DEF Joins
    <2> QED
        BY <1>1, <2>1, Joined
<1> QED
    BY <1>4

LEMMA RevertTwice == <<"open journal", "write journal", "check">> \o <<"open prepared", "write prepared">> =
    <<"open journal", "write journal", "check", "open prepared", "write prepared">>
<1> DEFINE s == <<"open journal", "write journal", "check">>
           t == <<"open prepared", "write prepared">>
           u == <<"open journal", "write journal", "check", "open prepared", "write prepared">>
<1>1. s \in Seq(CallNames) /\ t \in Seq(CallNames) /\ u \in Seq(CallNames)
    BY DEF CallNames
<1>2. Len(s) = 3 /\ Len(t) = 2 /\ Len(u) = 3 + 2
    OBVIOUS
<1>3. (\A i \in 1 .. 3 : u[i] = s[i]) /\ (\A i \in 1 .. 2 : u[3 + i] = t[i])
    OBVIOUS
<1>4. s \o t = u
    <2> HIDE DEF s, t, u
    <2>1. Joins(s, t, u)
        BY <1>2, <1>3 DEF Joins
    <2> QED
        BY <1>1, <2>1, Joined
<1> QED
    BY <1>4

LEMMA RevertThird == <<"open journal", "write journal", "check", "open prepared", "write prepared">> \o <<"claim", "check", "unlink">> =
    <<"open journal", "write journal", "check", "open prepared", "write prepared", "claim", "check", "unlink">>
<1> DEFINE s == <<"open journal", "write journal", "check", "open prepared", "write prepared">>
           t == <<"claim", "check", "unlink">>
           u == <<"open journal", "write journal", "check", "open prepared", "write prepared", "claim", "check", "unlink">>
<1>1. s \in Seq(CallNames) /\ t \in Seq(CallNames) /\ u \in Seq(CallNames)
    BY DEF CallNames
<1>2. Len(s) = 5 /\ Len(t) = 3 /\ Len(u) = 5 + 3
    OBVIOUS
<1>3. (\A i \in 1 .. 5 : u[i] = s[i]) /\ (\A i \in 1 .. 3 : u[5 + i] = t[i])
    OBVIOUS
<1>4. s \o t = u
    <2> HIDE DEF s, t, u
    <2>1. Joins(s, t, u)
        BY <1>2, <1>3 DEF Joins
    <2> QED
        BY <1>1, <2>1, Joined
<1> QED
    BY <1>4

LEMMA RevertLast == <<"open journal", "write journal", "check", "open prepared", "write prepared", "claim", "check", "unlink">> \o <<"publish", "prepared", "swap", "commit", "forget">> =
    <<"open journal", "write journal", "check", "open prepared", "write prepared", "claim", "check", "unlink", "publish", "prepared", "swap", "commit", "forget">>
<1> DEFINE s == <<"open journal", "write journal", "check", "open prepared", "write prepared", "claim", "check", "unlink">>
           t == <<"publish", "prepared", "swap", "commit", "forget">>
           u == <<"open journal", "write journal", "check", "open prepared", "write prepared", "claim", "check", "unlink", "publish", "prepared", "swap", "commit", "forget">>
<1>1. s \in Seq(CallNames) /\ t \in Seq(CallNames) /\ u \in Seq(CallNames)
    BY DEF CallNames
<1>2. Len(s) = 8 /\ Len(t) = 5 /\ Len(u) = 8 + 5
    OBVIOUS
<1>3. (\A i \in 1 .. 8 : u[i] = s[i]) /\ (\A i \in 1 .. 5 : u[8 + i] = t[i])
    OBVIOUS
<1>4. s \o t = u
    <2> HIDE DEF s, t, u
    <2>1. Joins(s, t, u)
        BY <1>2, <1>3 DEF Joins
    <2> QED
        BY <1>1, <2>1, Joined
<1> QED
    BY <1>4

LEMMA ReviseOnce == <<"open journal", "write journal">> \o <<"check", "open backup", "write backup", "check">> =
    <<"open journal", "write journal", "check", "open backup", "write backup", "check">>
<1> DEFINE s == <<"open journal", "write journal">>
           t == <<"check", "open backup", "write backup", "check">>
           u == <<"open journal", "write journal", "check", "open backup", "write backup", "check">>
<1>1. s \in Seq(CallNames) /\ t \in Seq(CallNames) /\ u \in Seq(CallNames)
    BY DEF CallNames
<1>2. Len(s) = 2 /\ Len(t) = 4 /\ Len(u) = 2 + 4
    OBVIOUS
<1>3. (\A i \in 1 .. 2 : u[i] = s[i]) /\ (\A i \in 1 .. 4 : u[2 + i] = t[i])
    OBVIOUS
<1>4. s \o t = u
    <2> HIDE DEF s, t, u
    <2>1. Joins(s, t, u)
        BY <1>2, <1>3 DEF Joins
    <2> QED
        BY <1>1, <2>1, Joined
<1> QED
    BY <1>4

LEMMA ReviseTwice == <<"open journal", "write journal", "check", "open backup", "write backup", "check">> \o <<"open prepared", "write prepared">> =
    <<"open journal", "write journal", "check", "open backup", "write backup", "check", "open prepared", "write prepared">>
<1> DEFINE s == <<"open journal", "write journal", "check", "open backup", "write backup", "check">>
           t == <<"open prepared", "write prepared">>
           u == <<"open journal", "write journal", "check", "open backup", "write backup", "check", "open prepared", "write prepared">>
<1>1. s \in Seq(CallNames) /\ t \in Seq(CallNames) /\ u \in Seq(CallNames)
    BY DEF CallNames
<1>2. Len(s) = 6 /\ Len(t) = 2 /\ Len(u) = 6 + 2
    OBVIOUS
<1>3. (\A i \in 1 .. 6 : u[i] = s[i]) /\ (\A i \in 1 .. 2 : u[6 + i] = t[i])
    OBVIOUS
<1>4. s \o t = u
    <2> HIDE DEF s, t, u
    <2>1. Joins(s, t, u)
        BY <1>2, <1>3 DEF Joins
    <2> QED
        BY <1>1, <2>1, Joined
<1> QED
    BY <1>4

LEMMA ReviseThird == <<"open journal", "write journal", "check", "open backup", "write backup", "check", "open prepared", "write prepared">> \o <<"claim", "check", "unlink">> =
    <<"open journal", "write journal", "check", "open backup", "write backup", "check", "open prepared", "write prepared", "claim", "check", "unlink">>
<1> DEFINE s == <<"open journal", "write journal", "check", "open backup", "write backup", "check", "open prepared", "write prepared">>
           t == <<"claim", "check", "unlink">>
           u == <<"open journal", "write journal", "check", "open backup", "write backup", "check", "open prepared", "write prepared", "claim", "check", "unlink">>
<1>1. s \in Seq(CallNames) /\ t \in Seq(CallNames) /\ u \in Seq(CallNames)
    BY DEF CallNames
<1>2. Len(s) = 8 /\ Len(t) = 3 /\ Len(u) = 8 + 3
    OBVIOUS
<1>3. (\A i \in 1 .. 8 : u[i] = s[i]) /\ (\A i \in 1 .. 3 : u[8 + i] = t[i])
    OBVIOUS
<1>4. s \o t = u
    <2> HIDE DEF s, t, u
    <2>1. Joins(s, t, u)
        BY <1>2, <1>3 DEF Joins
    <2> QED
        BY <1>1, <2>1, Joined
<1> QED
    BY <1>4

LEMMA ReviseLast == <<"open journal", "write journal", "check", "open backup", "write backup", "check", "open prepared", "write prepared", "claim", "check", "unlink">> \o <<"publish", "prepared", "swap", "commit", "forget">> =
    <<"open journal", "write journal", "check", "open backup", "write backup", "check", "open prepared", "write prepared", "claim", "check", "unlink", "publish", "prepared", "swap", "commit", "forget">>
<1> DEFINE s == <<"open journal", "write journal", "check", "open backup", "write backup", "check", "open prepared", "write prepared", "claim", "check", "unlink">>
           t == <<"publish", "prepared", "swap", "commit", "forget">>
           u == <<"open journal", "write journal", "check", "open backup", "write backup", "check", "open prepared", "write prepared", "claim", "check", "unlink", "publish", "prepared", "swap", "commit", "forget">>
<1>1. s \in Seq(CallNames) /\ t \in Seq(CallNames) /\ u \in Seq(CallNames)
    BY DEF CallNames
<1>2. Len(s) = 11 /\ Len(t) = 5 /\ Len(u) = 11 + 5
    OBVIOUS
<1>3. (\A i \in 1 .. 11 : u[i] = s[i]) /\ (\A i \in 1 .. 5 : u[11 + i] = t[i])
    OBVIOUS
<1>4. s \o t = u
    <2> HIDE DEF s, t, u
    <2>1. Joins(s, t, u)
        BY <1>2, <1>3 DEF Joins
    <2> QED
        BY <1>1, <2>1, Joined
<1> QED
    BY <1>4

LEMMA CreateOnce == <<"open journal", "write journal">> \o <<"open prepared", "write prepared">> =
    <<"open journal", "write journal", "open prepared", "write prepared">>
<1> DEFINE s == <<"open journal", "write journal">>
           t == <<"open prepared", "write prepared">>
           u == <<"open journal", "write journal", "open prepared", "write prepared">>
<1>1. s \in Seq(CallNames) /\ t \in Seq(CallNames) /\ u \in Seq(CallNames)
    BY DEF CallNames
<1>2. Len(s) = 2 /\ Len(t) = 2 /\ Len(u) = 2 + 2
    OBVIOUS
<1>3. (\A i \in 1 .. 2 : u[i] = s[i]) /\ (\A i \in 1 .. 2 : u[2 + i] = t[i])
    OBVIOUS
<1>4. s \o t = u
    <2> HIDE DEF s, t, u
    <2>1. Joins(s, t, u)
        BY <1>2, <1>3 DEF Joins
    <2> QED
        BY <1>1, <2>1, Joined
<1> QED
    BY <1>4

LEMMA CreateLast == <<"open journal", "write journal", "open prepared", "write prepared">> \o <<"publish", "prepared", "swap", "commit", "forget">> =
    <<"open journal", "write journal", "open prepared", "write prepared", "publish", "prepared", "swap", "commit", "forget">>
<1> DEFINE s == <<"open journal", "write journal", "open prepared", "write prepared">>
           t == <<"publish", "prepared", "swap", "commit", "forget">>
           u == <<"open journal", "write journal", "open prepared", "write prepared", "publish", "prepared", "swap", "commit", "forget">>
<1>1. s \in Seq(CallNames) /\ t \in Seq(CallNames) /\ u \in Seq(CallNames)
    BY DEF CallNames
<1>2. Len(s) = 4 /\ Len(t) = 5 /\ Len(u) = 4 + 5
    OBVIOUS
<1>3. (\A i \in 1 .. 4 : u[i] = s[i]) /\ (\A i \in 1 .. 5 : u[4 + i] = t[i])
    OBVIOUS
<1>4. s \o t = u
    <2> HIDE DEF s, t, u
    <2>1. Joins(s, t, u)
        BY <1>2, <1>3 DEF Joins
    <2> QED
        BY <1>1, <2>1, Joined
<1> QED
    BY <1>4

LEMMA PromScripts ==
    ASSUME NEW j \in PromJournals, j.op = "rollback" => j.before # Absent
    PROVE  /\ j.op = "rollback" => Promotion!Script(j) = RevertCalls
           /\ j.op = "promote" /\ j.before = Absent => Promotion!Script(j) = CreateCalls
           /\ j.op = "promote" /\ j.before # Absent => Promotion!Script(j) = PublishCalls
<1>0. \A s \in Seq(CallNames) : s \o <<>> = s
    BY ConcatEmptySeq
<1>1. CASE j.op = "rollback"
    <2>1. Promotion!Script(j) = ((((<<"open journal", "write journal">> \o <<>>) \o <<"check">>) \o <<"open prepared", "write prepared">>) \o <<"claim", "check", "unlink">>) \o <<"publish", "prepared", "swap", "commit", "forget">>
        BY <1>1 DEF Promotion!Script, Promotion!AtTarget
    <2>2. <<"open journal", "write journal">> \o <<>> = <<"open journal", "write journal">>
        BY <1>0 DEF CallNames
    <2> QED
        BY <1>1, <2>1, <2>2, RevertOnce, RevertTwice, RevertThird, RevertLast DEF RevertCalls
<1>2. CASE j.op = "promote" /\ j.before = Absent
    <2>1. Promotion!Script(j) = ((((<<"open journal", "write journal">> \o <<>>) \o <<>>) \o <<"open prepared", "write prepared">>) \o <<>>) \o <<"publish", "prepared", "swap", "commit", "forget">>
        BY <1>2 DEF Promotion!Script
    <2>2. <<"open journal", "write journal">> \o <<>> = <<"open journal", "write journal">> /\ <<"open journal", "write journal", "open prepared", "write prepared">> \o <<>> = <<"open journal", "write journal", "open prepared", "write prepared">>
        BY <1>0 DEF CallNames
    <2> QED
        BY <1>2, <2>1, <2>2, CreateOnce, CreateLast DEF CreateCalls
<1>3. CASE j.op = "promote" /\ j.before # Absent
    <2>1. Promotion!Script(j) = ((((<<"open journal", "write journal">> \o <<"check", "open backup", "write backup", "check">>) \o <<>>) \o <<"open prepared", "write prepared">>) \o <<"claim", "check", "unlink">>) \o <<"publish", "prepared", "swap", "commit", "forget">>
        BY <1>3 DEF Promotion!Script, Promotion!AtTarget, Promotion!AtBackup
    <2>2. <<"open journal", "write journal", "check", "open backup", "write backup", "check">> \o <<>> = <<"open journal", "write journal", "check", "open backup", "write backup", "check">>
        BY <1>0 DEF CallNames
    <2> QED
        BY <1>3, <2>1, <2>2, ReviseOnce, ReviseTwice, ReviseThird, ReviseLast DEF PublishCalls
<1> QED
    BY <1>1, <1>2, <1>3 DEF PromJournals


\* The place after p, in the transaction of j.
NextPlace(j, p) ==
    IF p = 2 THEN IF j.op = "rollback" THEN 6 ELSE IF j.before = Absent THEN 7 ELSE 3
    ELSE IF p = 8 /\ j.before = Absent THEN 12
    ELSE p + 1
MayBeAt(j, p) ==
    /\ p \in 3 .. 5 => j.op = "promote" /\ j.before # Absent
    /\ p = 6 \/ p \in 9 .. 11 => j.before # Absent

LEMMA PromScript ==
    ASSUME NEW j \in PromJournals, j.op = "rollback" => j.before # Absent
    PROVE  LET s == Promotion!Script(j)
               n == Len(s)
               at == PlacesOf(j)
           IN /\ s \in Seq(CallNames) /\ n \in Nat \ {0} /\ at[1] = 1 /\ at[n + 1] = 17
              /\ \A i \in 1 .. n : /\ at[i] \in 1 .. 16 /\ s[i] = PublishCalls[at[i]]
                                   /\ at[i + 1] = NextPlace(j, at[i]) /\ MayBeAt(j, at[i])
<1> DEFINE s == Promotion!Script(j)
           n == Len(s)
           at == PlacesOf(j)
<1>1. CASE j.op = "rollback"
    <2>1. s = RevertCalls /\ at = <<1, 2, 6, 7, 8, 9, 10, 11, 12, 13, 14, 15, 16, 17>>
        BY <1>1, PromScripts DEF PlacesOf
    <2>2. n = 13 /\ s \in Seq(CallNames)
        <3>1. RevertCalls \in Seq(CallNames) /\ Len(RevertCalls) = 13
            BY DEF RevertCalls, CallNames
        <3> QED
            BY <2>1, <3>1
    <2>3. \A i \in 1 .. 13 : /\ at[i] \in 1 .. 16 /\ RevertCalls[i] = PublishCalls[at[i]]
                             /\ at[i + 1] = NextPlace(j, at[i]) /\ MayBeAt(j, at[i])
        <3> SUFFICES ASSUME NEW i \in 1 .. 13
                     PROVE  /\ at[i] \in 1 .. 16 /\ RevertCalls[i] = PublishCalls[at[i]]
                            /\ at[i + 1] = NextPlace(j, at[i]) /\ MayBeAt(j, at[i])
            OBVIOUS
        <3>1. i = 1 \/ i = 2 \/ i = 3 \/ i = 4 \/ i = 5 \/ i = 6 \/ i = 7 \/ i = 8 \/ i = 9 \/ i = 10 \/ i = 11 \/ i = 12 \/ i = 13
            OBVIOUS
        <3>2. RevertCalls[i] = PublishCalls[at[i]]
            <4>1. /\ at[1] = 1 /\ at[2] = 2 /\ at[3] = 6 /\ at[4] = 7 /\ at[5] = 8 /\ at[6] = 9 /\ at[7] = 10
              /\ at[8] = 11 /\ at[9] = 12 /\ at[10] = 13 /\ at[11] = 14 /\ at[12] = 15 /\ at[13] = 16
                BY <2>1
            <4>2. /\ RevertCalls[1] = PublishCalls[1] /\ RevertCalls[2] = PublishCalls[2]
              /\ RevertCalls[3] = PublishCalls[6] /\ RevertCalls[4] = PublishCalls[7]
              /\ RevertCalls[5] = PublishCalls[8] /\ RevertCalls[6] = PublishCalls[9]
              /\ RevertCalls[7] = PublishCalls[10] /\ RevertCalls[8] = PublishCalls[11]
              /\ RevertCalls[9] = PublishCalls[12] /\ RevertCalls[10] = PublishCalls[13]
              /\ RevertCalls[11] = PublishCalls[14] /\ RevertCalls[12] = PublishCalls[15]
              /\ RevertCalls[13] = PublishCalls[16]
                BY DEF RevertCalls, PublishCalls
            <4> QED
                BY <3>1, <4>1, <4>2
        <3>3. at[i] \in 1 .. 16 /\ at[i + 1] = NextPlace(j, at[i]) /\ MayBeAt(j, at[i])
            BY <1>1, <2>1, <3>1 DEF NextPlace, MayBeAt
        <3> QED
            BY <3>2, <3>3
    <2>4. at[1] = 1 /\ at[14] = 17
        BY <2>1
    <2> QED
        BY <2>1, <2>2, <2>3, <2>4
<1>2. CASE j.op = "promote" /\ j.before = Absent
    <2>1. s = CreateCalls /\ at = <<1, 2, 7, 8, 12, 13, 14, 15, 16, 17>>
        BY <1>2, PromScripts DEF PlacesOf
    <2>2. n = 9 /\ s \in Seq(CallNames)
        <3>1. CreateCalls \in Seq(CallNames) /\ Len(CreateCalls) = 9
            BY DEF CreateCalls, CallNames
        <3> QED
            BY <2>1, <3>1
    <2>3. \A i \in 1 .. 9 : /\ at[i] \in 1 .. 16 /\ CreateCalls[i] = PublishCalls[at[i]]
                            /\ at[i + 1] = NextPlace(j, at[i]) /\ MayBeAt(j, at[i])
        <3> SUFFICES ASSUME NEW i \in 1 .. 9
                     PROVE  /\ at[i] \in 1 .. 16 /\ CreateCalls[i] = PublishCalls[at[i]]
                            /\ at[i + 1] = NextPlace(j, at[i]) /\ MayBeAt(j, at[i])
            OBVIOUS
        <3>1. i = 1 \/ i = 2 \/ i = 3 \/ i = 4 \/ i = 5 \/ i = 6 \/ i = 7 \/ i = 8 \/ i = 9
            OBVIOUS
        <3>2. CreateCalls[i] = PublishCalls[at[i]]
            <4>1. /\ at[1] = 1 /\ at[2] = 2 /\ at[3] = 7 /\ at[4] = 8 /\ at[5] = 12 /\ at[6] = 13 /\ at[7] = 14
              /\ at[8] = 15 /\ at[9] = 16
                BY <2>1
            <4>2. /\ CreateCalls[1] = PublishCalls[1] /\ CreateCalls[2] = PublishCalls[2]
              /\ CreateCalls[3] = PublishCalls[7] /\ CreateCalls[4] = PublishCalls[8]
              /\ CreateCalls[5] = PublishCalls[12] /\ CreateCalls[6] = PublishCalls[13]
              /\ CreateCalls[7] = PublishCalls[14] /\ CreateCalls[8] = PublishCalls[15]
              /\ CreateCalls[9] = PublishCalls[16]
                BY DEF CreateCalls, PublishCalls
            <4> QED
                BY <3>1, <4>1, <4>2
        <3>3. at[i] \in 1 .. 16 /\ at[i + 1] = NextPlace(j, at[i]) /\ MayBeAt(j, at[i])
            BY <1>2, <2>1, <3>1 DEF NextPlace, MayBeAt
        <3> QED
            BY <3>2, <3>3
    <2>4. at[1] = 1 /\ at[10] = 17
        BY <2>1
    <2> QED
        BY <2>1, <2>2, <2>3, <2>4
<1>3. CASE j.op = "promote" /\ j.before # Absent
    <2>1. s = PublishCalls /\ at = <<1, 2, 3, 4, 5, 6, 7, 8, 9, 10, 11, 12, 13, 14, 15, 16, 17>>
        BY <1>3, PromScripts DEF PlacesOf
    <2>2. n = 16 /\ s \in Seq(CallNames)
        <3>1. PublishCalls \in Seq(CallNames) /\ Len(PublishCalls) = 16
            BY DEF PublishCalls, CallNames
        <3> QED
            BY <2>1, <3>1
    <2>3. \A i \in 1 .. 16 : /\ at[i] \in 1 .. 16 /\ PublishCalls[i] = PublishCalls[at[i]]
                             /\ at[i + 1] = NextPlace(j, at[i]) /\ MayBeAt(j, at[i])
        <3> SUFFICES ASSUME NEW i \in 1 .. 16
                     PROVE  /\ at[i] \in 1 .. 16 /\ PublishCalls[i] = PublishCalls[at[i]]
                            /\ at[i + 1] = NextPlace(j, at[i]) /\ MayBeAt(j, at[i])
            OBVIOUS
        <3>1. i = 1 \/ i = 2 \/ i = 3 \/ i = 4 \/ i = 5 \/ i = 6 \/ i = 7 \/ i = 8 \/ i = 9 \/ i = 10 \/ i = 11 \/ i = 12 \/ i = 13 \/ i = 14 \/ i = 15 \/ i = 16
            OBVIOUS
        <3>2. PublishCalls[i] = PublishCalls[at[i]]
            <4>1. /\ at[1] = 1 /\ at[2] = 2 /\ at[3] = 3 /\ at[4] = 4 /\ at[5] = 5 /\ at[6] = 6 /\ at[7] = 7
              /\ at[8] = 8 /\ at[9] = 9 /\ at[10] = 10 /\ at[11] = 11 /\ at[12] = 12 /\ at[13] = 13 /\ at[14] = 14
              /\ at[15] = 15 /\ at[16] = 16
                BY <2>1
            <4> QED
                BY <3>1, <4>1
        <3>3. at[i] \in 1 .. 16 /\ at[i + 1] = NextPlace(j, at[i]) /\ MayBeAt(j, at[i])
            BY <1>3, <2>1, <3>1 DEF NextPlace, MayBeAt
        <3> QED
            BY <3>2, <3>3
    <2>4. at[1] = 1 /\ at[17] = 17
        BY <2>1
    <2> QED
        BY <2>1, <2>2, <2>3, <2>4
<1> QED
    BY <1>1, <1>2, <1>3 DEF PromJournals

LEMMA PromPlaces ==
    ASSUME NEW j \in PromJournals, j.op = "rollback" => j.before # Absent
    PROVE  /\ Placed(Promotion!Script(j), j, 1) /\ Promotion!Script(j) # <<>>
           /\ \A todo, p : Placed(todo, j, p) =>
                 /\ p \in 1 .. 17 /\ todo \in Seq(CallNames) /\ (todo = <<>> <=> p = 17)
                 /\ p # 17 => /\ Head(todo) = PublishCalls[p] /\ Tail(todo) \in Seq(CallNames)
                              /\ Placed(Tail(todo), j, NextPlace(j, p))
                              /\ NextPlace(j, p) \in 1 .. 17 /\ MayBeAt(j, p)
<1> DEFINE s == Promotion!Script(j)
           n == Len(s)
           at == PlacesOf(j)
<1>1. /\ s \in Seq(CallNames) /\ n \in Nat \ {0} /\ at[1] = 1 /\ at[n + 1] = 17
      /\ \A i \in 1 .. n : /\ at[i] \in 1 .. 16 /\ s[i] = PublishCalls[at[i]]
                           /\ at[i + 1] = NextPlace(j, at[i]) /\ MayBeAt(j, at[i])
    BY PromScript
<1>2. Placed(s, j, 1) /\ s # <<>>
    <2>1. s = SubSeq(s, 1, n)
        <3> HIDE DEF s
        <3> QED
            BY <1>1, SubSeqFull
    <2>2. 1 \in 1 .. n + 1
        BY <1>1
    <2>3. s # <<>>
        <3> HIDE DEF s
        <3> QED
            BY <1>1, EmptySeq
    <2> QED
        BY <1>1, <2>1, <2>2, <2>3 DEF Placed
<1>3. ASSUME NEW todo, NEW p, Placed(todo, j, p)
      PROVE  /\ p \in 1 .. 17 /\ todo \in Seq(CallNames) /\ (todo = <<>> <=> p = 17)
             /\ p # 17 => /\ Head(todo) = PublishCalls[p] /\ Tail(todo) \in Seq(CallNames)
                          /\ Placed(Tail(todo), j, NextPlace(j, p))
                          /\ NextPlace(j, p) \in 1 .. 17 /\ MayBeAt(j, p)
    <2>1. PICK i \in 1 .. n + 1 : p = at[i] /\ todo = SubSeq(s, i, n)
        BY <1>3 DEF Placed
    <2>2. CASE i = n + 1
        <3>1. p = 17
            BY <1>1, <2>1, <2>2
        <3>2. todo = <<>>
            <4> HIDE DEF s, n
            <4>1. n + 1 \in Int /\ n \in Int /\ n < n + 1
                BY <1>1
            <4> QED
                BY <2>1, <2>2, <4>1, SubSeqEmpty
        <3>3. <<>> \in Seq(CallNames)
            BY EmptySeq
        <3> QED
            BY <3>1, <3>2, <3>3
    <2>3. CASE i \in 1 .. n
        <3>1. p \in 1 .. 16 /\ s[i] = PublishCalls[p] /\ at[i + 1] = NextPlace(j, p) /\ MayBeAt(j, p)
            BY <1>1, <2>1, <2>3
        <3>2. Head(todo) = s[i] /\ Tail(todo) = SubSeq(s, i + 1, n)
            <4>1. n \in i .. Len(s)
                BY <1>1, <2>3
            <4>2. s \in Seq(CallNames) /\ i \in 1 .. Len(s)
                BY <1>1, <2>3
            <4> HIDE DEF s, n
            <4> QED
                BY <2>1, <4>1, <4>2, HeadTailOfSubSeq
        <3>3. todo \in Seq(CallNames) /\ Len(todo) = n - i + 1
            <4>1. i \in Int /\ n \in Int /\ i <= n /\ \A k \in i .. n : s[k] \in CallNames
                <5>1. \A k \in 1 .. n : s[k] \in CallNames
                    BY <1>1, ElementOfSeq
                <5> QED
                    BY <1>1, <2>3, <5>1
            <4> HIDE DEF s, n
            <4> QED
                BY <2>1, <4>1, SubSeqProperties
        <3>4. todo # <<>>
            <4>1. Len(todo) # 0
                BY <1>1, <2>3, <3>3
            <4> QED
                BY <3>3, <4>1, EmptySeq
        <3>5. i + 1 \in 1 .. n + 1
            BY <1>1, <2>3
        <3>6. Placed(Tail(todo), j, NextPlace(j, p))
            BY <3>1, <3>2, <3>5 DEF Placed
        <3>7. NextPlace(j, p) \in 1 .. 17
            BY <3>1 DEF NextPlace
        <3>8. Tail(todo) \in Seq(CallNames)
            BY <3>3, <3>4, HeadTailProperties
        <3> QED
            BY <3>1, <3>2, <3>3, <3>4, <3>6, <3>7, <3>8
    <2> QED
        BY <1>1, <2>1, <2>2, <2>3
<1> QED
    BY <1>2, <1>3

LEMMA PlaceAt ==
    ASSUME NEW j \in PromJournals, j.op = "rollback" => j.before # Absent,
           NEW todo, NEW p, Placed(todo, j, p), p # 17
    PROVE  todo # <<>> /\ Head(todo) = PublishCalls[p]
<1> DEFINE Is(d, k) ==
        /\ k \in 1 .. 17 /\ d \in Seq(CallNames) /\ (d = <<>> <=> k = 17)
        /\ k # 17 => /\ Head(d) = PublishCalls[k] /\ Tail(d) \in Seq(CallNames)
                     /\ Placed(Tail(d), j, NextPlace(j, k))
                     /\ NextPlace(j, k) \in 1 .. 17 /\ MayBeAt(j, k)
<1>1. \A d, k : Placed(d, j, k) => Is(d, k)
    BY PromPlaces, Zenon
<1> HIDE DEF Is
<1>2. Is(todo, p)
    BY <1>1
<1>3. Head(todo) = PublishCalls[p] /\ ~ (todo = <<>> )
    BY <1>2 DEF Is
<1> QED
    BY <1>3


-----------------------------------------------------------------------------
(* What every action needs.                                                *)

LEMMA PromAssumed ==
    /\ "none" \notin Worker /\ MaxCalls \in Nat
    /\ Absent \notin UserText \cup {Torn} /\ Torn \notin UserText \cup Original
    /\ \A c \in Candidate : Proposal[c] # Absent /\ Basis[c] # Proposal[c]
    /\ \A c \in Candidate : Basis[c] # Absent => Proposal[c] \notin UserText \cup Original
BY EvolutionAssumption

LEMMA PromTexts ==
    /\ Torn \in PublishTexts \ {Absent} /\ UserText \subseteq PublishTexts \ {Absent}
    /\ Original \subseteq PublishTexts /\ Absent \in PublishTexts
    /\ \A c \in Candidate : Basis[c] \in PublishTexts /\ Proposal[c] \in PublishTexts \ {Absent}
BY PromAssumed DEF PublishTexts, Promotion!Text

LEMMA PromInit == Promotion!Init => PromInv
<1> SUFFICES ASSUME Promotion!Init
             PROVE  PromInv
    OBVIOUS
<1> USE PromNumbers DEF Promotion!Init
<1>1. PICK t \in Original :
         file = [n \in Promotion!Name |-> IF n = Promotion!Target /\ t # Absent
                                            THEN [ino |-> 1, text |-> t] ELSE Promotion!NoFile]
    OBVIOUS
<1>2. Promotion!Target \in Promotion!Name /\ \A k, s : Promotion!Target # <<k, s>> \/ k = 0
    BY DEF Promotion!Target, Promotion!Name
<1>3. \A n \in Promotion!Name : file[n] \in FileValues /\ Fits(file[n])
    BY <1>1, PromTexts, NoFileFits DEF FileValues, Fits
<1>4. \A n \in Promotion!Name : n # Promotion!Target => file[n].ino = 0 /\ file[n] = Promotion!NoFile
    BY <1>1, NoFileFits
<1>5. PromFiles
    <2>1. file \in [Promotion!Name -> FileValues]
        BY <1>1, <1>3
    <2>2. \A m, n \in Promotion!Name : file[m].ino = file[n].ino => file[m] = file[n]
        BY <1>1, <1>4, NoFileFits
    <2>3. \A k \in Promotion!Tx : <<k, "backup">> \in Promotion!Name /\ <<k, "backup">> # Promotion!Target
        BY PromBackup DEF Promotion!Target
    <2> QED
        BY <1>3, <1>4, <2>1, <2>2, <2>3 DEF PromFiles
<1>6. PromFresh
    BY <1>4 DEF PromFresh, Promotion!Name, Promotion!Target
<1>7. file[Promotion!Target].text \in Original \cup {Absent}
    BY <1>1, <1>2, NoFileFits
<1>8. PromTyped
    <2>1. record \in [Candidate -> PromRecords]
        BY DEF PromRecords
    <2>2. Promotion!Idle \in PromWorkers
        <3>1. <<>> \in Seq(CallNames \cup {"relink", "backup"})
            BY EmptySeq
        <3> QED
            BY <3>1 DEF Promotion!Idle, Promotion!None, PromWorkers
    <2>3. spent \in [calls : Nat, tx : 0 .. MaxCalls, faults : Nat, edits : Nat]
        OBVIOUS
    <2>4. owed \subseteq (UserText \cup Original) \ {Absent}
        BY <1>7
    <2> QED
        BY <1>5, <2>1, <2>2, <2>3, <2>4 DEF PromTyped, Promotion!None
<1>9. \A w \in Worker : worker[w].stage = "idle" /\ worker[w].todo = <<>> /\ worker[w].op = "none"
    BY DEF Promotion!Idle, Promotion!None
<1>10. PromLocked
    BY <1>9 DEF PromLocked, Transacts, Recovers
<1>11. Known = {}
    BY <1>9 DEF Known, Transacts
<1>12. PromJournaled
    BY <1>11 DEF PromJournaled
<1>13. PromRecorded
    BY DEF PromRecorded
<1>14. KeptOutside({})
    BY PromLasting DEF KeptOutside
<1>15. PromWork
    BY <1>9 DEF PromWork, Transacts, Recovers
<1> QED
    BY <1>6, <1>8, <1>10, <1>12, <1>13, <1>14, <1>15 DEF PromInv

LEMMA PromFits ==
    ASSUME PromJournaled, NEW x \in Known
    PROVE  /\ x \in PromJournals /\ JournalFits(x) /\ x.after # Absent
           /\ x.op = "rollback" => x.before # Absent /\ x.before \notin UserText \cup Original
           /\ x.before # x.after
BY PromAssumed DEF PromJournaled, JournalFits, PromJournals

\* Who has the lock is the only one at work.
LEMMA PromSole ==
    ASSUME PromLocked, NEW w \in Worker, Transacts(w) \/ Recovers(w)
    PROVE  /\ holder = w /\ holder # "none"
           /\ \A v \in Worker \ {w} : ~Transacts(v) /\ ~Recovers(v)
BY PromAssumed DEF PromLocked

LEMMA PromFree ==
    ASSUME PromLocked, holder = "none"
    PROVE  \A v \in Worker : ~Transacts(v) /\ ~Recovers(v)
BY PromAssumed DEF PromLocked

\* The same journal, perhaps half written.
Alike(x, y) ==
    /\ x \in PromJournals
    /\ x.id = y.id /\ x.op = y.op /\ x.cand = y.cand /\ x.rev = y.rev /\ x.before = y.before
    /\ x.ino = y.ino /\ x.after = y.after /\ x.backup = y.backup
Moved(c) ==
    /\ record'[c].rev >= record[c].rev
    /\ \/ record'[c].backup = record[c].backup
       \/ /\ record'[c].rev > record[c].rev
          /\ \E x \in Known : x.cand = c /\ x.backup = record'[c].backup

LEMMA JournalsStill ==
    ASSUME PromJournaled, \A x \in Known' : \E y \in Known : Alike(x, y),
           record \in [Candidate -> PromRecords], record' \in [Candidate -> PromRecords],
           \A c \in Candidate : Moved(c),
           spent'.tx = spent.tx, spent.tx \in Nat,
           \A x \in Known : x.op = "promote" /\ x.backup # 0 =>
                               file'[Promotion!Backup(x)].text \in {Absent, Torn, x.before}
    PROVE  PromJournaled'
<1>1. \A c \in Candidate : record[c].rev \in Nat /\ record'[c].rev \in Nat
    BY DEF PromRecords
<1>2. ASSUME NEW x \in Known'
      PROVE  JournalFits(x)'
    <2>1. PICK y \in Known : Alike(x, y)
        OBVIOUS
    <2>2. y \in PromJournals /\ JournalFits(y)
        BY PromFits
    <2>3. y.rev \in Nat /\ y.cand \in Candidate /\ y.rev <= record'[y.cand].rev
        BY <1>1, <2>2 DEF JournalFits, PromJournals, Moved
    <2> QED
        BY <2>1, <2>2, <2>3 DEF JournalFits, Alike, Promotion!Backup
<1>3. ASSUME NEW x \in Known', NEW y \in Known', x.id = y.id
      PROVE  x.op = y.op /\ x.cand = y.cand /\ x.rev = y.rev
    BY <1>3 DEF PromJournaled, Alike
<1>4. ASSUME NEW y1 \in Known', NEW c \in Candidate, y1.op = "promote", y1.backup # 0, Uses(c, y1.id)'
      PROVE  c = y1.cand /\ y1.rev < record'[c].rev
    <2>1. PICK y \in Known : Alike(y1, y)
        OBVIOUS
    <2>2. y \in PromJournals /\ JournalFits(y) /\ y.op = "promote" /\ y.backup = y.id /\ y.id # 0
        BY <1>4, <2>1, PromFits, PromNumbers DEF JournalFits, PromJournals, Alike
    <2>3. Uses(c, y.id) => c = y.cand /\ y.rev < record[c].rev
        BY <1>4, <2>1, <2>2 DEF PromJournaled, Alike
    <2>4. y.rev \in Nat /\ y.cand \in Candidate /\ y.rev <= record[y.cand].rev
        BY <1>1, <2>2 DEF JournalFits, PromJournals
    <2>5. c = y.cand /\ y.rev < record'[c].rev
        <3>1. CASE Uses(c, y.id)
            BY <1>1, <2>3, <2>4, <3>1 DEF Moved
        <3>2. CASE record'[c].backup = y.id /\ record'[c].backup # record[c].backup
            <4>1. PICK x \in Known : x.cand = c /\ x.backup = y.id /\ record'[c].rev > record[c].rev
                BY <3>2 DEF Moved
            <4>2. x \in PromJournals /\ JournalFits(x)
                BY PromFits
            <4>3. CASE x.op = "rollback"
                BY <3>1, <4>1, <4>3 DEF Uses
            <4>4. CASE x.op = "promote"
                <5>1. x.id = y.id
                    BY <2>2, <4>1, <4>2, <4>4 DEF JournalFits
                <5>2. x.cand = y.cand
                    BY <5>1 DEF PromJournaled
                <5> QED
                    BY <1>1, <2>4, <4>1, <5>2
            <4> QED
                BY <4>2, <4>3, <4>4 DEF PromJournals
        <3>3. CASE \E x \in Known' : x.op = "rollback" /\ x.cand = c /\ x.backup = y.id
            <4>1. \E x \in Known : x.op = "rollback" /\ x.cand = c /\ x.backup = y.id
                BY <3>3 DEF Alike
            <4> QED
                BY <3>1, <4>1 DEF Uses
        <3>4. record'[c].backup = y.id /\ record[c].backup = y.id => Uses(c, y.id)
            BY DEF Uses
        <3> QED
            BY <1>4, <2>1, <3>1, <3>2, <3>3, <3>4 DEF Uses, Alike
    <2> QED
        BY <2>1, <2>5 DEF Alike
<1> QED
    BY <1>2, <1>3, <1>4 DEF PromJournaled

LEMMA RecordsStill ==
    ASSUME PromRecorded, spent'.tx = spent.tx,
           \A c \in Candidate : /\ record'[c].backup = record[c].backup
                                /\ record'[c].state = "promoted" => record[c].state = "promoted",
           \A c \in Candidate : record[c].state = "promoted" /\ Basis[c] # Absent /\ record[c].backup # 0 =>
               file'[<<record[c].backup, "backup">>].text = file[<<record[c].backup, "backup">>].text
    PROVE  PromRecorded'
BY DEF PromRecorded, Backed


-----------------------------------------------------------------------------
(* Actions that leave the disk alone, and those that end in a pause.       *)

PauseStages == {"idle", "recover", "begin"}
\* w goes to a stage where it holds nothing; the others stay what they were.
Pauses(w, x) ==
    /\ x \in PromWorkers /\ worker' = [worker EXCEPT ![w] = x]
    /\ x.stage \in PauseStages /\ x.todo = <<>>
    /\ x.op \in {"promote", "rollback", "review"} => x.cand \in Candidate
    /\ x.stage = "begin" => x.op \in {"promote", "rollback", "review"}
    /\ x.stage # "idle" => x.op # "none"
    /\ holder' \in Worker \cup {"none"}
    /\ \A v \in Worker \ {w} : Transacts(v) \/ Recovers(v) => holder' = v
    /\ spent' \in [calls : Nat, tx : 0 .. MaxCalls, faults : Nat, edits : Nat] /\ spent'.tx = spent.tx
    /\ trouble' \subseteq {"edit", "torn", "overlap"}

LEMMA PromPaused ==
    ASSUME PromTyped, PromLocked, NEW w \in Worker, NEW x, Pauses(w, x)
    PROVE  /\ worker' \in [Worker -> PromWorkers] /\ PromLocked'
           /\ ~Transacts(w)' /\ ~Recovers(w)'
           /\ \A v \in Worker \ {w} : /\ worker'[v] = worker[v]
                                      /\ Transacts(v)' <=> Transacts(v)
                                      /\ Recovers(v)' <=> Recovers(v)
           /\ {worker'[v].j : v \in {u \in Worker : Transacts(u)'}}
                 \subseteq {worker[v].j : v \in {u \in Worker : Transacts(u)}}
<1>1. worker \in [Worker -> PromWorkers]
    BY DEF PromTyped
<1>2. worker'[w] = x /\ \A v \in Worker \ {w} : worker'[v] = worker[v]
    BY <1>1 DEF Pauses
<1>3. worker' \in [Worker -> PromWorkers]
    BY <1>1 DEF Pauses
<1>4. ~Transacts(w)' /\ ~Recovers(w)'
    BY <1>2 DEF Pauses, PauseStages, Transacts, Recovers
<1>5. \A v \in Worker \ {w} : (Transacts(v)' <=> Transacts(v)) /\ (Recovers(v)' <=> Recovers(v))
    BY <1>2 DEF Transacts, Recovers
<1>6. PromLocked'
    BY <1>2, <1>4, <1>5 DEF PromLocked, Pauses
<1>7. {worker'[v].j : v \in {u \in Worker : Transacts(u)'}} \subseteq {worker[v].j : v \in {u \in Worker : Transacts(u)}}
    BY <1>2, <1>4, <1>5
<1> QED
    BY <1>2, <1>3, <1>4, <1>5, <1>6, <1>7

LEMMA PromSameWork ==
    ASSUME PromTyped, NEW v \in Worker, worker'[v] = worker[v], UNCHANGED <<file, journals, owed>>,
           (Transacts(v) => Transacting(v)) /\ (Recovers(v) => Recovering(v))
    PROVE  (Transacts(v)' => Transacting(v)') /\ (Recovers(v)' => Recovering(v)')
<1>1. \A S : KeptOutside(S)' <=> KeptOutside(S)
    BY DEF KeptOutside
<1>2. \A j, p : RunAt(j, p)' <=> RunAt(j, p)
    BY <1>1 DEF RunAt, Exclusive
<1>3. \A j, todo : FixAt(j, todo)' <=> FixAt(j, todo)
    BY <1>1 DEF FixAt
<1>4. \A j, todo, p : Placed(todo, j, p)' <=> Placed(todo, j, p)
    BY DEF Placed
<1> QED
    BY <1>2, <1>3, <1>4 DEF Transacts, Recovers, Transacting, Recovering

LEMMA PromPause ==
    ASSUME PromInv, NEW w \in Worker, NEW x, Pauses(w, x),
           UNCHANGED <<file, journals, record, owed>>
    PROVE  PromInv'
<1> USE DEF PromInv
<1>1. /\ worker' \in [Worker -> PromWorkers] /\ PromLocked'
      /\ ~Transacts(w)' /\ ~Recovers(w)'
      /\ \A v \in Worker \ {w} : worker'[v] = worker[v]
      /\ Known' \subseteq Known
    BY PromPaused DEF Known
<1>2. PromTyped'
    BY <1>1 DEF PromTyped, Pauses, PromFiles, Exclusive
<1>3. PromFresh'
    BY DEF PromFresh, Pauses
<1>4. PromJournaled'
    <2>1. \A x1 \in Known' : \E y \in Known : Alike(x1, y)
        BY <1>1, PromFits DEF Alike
    <2>2. \A c \in Candidate : Moved(c)
        BY DEF Moved, PromTyped, PromRecords
    <2>3. spent.tx \in Nat /\ spent'.tx = spent.tx
        BY PromNumbers DEF PromTyped, Pauses
    <2>4. \A y \in Known : y.op = "promote" /\ y.backup # 0 => file'[Promotion!Backup(y)].text \in {Absent, Torn, y.before}
        BY PromFits DEF JournalFits
    <2> QED
        BY <2>1, <2>2, <2>3, <2>4, JournalsStill DEF PromTyped
<1>5. PromRecorded'
    BY RecordsStill DEF Pauses
<1>6. KeptOutside({})'
    BY DEF KeptOutside
<1>7. PromWork'
    BY <1>1, PromSameWork DEF PromWork
<1> QED
    BY <1>1, <1>2, <1>3, <1>4, <1>5, <1>6, <1>7

\* After these nobody holds the lock: the files may have changed.
LEMMA PromLetGo ==
    ASSUME PromInv, NEW w \in Worker, NEW x, Pauses(w, x), \A v \in Worker \ {w} : ~Transacts(v) /\ ~Recovers(v),
           PromFiles', PromFresh', UNCHANGED <<journals, owed>>,
           record' \in [Candidate -> PromRecords], \A c \in Candidate : Moved(c),
           \A c \in Candidate : /\ record'[c].backup = record[c].backup
                                /\ record'[c].state = "promoted" => record[c].state = "promoted",
           \A k \in Promotion!Tx : file'[<<k, "backup">>] = file[<<k, "backup">>],
           KeptOutside({})'
    PROVE  PromInv'
<1> USE DEF PromInv
<1>1. /\ worker' \in [Worker -> PromWorkers] /\ PromLocked'
      /\ ~Transacts(w)' /\ ~Recovers(w)'
      /\ \A v \in Worker \ {w} : ~Transacts(v)' /\ ~Recovers(v)'
      /\ Known' \subseteq Known
    BY PromPaused DEF Known
<1>2. PromTyped'
    BY <1>1 DEF PromTyped, Pauses
<1>4. PromJournaled'
    <2>1. \A x1 \in Known' : \E y \in Known : Alike(x1, y)
        BY <1>1, PromFits DEF Alike
    <2>3. spent.tx \in Nat /\ spent'.tx = spent.tx
        BY PromNumbers DEF PromTyped, Pauses
    <2>4. \A y \in Known : y.op = "promote" /\ y.backup # 0 => file'[Promotion!Backup(y)].text \in {Absent, Torn, y.before}
        <3> SUFFICES ASSUME NEW y \in Known, y.op = "promote", y.backup # 0
                     PROVE  file'[Promotion!Backup(y)].text \in {Absent, Torn, y.before}
            OBVIOUS
        <3>1. y \in PromJournals /\ JournalFits(y)
            BY PromFits
        <3>2. y.backup \in Promotion!Tx
            BY <3>1, PromNumbers DEF PromJournals
        <3> QED
            BY <3>1, <3>2 DEF JournalFits, Promotion!Backup
    <2> QED
        BY <2>1, <2>3, <2>4, JournalsStill DEF PromTyped
<1>5. PromRecorded'
    <2>1. \A c \in Candidate : record[c].backup # 0 => record[c].backup \in Promotion!Tx
        BY PromNumbers DEF PromTyped, PromRecords
    <2> QED
        BY <2>1, RecordsStill DEF Pauses
<1>7. PromWork'
    BY <1>1 DEF PromWork
<1> QED
    BY <1>1, <1>2, <1>4, <1>5, <1>7


LEMMA PromWorker ==
    ASSUME PromTyped, NEW w \in Worker
    PROVE  /\ worker[w] \in PromWorkers /\ worker \in [Worker -> PromWorkers]
           /\ worker[w].op \in {"none", "promote", "rollback", "review", "recover"}
           /\ worker[w].cand \in Candidate \cup {"none"} /\ worker[w].rev \in Nat
           /\ worker[w].stage \in {"idle", "recover", "recovering", "begin", "running"}
           /\ worker[w].todo \in Seq(CallNames \cup {"relink", "backup"}) /\ worker[w].left \subseteq Promotion!Tx
           /\ worker[w].bad \in BOOLEAN
<1>1. worker[w] \in PromWorkers /\ worker \in [Worker -> PromWorkers]
    BY DEF PromTyped
<1> QED
    BY <1>1 DEF PromWorkers

LEMMA IdleIs ==
    /\ Promotion!Idle \in PromWorkers /\ Promotion!Idle.stage = "idle" /\ Promotion!Idle.todo = <<>>
    /\ Promotion!Idle.op = "none"
<1>1. <<>> \in Seq(CallNames \cup {"relink", "backup"})
    BY EmptySeq
<1> QED
    BY <1>1 DEF Promotion!Idle, Promotion!None, PromWorkers

LEMMA PromSpent ==
    ASSUME PromTyped, NEW what \in {"calls", "faults", "edits"}, spent' = [spent EXCEPT ![what] = @ + 1]
    PROVE  spent' \in [calls : Nat, tx : 0 .. MaxCalls, faults : Nat, edits : Nat] /\ spent'.tx = spent.tx
BY DEF PromTyped

LEMMA PromCalled ==
    ASSUME PromInv, NEW w \in Worker,
           \/ Promotion!Start(w) \/ Promotion!Contended(w) \/ Promotion!Refuse(w)
           \/ \E c \in Candidate, op \in {"promote", "rollback", "review"} : Promotion!Call(w, op, c)
    PROVE  PromInv'
<1> USE DEF PromInv, Promotion!Doing, Promotion!Becomes, Promotion!disk, Promotion!history
<1>1. \A v \in Worker \ {w} : Transacts(v) \/ Recovers(v) => holder = v
    BY DEF PromLocked
<1>2. holder \in Worker \cup {"none"} /\ trouble \subseteq {"edit", "torn", "overlap"}
      /\ spent \in [calls : Nat, tx : 0 .. MaxCalls, faults : Nat, edits : Nat]
    BY DEF PromTyped
<1>3. \A y \in Worker : ~Transacts(y) /\ ~Recovers(y) => worker[y].todo = <<>>
    BY DEF PromLocked
<1>4. CASE Promotion!Start(w)
    <2> DEFINE x == [Promotion!Idle EXCEPT !.op = "recover", !.stage = "recover"]
    <2>1. x \in PromWorkers /\ x.stage = "recover" /\ x.todo = <<>> /\ x.op = "recover"
        BY IdleIs DEF PromWorkers
    <2>2. worker' = [worker EXCEPT ![w] = x] /\ UNCHANGED <<file, journals, record, owed, holder, spent, trouble>>
        BY <1>4 DEF Promotion!Start
    <2> HIDE DEF x
    <2>3. Pauses(w, x)
        BY <1>1, <1>2, <2>1, <2>2 DEF Pauses, PauseStages
    <2> QED
        BY <2>2, <2>3, PromPause
<1>5. CASE Promotion!Contended(w)
    <2> DEFINE x == [worker[w] EXCEPT !.stage = "recover"]
    <2>1. x \in PromWorkers /\ x.stage = "recover" /\ x.todo = worker[w].todo /\ x.op = worker[w].op /\ x.cand = worker[w].cand
        BY PromWorker DEF PromWorkers
    <2>2. worker' = [worker EXCEPT ![w] = x] /\ UNCHANGED <<file, journals, record, owed, holder, spent, trouble>>
        BY <1>5 DEF Promotion!Contended
    <2>3. worker[w].stage = "begin" /\ worker[w].todo = <<>>
        BY <1>3, <1>5 DEF Promotion!Contended, Transacts, Recovers
    <2> HIDE DEF x
    <2>4. Pauses(w, x)
        BY <1>1, <1>2, <2>1, <2>2, <2>3 DEF Pauses, PauseStages, PromLocked
    <2> QED
        BY <2>2, <2>4, PromPause
<1>6. CASE Promotion!Refuse(w)
    <2>1. worker' = [worker EXCEPT ![w] = Promotion!Idle] /\ UNCHANGED <<file, journals, record, owed, holder, spent, trouble>>
        BY <1>6 DEF Promotion!Refuse
    <2>2. Pauses(w, Promotion!Idle)
        BY <1>1, <1>2, <2>1, IdleIs DEF Pauses, PauseStages
    <2> QED
        BY <2>1, <2>2, PromPause
<1>7. ASSUME NEW c \in Candidate, NEW op \in {"promote", "rollback", "review"}, Promotion!Call(w, op, c)
      PROVE  PromInv'
    <2> DEFINE x == [Promotion!Idle EXCEPT !.op = op, !.cand = c, !.stage = "recover"]
    <2>1. x \in PromWorkers /\ x.stage = "recover" /\ x.todo = <<>> /\ x.cand \in Candidate /\ x.op # "none"
        BY IdleIs DEF PromWorkers
    <2>2. worker' = [worker EXCEPT ![w] = x] /\ UNCHANGED <<file, journals, record, owed, holder, trouble>>
          /\ spent' = [spent EXCEPT !["calls"] = @ + 1]
        BY <1>7 DEF Promotion!Call, Promotion!Spend
    <2> HIDE DEF x
    <2>3. Pauses(w, x)
        BY <1>1, <1>2, <2>1, <2>2, PromSpent DEF Pauses, PauseStages
    <2> QED
        BY <2>2, <2>3, PromPause
<1> QED
    BY <1>4, <1>5, <1>6, <1>7

LEMMA PromEnds ==
    ASSUME PromInv, NEW w \in Worker,
           Promotion!EndRecovery(w) \/ Promotion!Finish(w) \/ Promotion!Die(w)
    PROVE  PromInv'
<1> USE DEF PromInv, Promotion!Doing, Promotion!Becomes, Promotion!disk, Promotion!history
<1>1. \A v \in Worker \ {w} : Transacts(v) \/ Recovers(v) => holder = v
    BY DEF PromLocked
<1>2. holder \in Worker \cup {"none"} /\ trouble \subseteq {"edit", "torn", "overlap"}
      /\ spent \in [calls : Nat, tx : 0 .. MaxCalls, faults : Nat, edits : Nat]
    BY DEF PromTyped
<1>3. CASE Promotion!EndRecovery(w)
    <2> DEFINE y == [worker[w] EXCEPT !.stage = "begin", !.j = Promotion!NoJournal, !.rev = record[worker[w].cand].rev]
               x == IF worker[w].bad \/ worker[w].op = "recover" THEN Promotion!Idle ELSE y
    <2>1. worker[w].stage = "recovering" /\ worker[w].todo = <<>> /\ holder' = "none"
          /\ worker' = [worker EXCEPT ![w] = x] /\ UNCHANGED <<file, journals, record, owed, spent, trouble>>
        BY <1>3 DEF Promotion!EndRecovery, Promotion!None
    <2>2. \A v \in Worker \ {w} : ~Transacts(v) /\ ~Recovers(v)
        BY <2>1, PromSole DEF Recovers
    <2>3. CASE worker[w].bad \/ worker[w].op = "recover" \/ worker[w].op = "none"
        <3>1. CASE worker[w].bad \/ worker[w].op = "recover"
            <4>1. Pauses(w, x)
                BY <1>2, <2>1, <2>2, <3>1, IdleIs DEF Pauses, PauseStages
            <4> HIDE DEF x
            <4> QED
                BY <2>1, <4>1, PromPause
        <3>2. CASE worker[w].op = "none"
            BY <2>1, <3>2 DEF PromLocked
        <3> QED
            BY <2>3, <3>1, <3>2
    <2>4. CASE ~(worker[w].bad \/ worker[w].op = "recover") /\ worker[w].op \in {"promote", "rollback", "review"}
        <3>1. worker[w].cand \in Candidate
            BY <2>4 DEF PromLocked
        <3>2. record[worker[w].cand].rev \in Nat
            BY <3>1 DEF PromTyped, PromRecords
        <3>3. y \in PromWorkers /\ y.stage = "begin" /\ y.todo = <<>> /\ y.op = worker[w].op /\ y.cand = worker[w].cand
            BY <2>1, <3>2, PromWorker DEF PromWorkers
        <3>4. x = y
            BY <2>4
        <3> HIDE DEF x, y
        <3>5. Pauses(w, x)
            BY <1>2, <2>1, <2>2, <2>4, <3>1, <3>3, <3>4 DEF Pauses, PauseStages
        <3> QED
            BY <2>1, <3>5, PromPause
    <2> QED
        BY <2>3, <2>4, PromWorker
<1>4. CASE Promotion!Finish(w)
    <2>1. worker[w].stage = "running" /\ holder' = "none" /\ worker' = [worker EXCEPT ![w] = Promotion!Idle]
          /\ UNCHANGED <<file, journals, record, owed, spent, trouble>>
        BY <1>4 DEF Promotion!Finish, Promotion!None
    <2>2. \A v \in Worker \ {w} : ~Transacts(v) /\ ~Recovers(v)
        BY <2>1, PromSole DEF Transacts
    <2>3. Pauses(w, Promotion!Idle)
        BY <1>2, <2>1, <2>2, IdleIs DEF Pauses, PauseStages
    <2> QED
        BY <2>1, <2>3, PromPause
<1>5. CASE Promotion!Die(w)
    <2>1. holder' = (IF holder = w THEN "none" ELSE holder) /\ worker' = [worker EXCEPT ![w] = Promotion!Idle]
          /\ UNCHANGED <<file, journals, record, owed>> /\ trouble' = trouble \cup Promotion!Tear(w)
          /\ spent' = [spent EXCEPT !["faults"] = @ + 1]
        BY <1>5 DEF Promotion!Die, Promotion!None, Promotion!Holding, Promotion!Spend
    <2>2. trouble' \subseteq {"edit", "torn", "overlap"}
        BY <1>2, <2>1 DEF Promotion!Tear
    <2>3. Pauses(w, Promotion!Idle)
        BY <1>1, <1>2, <2>1, <2>2, IdleIs, PromSpent DEF Pauses, PauseStages
    <2> QED
        BY <2>1, <2>3, PromPause
<1> QED
    BY <1>3, <1>4, <1>5


LEMMA PromReview ==
    ASSUME PromInv, NEW w \in Worker, Promotion!Review(w)
    PROVE  PromInv'
<1> DEFINE c == worker[w].cand
<1> USE DEF PromInv
<1>1. /\ worker[w].stage = "begin" /\ holder = "none" /\ worker[w].op = "review"
      /\ worker' = [worker EXCEPT ![w] = Promotion!Idle]
      /\ UNCHANGED <<file, journals, holder, spent, owed>>
    BY DEF Promotion!Review, Promotion!Doing, Promotion!Becomes, Promotion!None
<1>2. /\ \/ /\ record' = [record EXCEPT ![c].state = Promotion!Reviewed(@), ![c].rev = @ + 1]
            /\ record[c].state \in {"validated", "rejected"}
         \/ record' = record
      /\ trouble' = trouble \/ trouble' = trouble \cup Promotion!Overlap
    BY DEF Promotion!Review
<1>3. c \in Candidate /\ \A v \in Worker : ~Transacts(v) /\ ~Recovers(v)
    BY <1>1, PromFree DEF PromLocked
<1>4. Pauses(w, Promotion!Idle)
    BY <1>1, <1>2, <1>3, IdleIs DEF Pauses, PauseStages, PromTyped, Promotion!Overlap
<1>5. /\ record' \in [Candidate -> PromRecords]
      /\ \A d \in Candidate : /\ record'[d].backup = record[d].backup /\ record'[d].rev >= record[d].rev
                              /\ record'[d].state = "promoted" => record[d].state = "promoted"
    <2>0. record \in [Candidate -> PromRecords] /\ \A d \in Candidate : record[d] \in PromRecords
        BY DEF PromTyped
    <2>1. CASE record' = record
        BY <2>0, <2>1 DEF PromRecords
    <2>2. CASE /\ record' = [record EXCEPT ![c].state = Promotion!Reviewed(@), ![c].rev = @ + 1]
               /\ record[c].state \in {"validated", "rejected"}
        <3> DEFINE r == record[c]
                   s == Promotion!Reviewed(r.state)
        <3>1. s \in {"validated", "rejected"}
            BY DEF Promotion!Reviewed
        <3>2. record'[c] = [r EXCEPT !.state = s, !.rev = r.rev + 1]
              /\ \A d \in Candidate \ {c} : record'[d] = record[d]
            BY <1>3, <2>0, <2>2
        <3>3. r \in PromRecords
            BY <1>3, <2>0
        <3> HIDE DEF c, r, s
        <3>4. /\ record'[c] \in PromRecords /\ record'[c].backup = r.backup
              /\ record'[c].rev = r.rev + 1 /\ record'[c].state # "promoted" /\ r.rev \in Nat
            <4>1. r.rev \in Nat /\ r.backup \in 0 .. MaxCalls /\ r = [state |-> r.state, rev |-> r.rev, backup |-> r.backup]
                BY <3>3 DEF PromRecords
            <4>2. record'[c] = [state |-> s, rev |-> r.rev + 1, backup |-> r.backup]
                BY <3>2, <4>1
            <4> QED
                BY <3>1, <4>1, <4>2 DEF PromRecords
        <3>5. record' \in [Candidate -> PromRecords]
            BY <1>3, <2>0, <2>2, <3>2, <3>4
        <3>6. \A d \in Candidate : record[d].rev \in Nat
            BY <2>0 DEF PromRecords
        <3>7. record'[c].backup = record[c].backup /\ record'[c].rev = record[c].rev + 1
            BY <3>4 DEF r
        <3>8. ASSUME NEW d \in Candidate
              PROVE  /\ record'[d].backup = record[d].backup /\ record'[d].rev >= record[d].rev
                     /\ record'[d].state = "promoted" => record[d].state = "promoted"
            <4>1. CASE d = c
                <5>1. record[c].rev \in Nat /\ record[c].rev + 1 >= record[c].rev
                    BY <3>6, <4>1
                <5> QED
                    BY <3>4, <3>7, <4>1, <5>1
            <4>2. CASE d # c
                BY <3>2, <3>6, <4>2
            <4> QED
                BY <4>1, <4>2
        <3> QED
            BY <3>5, <3>8
    <2> QED
        BY <1>2, <2>1, <2>2
<1>6. PromFiles' /\ PromFresh' /\ KeptOutside({})'
    BY <1>1 DEF PromTyped, PromFiles, Exclusive, PromFresh, KeptOutside
<1>7. \A d \in Candidate : Moved(d)
    BY <1>5 DEF Moved
<1> QED
    BY <1>1, <1>3, <1>4, <1>5, <1>6, <1>7, PromLetGo

-----------------------------------------------------------------------------
(* The lock is taken, or kept.                                             *)

Works(w, x) ==
    /\ x \in PromWorkers /\ worker' = [worker EXCEPT ![w] = x]
    /\ x.stage \in {"recovering", "running"} /\ x.op # "none"
    /\ x.op \in {"promote", "rollback", "review"} => x.cand \in Candidate
    /\ holder' = w
    /\ spent' \in [calls : Nat, tx : 0 .. MaxCalls, faults : Nat, edits : Nat]
    /\ trouble' \subseteq {"edit", "torn", "overlap"}
    /\ \A v \in Worker \ {w} : ~Transacts(v) /\ ~Recovers(v)

LEMMA PromWorks ==
    ASSUME PromTyped, PromLocked, NEW w \in Worker, NEW x, Works(w, x)
    PROVE  /\ worker' \in [Worker -> PromWorkers] /\ PromLocked' /\ worker'[w] = x
           /\ \A v \in Worker \ {w} : ~Transacts(v)' /\ ~Recovers(v)'
           /\ x.stage = "recovering" => Known' = journals' /\ Recovers(w)' /\ ~Transacts(w)'
           /\ x.stage = "running" => Known' = journals' \cup {x.j} /\ Transacts(w)' /\ ~Recovers(w)'
<1>1. worker \in [Worker -> PromWorkers]
    BY DEF PromTyped
<1>2. worker'[w] = x /\ \A v \in Worker \ {w} : worker'[v] = worker[v]
    BY <1>1 DEF Works
<1>3. worker' \in [Worker -> PromWorkers]
    BY <1>1 DEF Works
<1>4. \A v \in Worker \ {w} : ~Transacts(v)' /\ ~Recovers(v)'
    BY <1>2 DEF Works, Transacts, Recovers
<1>5. PromLocked'
    BY <1>2, <1>4 DEF PromLocked, Works, Transacts, Recovers
<1>6. x.stage = "recovering" => Known' = journals' /\ Recovers(w)' /\ ~Transacts(w)'
    BY <1>2, <1>4 DEF Known, Transacts, Recovers
<1>7. x.stage = "running" => Known' = journals' \cup {x.j} /\ Transacts(w)' /\ ~Recovers(w)'
    BY <1>2, <1>4 DEF Known, Transacts, Recovers
<1> QED
    BY <1>2, <1>3, <1>4, <1>5, <1>6, <1>7

LEMMA PromGoesOn ==
    ASSUME PromInv, NEW w \in Worker, NEW x, Works(w, x),
           PromFiles', PromFresh', journals' \subseteq PromJournals, record' \in [Candidate -> PromRecords],
           owed' = owed, PromJournaled', PromRecorded', KeptOutside({})',
           x.stage = "running" => Transacting(w)', x.stage = "recovering" => Recovering(w)'
    PROVE  PromInv'
<1> USE DEF PromInv
<1>1. /\ worker' \in [Worker -> PromWorkers] /\ PromLocked'
      /\ \A v \in Worker \ {w} : ~Transacts(v)' /\ ~Recovers(v)'
      /\ x.stage = "recovering" => ~Transacts(w)'
      /\ x.stage = "running" => ~Recovers(w)'
    BY PromWorks
<1>2. PromTyped'
    BY <1>1 DEF PromTyped, Works
<1>3. PromWork'
    BY <1>1 DEF PromWork, Works
<1> QED
    BY <1>1, <1>2, <1>3

\* The disk is as it was, and only w works.
LEMMA PromTurns ==
    ASSUME PromInv, NEW w \in Worker, NEW x, Works(w, x), x.stage = "recovering",
           UNCHANGED <<file, journals, record, owed>>, spent'.tx = spent.tx,
           Recovering(w)'
    PROVE  PromInv'
<1> USE DEF PromInv
<1>1. Known' \subseteq Known
    BY PromWorks DEF Known
<1>2. PromFiles' /\ PromFresh' /\ KeptOutside({})' /\ journals' \subseteq PromJournals
      /\ record' \in [Candidate -> PromRecords]
    BY DEF PromTyped, PromFiles, Exclusive, PromFresh, KeptOutside
<1>3. PromJournaled'
    <2>1. \A x1 \in Known' : \E y \in Known : Alike(x1, y)
        BY <1>1, PromFits DEF Alike
    <2>2. \A c \in Candidate : Moved(c)
        BY DEF Moved, PromTyped, PromRecords
    <2>3. spent.tx \in Nat
        BY PromNumbers DEF PromTyped
    <2>4. \A y \in Known : y.op = "promote" /\ y.backup # 0 => file'[Promotion!Backup(y)].text \in {Absent, Torn, y.before}
        BY PromFits DEF JournalFits
    <2> QED
        BY <2>1, <2>2, <2>3, <2>4, JournalsStill DEF PromTyped
<1>4. PromRecorded'
    BY RecordsStill
<1> QED
    BY <1>2, <1>3, <1>4, PromGoesOn

LEMMA PromScans ==
    ASSUME PromInv, NEW w \in Worker, Promotion!BeginRecovery(w)
    PROVE  PromInv'
<1> DEFINE x == [worker[w] EXCEPT !.stage = "recovering", !.bad = FALSE, !.left = {j.id : j \in journals}]
<1> USE DEF PromInv
<1>1. /\ worker[w].stage = "recover" /\ holder = "none" /\ holder' = w
      /\ worker' = [worker EXCEPT ![w] = x]
      /\ UNCHANGED <<file, journals, record, spent, owed, trouble>>
    BY DEF Promotion!BeginRecovery, Promotion!Doing, Promotion!Becomes, Promotion!None, Promotion!disk, Promotion!history
<1>2. \A v \in Worker : ~Transacts(v) /\ ~Recovers(v)
    BY <1>1, PromFree
<1>3. worker[w].todo = <<>> /\ worker[w].op # "none"
    BY <1>1, <1>2 DEF PromLocked
<1>4. {j.id : j \in journals} \subseteq Promotion!Tx
    BY DEF PromTyped, PromJournals
<1>5. x \in PromWorkers /\ x.stage = "recovering" /\ x.todo = <<>> /\ x.op = worker[w].op /\ x.cand = worker[w].cand
      /\ x.left = {j.id : j \in journals}
    BY <1>3, <1>4, PromWorker DEF PromWorkers
<1> HIDE DEF x
<1>6. Works(w, x)
    BY <1>1, <1>2, <1>3, <1>5 DEF Works, PromTyped, PromLocked
<1>7. Recovering(w)'
    BY <1>1, <1>5, PromWorks, <1>6 DEF Recovering
<1> QED
    BY <1>1, <1>5, <1>6, <1>7, PromTurns


-----------------------------------------------------------------------------
(* Recovery judges a journal.                                              *)

LEMMA LeastOf ==
    ASSUME NEW T, T \subseteq Nat, T # {}
    PROVE  \E i \in T : \A k \in T : i <= k
<1>1. PICK i \in T : \A k \in T : ~ (<<k, i>> \in OpToRel(<, Nat))
    BY NatLessThanWellFounded, WFMin
<1>2. \A k \in T : ~ (k < i)
    BY <1>1 DEF OpToRel
<1> QED
    BY <1>2

\* A journal that is not unresolved was written whole; its swap is what it says.
LEMMA VerdictIs ==
    ASSUME PromTyped, NEW j \in journals
    PROVE  LET v == Promotion!Verdict(j)
               t == file[Promotion!Target]
               s == file[Promotion!Swap(j)]
           IN /\ v \in {"unresolved", "restore", "clean", "apply", "committed"}
              /\ v # "unresolved" =>
                    /\ j.whole /\ Promotion!Bound(j)
                    /\ s = Promotion!NoFile \/ s = Promotion!Before(j)
                    /\ file[Promotion!Prepared(j)].text \in {Absent, j.after}
              /\ v = "restore" => t = Promotion!NoFile /\ s # Promotion!NoFile
              /\ v = "clean" => t = Promotion!Before(j)
              /\ v = "apply" => /\ t.text = j.after /\ record[j.cand].rev = j.rev
                                /\ j.before # Absent => Promotion!BackupHolds(j)
              /\ v = "committed" => t.text = j.after /\ record[j.cand].rev # j.rev
BY DEF Promotion!Verdict, Promotion!ThirdState

LEMMA FixesIs ==
    ASSUME NEW j
    PROVE  LET v == Promotion!Verdict(j) IN
           /\ Promotion!Fixes(j) \in Seq(CallNames \cup {"relink", "backup"})
           /\ v = "restore" => Promotion!Fixes(j) = Relinking
           /\ v = "clean" => Promotion!Fixes(j) = <<"swap", "prepared", "backup", "forget">>
           /\ v = "apply" => Promotion!Fixes(j) = Applying
           /\ v = "committed" => Promotion!Fixes(j) = <<"swap", "prepared", "forget">>
           /\ v \notin {"restore", "clean", "apply", "committed"} => Promotion!Fixes(j) = <<>>
<1> DEFINE v == Promotion!Verdict(j)
<1>1. /\ v = "restore" => Promotion!Fixes(j) = Relinking
      /\ v = "clean" => Promotion!Fixes(j) = <<"swap", "prepared", "backup", "forget">>
      /\ v = "apply" => Promotion!Fixes(j) = Applying
      /\ v = "committed" => Promotion!Fixes(j) = <<"swap", "prepared", "forget">>
      /\ v \notin {"restore", "clean", "apply", "committed"} => Promotion!Fixes(j) = <<>>
    BY DEF Promotion!Fixes, Relinking, Applying
<1>2. /\ Relinking \in Seq(CallNames \cup {"relink", "backup"}) /\ Applying \in Seq(CallNames \cup {"relink", "backup"})
      /\ <<"swap", "prepared", "backup", "forget">> \in Seq(CallNames \cup {"relink", "backup"})
      /\ <<"swap", "prepared", "forget">> \in Seq(CallNames \cup {"relink", "backup"})
      /\ <<>> \in Seq(CallNames \cup {"relink", "backup"})
    <2>1. Relinking \in Seq(CallNames \cup {"relink", "backup"})
        BY DEF Relinking, CallNames
    <2>2. Applying \in Seq(CallNames \cup {"relink", "backup"})
        BY DEF Applying, CallNames
    <2>3. <<"swap", "prepared", "backup", "forget">> \in Seq(CallNames \cup {"relink", "backup"})
        BY DEF CallNames
    <2>4. <<"swap", "prepared", "forget">> \in Seq(CallNames \cup {"relink", "backup"})
        BY DEF CallNames
    <2>5. <<>> \in Seq(CallNames \cup {"relink", "backup"})
        BY EmptySeq
    <2> QED
        BY <2>1, <2>2, <2>3, <2>4, <2>5
<1> QED
    BY <1>1, <1>2

LEMMA PromJournal ==
    ASSUME PromInv, NEW j \in journals
    PROVE  /\ j \in Known /\ j \in PromJournals /\ JournalFits(j) /\ j.after # Absent /\ j.before # j.after
           /\ j.op = "rollback" => j.before # Absent /\ j.before \notin UserText \cup Original
           /\ j.cand \in Candidate /\ j.op \in {"promote", "rollback"} /\ j.id \in Promotion!Tx
           /\ j.backup # 0 => j.backup \in Promotion!Tx
<1>1. j \in Known
    BY DEF Known
<1>2. j \in PromJournals /\ JournalFits(j) /\ j.after # Absent /\ j.before # j.after
      /\ (j.op = "rollback" => j.before # Absent /\ j.before \notin UserText \cup Original)
    BY <1>1, PromFits DEF PromInv
<1>3. j.cand \in Candidate /\ j.op \in {"promote", "rollback"} /\ j.id \in Promotion!Tx
      /\ (j.backup # 0 => j.backup \in Promotion!Tx)
    BY <1>2, PromNumbers DEF PromJournals
<1> QED
    BY <1>1, <1>2, <1>3

LEMMA Fixable ==
    ASSUME PromInv, NEW j \in journals, Promotion!Fixes(j) # <<>>
    PROVE  j.whole /\ FixAt(j, Promotion!Fixes(j))
<1> DEFINE v == Promotion!Verdict(j)
           t == file[Promotion!Target]
           s == file[Promotion!Swap(j)]
<1> USE DEF PromInv
<1>1. /\ j \in Known /\ j \in PromJournals /\ JournalFits(j) /\ j.before # j.after
      /\ j.op = "rollback" => j.before # Absent /\ j.before \notin UserText \cup Original
      /\ j.cand \in Candidate /\ j.op \in {"promote", "rollback"} /\ j.id \in Promotion!Tx
      /\ j.backup # 0 => j.backup \in Promotion!Tx
    BY PromJournal
<1>2. v \in {"restore", "clean", "apply", "committed"}
    BY FixesIs
<1>3. j.whole /\ Promotion!Bound(j) /\ (s = Promotion!NoFile \/ s = Promotion!Before(j))
    BY <1>2, VerdictIs
<1>4. /\ Promotion!Target \in Lasting /\ Promotion!Target \notin Doomed(j) /\ Promotion!Target # Promotion!Swap(j)
      /\ Promotion!Target \in Promotion!Name /\ Promotion!Swap(j) \in Promotion!Name
      /\ \A k \in Promotion!Tx : /\ <<k, "backup">> \in Lasting /\ <<k, "backup">> # Promotion!Swap(j)
                                 /\ <<k, "backup">> \in Promotion!Name
      /\ \A k : <<k, "backup">> # Promotion!Swap(j)
    BY <1>1, PromLasting, PromNames, PromNumbers, PromBackup DEF Doomed, Promotion!Swap, Promotion!Backup, Promotion!Target
<1>5. \A x \in owed : x # Absent /\ x # Torn /\ x \in UserText \cup Original
    BY PromAssumed DEF PromTyped
<1>6. Promotion!NoFile.ino = 0 /\ Promotion!NoFile.text = Absent
      /\ (j.before = Absent => Promotion!Before(j) = Promotion!NoFile)
      /\ (j.before # Absent => Promotion!Before(j).text = j.before /\ Promotion!Before(j).ino = j.ino)
    BY NoFileFits DEF Promotion!Before
<1>7. \A x \in owed : s.text = x => s = Promotion!Before(j) /\ j.before = x
    BY <1>3, <1>5, <1>6
<1>8. CASE v = "restore"
    <2>1. t = Promotion!NoFile /\ s # Promotion!NoFile
        BY <1>8, VerdictIs
    <2>2. s = Promotion!Before(j) /\ j.before # Absent /\ s.text = j.before
        BY <1>3, <1>6, <2>1
    <2>3. s.ino # 0 /\ t.ino = 0
        BY <1>4, <1>6, <2>1, FileIs DEF PromTyped
    <2> QED
        BY <1>3, <1>8, <2>2, <2>3, FixesIs DEF FixAt
<1>9. CASE v = "clean"
    <2>1. t = Promotion!Before(j)
        BY <1>9, VerdictIs
    <2>2. KeptOutside(Doomed(j))
        <3> SUFFICES ASSUME NEW x \in owed
                     PROVE  \E n \in Lasting \ Doomed(j) : file[n].text = x
            BY DEF KeptOutside
        <3>1. PICK n \in Lasting : file[n].text = x
            BY DEF KeptOutside
        <3>2. CASE n \notin Doomed(j)
            BY <3>1, <3>2
        <3>3. CASE n = Promotion!Swap(j)
            BY <1>4, <1>7, <2>1, <3>1, <3>3
        <3>4. CASE j.op = "promote" /\ j.backup # 0 /\ n = Promotion!Backup(j)
            <4>1. j.before = x
                BY <1>1, <1>5, <3>1, <3>4 DEF JournalFits
            <4> QED
                BY <1>4, <1>5, <1>6, <2>1, <4>1
        <3> QED
            BY <3>2, <3>3, <3>4 DEF Doomed
    <2> QED
        BY <1>3, <1>9, <2>2, FixesIs DEF FixAt, Clearing
<1>10. CASE v = "apply"
    <2>1. j.before # Absent => Promotion!BackupHolds(j)
        BY <1>10, VerdictIs
    <2>2. j.op = "promote" /\ j.before # Absent => j.backup # 0 /\ file[Promotion!Backup(j)].text = j.before
        BY <2>1 DEF Promotion!BackupHolds
    <2>3. KeptOutside({Promotion!Swap(j)})
        <3> SUFFICES ASSUME NEW x \in owed
                     PROVE  \E n \in Lasting \ {Promotion!Swap(j)} : file[n].text = x
            BY DEF KeptOutside
        <3>1. PICK n \in Lasting : file[n].text = x
            BY DEF KeptOutside
        <3>2. CASE n = Promotion!Swap(j)
            <4>1. j.before = x /\ j.before # Absent /\ j.op = "promote"
                BY <1>1, <1>5, <1>7, <3>1, <3>2
            <4> QED
                BY <1>1, <1>4, <2>2, <4>1 DEF Promotion!Backup
        <3> QED
            BY <3>1, <3>2
    <2> QED
        BY <1>3, <1>10, <2>2, <2>3, FixesIs DEF FixAt
<1>11. CASE v = "committed"
    <2>1. record[j.cand].rev # j.rev
        BY <1>11, VerdictIs
    <2>2. j.op = "promote" => record[j.cand].state = "promoted"
        BY <1>3, <2>1 DEF Promotion!Bound, Promotion!Done
    <2>3. KeptOutside({Promotion!Swap(j)})
        <3> SUFFICES ASSUME NEW x \in owed
                     PROVE  \E n \in Lasting \ {Promotion!Swap(j)} : file[n].text = x
            BY DEF KeptOutside
        <3>1. PICK n \in Lasting : file[n].text = x
            BY DEF KeptOutside
        <3>2. CASE n = Promotion!Swap(j)
            <4>1. j.before = x /\ j.before # Absent /\ j.op = "promote" /\ j.before = Basis[j.cand]
                BY <1>1, <1>5, <1>7, <3>1, <3>2 DEF JournalFits
            <4>2. Backed(j.cand)
                BY <1>1, <2>2, <4>1 DEF PromRecorded
            <4>3. record[j.cand].backup \in Promotion!Tx
                BY <1>1, <4>2, PromNumbers DEF PromTyped, PromRecords, Backed
            <4> QED
                BY <1>4, <4>1, <4>2, <4>3 DEF Backed
        <3> QED
            BY <3>1, <3>2
    <2> QED
        BY <1>3, <1>11, <2>3, FixesIs DEF FixAt, Sweeping
<1> QED
    BY <1>2, <1>8, <1>9, <1>10, <1>11

LEMMA PromDecides ==
    ASSUME PromInv, NEW w \in Worker, Promotion!Decide(w)
    PROVE  PromInv'
<1> DEFINE id == CHOOSE i \in worker[w].left : \A k \in worker[w].left : i <= k
           j == CHOOSE y \in journals : y.id = id
           x == [worker[w] EXCEPT !.left = @ \ {id}, !.j = j, !.todo = Promotion!Fixes(j),
                                  !.bad = @ \/ Promotion!Verdict(j) = "unresolved"]
<1> USE DEF PromInv
<1>1. /\ worker[w].stage = "recovering" /\ worker[w].left # {}
      /\ worker' = [worker EXCEPT ![w] = x]
      /\ UNCHANGED <<file, journals, record, holder, spent, owed, trouble>>
    BY DEF Promotion!Decide, Promotion!Doing, Promotion!Becomes, Promotion!disk, Promotion!history
<1>2. Recovers(w) /\ Recovering(w) /\ holder = w /\ \A v \in Worker \ {w} : ~Transacts(v) /\ ~Recovers(v)
    BY <1>1, PromSole DEF Recovers, PromWork
<1>3. id \in worker[w].left
    <2>1. worker[w].left \subseteq Nat
        BY PromWorker, PromNumbers
    <2>2. \E i \in worker[w].left : \A k \in worker[w].left : i <= k
        BY <1>1, <2>1, LeastOf
    <2> QED
        BY <2>2
<1>4. j \in journals /\ j.id = id
    BY <1>2, <1>3 DEF Recovering
<1> HIDE DEF id, j
<1>5. /\ x \in PromWorkers /\ x.stage = "recovering" /\ x.op = worker[w].op /\ x.cand = worker[w].cand
      /\ x.left = worker[w].left \ {id} /\ x.todo = Promotion!Fixes(j) /\ x.j = j
    <2>1. j \in PromJournals /\ Promotion!Fixes(j) \in Seq(CallNames \cup {"relink", "backup"})
        BY <1>4, FixesIs DEF PromTyped
    <2>2. (worker[w].bad \/ Promotion!Verdict(j) = "unresolved") \in BOOLEAN
        BY PromWorker
    <2> QED
        BY <1>1, <2>1, <2>2, PromWorker DEF PromWorkers
<1> HIDE DEF x
<1>6. Works(w, x)
    BY <1>1, <1>2, <1>5 DEF Works, PromTyped, PromLocked
<1>7. Promotion!Fixes(j) # <<>> => j.whole /\ FixAt(j, Promotion!Fixes(j))
    BY <1>4, Fixable
<1>8. Recovering(w)'
    <2>1. worker'[w] = x
        BY <1>6, PromWorks
    <2>2. \A y, todo : FixAt(y, todo)' <=> FixAt(y, todo)
        <3>1. \A S : KeptOutside(S)' <=> KeptOutside(S)
            BY <1>1 DEF KeptOutside
        <3> QED
            BY <1>1, <3>1 DEF FixAt
    <2> QED
        BY <1>1, <1>2, <1>4, <1>5, <1>7, <2>1, <2>2 DEF Recovering
<1> QED
    BY <1>1, <1>5, <1>6, <1>8, PromTurns


-----------------------------------------------------------------------------
(* A transaction begins.                                                   *)

LEMMA NewJournal ==
    ASSUME PromInv, NEW c \in Candidate, NEW op \in {"promote", "rollback"}, spent.tx < MaxCalls,
           op = "promote" => Promotion!Promotable(c), op = "rollback" => Promotion!Revertible(c)
    PROVE  LET j == Promotion!Journal(op, c) IN
           /\ j \in PromJournals /\ j.whole /\ j.id = spent.tx + 1 /\ j.op = op /\ j.cand = c /\ j.rev = record[c].rev
           /\ op = "promote" => /\ j.before = Basis[c] /\ j.after = Proposal[c]
                                /\ j.backup = IF j.before = Absent THEN 0 ELSE j.id
           /\ op = "rollback" => /\ j.before = Proposal[c] /\ j.after = Basis[c] /\ j.after # Absent
                                 /\ j.backup = record[c].backup /\ j.backup # 0 /\ j.backup <= spent.tx
           /\ j.before = file[Promotion!Target].text /\ j.ino = file[Promotion!Target].ino
           /\ j.before = Absent <=> j.ino = 0
<1> DEFINE t == file[Promotion!Target]
           j == Promotion!Journal(op, c)
<1> USE DEF PromInv
<1>1. /\ Promotion!Target \in Promotion!Name /\ t.ino \in 0 .. (3 * MaxCalls + 2) /\ t.text \in PublishTexts
      /\ t.text = Absent <=> t.ino = 0
    <2>1. Promotion!Target \in Promotion!Name
        BY DEF Promotion!Name
    <2> QED
        BY <2>1, FileIs DEF PromTyped
<1>2. /\ record[c].rev \in Nat /\ record[c].backup \in 0 .. MaxCalls /\ record[c].backup <= spent.tx
      /\ record[c].backup # 0 => Basis[c] # Absent
    BY DEF PromTyped, PromRecords, PromRecorded
<1>3. spent.tx \in Nat /\ spent.tx + 1 \in Promotion!Tx /\ spent.tx + 1 \in 0 .. MaxCalls
    BY PromNumbers DEF PromTyped
<1>4. Basis[c] \in PublishTexts /\ Proposal[c] \in PublishTexts
    BY PromTexts
<1>5. j = [id |-> spent.tx + 1, whole |-> TRUE, op |-> op, cand |-> c, rev |-> record[c].rev,
           before |-> t.text, ino |-> t.ino,
           after |-> IF op = "promote" THEN Proposal[c] ELSE Basis[c],
           backup |-> IF op = "rollback" THEN record[c].backup
                      ELSE IF Basis[c] = Absent THEN 0 ELSE spent.tx + 1]
    BY DEF Promotion!Journal
<1> HIDE DEF j, t
<1>6. CASE op = "promote"
    <2>1. t.text = Basis[c]
        BY <1>6 DEF Promotion!Promotable, t
    <2>2. j = [id |-> spent.tx + 1, whole |-> TRUE, op |-> op, cand |-> c, rev |-> record[c].rev,
               before |-> t.text, ino |-> t.ino, after |-> Proposal[c],
               backup |-> IF Basis[c] = Absent THEN 0 ELSE spent.tx + 1]
        BY <1>5, <1>6
    <2>3. j \in PromJournals
        <3>1. (IF Basis[c] = Absent THEN 0 ELSE spent.tx + 1) \in 0 .. MaxCalls
            BY <1>3, PromNumbers
        <3> QED
            BY <1>1, <1>2, <1>3, <1>4, <2>2, <3>1 DEF PromJournals
    <2> QED
        BY <1>1, <1>6, <2>1, <2>2, <2>3 DEF j, t
<1>7. CASE op = "rollback"
    <2>1. t.text = Proposal[c] /\ record[c].backup # 0
        BY <1>7 DEF Promotion!Revertible, t
    <2>2. j = [id |-> spent.tx + 1, whole |-> TRUE, op |-> op, cand |-> c, rev |-> record[c].rev,
               before |-> t.text, ino |-> t.ino, after |-> Basis[c], backup |-> record[c].backup]
        BY <1>5, <1>7
    <2>3. j \in PromJournals
        BY <1>1, <1>2, <1>3, <1>4, <2>2 DEF PromJournals
    <2> QED
        BY <1>1, <1>2, <1>7, <2>1, <2>2, <2>3 DEF j, t
<1> QED
    BY <1>6, <1>7

LEMMA PromBegins ==
    ASSUME PromInv, NEW w \in Worker, Promotion!Begin(w)
    PROVE  PromInv'
<1> DEFINE c == worker[w].cand
           op == worker[w].op
           jj == Promotion!Journal(op, c)
<1> USE DEF PromInv
<1>1. /\ worker[w].stage = "begin" /\ holder = "none" /\ spent.tx < MaxCalls /\ holder' = w
      /\ op \in {"promote", "rollback"}
      /\ op = "promote" => Promotion!Promotable(c)
      /\ op = "rollback" => Promotion!Revertible(c)
      /\ worker' = [worker EXCEPT ![w] = [worker[w] EXCEPT !.stage = "running", !.j = jj, !.todo = Promotion!Script(jj)]]
      /\ trouble' = trouble \cup Promotion!Overlap
      /\ spent' = [spent EXCEPT !["tx"] = @ + 1]
      /\ UNCHANGED <<file, journals, record, owed>>
    BY DEF Promotion!Begin, Promotion!Doing, Promotion!Becomes, Promotion!None, Promotion!disk, Promotion!Spend
<1>2. \A v \in Worker : ~Transacts(v) /\ ~Recovers(v)
    BY <1>1, PromFree
<1>3. Known = journals
    BY <1>2 DEF Known
<1>4. c \in Candidate /\ spent.tx \in Nat
    BY <1>1, PromNumbers DEF PromLocked, PromTyped
<1>5. PICK j : j = jj
    OBVIOUS
<1>6. /\ j \in PromJournals /\ j.whole /\ j.id = spent.tx + 1 /\ j.op = op /\ j.cand = c /\ j.rev = record[c].rev
      /\ op = "promote" => /\ j.before = Basis[c] /\ j.after = Proposal[c]
                           /\ j.backup = IF j.before = Absent THEN 0 ELSE j.id
      /\ op = "rollback" => /\ j.before = Proposal[c] /\ j.after = Basis[c] /\ j.after # Absent
                            /\ j.backup = record[c].backup /\ j.backup # 0 /\ j.backup <= spent.tx
      /\ j.before = Absent <=> j.ino = 0
    BY <1>1, <1>4, <1>5, NewJournal
<1>7. op = "rollback" => j.before # Absent
    BY <1>4, <1>6, PromAssumed
<1>8. PICK x : x = [worker[w] EXCEPT !.stage = "running", !.j = j, !.todo = Promotion!Script(j)]
    OBVIOUS
<1> HIDE DEF c, op, jj
<1>9. Placed(Promotion!Script(j), j, 1) /\ Promotion!Script(j) \in Seq(CallNames)
    BY <1>6, <1>7, PromPlaces, PromScript
<1>10. Promotion!Script(j) \in Seq(CallNames \cup {"relink", "backup"})
    BY <1>9 
<1>11. /\ x \in PromWorkers /\ x.stage = "running" /\ x.op = op /\ x.cand = c /\ x.j = j /\ x.todo = Promotion!Script(j)
       /\ worker' = [worker EXCEPT ![w] = x]
    BY <1>1, <1>5, <1>6, <1>8, <1>10, PromWorker DEF PromWorkers, op, c
<1>12. spent' \in [calls : Nat, tx : 0 .. MaxCalls, faults : Nat, edits : Nat] /\ spent'.tx = spent.tx + 1
    BY <1>1, PromNumbers DEF PromTyped
<1>13. Works(w, x)
    BY <1>1, <1>2, <1>4, <1>11, <1>12 DEF Works, PromTyped, Promotion!Overlap
<1>14. Known' = journals \cup {j}
    BY <1>1, <1>11, <1>13, PromWorks
<1>15. PromFiles' /\ PromFresh' /\ KeptOutside({})' /\ journals' \subseteq PromJournals
       /\ record' \in [Candidate -> PromRecords]
    BY <1>1, <1>4, <1>12 DEF PromTyped, PromFiles, Exclusive, PromFresh, KeptOutside, Promotion!Tx
<1>16. PromRecorded'
    BY <1>1, <1>4, <1>12 DEF PromRecorded, Backed, PromTyped, PromRecords
<1>17. /\ \A k \in Promotion!Tx : k > spent.tx => k \in Promotion!Tx /\ <<k, "backup">> \in Promotion!Name
       /\ j.id \in Promotion!Tx /\ j.id > spent.tx
    BY <1>4, <1>6, PromBackup DEF PromJournals
<1>18. /\ file[Promotion!Swap(j)].ino = 0 /\ file[Promotion!Prepared(j)].ino = 0
       /\ op = "promote" /\ j.before # Absent => /\ file[Promotion!Backup(j)].ino = 0
                                                 /\ file[Promotion!Backup(j)].text = Absent
    <2>1. file[<<j.id, "swap">>].ino = 0 /\ file[<<j.id, "prepared">>].ino = 0 /\ file[<<j.id, "backup">>].ino = 0
        BY <1>17 DEF PromFresh
    <2>2. file[<<j.id, "backup">>].text = Absent
        BY <1>17, <2>1, FileIs DEF PromTyped
    <2> QED
        BY <1>6, <2>1, <2>2 DEF Promotion!Swap, Promotion!Prepared, Promotion!Backup
<1>19. JournalFits(j)'
    <2>1. j.backup <= spent.tx + 1 /\ j.rev <= record[c].rev
        <3>1. record[c].rev \in Nat
            BY <1>4 DEF PromTyped, PromRecords
        <3>2. j.backup <= spent.tx + 1
            <4>1. CASE op = "promote"
                <5>1. j.backup = 0 \/ j.backup = spent.tx + 1
                    BY <1>6, <4>1
                <5> QED
                    BY <1>4, <5>1
            <4>2. CASE op = "rollback"
                <5>1. j.backup \in Nat
                    BY <1>6, PromNumbers DEF PromJournals
                <5> QED
                    BY <1>4, <1>6, <4>2, <5>1
            <4> QED
                BY <1>1, <4>1, <4>2
        <3> QED
            BY <1>6, <3>1, <3>2
    <2> QED
        BY <1>1, <1>4, <1>6, <1>12, <1>18, <2>1 DEF JournalFits, Promotion!Backup
<1>20. ASSUME NEW y \in journals
       PROVE  /\ y \in PromJournals /\ JournalFits(y) /\ JournalFits(y)' /\ y.id <= spent.tx /\ y.backup <= spent.tx
              /\ y.id \in Nat /\ y.backup \in Nat
    <2>1. y \in PromJournals /\ JournalFits(y)
        BY PromJournal
    <2>2. y.id \in Nat /\ y.backup \in Nat /\ y.id <= spent.tx /\ y.backup <= spent.tx
        BY <2>1, PromNumbers DEF PromJournals, JournalFits
    <2> QED
        BY <1>1, <1>4, <1>12, <2>1, <2>2 DEF JournalFits, Promotion!Backup
<1>21. PromJournaled'
    <2>1. \A y \in Known' : JournalFits(y)'
        BY <1>14, <1>19, <1>20
    <2>2. \A y, z \in Known' : y.id = z.id => y.op = z.op /\ y.cand = z.cand /\ y.rev = z.rev
        <3>1. \A y \in journals : y.id # j.id
            BY <1>4, <1>6, <1>20
        <3> QED
            BY <1>3, <1>14, <3>1 DEF PromJournaled
    <2>3. ASSUME NEW y \in Known', NEW d \in Candidate, y.op = "promote", y.backup # 0, Uses(d, y.id)'
          PROVE  d = y.cand /\ y.rev < record'[d].rev
        <3>1. \/ record[d].backup = y.id
              \/ \E z \in journals \cup {j} : z.op = "rollback" /\ z.cand = d /\ z.backup = y.id
            BY <1>1, <1>14, <2>3 DEF Uses
        <3>2. CASE y = j
            <4>1. record[d].backup <= spent.tx /\ record[d].backup \in Nat
                BY PromNumbers DEF PromRecorded, PromTyped, PromRecords
            <4>2. \A z \in journals : z.backup # j.id
                BY <1>4, <1>6, <1>20
            <4>3. record[d].backup # j.id
                BY <1>4, <1>6, <4>1
            <4> QED
                BY <2>3, <3>1, <3>2, <4>2, <4>3
        <3>3. CASE y \in journals
            <4>1. Uses(d, y.id)
                <5>1. j.op = "rollback" => record[j.cand].backup = j.backup
                    BY <1>6
                <5> QED
                    BY <1>3, <3>1, <5>1 DEF Uses
            <4> QED
                BY <1>1, <1>3, <2>3, <3>3, <4>1 DEF PromJournaled
        <3> QED
            BY <1>14, <3>2, <3>3
    <2> QED
        BY <2>1, <2>2, <2>3 DEF PromJournaled
<1>22. Transacting(w)'
    <2>1. worker'[w] = x
        BY <1>13, PromWorks
    <2>2. RunAt(j, 1)'
        BY <1>1, <1>6, <1>18 DEF RunAt
    <2>3. Placed(x.todo, j, 1)'
        BY <1>9, <1>11 DEF Placed
    <2> QED
        BY <1>6, <1>11, <2>1, <2>2, <2>3 DEF Transacting
<1> QED
    BY <1>1, <1>11, <1>13, <1>15, <1>16, <1>21, <1>22, PromGoesOn


-----------------------------------------------------------------------------
(* What a call does, and what it leaves of the user's texts.               *)

LEMMA Effects ==
    ASSUME NEW j
    PROVE  /\ \A s \in {"open journal", "write journal", "check", "commit", "forget"} : Promotion!Effect(s, j) = file
           /\ Promotion!Effect("open backup", j) = [file EXCEPT ![Promotion!Backup(j)] = Promotion!New(Torn)]
           /\ Promotion!Effect("write backup", j) = [file EXCEPT ![Promotion!Backup(j)].text = j.before]
           /\ Promotion!Effect("open prepared", j) = [file EXCEPT ![Promotion!Prepared(j)] = Promotion!New(Torn)]
           /\ Promotion!Effect("write prepared", j) = [file EXCEPT ![Promotion!Prepared(j)].text = j.after]
           /\ Promotion!Effect("claim", j) = [file EXCEPT ![Promotion!Swap(j)] = file[Promotion!Target]]
           /\ Promotion!Effect("unlink", j) = [file EXCEPT ![Promotion!Target] = Promotion!NoFile]
           /\ Promotion!Effect("publish", j) =
                 IF file[Promotion!Target] = Promotion!NoFile
                    THEN [file EXCEPT ![Promotion!Target] = file[Promotion!Prepared(j)]] ELSE file
           /\ Promotion!Effect("relink", j) =
                 IF file[Promotion!Target] = Promotion!NoFile
                    THEN [file EXCEPT ![Promotion!Target] = file[Promotion!Swap(j)]] ELSE file
BY DEF Promotion!Effect, Promotion!Removes

LEMMA Removals ==
    ASSUME NEW j
    PROVE  /\ Promotion!Effect("swap", j) =
                 IF file[Promotion!Swap(j)] = Promotion!NoFile \/ file[Promotion!Swap(j)] = Promotion!Before(j)
                    THEN [file EXCEPT ![Promotion!Swap(j)] = Promotion!NoFile] ELSE file
           /\ Promotion!Effect("prepared", j) =
                 IF file[Promotion!Prepared(j)] = Promotion!NoFile \/ file[Promotion!Prepared(j)].text = j.after
                    THEN [file EXCEPT ![Promotion!Prepared(j)] = Promotion!NoFile] ELSE file
           /\ Promotion!Effect("backup", j) =
                 IF /\ j.op = "promote" /\ j.backup # 0 /\ record[j.cand].rev = j.rev
                    /\ file[Promotion!Backup(j)] = Promotion!NoFile \/ file[Promotion!Backup(j)].text = j.before
                    THEN [file EXCEPT ![Promotion!Backup(j)] = Promotion!NoFile] ELSE file
<1>1. /\ Promotion!At("swap", j) = Promotion!Swap(j) /\ Promotion!At("prepared", j) = Promotion!Prepared(j)
      /\ Promotion!At("backup", j) = Promotion!Backup(j)
    BY DEF Promotion!At, Promotion!Swap, Promotion!Prepared
<1>2. /\ Promotion!AsExpected("swap", j) <=>
            file[Promotion!Swap(j)] = Promotion!NoFile \/ file[Promotion!Swap(j)] = Promotion!Before(j)
      /\ Promotion!AsExpected("prepared", j) <=>
            file[Promotion!Prepared(j)] = Promotion!NoFile \/ file[Promotion!Prepared(j)].text = j.after
      /\ Promotion!AsExpected("backup", j) <=>
            file[Promotion!Backup(j)] = Promotion!NoFile \/ file[Promotion!Backup(j)].text = j.before
    BY <1>1 DEF Promotion!AsExpected
<1>3. /\ Promotion!Removes("swap", j) /\ Promotion!Removes("prepared", j)
      /\ Promotion!Removes("backup", j) <=> j.op = "promote" /\ j.backup # 0 /\ record[j.cand].rev = j.rev
    BY DEF Promotion!Removes
<1> QED
    BY <1>1, <1>2, <1>3 DEF Promotion!Effect

LEMMA KeptStill ==
    ASSUME NEW S, KeptOutside(S), owed' = owed, \A n \in Lasting \ S : file'[n].text = file[n].text
    PROVE  KeptOutside(S)' /\ KeptOutside({})'
BY DEF KeptOutside

LEMMA KeptBut ==
    ASSUME KeptOutside({}), NEW m, file[m].text \notin owed
    PROVE  KeptOutside({m})
BY DEF KeptOutside

LEMMA OwedIs ==
    ASSUME PromTyped
    PROVE  Absent \notin owed /\ Torn \notin owed /\ owed \subseteq UserText \cup Original
BY PromAssumed DEF PromTyped

\* appendSkillCandidateRevisionLocked commits what j has done.
LEMMA Committing ==
    ASSUME PromInv, NEW j \in Known, record' = Promotion!Records("commit", j), file' = file, spent'.tx = spent.tx,
           j.op = "promote" /\ j.before # Absent => file[Promotion!Backup(j)].text = j.before
    PROVE  /\ record' \in [Candidate -> PromRecords] /\ PromRecorded'
           /\ \A c \in Candidate : Moved(c)
           /\ record'[j.cand] = [state |-> Promotion!Done(j), rev |-> record[j.cand].rev + 1, backup |-> j.backup]
           /\ \A c \in Candidate \ {j.cand} : record'[c] = record[c]
<1> DEFINE r == [state |-> Promotion!Done(j), rev |-> record[j.cand].rev + 1, backup |-> j.backup]
<1> USE DEF PromInv
<1>1. /\ j \in PromJournals /\ JournalFits(j) /\ j.cand \in Candidate /\ j.op \in {"promote", "rollback"}
      /\ j.backup \in 0 .. MaxCalls /\ j.backup <= spent.tx /\ j.id \in Promotion!Tx /\ j.id # 0
    BY PromFits, PromNumbers DEF PromJournals, JournalFits
<1>2. /\ record \in [Candidate -> PromRecords] /\ record[j.cand].rev \in Nat
      /\ \A c \in Candidate : record[c].rev \in Nat
    BY <1>1 DEF PromTyped, PromRecords
<1>3. record' = [record EXCEPT ![j.cand] = r]
    BY DEF Promotion!Records
<1>4. r \in PromRecords /\ r.rev = record[j.cand].rev + 1 /\ r.backup = j.backup /\ r.state = Promotion!Done(j)
    BY <1>1, <1>2 DEF PromRecords, Promotion!Done
<1> HIDE DEF r
<1>5. record' \in [Candidate -> PromRecords] /\ record'[j.cand] = r
      /\ \A c \in Candidate \ {j.cand} : record'[c] = record[c]
    BY <1>1, <1>2, <1>3, <1>4
<1>6. \A c \in Candidate : Moved(c)
    BY <1>1, <1>2, <1>4, <1>5 DEF Moved
<1>7. ASSUME NEW c \in Candidate
      PROVE  /\ record'[c].backup <= spent'.tx
             /\ record'[c].backup # 0 => Basis[c] # Absent
             /\ record'[c].state = "promoted" /\ Basis[c] # Absent => Backed(c)'
    <2>1. CASE c # j.cand
        BY <1>5, <2>1 DEF PromRecorded, Backed
    <2>2. CASE c = j.cand /\ j.op = "promote"
        <3>1. r.state = "promoted" /\ j.before = Basis[c] /\ (j.before # Absent => j.backup = j.id /\ j.backup # 0)
              /\ (j.before = Absent => j.backup = 0)
            BY <1>1, <1>4, <2>2 DEF Promotion!Done, JournalFits
        <3> QED
            BY <1>1, <1>4, <1>5, <2>2, <3>1 DEF Backed, Promotion!Backup
    <2>3. CASE c = j.cand /\ j.op = "rollback"
        BY <1>1, <1>4, <1>5, <2>3 DEF JournalFits, Promotion!Done
    <2> QED
        BY <1>1, <2>1, <2>2, <2>3
<1> QED
    BY <1>5, <1>6, <1>7 DEF PromRecorded, r


-----------------------------------------------------------------------------
(* A transaction makes its next call.                                      *)

LEMMA OwnNames ==
    ASSUME PromInv, NEW j \in Known
    PROVE  /\ j \in PromJournals /\ JournalFits(j) /\ j.id \in Nat \ {0} /\ j.id <= spent.tx /\ spent.tx \in Nat
           /\ j.backup \in Nat /\ j.backup <= spent.tx
           /\ Promotion!Target \in Lasting /\ Promotion!Swap(j) \in Lasting /\ Promotion!Prepared(j) \notin Lasting
           /\ j.backup # 0 => Promotion!Backup(j) \in Lasting /\ Promotion!Backup(j) \in Promotion!Name
           /\ j.backup # 0 => j.backup \in Promotion!Tx
           /\ Promotion!Swap(j) \in Promotion!Name /\ Promotion!Prepared(j) \in Promotion!Name
           /\ Promotion!Target \in Promotion!Name
           /\ Promotion!Swap(j) # Promotion!Prepared(j)
           /\ Promotion!Target \notin {Promotion!Swap(j), Promotion!Prepared(j)}
           /\ \A k : <<k, "backup">> \notin {Promotion!Swap(j), Promotion!Prepared(j), Promotion!Target}
           /\ Promotion!Backup(j) \notin {Promotion!Swap(j), Promotion!Prepared(j), Promotion!Target}
<1>1. j \in PromJournals /\ JournalFits(j)
    BY PromFits DEF PromInv
<1>2. j.id \in Nat \ {0} /\ j.backup \in Nat /\ j.id \in Promotion!Tx /\ (j.backup # 0 => j.backup \in Promotion!Tx)
    BY <1>1, PromNumbers DEF PromJournals
<1>3. spent.tx \in Nat
    BY PromNumbers DEF PromInv, PromTyped
<1> QED
    BY <1>1, <1>2, <1>3, PromNames, PromLasting
       DEF JournalFits, Promotion!Swap, Promotion!Prepared, Promotion!Backup, Promotion!Target

\* The call changes one of the names other than the backups.
LEMMA OneChanged ==
    ASSUME PromInv, NEW j \in Known, NEW n \in {Promotion!Target, Promotion!Swap(j), Promotion!Prepared(j)},
           \A m \in Promotion!Name \ {n} : file'[m] = file[m], spent' = spent
    PROVE  /\ PromFresh' /\ (record' = record => PromRecorded')
           /\ \A x \in Known : x.op = "promote" /\ x.backup # 0 =>
                 file'[Promotion!Backup(x)].text \in {Absent, Torn, x.before}
<1> USE DEF PromInv
<1>1. \A k \in Promotion!Tx : <<k, "backup">> # n /\ <<k, "backup">> \in Promotion!Name
    BY OwnNames, PromBackup
<1>2. PromFresh'
    <2> SUFFICES ASSUME NEW k \in Promotion!Tx, NEW s \in {"swap", "prepared", "backup"}, k > spent.tx
                 PROVE  file'[<<k, s>>].ino = 0
        BY DEF PromFresh
    <2>1. <<k, s>> \in Promotion!Name
        BY DEF Promotion!Name
    <2>2. <<k, s>> # n
        <3>1. k \in Nat \ {0} /\ j.id <= spent.tx /\ j.id \in Nat /\ spent.tx \in Nat
            BY OwnNames, PromNumbers
        <3>2. k # j.id /\ k # 0
            BY <3>1
        <3> QED
            BY <3>2 DEF Promotion!Target, Promotion!Swap, Promotion!Prepared
    <2> QED
        BY <2>1, <2>2 DEF PromFresh
<1>3. ASSUME record' = record
      PROVE  PromRecorded'
    <2>1. \A c \in Candidate : record[c].backup # 0 => record[c].backup \in Promotion!Tx
        BY PromNumbers DEF PromTyped, PromRecords
    <2> QED
        BY <1>1, <1>3, <2>1, RecordsStill
<1>4. \A x \in Known : x.op = "promote" /\ x.backup # 0 =>
                 file'[Promotion!Backup(x)].text \in {Absent, Torn, x.before}
    BY <1>1, OwnNames DEF JournalFits, Promotion!Backup
<1> QED
    BY <1>2, <1>3, <1>4

LEMMA Running ==
    ASSUME PromInv, NEW w \in Worker, Transacts(w), worker[w].todo # <<>>
    PROVE  LET j == worker[w].j IN
           /\ j \in Known /\ j \in PromJournals /\ JournalFits(j) /\ j.whole
           /\ j.before # j.after /\ j.after \in PublishTexts \ {Absent} /\ j.before \in PublishTexts
           /\ j.op = "rollback" => j.before # Absent /\ j.before \notin UserText \cup Original
           /\ j.op \in {"promote", "rollback"}
           /\ \E p \in 1 .. 16 :
                 /\ Placed(worker[w].todo, j, p) /\ RunAt(j, p) /\ MayBeAt(j, p)
                 /\ Head(worker[w].todo) = PublishCalls[p]
<1> DEFINE j == worker[w].j
<1> USE DEF PromInv
<1>1. Transacting(w)
    BY DEF PromWork
<1>2. j \in Known
    BY DEF Known
<1>3. /\ j \in PromJournals /\ JournalFits(j) /\ j.whole /\ j.before # j.after /\ j.after # Absent
      /\ j.op = "rollback" => j.before # Absent /\ j.before \notin UserText \cup Original
    BY <1>1, <1>2, PromFits DEF Transacting
<1>4. j.after \in PublishTexts /\ j.before \in PublishTexts /\ j.op \in {"promote", "rollback"}
    BY <1>3 DEF PromJournals
<1>5. PICK p \in 1 .. 17 : Placed(worker[w].todo, j, p) /\ RunAt(j, p)
    BY <1>1 DEF Transacting
<1> HIDE DEF j
<1>6. p # 17 /\ MayBeAt(j, p) /\ Head(worker[w].todo) = PublishCalls[p]
    BY <1>3, <1>5, PromPlaces
<1>7. p \in 1 .. 16
    BY <1>5, <1>6
<1> QED
    BY <1>2, <1>3, <1>4, <1>5, <1>6, <1>7 DEF j

LEMMA RunOn ==
    ASSUME PromInv, NEW w \in Worker, Transacts(w), NEW j, j = worker[w].j, NEW p \in 1 .. 16,
           worker[w].todo # <<>>, Placed(worker[w].todo, j, p),
           worker' = [worker EXCEPT ![w] = [worker[w] EXCEPT !.todo = Tail(@)]],
           UNCHANGED <<holder, spent, owed, trouble>>,
           NEW s, journals' = Promotion!Journals(s, j),
           PromFiles', PromFresh', record' \in [Candidate -> PromRecords], \A c \in Candidate : Moved(c),
           PromRecorded', KeptOutside({})',
           \A y \in Known : y.op = "promote" /\ y.backup # 0 =>
                                file'[Promotion!Backup(y)].text \in {Absent, Torn, y.before},
           RunAt(j, NextPlace(j, p))'
    PROVE  PromInv'
<1> USE DEF PromInv
<1>1. PICK x : x = [worker[w] EXCEPT !.todo = Tail(@)]
    OBVIOUS
<1>2. /\ j \in Known /\ j \in PromJournals /\ j.whole /\ JournalFits(j)
      /\ j.op = "rollback" => j.before # Absent
    BY Running
<1>3. /\ Tail(worker[w].todo) \in Seq(CallNames) /\ Placed(Tail(worker[w].todo), j, NextPlace(j, p))
      /\ NextPlace(j, p) \in 1 .. 17
    BY <1>2, PromPlaces
<1>4. Tail(worker[w].todo) \in Seq(CallNames \cup {"relink", "backup"})
    BY <1>3
<1>5. /\ x \in PromWorkers /\ x.stage = "running" /\ x.op = worker[w].op /\ x.cand = worker[w].cand /\ x.j = j
      /\ x.todo = Tail(worker[w].todo)
    BY <1>1, <1>4, PromWorker DEF PromWorkers, Transacts
<1>6. holder = w /\ \A v \in Worker \ {w} : ~Transacts(v) /\ ~Recovers(v)
    BY PromSole
<1>7. Works(w, x)
    BY <1>1, <1>5, <1>6 DEF Works, PromTyped, PromLocked, Transacts
<1>8. worker'[w] = x /\ Known' = journals' \cup {j} /\ journals \subseteq Known
    BY <1>5, <1>7, PromWorks DEF Known
<1>9. /\ journals' \subseteq journals \cup {j, [j EXCEPT !.whole = FALSE]}
      /\ [j EXCEPT !.whole = FALSE] \in PromJournals /\ Alike([j EXCEPT !.whole = FALSE], j)
    <2>1. journals' \subseteq journals \cup {j, [j EXCEPT !.whole = FALSE]}
        BY DEF Promotion!Journals, Promotion!Others
    <2>2. PICK h : h = [j EXCEPT !.whole = FALSE]
        OBVIOUS
    <2>3. h \in PromJournals /\ h.id = j.id /\ h.op = j.op /\ h.cand = j.cand /\ h.rev = j.rev /\ h.before = j.before
          /\ h.ino = j.ino /\ h.after = j.after /\ h.backup = j.backup
        BY <1>2, <2>2 DEF PromJournals
    <2> QED
        BY <2>1, <2>2, <2>3 DEF Alike
<1>10. journals' \subseteq PromJournals
    BY <1>2, <1>9 DEF PromTyped
<1>11. \A y \in Known : Alike(y, y)
    BY PromFits DEF Alike
<1>12. \A y \in Known' : \E z \in Known : Alike(y, z)
    BY <1>2, <1>8, <1>9, <1>11
<1>13. PromJournaled'
    BY <1>12, OwnNames, <1>2, JournalsStill DEF PromTyped
<1>14. Placed(x.todo, j, NextPlace(j, p))'
    BY <1>3, <1>5 DEF Placed
<1>15. Transacting(w)'
    <2>1. PICK q : q = NextPlace(j, p)
        OBVIOUS
    <2>2. q \in 1 .. 17 /\ RunAt(j, q)' /\ Placed(x.todo, j, q)'
        BY <1>3, <1>14, <2>1 DEF NextPlace
    <2> QED
        BY <1>2, <1>5, <1>8, <2>2 DEF Transacting
<1> QED
    BY <1>5, <1>7, <1>10, <1>13, <1>15, PromGoesOn


LEMMA SucceedsIs ==
    ASSUME NEW j
    PROVE  /\ Promotion!Succeeds("check", j) => file[Promotion!Target] = Promotion!Before(j)
           /\ Promotion!Succeeds("claim", j) => file[Promotion!Target] = Promotion!Before(j)
           /\ Promotion!Succeeds("unlink", j) => file[Promotion!Target] # Promotion!NoFile
           /\ Promotion!Succeeds("publish", j) => file[Promotion!Target] = Promotion!NoFile
           /\ Promotion!Succeeds("relink", j) => file[Promotion!Target] = Promotion!NoFile
BY DEF Promotion!Succeeds, Promotion!Removes

LEMMA NoneChanged ==
    ASSUME PromInv, NEW j \in Known, file' = file, spent' = spent
    PROVE  /\ PromFresh' /\ (record' = record => PromRecorded')
           /\ \A x \in Known : x.op = "promote" /\ x.backup # 0 =>
                 file'[Promotion!Backup(x)].text \in {Absent, Torn, x.before}
<1>1. PICK n : n = Promotion!Target /\ n \in {Promotion!Target, Promotion!Swap(j), Promotion!Prepared(j)}
    OBVIOUS
<1>2. \A m \in Promotion!Name \ {n} : file'[m] = file[m]
    OBVIOUS
<1> QED
    BY <1>1, <1>2, OneChanged

\* The call of place p is made, and what it has to leave for place q.
Advancing(j, p) ==
    /\ j \in Known /\ p \in 1 .. 16 /\ RunAt(j, p) /\ MayBeAt(j, p)
    /\ spent' = spent /\ owed' = owed
    /\ Promotion!Succeeds(PublishCalls[p], j)
    /\ file' = Promotion!Effect(PublishCalls[p], j)
    /\ record' = Promotion!Records(PublishCalls[p], j)
Advanced(j, q) ==
    /\ PromFiles' /\ PromFresh' /\ record' \in [Candidate -> PromRecords]
    /\ \A c \in Candidate : Moved(c)
    /\ PromRecorded' /\ KeptOutside({})'
    /\ \A y \in Known : y.op = "promote" /\ y.backup # 0 =>
                           file'[Promotion!Backup(y)].text \in {Absent, Torn, y.before}
    /\ RunAt(j, q)'

LEMMA CallAt ==
    /\ PublishCalls[1] = "open journal" /\ PublishCalls[2] = "write journal" /\ PublishCalls[3] = "check"
    /\ PublishCalls[4] = "open backup" /\ PublishCalls[5] = "write backup" /\ PublishCalls[6] = "check"
    /\ PublishCalls[7] = "open prepared" /\ PublishCalls[8] = "write prepared" /\ PublishCalls[9] = "claim"
    /\ PublishCalls[10] = "check" /\ PublishCalls[11] = "unlink" /\ PublishCalls[12] = "publish"
    /\ PublishCalls[13] = "prepared" /\ PublishCalls[14] = "swap" /\ PublishCalls[15] = "commit"
    /\ PublishCalls[16] = "forget"
BY DEF PublishCalls

LEMMA RecordIs ==
    ASSUME NEW s, NEW j
    PROVE  s # "commit" => Promotion!Records(s, j) = record
BY DEF Promotion!Records

LEMMA RecordStill ==
    ASSUME PromTyped, record' = record
    PROVE  record' \in [Candidate -> PromRecords] /\ \A c \in Candidate : Moved(c)
<1>1. record \in [Candidate -> PromRecords] /\ \A c \in Candidate : record[c].rev \in Nat
    BY DEF PromTyped, PromRecords
<1> QED
    BY <1>1 DEF Moved

\* What a journal of this transaction says of its texts.
LEMMA JournalTexts ==
    ASSUME PromInv, NEW j \in Known
    PROVE  /\ j.before \in PublishTexts /\ j.after \in PublishTexts \ {Absent} /\ j.before # j.after
           /\ j.op \in {"promote", "rollback"} /\ j.cand \in Candidate
           /\ j.op = "rollback" => j.before # Absent /\ j.before \notin owed
           /\ j.op = "promote" /\ j.before # Absent => j.backup = j.id /\ j.backup # 0
           /\ j.op = "promote" => j.before = Basis[j.cand]
           /\ j.before # Absent => Promotion!Before(j) = [ino |-> j.ino, text |-> j.before]
           /\ j.before = Absent => Promotion!Before(j) = Promotion!NoFile
           /\ Absent \notin owed /\ Torn \notin owed
<1>1. j \in PromJournals /\ JournalFits(j) /\ j.after # Absent /\ j.before # j.after
      /\ (j.op = "rollback" => j.before # Absent /\ j.before \notin UserText \cup Original)
    BY PromFits DEF PromInv
<1>2. j.id # 0 /\ j.before \in PublishTexts /\ j.after \in PublishTexts /\ j.op \in {"promote", "rollback"} /\ j.cand \in Candidate
    BY <1>1, PromNumbers DEF PromJournals
<1> QED
    BY <1>1, <1>2, OwedIs DEF JournalFits, Promotion!Before, PromInv

\* Checks, and calls on the journals and the index.
LEMMA RunUnmoved ==
    ASSUME PromInv, NEW j, NEW p \in {1, 2, 3, 6, 10, 16}, Advancing(j, p)
    PROVE  Advanced(j, NextPlace(j, p))
<1> USE DEF PromInv
<1>1. file' = file /\ record' = record /\ owed' = owed /\ spent' = spent /\ j \in Known /\ RunAt(j, p) /\ MayBeAt(j, p)
    <2>1. PICK s : s = PublishCalls[p]
        OBVIOUS
    <2>2. s \in {"open journal", "write journal", "check", "forget"}
        BY <2>1, CallAt
    <2>3. Promotion!Effect(s, j) = file /\ Promotion!Records(s, j) = record
        BY <2>2, Effects, RecordIs
    <2> QED
        BY <2>1, <2>3 DEF Advancing
<1>2. PromFiles' /\ KeptOutside({})' /\ record' \in [Candidate -> PromRecords] /\ \A c \in Candidate : Moved(c)
    BY <1>1, RecordStill DEF PromTyped, PromFiles, Exclusive, KeptOutside
<1>3. /\ PromFresh' /\ PromRecorded'
      /\ \A x \in Known : x.op = "promote" /\ x.backup # 0 =>
            file'[Promotion!Backup(x)].text \in {Absent, Torn, x.before}
    BY <1>1, NoneChanged
<1>4. PICK q : q = NextPlace(j, p)
    OBVIOUS
<1>5. RunAt(j, q)'
    <2>1. CASE p = 10
        <3>1. q = 11 /\ j.before # Absent
            BY <1>1, <1>4, <2>1 DEF NextPlace, MayBeAt
        <3>2. file[Promotion!Target] = Promotion!Before(j)
            <4>1. Promotion!Succeeds("check", j)
                BY <2>1, CallAt DEF Advancing
            <4> QED
                BY <4>1, SucceedsIs
        <3>3. file[Promotion!Swap(j)].ino = file[Promotion!Target].ino
            <4>1. file[Promotion!Target].ino = j.ino
                BY <1>1, <3>1, <3>2, JournalTexts
            <4> QED
                BY <1>1, <2>1, <4>1 DEF RunAt
        <3>4. file[Promotion!Swap(j)] = file[Promotion!Target] /\ Promotion!Swap(j) \in Lasting
              /\ Promotion!Swap(j) # Promotion!Target
            BY <1>1, <3>3, OwnNames DEF PromTyped, PromFiles
        <3>5. KeptOutside({Promotion!Target})
            BY <3>4 DEF KeptOutside
        <3>6. KeptOutside({Promotion!Target})'
            BY <1>1, <3>5 DEF KeptOutside
        <3>7. file'[Promotion!Swap(j)].ino = j.ino
            BY <1>1, <2>1 DEF RunAt
        <3> QED
            BY <1>1, <2>1, <3>1, <3>3, <3>6, <3>7 DEF RunAt, Promotion!Backup, Promotion!Swap, Promotion!Prepared
    <2>2. CASE p # 10
        <3>1. \/ p = 1 /\ q = 2
              \/ p = 2 /\ q \in {3, 6, 7}
              \/ p = 3 /\ q = 4
              \/ p = 6 /\ q = 7
              \/ p = 16 /\ q = 17
            BY <1>4, <2>2 DEF NextPlace
        <3>2. /\ p = 2 /\ q = 6 => j.op = "rollback"
              /\ p = 2 /\ q = 7 => j.op = "rollback" \/ j.before = Absent
            BY <1>4 DEF NextPlace
        <3>3. q = 6 => j.op = "rollback"
            BY <3>1, <3>2
        <3> QED
            BY <1>1, <3>1, <3>2, <3>3 DEF RunAt, Promotion!Backup, Promotion!Swap, Promotion!Prepared
    <2> QED
        BY <2>1, <2>2
<1> QED
    BY <1>2, <1>3, <1>4, <1>5 DEF Advanced

LEMMA RunCommits ==
    ASSUME PromInv, NEW j, Advancing(j, 15)
    PROVE  Advanced(j, NextPlace(j, 15))
<1> USE DEF PromInv
<1>1. file' = file /\ record' = Promotion!Records("commit", j) /\ owed' = owed /\ spent' = spent /\ j \in Known /\ RunAt(j, 15)
    <2>1. PICK s : s = PublishCalls[15]
        OBVIOUS
    <2>2. s = "commit" /\ Promotion!Effect("commit", j) = file
        BY <2>1, CallAt, Effects
    <2> QED
        BY <2>1, <2>2 DEF Advancing
<1>2. PromFiles' /\ KeptOutside({})'
    BY <1>1 DEF PromTyped, PromFiles, Exclusive, KeptOutside
<1>3. /\ PromFresh'
      /\ \A x \in Known : x.op = "promote" /\ x.backup # 0 =>
            file'[Promotion!Backup(x)].text \in {Absent, Torn, x.before}
    BY <1>1, NoneChanged
<1>4. j.op = "promote" /\ j.before # Absent => file[Promotion!Backup(j)].text = j.before
    BY <1>1 DEF RunAt
<1>5. record' \in [Candidate -> PromRecords] /\ PromRecorded' /\ \A c \in Candidate : Moved(c)
    BY <1>1, <1>4, Committing
<1>6. NextPlace(j, 15) = 16
    BY DEF NextPlace
<1>7. RunAt(j, 16)'
    BY <1>1, <1>4 DEF RunAt, Promotion!Backup
<1> QED
    BY <1>2, <1>3, <1>5, <1>6, <1>7 DEF Advanced


\* The backup of a promotion is its own; what relies on it was made of its text.
LEMMA BackupOwned ==
    ASSUME PromInv, NEW j \in Known, j.op = "promote", j.backup # 0
    PROVE  /\ j.backup = j.id /\ j.before # Absent /\ j.before = Basis[j.cand]
           /\ file[Promotion!Backup(j)].text \in {Absent, Torn, j.before}
           /\ \A c \in Candidate : record[c].backup = j.backup => c = j.cand
           /\ \A y \in Known : y.op = "promote" /\ y.backup = j.backup => y.before = j.before
<1> USE DEF PromInv
<1>1. JournalFits(j) /\ j.backup = j.id /\ j.before # Absent /\ j.before = Basis[j.cand]
    BY PromFits DEF JournalFits
<1>2. \A c \in Candidate : record[c].backup = j.backup => c = j.cand
    BY <1>1 DEF PromJournaled, Uses
<1>3. ASSUME NEW y \in Known, y.op = "promote", y.backup = j.backup
      PROVE  y.before = j.before
    <2>1. JournalFits(y) /\ y.id = j.id
        BY <1>1, <1>3, PromFits DEF JournalFits
    <2>2. y.cand = j.cand
        BY <2>1 DEF PromJournaled
    <2> QED
        BY <1>1, <1>3, <2>1, <2>2 DEF JournalFits
<1> QED
    BY <1>1, <1>2, <1>3 DEF JournalFits

\* The backup of j is created, or written: no other name changes.
LEMMA BackupChanged ==
    ASSUME PromInv, NEW j \in Known, j.op = "promote", j.backup # 0,
           \A m \in Promotion!Name \ {Promotion!Backup(j)} : file'[m] = file[m],
           file'[Promotion!Backup(j)].text \in {Torn, j.before},
           file[Promotion!Backup(j)].text = Basis[j.cand] => file'[Promotion!Backup(j)].text = Basis[j.cand],
           spent' = spent, record' = record, owed' = owed,
           file[Promotion!Backup(j)].text \in owed => file'[Promotion!Backup(j)].text = file[Promotion!Backup(j)].text
    PROVE  /\ PromFresh' /\ PromRecorded' /\ KeptOutside({})'
           /\ \A x \in Known : x.op = "promote" /\ x.backup # 0 =>
                 file'[Promotion!Backup(x)].text \in {Absent, Torn, x.before}
<1> USE DEF PromInv
<1>1. PromFresh'
    <2> SUFFICES ASSUME NEW k \in Promotion!Tx, NEW s \in {"swap", "prepared", "backup"}, k > spent.tx
                 PROVE  file'[<<k, s>>].ino = 0
        BY DEF PromFresh
    <2>1. <<k, s>> \in Promotion!Name
        BY DEF Promotion!Name
    <2>2. <<k, s>> # Promotion!Backup(j)
        <3>1. k \in Nat /\ j.backup <= spent.tx /\ j.backup \in Nat /\ spent.tx \in Nat
            BY OwnNames, PromNumbers
        <3>2. k # j.backup
            BY <3>1
        <3> QED
            BY <3>2 DEF Promotion!Backup
    <2> QED
        BY <2>1, <2>2 DEF PromFresh
<1>2. PromRecorded'
    <2> SUFFICES ASSUME NEW c \in Candidate, record[c].state = "promoted", Basis[c] # Absent, record[c].backup # 0
                 PROVE  file'[<<record[c].backup, "backup">>].text = file[<<record[c].backup, "backup">>].text
        BY RecordsStill
    <2>1. <<record[c].backup, "backup">> \in Promotion!Name
        BY PromBackup, PromNumbers DEF PromTyped, PromRecords
    <2>2. CASE record[c].backup = j.backup
        <3>1. c = j.cand /\ file[Promotion!Backup(j)].text = Basis[j.cand]
            BY <2>2, BackupOwned DEF PromRecorded, Backed, Promotion!Backup
        <3> QED
            BY <2>2, <3>1 DEF Promotion!Backup
    <2>3. CASE record[c].backup # j.backup
        BY <2>1, <2>3 DEF Promotion!Backup
    <2> QED
        BY <2>2, <2>3
<1>3. KeptOutside({})'
    <2> SUFFICES ASSUME NEW t \in owed
                 PROVE  \E n \in Lasting : file'[n].text = t
        BY DEF KeptOutside
    <2>1. PICK n \in Lasting : file[n].text = t
        BY DEF KeptOutside
    <2> QED
        BY <2>1, PromLasting
<1>4. ASSUME NEW x \in Known, x.op = "promote", x.backup # 0
      PROVE  file'[Promotion!Backup(x)].text \in {Absent, Torn, x.before}
    <2>1. CASE x.backup = j.backup
        BY <1>4, <2>1, BackupOwned DEF Promotion!Backup
    <2>2. CASE x.backup # j.backup
        BY <1>4, <2>2, BackupOwned, OwnNames DEF Promotion!Backup
    <2> QED
        BY <2>1, <2>2
<1> QED
    BY <1>1, <1>2, <1>3, <1>4

LEMMA RunBacksUp ==
    ASSUME PromInv, NEW j, NEW p \in {4, 5}, Advancing(j, p)
    PROVE  Advanced(j, NextPlace(j, p))
<1> DEFINE b == Promotion!Backup(j)
<1> USE DEF PromInv
<1>1. /\ j \in Known /\ RunAt(j, p) /\ j.op = "promote" /\ j.before # Absent /\ owed' = owed /\ spent' = spent
      /\ file' = Promotion!Effect(PublishCalls[p], j) /\ record' = Promotion!Records(PublishCalls[p], j)
    BY DEF Advancing, MayBeAt
<1>2. /\ j.backup # 0 /\ j.backup = j.id /\ j.before \in PublishTexts \ {Absent} /\ j.before = Basis[j.cand]
      /\ Absent \notin owed /\ Torn \notin owed /\ Torn # Absent
    BY <1>1, JournalTexts, PromAssumed
<1>3. b \in Promotion!Name /\ b \notin {Promotion!Swap(j), Promotion!Prepared(j), Promotion!Target}
      /\ Promotion!Prepared(j) \in Promotion!Name /\ Promotion!Swap(j) \in Promotion!Name
      /\ j.backup \in Promotion!Tx
    BY <1>1, <1>2, OwnNames
<1>4. record' = record /\ record' \in [Candidate -> PromRecords] /\ \A c \in Candidate : Moved(c)
    <2>1. record' = record
        BY <1>1, CallAt, RecordIs
    <2> QED
        BY <2>1, RecordStill
<1>5. CASE p = 4
    <2>1. file' = [file EXCEPT ![b] = Promotion!New(Torn)] /\ file[b].ino = 0
        <3>1. file' = Promotion!Effect("open backup", j)
            BY <1>1, <1>5, CallAt
        <3>2. RunAt(j, 4)
            BY <1>1, <1>5
        <3>3. file[b].ino = 0
            BY <1>1, <3>2 DEF RunAt
        <3> QED
            BY <3>1, <3>3, Effects
    <2>2. file[b].text = Absent
        BY <1>3, <2>1, FileIs DEF PromTyped
    <2>3. /\ PromFiles' /\ file'[b].ino # 0 /\ file'[b].text = Torn
          /\ \A m \in Promotion!Name \ {b} : file'[m] = file[m]
        BY <1>3, <2>1, FileMade, PromTexts DEF PromTyped
    <2> HIDE DEF b
    <2>4. /\ PromFresh' /\ PromRecorded' /\ KeptOutside({})'
          /\ \A x \in Known : x.op = "promote" /\ x.backup # 0 =>
                file'[Promotion!Backup(x)].text \in {Absent, Torn, x.before}
        BY <1>1, <1>2, <1>4, <2>2, <2>3, BackupChanged DEF b
    <2>5. RunAt(j, 5)'
        <3>1. file'[Promotion!Backup(j)].ino # 0 /\ file'[Promotion!Prepared(j)].ino = 0 /\ file'[Promotion!Swap(j)].ino = 0
            BY <1>1, <1>3, <1>5, <2>3 DEF RunAt, b
        <3> QED
            BY <3>1 DEF RunAt, Promotion!Backup, Promotion!Prepared, Promotion!Swap
    <2>6. NextPlace(j, p) = 5
        BY <1>5 DEF NextPlace
    <2> QED
        BY <1>4, <2>3, <2>4, <2>5, <2>6 DEF Advanced
<1>6. CASE p = 5
    <2>1. file' = [file EXCEPT ![b].text = j.before] /\ file[b].ino # 0
        <3>1. file' = Promotion!Effect("write backup", j)
            BY <1>1, <1>6, CallAt
        <3> QED
            BY <1>1, <1>2, <1>6, <3>1, Effects DEF RunAt
    <2>2. Exclusive(b)
        BY <1>3, <2>1 DEF PromTyped, PromFiles, Promotion!Backup
    <2>3. /\ PromFiles' /\ file'[b].text = j.before
          /\ \A m \in Promotion!Name \ {b} : file'[m] = file[m]
        BY <1>2, <1>3, <2>1, <2>2, FileWritten DEF PromTyped
    <2>4. file[b].text \in {Torn, j.before}
        <3>1. file[b].text # Absent
            BY <1>3, <2>1, FileIs DEF PromTyped
        <3> QED
            BY <1>1, <1>2, <3>1, BackupOwned
    <2> HIDE DEF b
    <2>5. /\ PromFresh' /\ PromRecorded' /\ KeptOutside({})'
          /\ \A x \in Known : x.op = "promote" /\ x.backup # 0 =>
                file'[Promotion!Backup(x)].text \in {Absent, Torn, x.before}
        BY <1>1, <1>2, <1>4, <2>3, <2>4, BackupChanged DEF b
    <2>6. RunAt(j, 6)'
        <3>1. file'[Promotion!Backup(j)].text = j.before /\ file'[Promotion!Prepared(j)].ino = 0 /\ file'[Promotion!Swap(j)].ino = 0
            BY <1>1, <1>3, <1>6, <2>3 DEF RunAt, b
        <3> QED
            BY <3>1 DEF RunAt, Promotion!Backup, Promotion!Prepared, Promotion!Swap
    <2>7. NextPlace(j, p) = 6
        BY <1>6 DEF NextPlace
    <2> QED
        BY <1>4, <2>3, <2>5, <2>6, <2>7 DEF Advanced
<1> QED
    BY <1>5, <1>6

\* What each of the later calls gets from, and has to show of, the one name it changes.
LEMMA RunElsewhere ==
    ASSUME PromInv, NEW j, NEW p \in {7, 8, 9, 11, 12, 13, 14}, Advancing(j, p), NEW n,
           n = CASE p \in {7, 8, 13} -> Promotion!Prepared(j)
                 [] p \in {9, 14} -> Promotion!Swap(j)
                 [] p \in {11, 12} -> Promotion!Target,
           PromFiles', \A m \in Promotion!Name \ {n} : file'[m] = file[m],
           n \in Lasting => KeptOutside({n}),
           RunAt(j, NextPlace(j, p))'
    PROVE  Advanced(j, NextPlace(j, p))
<1> USE DEF PromInv
<1>1. j \in Known /\ owed' = owed /\ spent' = spent
    BY DEF Advancing
<1>2. n \in {Promotion!Target, Promotion!Swap(j), Promotion!Prepared(j)}
    OBVIOUS
<1>3. record' = record /\ record' \in [Candidate -> PromRecords] /\ \A c \in Candidate : Moved(c)
    <2>1. PublishCalls[p] # "commit"
        BY CallAt
    <2>2. record' = record
        BY <2>1, RecordIs DEF Advancing
    <2> QED
        BY <2>2, RecordStill
<1>4. KeptOutside({})'
    <2>1. CASE n \in Lasting
        BY <1>1, <2>1, PromLasting, KeptStill
    <2>2. CASE n \notin Lasting
        BY <1>1, <2>2, PromLasting, KeptStill
    <2> QED
        BY <2>1, <2>2
<1>5. /\ PromFresh' /\ PromRecorded'
      /\ \A x \in Known : x.op = "promote" /\ x.backup # 0 =>
            file'[Promotion!Backup(x)].text \in {Absent, Torn, x.before}
    BY <1>1, <1>2, <1>3, OneChanged
<1> QED
    BY <1>3, <1>4, <1>5 DEF Advanced


\* The prepared file is created, written and removed: no text of the user's.
LEMMA RunPrepares ==
    ASSUME PromInv, NEW j, NEW p \in {7, 8, 13}, Advancing(j, p)
    PROVE  Advanced(j, NextPlace(j, p))
<1> DEFINE n == Promotion!Prepared(j)
<1> USE DEF PromInv
<1>1. /\ j \in Known /\ RunAt(j, p) /\ file' = Promotion!Effect(PublishCalls[p], j)
    BY DEF Advancing
<1>2. /\ n \in Promotion!Name /\ n \notin Lasting /\ n # Promotion!Swap(j) /\ n # Promotion!Backup(j) /\ n # Promotion!Target
      /\ Promotion!Swap(j) \in Promotion!Name
      /\ j.backup # 0 => Promotion!Backup(j) \in Promotion!Name
    BY <1>1, OwnNames
<1>3. j.after \in PublishTexts \ {Absent} /\ (j.op = "promote" /\ j.before # Absent => j.backup # 0)
    BY <1>1, JournalTexts
<1>4. n = CASE p \in {7, 8, 13} -> Promotion!Prepared(j)
            [] p \in {9, 14} -> Promotion!Swap(j)
            [] p \in {11, 12} -> Promotion!Target
    OBVIOUS
<1>5. ASSUME PromFiles', \A m \in Promotion!Name \ {n} : file'[m] = file[m], RunAt(j, NextPlace(j, p))'
      PROVE  Advanced(j, NextPlace(j, p))
    BY <1>2, <1>4, <1>5, RunElsewhere
<1>6. ASSUME \A m \in Promotion!Name \ {n} : file'[m] = file[m], NEW q \in Nat,
             q >= 8, q = 8 => file'[n].ino # 0 /\ Exclusive(n)',
             q \in {8, 9} => p \in {7, 8}, q \notin {10, 11}
      PROVE  RunAt(j, q)'
    <2>1. /\ j.op = "promote" /\ j.before # Absent => file[Promotion!Backup(j)].text = j.before
          /\ p \in {7, 8} => file[Promotion!Swap(j)].ino = 0
        BY <1>1 DEF RunAt
    <2>2. /\ j.op = "promote" /\ j.before # Absent => file'[Promotion!Backup(j)].text = j.before
          /\ q \in {8, 9} => file'[Promotion!Swap(j)].ino = 0
        BY <1>2, <1>3, <1>6, <2>1
    <2> QED
        BY <1>6, <2>2 DEF RunAt, Promotion!Backup, Promotion!Prepared, Promotion!Swap
<1>7. CASE p = 7
    <2>1. file' = [file EXCEPT ![n] = Promotion!New(Torn)] /\ file[n].ino = 0
        <3>1. file' = Promotion!Effect("open prepared", j)
            BY <1>1, <1>7, CallAt
        <3>2. RunAt(j, 7)
            BY <1>1, <1>7
        <3>3. file[n].ino = 0
            BY <3>2 DEF RunAt
        <3> QED
            BY <3>1, <3>3, Effects
    <2>2. /\ PromFiles' /\ file'[n].ino # 0 /\ Exclusive(n)' /\ \A m \in Promotion!Name \ {n} : file'[m] = file[m]
        BY <1>2, <2>1, FileMade, PromTexts DEF PromTyped
    <2>3. NextPlace(j, p) = 8
        BY <1>7 DEF NextPlace
    <2> HIDE DEF n
    <2>4. RunAt(j, 8)'
        BY <1>6, <1>7, <2>2
    <2> QED
        BY <1>5, <2>2, <2>3, <2>4
<1>8. CASE p = 8
    <2>1. file' = [file EXCEPT ![n].text = j.after] /\ file[n].ino # 0 /\ Exclusive(n)
        <3>1. file' = Promotion!Effect("write prepared", j)
            BY <1>1, <1>8, CallAt
        <3>2. RunAt(j, 8)
            BY <1>1, <1>8
        <3>3. file[n].ino # 0 /\ Exclusive(n)
            BY <3>2 DEF RunAt
        <3> QED
            BY <3>1, <3>3, Effects
    <2>2. PromFiles' /\ \A m \in Promotion!Name \ {n} : file'[m] = file[m]
        BY <1>2, <1>3, <2>1, FileWritten DEF PromTyped
    <2>3. NextPlace(j, p) \in {9, 12}
        BY <1>8 DEF NextPlace
    <2> HIDE DEF n
    <2>4. RunAt(j, 9)' /\ RunAt(j, 12)'
        BY <1>6, <1>8, <2>2
    <2> QED
        BY <1>5, <2>2, <2>3, <2>4
<1>9. CASE p = 13
    <2>1. file' = file \/ file' = [file EXCEPT ![n] = Promotion!NoFile]
        <3>1. file' = Promotion!Effect("prepared", j)
            BY <1>1, <1>9, CallAt
        <3> QED
            BY <3>1, Removals
    <2>2. PromFiles' /\ \A m \in Promotion!Name \ {n} : file'[m] = file[m]
        <3>1. CASE file' = file
            BY <3>1 DEF PromTyped, PromFiles, Exclusive
        <3>2. CASE file' = [file EXCEPT ![n] = Promotion!NoFile]
            BY <1>2, <3>2, FileGone DEF PromTyped, PromFiles
        <3> QED
            BY <2>1, <3>1, <3>2
    <2>3. NextPlace(j, p) = 14
        BY <1>9 DEF NextPlace
    <2> HIDE DEF n
    <2>4. RunAt(j, 14)'
        BY <1>6, <1>9, <2>2
    <2> QED
        BY <1>5, <2>2, <2>3, <2>4
<1> QED
    BY <1>7, <1>8, <1>9

LEMMA RunClaims ==
    ASSUME PromInv, NEW j, Advancing(j, 9)
    PROVE  Advanced(j, NextPlace(j, 9))
<1> DEFINE n == Promotion!Swap(j)
<1> USE DEF PromInv
<1>1. /\ j \in Known /\ RunAt(j, 9) /\ j.before # Absent /\ file' = Promotion!Effect("claim", j)
      /\ Promotion!Succeeds("claim", j)
    <2>1. MayBeAt(j, 9)
        BY DEF Advancing
    <2>2. j.before # Absent
        BY <2>1 DEF MayBeAt
    <2> QED
        BY <2>2, CallAt DEF Advancing
<1>2. /\ n \in Promotion!Name /\ n \in Lasting /\ n # Promotion!Prepared(j) /\ n # Promotion!Backup(j)
      /\ n # Promotion!Target /\ Promotion!Target \in Promotion!Name
      /\ \A k : n # <<k, "backup">> /\ Promotion!Target # <<k, "backup">>
      /\ Promotion!Prepared(j) \in Promotion!Name
      /\ j.backup # 0 => Promotion!Backup(j) \in Promotion!Name
    BY <1>1, OwnNames
<1>3. j.op = "promote" => j.backup # 0
    BY <1>1, JournalTexts
<1>4. file' = [file EXCEPT ![n] = file[Promotion!Target]] /\ file[n].ino = 0 /\ file[Promotion!Target].ino = j.ino
    <2>1. file[Promotion!Target] = Promotion!Before(j)
        BY <1>1, SucceedsIs
    <2>2. file[Promotion!Target].ino = j.ino
        BY <1>1, <2>1, JournalTexts
    <2>3. file[n].ino = 0
        BY <1>1 DEF RunAt
    <2> QED
        BY <1>1, <2>2, <2>3, Effects
<1>5. PromFiles' /\ file'[n].ino = j.ino /\ \A m \in Promotion!Name \ {n} : file'[m] = file[m]
    BY <1>2, <1>4, FileLinked DEF PromTyped
<1>6. KeptOutside({n})
    <2>1. file[n].text = Absent
        BY <1>2, <1>4, FileIs DEF PromTyped
    <2> QED
        BY <2>1, KeptBut, OwedIs
<1>7. RunAt(j, 10)'
    <2>1. j.op = "promote" => file[Promotion!Backup(j)].text = j.before
        BY <1>1 DEF RunAt
    <2>2. j.op = "promote" => file'[Promotion!Backup(j)].text = j.before
        BY <1>2, <1>3, <1>5, <2>1
    <2> QED
        BY <1>5, <2>2 DEF RunAt, Promotion!Backup, Promotion!Swap
<1>8. NextPlace(j, 9) = 10
    BY DEF NextPlace
<1> HIDE DEF n
<1>9. n = CASE 9 \in {7, 8, 13} -> Promotion!Prepared(j)
            [] 9 \in {9, 14} -> Promotion!Swap(j)
            [] 9 \in {11, 12} -> Promotion!Target
    BY DEF n
<1> QED
    BY <1>5, <1>6, <1>7, <1>8, <1>9, RunElsewhere


\* The target's name is let go: every text of the user's has another.
LEMMA RunUnlinks ==
    ASSUME PromInv, NEW j, Advancing(j, 11)
    PROVE  Advanced(j, NextPlace(j, 11))
<1> DEFINE n == Promotion!Target
<1> USE DEF PromInv
<1>1. /\ j \in Known /\ RunAt(j, 11) /\ file' = [file EXCEPT ![n] = Promotion!NoFile]
    <2>1. j \in Known /\ RunAt(j, 11) /\ file' = Promotion!Effect("unlink", j)
        BY CallAt DEF Advancing
    <2> QED
        BY <2>1, Effects
<1>2. n \in Promotion!Name /\ n # Promotion!Backup(j) /\ KeptOutside({n})
    BY <1>1, OwnNames DEF RunAt
<1>3. (j.backup # 0 => Promotion!Backup(j) \in Promotion!Name) /\ (j.op = "promote" /\ j.before # Absent => j.backup # 0)
    BY <1>1, OwnNames, JournalTexts
<1>4. PromFiles' /\ \A m \in Promotion!Name \ {n} : file'[m] = file[m]
    BY <1>1, <1>2, FileGone DEF PromTyped, PromFiles
<1>5. RunAt(j, 12)'
    <2>1. j.op = "promote" /\ j.before # Absent => file[Promotion!Backup(j)].text = j.before
        BY <1>1 DEF RunAt
    <2>2. j.op = "promote" /\ j.before # Absent => file'[Promotion!Backup(j)].text = j.before
        BY <1>2, <1>3, <1>4, <2>1
    <2> QED
        BY <2>2 DEF RunAt, Promotion!Backup
<1>6. NextPlace(j, 11) = 12
    BY DEF NextPlace
<1> HIDE DEF n
<1>7. n = CASE 11 \in {7, 8, 13} -> Promotion!Prepared(j)
            [] 11 \in {9, 14} -> Promotion!Swap(j)
            [] 11 \in {11, 12} -> Promotion!Target
    BY DEF n
<1> QED
    BY <1>2, <1>4, <1>5, <1>6, <1>7, RunElsewhere

LEMMA RunPublishes ==
    ASSUME PromInv, NEW j, Advancing(j, 12)
    PROVE  Advanced(j, NextPlace(j, 12))
<1> DEFINE n == Promotion!Target
<1> USE DEF PromInv
<1>1. /\ j \in Known /\ RunAt(j, 12) /\ file[n].ino = 0
      /\ file' = [file EXCEPT ![n] = file[Promotion!Prepared(j)]]
    <2>1. Promotion!Succeeds("publish", j) /\ file' = Promotion!Effect("publish", j) /\ j \in Known /\ RunAt(j, 12)
        BY CallAt DEF Advancing
    <2>2. file[n] = Promotion!NoFile
        BY <2>1, SucceedsIs
    <2> QED
        BY <2>1, <2>2, Effects, NoFileFits
<1>2. /\ n \in Promotion!Name /\ n # Promotion!Backup(j) /\ Promotion!Prepared(j) \in Promotion!Name
      /\ \A k : n # <<k, "backup">> /\ Promotion!Prepared(j) # <<k, "backup">>
    BY <1>1, OwnNames
<1>3. (j.backup # 0 => Promotion!Backup(j) \in Promotion!Name) /\ (j.op = "promote" /\ j.before # Absent => j.backup # 0)
    BY <1>1, OwnNames, JournalTexts
<1>4. PromFiles' /\ \A m \in Promotion!Name \ {n} : file'[m] = file[m]
    BY <1>1, <1>2, FileLinked DEF PromTyped
<1>5. RunAt(j, 13)'
    <2>1. j.op = "promote" /\ j.before # Absent => file[Promotion!Backup(j)].text = j.before
        BY <1>1 DEF RunAt
    <2>2. j.op = "promote" /\ j.before # Absent => file'[Promotion!Backup(j)].text = j.before
        BY <1>2, <1>3, <1>4, <2>1
    <2> QED
        BY <2>2 DEF RunAt, Promotion!Backup
<1>6. KeptOutside({n})
    <2>1. file[n].text = Absent
        BY <1>1, <1>2, FileIs DEF PromTyped
    <2> QED
        BY <2>1, KeptBut, OwedIs
<1>7. NextPlace(j, 12) = 13
    BY DEF NextPlace
<1> HIDE DEF n
<1>8. n = CASE 12 \in {7, 8, 13} -> Promotion!Prepared(j)
            [] 12 \in {9, 14} -> Promotion!Swap(j)
            [] 12 \in {11, 12} -> Promotion!Target
    BY DEF n
<1> QED
    BY <1>4, <1>5, <1>6, <1>7, <1>8, RunElsewhere

\* The second link goes; its text is in the backup, or the candidate's own.
LEMMA RunUnclaims ==
    ASSUME PromInv, NEW j, Advancing(j, 14)
    PROVE  Advanced(j, NextPlace(j, 14))
<1> DEFINE n == Promotion!Swap(j)
<1> USE DEF PromInv
<1>1. j \in Known /\ RunAt(j, 14) /\ file' = Promotion!Effect("swap", j)
    BY CallAt DEF Advancing
<1>2. /\ n \in Promotion!Name /\ n # Promotion!Backup(j)
      /\ j.backup # 0 => Promotion!Backup(j) \in Promotion!Name /\ Promotion!Backup(j) \in Lasting
    BY <1>1, OwnNames
<1>3. /\ j.op = "promote" /\ j.before # Absent => j.backup # 0
      /\ j.op = "rollback" => j.before \notin owed
      /\ j.op \in {"promote", "rollback"} /\ Absent \notin owed
      /\ j.before # Absent => Promotion!Before(j) = [ino |-> j.ino, text |-> j.before]
      /\ j.before = Absent => Promotion!Before(j) = Promotion!NoFile
    BY <1>1, JournalTexts
<1>4. j.op = "promote" /\ j.before # Absent => file[Promotion!Backup(j)].text = j.before
    BY <1>1 DEF RunAt
<1>5. \/ file' = file
      \/ /\ file' = [file EXCEPT ![n] = Promotion!NoFile]
         /\ file[n].text = Absent \/ file[n].text = j.before
    <2>1. CASE file[n] = Promotion!NoFile \/ file[n] = Promotion!Before(j)
        <3>1. file' = [file EXCEPT ![n] = Promotion!NoFile]
            BY <1>1, <2>1, Removals
        <3>2. file[n].text = Absent \/ file[n].text = j.before
            BY <1>3, <2>1, NoFileFits
        <3> QED
            BY <3>1, <3>2
    <2>2. CASE ~(file[n] = Promotion!NoFile \/ file[n] = Promotion!Before(j))
        BY <1>1, <2>2, Removals
    <2> QED
        BY <2>1, <2>2
<1>6. PromFiles' /\ \A m \in Promotion!Name \ {n} : file'[m] = file[m]
    <2>1. CASE file' = file
        BY <2>1 DEF PromTyped, PromFiles, Exclusive
    <2>2. CASE file' = [file EXCEPT ![n] = Promotion!NoFile]
        BY <1>2, <2>2, FileGone DEF PromTyped, PromFiles
    <2> QED
        BY <1>5, <2>1, <2>2
<1>7. KeptOutside({}) /\ KeptOutside({})'
    <2> SUFFICES ASSUME NEW t \in owed
                 PROVE  \E m \in Lasting : file'[m].text = t
        BY DEF KeptOutside, Advancing
    <2>1. PICK m \in Lasting : file[m].text = t
        BY DEF KeptOutside
    <2>2. CASE m # n
        BY <1>6, <2>1, <2>2, PromLasting
    <2>3. CASE m = n /\ file' # file
        <3>1. t = j.before /\ j.op = "promote" /\ j.before # Absent
            BY <1>3, <1>5, <2>1, <2>3
        <3>2. /\ Promotion!Backup(j) \in Lasting /\ Promotion!Backup(j) \in Promotion!Name \ {n}
              /\ file[Promotion!Backup(j)].text = t
            BY <1>2, <1>3, <1>4, <3>1
        <3> QED
            BY <1>6, <3>2
    <2> QED
        BY <2>1, <2>2, <2>3
<1>8. RunAt(j, 15)'
    <2>1. j.op = "promote" /\ j.before # Absent => file'[Promotion!Backup(j)].text = j.before
        BY <1>2, <1>3, <1>4, <1>6
    <2> QED
        BY <2>1 DEF RunAt, Promotion!Backup
<1>9. NextPlace(j, 14) = 15
    BY DEF NextPlace
<1>10. /\ record' = record /\ record' \in [Candidate -> PromRecords] /\ \A c \in Candidate : Moved(c)
    <2>1. record' = record
        BY CallAt, RecordIs DEF Advancing
    <2> QED
        BY <2>1, RecordStill
<1>11. /\ PromFresh' /\ PromRecorded'
       /\ \A x \in Known : x.op = "promote" /\ x.backup # 0 =>
             file'[Promotion!Backup(x)].text \in {Absent, Torn, x.before}
    <2>1. spent' = spent /\ n \in {Promotion!Target, Promotion!Swap(j), Promotion!Prepared(j)}
        BY DEF Advancing
    <2> HIDE DEF n
    <2> QED
        BY <1>1, <1>6, <1>10, <2>1, OneChanged
<1> QED
    BY <1>6, <1>7, <1>8, <1>9, <1>10, <1>11 DEF Advanced

LEMMA PromRuns ==
    ASSUME PromInv, NEW w \in Worker, Transacts(w), Promotion!Step(w)
    PROVE  PromInv'
<1> USE DEF PromInv
<1>1. PICK j : j = worker[w].j
    OBVIOUS
<1>2. worker[w].todo # <<>>
    BY DEF Promotion!Step
<1>3. j \in Known
    BY <1>1, <1>2, Running
<1>4. PICK p \in 1 .. 16 :
         /\ Placed(worker[w].todo, j, p) /\ RunAt(j, p) /\ MayBeAt(j, p)
         /\ Head(worker[w].todo) = PublishCalls[p]
    BY <1>1, <1>2, Running
<1>5. PICK s : s = PublishCalls[p]
    OBVIOUS
<1>6. /\ Promotion!Succeeds(s, j) /\ file' = Promotion!Effect(s, j) /\ journals' = Promotion!Journals(s, j)
      /\ record' = Promotion!Records(s, j)
      /\ worker' = [worker EXCEPT ![w] = [worker[w] EXCEPT !.todo = Tail(@)]]
      /\ UNCHANGED <<holder, spent, owed, trouble>>
    BY <1>1, <1>4, <1>5 DEF Promotion!Step, Promotion!Becomes
<1>7. Advancing(j, p)
    BY <1>3, <1>4, <1>5, <1>6 DEF Advancing
<1>8. Advanced(j, NextPlace(j, p))
    <2>1. CASE p \in {1, 2, 3, 6, 10, 16}
        BY <1>7, <2>1, RunUnmoved
    <2>2. CASE p \in {4, 5}
        BY <1>7, <2>2, RunBacksUp
    <2>3. CASE p \in {7, 8, 13}
        BY <1>7, <2>3, RunPrepares
    <2>4. CASE p = 9
        BY <1>7, <2>4, RunClaims
    <2>5. CASE p = 11
        BY <1>7, <2>5, RunUnlinks
    <2>6. CASE p = 12
        BY <1>7, <2>6, RunPublishes
    <2>7. CASE p = 14
        BY <1>7, <2>7, RunUnclaims
    <2>8. CASE p = 15
        BY <1>7, <2>8, RunCommits
    <2>9. \/ p \in {1, 2, 3, 6, 10, 16} \/ p \in {4, 5} \/ p \in {7, 8, 13}
          \/ p = 9 \/ p = 11 \/ p = 12 \/ p = 14 \/ p = 15
        OBVIOUS
    <2> QED
        BY <2>1, <2>2, <2>3, <2>4, <2>5, <2>6, <2>7, <2>8, <2>9
<1>9. RunAt(j, NextPlace(j, p))'
    BY <1>8 DEF Advanced
<1> QED
    BY <1>1, <1>2, <1>4, <1>6, <1>8, <1>9, RunOn DEF Advanced


-----------------------------------------------------------------------------
(* Recovery makes its next call.                                           *)

LEMMA TailsAre ==
    /\ Head(Relinking) = "relink" /\ Tail(Relinking) = <<"swap", "prepared", "backup", "forget">>
    /\ Head(Applying) = "commit" /\ Tail(Applying) = <<"swap", "prepared", "forget">>
    /\ Head(<<"swap", "prepared", "backup", "forget">>) = "swap"
    /\ Tail(<<"swap", "prepared", "backup", "forget">>) = <<"prepared", "backup", "forget">>
    /\ Head(<<"prepared", "backup", "forget">>) = "prepared"
    /\ Tail(<<"prepared", "backup", "forget">>) = <<"backup", "forget">>
    /\ Head(<<"backup", "forget">>) = "backup" /\ Tail(<<"backup", "forget">>) = <<"forget">>
    /\ Head(<<"swap", "prepared", "forget">>) = "swap"
    /\ Tail(<<"swap", "prepared", "forget">>) = <<"prepared", "forget">>
    /\ Head(<<"prepared", "forget">>) = "prepared" /\ Tail(<<"prepared", "forget">>) = <<"forget">>
    /\ Head(<<"forget">>) = "forget" /\ Tail(<<"forget">>) = <<>>
BY DEF Relinking, Applying

LEMMA FixOn ==
    ASSUME PromInv, NEW w \in Worker, Recovers(w), NEW j, j = worker[w].j, worker[w].todo # <<>>,
           worker' = [worker EXCEPT ![w] = [worker[w] EXCEPT !.todo = Tail(@)]],
           UNCHANGED <<holder, spent, owed, trouble>>,
           NEW s, s = Head(worker[w].todo), s \notin {"open journal", "write journal"},
           journals' = Promotion!Journals(s, j),
           PromFiles', PromFresh', record' \in [Candidate -> PromRecords], \A c \in Candidate : Moved(c),
           PromRecorded', KeptOutside({})',
           \A y \in Known : y.op = "promote" /\ y.backup # 0 =>
                                file'[Promotion!Backup(y)].text \in {Absent, Torn, y.before},
           NEW rest, rest = Tail(worker[w].todo),
           s # "forget" => FixAt(j, rest)', s = "forget" => rest = <<>>
    PROVE  PromInv'
<1> USE DEF PromInv
<1>1. PICK x : x = [worker[w] EXCEPT !.todo = Tail(@)]
    OBVIOUS
<1>2. /\ Recovering(w) /\ holder = w /\ \A v \in Worker \ {w} : ~Transacts(v) /\ ~Recovers(v)
      /\ j \in journals /\ j.whole /\ j.id \notin worker[w].left
    BY PromSole DEF PromWork, Recovering
<1>3. Tail(worker[w].todo) \in Seq(CallNames \cup {"relink", "backup"})
    BY PromWorker, HeadTailProperties
<1>4. /\ x \in PromWorkers /\ x.stage = "recovering" /\ x.op = worker[w].op /\ x.cand = worker[w].cand /\ x.j = j
      /\ x.todo = rest /\ x.left = worker[w].left
    BY <1>1, <1>3, PromWorker DEF PromWorkers, Recovers
<1>5. Works(w, x)
    BY <1>1, <1>2, <1>4 DEF Works, PromTyped, PromLocked, Recovers
<1>6. journals' \subseteq journals /\ (s # "forget" => journals' = journals)
      /\ (s = "forget" => journals' = {y \in journals : y.id # j.id})
    BY DEF Promotion!Journals, Promotion!Others
<1>7. worker'[w] = x /\ Known' = journals' /\ journals \subseteq Known
    BY <1>4, <1>5, PromWorks DEF Known
<1>8. PromJournaled'
    <2>1. \A y \in Known' : \E z \in Known : Alike(y, z)
        BY <1>6, <1>7, PromFits DEF Alike
    <2>2. spent.tx \in Nat
        BY <1>2, OwnNames DEF Known
    <2> QED
        BY <2>1, <2>2, JournalsStill DEF PromTyped
<1>9. Recovering(w)'
    <2>1. \A k \in worker'[w].left : \E y \in journals' : y.id = k
        BY <1>2, <1>4, <1>6, <1>7 DEF Recovering
    <2>2. x.todo # <<>> => j \in journals' /\ FixAt(j, x.todo)'
        BY <1>2, <1>4, <1>6
    <2> QED
        BY <1>2, <1>4, <1>7, <2>1, <2>2 DEF Recovering
<1>10. journals' \subseteq PromJournals
    BY <1>6 DEF PromTyped
<1> QED
    BY <1>4, <1>5, <1>8, <1>9, <1>10, PromGoesOn

\* The call s of recovery is made, and what it leaves for the rest.
Fixing(j, todo) ==
    /\ j \in journals /\ FixAt(j, todo)
    /\ spent' = spent /\ owed' = owed
    /\ Promotion!Succeeds(Head(todo), j)
    /\ file' = Promotion!Effect(Head(todo), j)
    /\ record' = Promotion!Records(Head(todo), j)
Fixed(j, todo) ==
    /\ PromFiles' /\ PromFresh' /\ record' \in [Candidate -> PromRecords]
    /\ \A c \in Candidate : Moved(c)
    /\ PromRecorded' /\ KeptOutside({})'
    /\ \A y \in Known : y.op = "promote" /\ y.backup # 0 =>
                           file'[Promotion!Backup(y)].text \in {Absent, Torn, y.before}
    /\ Head(todo) \notin {"open journal", "write journal"}
    /\ Head(todo) # "forget" => FixAt(j, Tail(todo))'
    /\ Head(todo) = "forget" => Tail(todo) = <<>>

LEMMA FixForgets ==
    ASSUME PromInv, NEW j, Fixing(j, <<"forget">>)
    PROVE  Fixed(j, <<"forget">>)
<1> USE DEF PromInv
<1>1. /\ file' = file /\ record' = record /\ owed' = owed /\ spent' = spent /\ j \in Known
    <2>1. Head(<<"forget">>) = "forget"
        BY TailsAre
    <2>2. Promotion!Effect("forget", j) = file /\ Promotion!Records("forget", j) = record
        BY Effects, RecordIs
    <2> QED
        BY <2>1, <2>2 DEF Fixing, Known
<1>2. PromFiles' /\ KeptOutside({})' /\ record' \in [Candidate -> PromRecords] /\ \A c \in Candidate : Moved(c)
    BY <1>1, RecordStill DEF PromTyped, PromFiles, Exclusive, KeptOutside
<1>3. /\ PromFresh' /\ PromRecorded'
      /\ \A x \in Known : x.op = "promote" /\ x.backup # 0 =>
            file'[Promotion!Backup(x)].text \in {Absent, Torn, x.before}
    BY <1>1, NoneChanged
<1> QED
    BY <1>2, <1>3, TailsAre DEF Fixed

LEMMA FixCommits ==
    ASSUME PromInv, NEW j, Fixing(j, Applying),
           KeptOutside({Promotion!Swap(j)}),
           j.op = "promote" /\ j.before # Absent => file[Promotion!Backup(j)].text = j.before
    PROVE  Fixed(j, Applying)
<1> USE DEF PromInv
<1>1. /\ file' = file /\ record' = Promotion!Records("commit", j) /\ owed' = owed /\ spent' = spent /\ j \in Known
    BY TailsAre, Effects DEF Fixing, Known
<1>2. PromFiles' /\ KeptOutside({})' /\ KeptOutside({Promotion!Swap(j)})'
    BY <1>1 DEF PromTyped, PromFiles, Exclusive, KeptOutside, Promotion!Swap
<1>3. /\ PromFresh'
      /\ \A x \in Known : x.op = "promote" /\ x.backup # 0 =>
            file'[Promotion!Backup(x)].text \in {Absent, Torn, x.before}
    BY <1>1, NoneChanged
<1>4. record' \in [Candidate -> PromRecords] /\ PromRecorded' /\ \A c \in Candidate : Moved(c)
    BY <1>1, Committing
<1>5. FixAt(j, <<"swap", "prepared", "forget">>)'
    BY <1>2 DEF FixAt, Sweeping
<1> QED
    BY <1>2, <1>3, <1>4, <1>5, TailsAre DEF Fixed

\* The file comes back under its name: the links it is removed from hold its text.
LEMMA FixRelinks ==
    ASSUME PromInv, NEW j, Fixing(j, Relinking), file[Promotion!Swap(j)].text = j.before
    PROVE  Fixed(j, Relinking)
<1> DEFINE n == Promotion!Target
           rest == <<"swap", "prepared", "backup", "forget">>
<1> USE DEF PromInv
<1>1. /\ j \in Known /\ file[n].ino = 0 /\ file' = [file EXCEPT ![n] = file[Promotion!Swap(j)]]
      /\ owed' = owed /\ spent' = spent /\ record' = record
    <2>1. /\ Promotion!Succeeds("relink", j) /\ file' = Promotion!Effect("relink", j) /\ j \in Known
          /\ owed' = owed /\ spent' = spent /\ record' = Promotion!Records("relink", j)
        BY TailsAre DEF Fixing, Known
    <2>2. file[n] = Promotion!NoFile
        BY <2>1, SucceedsIs
    <2>3. record' = record
        BY <2>1, RecordIs
    <2> QED
        BY <2>1, <2>2, <2>3, Effects, NoFileFits
<1>2. /\ n \in Promotion!Name /\ n \in Lasting /\ Promotion!Swap(j) \in Promotion!Name
      /\ \A k : n # <<k, "backup">> /\ Promotion!Swap(j) # <<k, "backup">>
      /\ n # Promotion!Swap(j) /\ n # Promotion!Backup(j)
    BY <1>1, OwnNames
<1>3. PromFiles' /\ file'[n].text = j.before /\ \A m \in Promotion!Name \ {n} : file'[m] = file[m]
    BY <1>1, <1>2, FileLinked DEF PromTyped
<1>4. KeptOutside(Doomed(j))'
    <2> SUFFICES ASSUME NEW t \in owed
                 PROVE  \E m \in Lasting \ Doomed(j) : file'[m].text = t
        BY <1>1 DEF KeptOutside, Doomed, Promotion!Swap, Promotion!Backup
    <2>1. PICK m \in Lasting : file[m].text = t
        BY DEF KeptOutside
    <2>2. t # Absent /\ t # Torn
        BY OwedIs
    <2>3. n \notin Doomed(j)
        BY <1>2 DEF Doomed
    <2>4. CASE m \notin Doomed(j)
        <3>1. m # n
            BY <1>1, <1>2, <2>1, <2>2, FileIs DEF PromTyped
        <3> QED
            BY <1>3, <2>1, <2>4, <3>1, PromLasting
    <2>5. CASE m \in Doomed(j)
        <3>1. t = j.before
            <4>1. CASE m = Promotion!Swap(j)
                BY <2>1, <4>1
            <4>2. CASE j.op = "promote" /\ j.backup # 0 /\ m = Promotion!Backup(j)
                BY <1>1, <2>1, <2>2, <4>2, BackupOwned
            <4> QED
                BY <2>5, <4>1, <4>2 DEF Doomed
        <3> QED
            BY <1>2, <1>3, <2>3, <3>1
    <2> QED
        BY <2>4, <2>5
<1>5. KeptOutside({})'
    BY <1>4 DEF KeptOutside
<1>6. FixAt(j, rest)'
    BY <1>4 DEF FixAt, Clearing
<1>7. /\ record' \in [Candidate -> PromRecords] /\ \A c \in Candidate : Moved(c)
      /\ PromFresh' /\ PromRecorded'
      /\ \A x \in Known : x.op = "promote" /\ x.backup # 0 =>
            file'[Promotion!Backup(x)].text \in {Absent, Torn, x.before}
    <2>1. record' \in [Candidate -> PromRecords] /\ \A c \in Candidate : Moved(c)
        BY <1>1, RecordStill
    <2>2. n \in {Promotion!Target, Promotion!Swap(j), Promotion!Prepared(j)}
        OBVIOUS
    <2> HIDE DEF n
    <2>3. /\ PromFresh' /\ PromRecorded'
          /\ \A x \in Known : x.op = "promote" /\ x.backup # 0 =>
                file'[Promotion!Backup(x)].text \in {Absent, Torn, x.before}
        BY <1>1, <1>3, <2>2, OneChanged
    <2> QED
        BY <2>1, <2>3
<1> QED
    BY <1>3, <1>5, <1>6, <1>7, TailsAre DEF Fixed


\* What each removal of recovery leaves.
LEMMA FixRemoves ==
    ASSUME PromInv, NEW j \in journals, NEW n \in {Promotion!Swap(j), Promotion!Prepared(j)},
           spent' = spent, owed' = owed, record' = record,
           file' = file \/ file' = [file EXCEPT ![n] = Promotion!NoFile],
           NEW S, n \in S \/ n \notin Lasting, KeptOutside(S)
    PROVE  /\ PromFiles' /\ PromFresh' /\ record' \in [Candidate -> PromRecords]
           /\ \A c \in Candidate : Moved(c)
           /\ PromRecorded' /\ KeptOutside({})' /\ KeptOutside(S)'
           /\ \A y \in Known : y.op = "promote" /\ y.backup # 0 =>
                                  file'[Promotion!Backup(y)].text \in {Absent, Torn, y.before}
<1> USE DEF PromInv
<1>1. j \in Known
    BY DEF Known
<1>2. n \in Promotion!Name /\ n \in {Promotion!Target, Promotion!Swap(j), Promotion!Prepared(j)}
    BY <1>1, OwnNames
<1>3. PromFiles' /\ \A m \in Promotion!Name \ {n} : file'[m] = file[m]
    <2>1. CASE file' = file
        BY <2>1 DEF PromTyped, PromFiles, Exclusive
    <2>2. CASE file' = [file EXCEPT ![n] = Promotion!NoFile]
        BY <1>2, <2>2, FileGone DEF PromTyped, PromFiles
    <2> QED
        BY <2>1, <2>2
<1>4. KeptOutside({})' /\ KeptOutside(S)'
    <2>1. \A m \in Lasting \ S : file'[m].text = file[m].text
        BY <1>3, PromLasting
    <2> QED
        BY <2>1, KeptStill
<1>5. record' \in [Candidate -> PromRecords] /\ \A c \in Candidate : Moved(c)
    BY RecordStill
<1>6. /\ PromFresh' /\ PromRecorded'
      /\ \A x \in Known : x.op = "promote" /\ x.backup # 0 =>
            file'[Promotion!Backup(x)].text \in {Absent, Torn, x.before}
    BY <1>1, <1>2, <1>3, OneChanged
<1> QED
    BY <1>3, <1>4, <1>5, <1>6

\* The second link and the prepared file of a transaction that is done or undone.
LEMMA FixSweeps ==
    ASSUME PromInv, NEW j, NEW todo, Fixing(j, todo),
           \/ todo \in Sweeping /\ KeptOutside({Promotion!Swap(j)})
           \/ todo \in Clearing \ {<<"backup", "forget">>} /\ KeptOutside(Doomed(j))
    PROVE  Fixed(j, todo)
<1> USE DEF PromInv
<1>1. j \in journals /\ j \in Known /\ spent' = spent /\ owed' = owed
    BY DEF Fixing, Known
<1>2. PICK S : /\ KeptOutside(S)
               /\ \/ todo \in Sweeping /\ S = {Promotion!Swap(j)}
                  \/ todo \in Clearing \ {<<"backup", "forget">>} /\ S = Doomed(j)
    <2>1. CASE todo \in Sweeping /\ KeptOutside({Promotion!Swap(j)})
        BY <2>1
    <2>2. CASE todo \in Clearing \ {<<"backup", "forget">>} /\ KeptOutside(Doomed(j))
        BY <2>2
    <2> QED
        BY <2>1, <2>2
<1>3. Promotion!Swap(j) \in S /\ Promotion!Prepared(j) \notin Lasting
    BY <1>1, <1>2, OwnNames DEF Doomed
<1>4. PICK n : n = IF Head(todo) = "swap" THEN Promotion!Swap(j) ELSE Promotion!Prepared(j)
    OBVIOUS
<1>5. Head(todo) \in {"swap", "prepared"}
    BY <1>2, TailsAre DEF Sweeping, Clearing
<1>6. record' = record
    BY <1>5, RecordIs DEF Fixing
<1>7. file' = file \/ file' = [file EXCEPT ![n] = Promotion!NoFile]
    <2>1. CASE Head(todo) = "swap"
        BY <1>4, <2>1, Removals DEF Fixing
    <2>2. CASE Head(todo) = "prepared"
        BY <1>4, <2>2, Removals DEF Fixing
    <2> QED
        BY <1>5, <2>1, <2>2
<1>8. n \in {Promotion!Swap(j), Promotion!Prepared(j)} /\ (n \in S \/ n \notin Lasting)
    BY <1>3, <1>4
<1>9. /\ PromFiles' /\ PromFresh' /\ record' \in [Candidate -> PromRecords]
      /\ \A c \in Candidate : Moved(c)
      /\ PromRecorded' /\ KeptOutside({})' /\ KeptOutside(S)'
      /\ \A y \in Known : y.op = "promote" /\ y.backup # 0 =>
                             file'[Promotion!Backup(y)].text \in {Absent, Torn, y.before}
    BY <1>1, <1>2, <1>6, <1>7, <1>8, FixRemoves
<1>10. PICK rest : rest = Tail(todo)
    OBVIOUS
<1>11. \/ rest \in Sweeping /\ S = {Promotion!Swap(j)}
       \/ rest \in Clearing /\ S = Doomed(j)
       \/ rest = <<"forget">>
    <2>1. CASE todo \in Sweeping /\ S = {Promotion!Swap(j)}
        BY <1>10, <2>1, TailsAre DEF Sweeping
    <2>2. CASE todo \in Clearing \ {<<"backup", "forget">>} /\ S = Doomed(j)
        BY <1>10, <2>2, TailsAre DEF Clearing
    <2> QED
        BY <1>2, <2>1, <2>2
<1>12. FixAt(j, rest)'
    <2>1. CASE rest = <<"forget">>
        BY <2>1 DEF FixAt
    <2>2. CASE rest \in Sweeping /\ S = {Promotion!Swap(j)}
        <3>1. KeptOutside({Promotion!Swap(j)})'
            BY <1>9, <2>2 DEF KeptOutside, Promotion!Swap
        <3> QED
            BY <2>2, <3>1 DEF FixAt, Sweeping
    <2>3. CASE rest \in Clearing /\ S = Doomed(j)
        <3>1. KeptOutside(Doomed(j))'
            BY <1>9, <2>3 DEF KeptOutside, Doomed, Promotion!Swap, Promotion!Backup
        <3> QED
            BY <2>3, <3>1 DEF FixAt, Clearing
    <2> QED
        BY <1>11, <2>1, <2>2, <2>3
<1> QED
    BY <1>5, <1>9, <1>10, <1>12 DEF Fixed

\* The backup of a promotion that was undone: no revision relies on it.
LEMMA FixDropsBackup ==
    ASSUME PromInv, NEW j, Fixing(j, <<"backup", "forget">>), KeptOutside(Doomed(j))
    PROVE  Fixed(j, <<"backup", "forget">>)
<1> DEFINE b == Promotion!Backup(j)
<1> USE DEF PromInv
<1>1. /\ j \in journals /\ j \in Known /\ spent' = spent /\ owed' = owed /\ record' = record
      /\ file' = Promotion!Effect("backup", j)
    <2>1. Promotion!Records("backup", j) = record
        BY RecordIs
    <2> QED
        BY <2>1, TailsAre DEF Fixing, Known
<1>2. /\ record' \in [Candidate -> PromRecords] /\ \A c \in Candidate : Moved(c)
    BY <1>1, RecordStill
<1>3. FixAt(j, <<"forget">>)'
    BY DEF FixAt
<1>4. CASE file' = file
    <2>1. PromFiles' /\ KeptOutside({})'
        BY <1>1, <1>4 DEF PromTyped, PromFiles, Exclusive, KeptOutside
    <2>2. /\ PromFresh' /\ PromRecorded'
          /\ \A x \in Known : x.op = "promote" /\ x.backup # 0 =>
                file'[Promotion!Backup(x)].text \in {Absent, Torn, x.before}
        BY <1>1, <1>4, NoneChanged
    <2> QED
        BY <1>2, <1>3, <2>1, <2>2, TailsAre DEF Fixed
<1>5. CASE /\ j.op = "promote" /\ j.backup # 0 /\ record[j.cand].rev = j.rev
           /\ file' = [file EXCEPT ![b] = Promotion!NoFile]
    <2>1. b \in Promotion!Name /\ b \in Lasting /\ j.backup \in Promotion!Tx
        BY <1>1, <1>5, OwnNames
    <2>2. PromFiles' /\ file'[b] = Promotion!NoFile /\ \A m \in Promotion!Name \ {b} : file'[m] = file[m]
        BY <1>5, <2>1, FileGone DEF PromTyped, PromFiles
    <2>3. KeptOutside({})'
        <3>1. \A m \in Lasting \ Doomed(j) : file'[m].text = file[m].text
            BY <1>5, <2>2, PromLasting DEF Doomed
        <3> QED
            BY <1>1, <3>1, KeptStill
    <2>4. PromFresh'
        <3> SUFFICES ASSUME NEW k \in Promotion!Tx, NEW s \in {"swap", "prepared", "backup"}, k > spent.tx
                     PROVE  file'[<<k, s>>].ino = 0
            BY <1>1 DEF PromFresh
        <3>1. <<k, s>> \in Promotion!Name
            BY DEF Promotion!Name
        <3> QED
            BY <2>2, <3>1, NoFileFits DEF PromFresh
    <2>5. PromRecorded'
        <3> SUFFICES ASSUME NEW c \in Candidate, record[c].state = "promoted", Basis[c] # Absent, record[c].backup # 0
                     PROVE  file'[<<record[c].backup, "backup">>].text = file[<<record[c].backup, "backup">>].text
            BY <1>1, RecordsStill
        <3>1. <<record[c].backup, "backup">> \in Promotion!Name
            BY PromBackup, PromNumbers DEF PromTyped, PromRecords
        <3>2. record[c].backup # j.backup
            <4> SUFFICES ASSUME record[c].backup = j.backup
                         PROVE  FALSE
                OBVIOUS
            <4>1. Uses(c, j.id)
                BY <1>1, <1>5, BackupOwned DEF Uses
            <4>2. c = j.cand /\ j.rev < record[c].rev
                BY <1>1, <1>5, <4>1 DEF PromJournaled
            <4>3. record[j.cand].rev \in Nat
                BY <4>2 DEF PromTyped, PromRecords
            <4> QED
                BY <1>5, <4>2, <4>3
        <3> QED
            BY <2>2, <3>1, <3>2 DEF Promotion!Backup
    <2>6. ASSUME NEW x \in Known, x.op = "promote", x.backup # 0
          PROVE  file'[Promotion!Backup(x)].text \in {Absent, Torn, x.before}
        <3>1. CASE x.backup = j.backup
            BY <2>2, <3>1, NoFileFits DEF Promotion!Backup
        <3>2. CASE x.backup # j.backup
            BY <2>2, <2>6, <3>2, BackupOwned, OwnNames DEF Promotion!Backup
        <3> QED
            BY <3>1, <3>2
    <2> QED
        BY <1>2, <1>3, <2>2, <2>3, <2>4, <2>5, <2>6, TailsAre DEF Fixed
<1> QED
    BY <1>1, <1>4, <1>5, Removals

LEMMA PromFixes ==
    ASSUME PromInv, NEW w \in Worker, Recovers(w), Promotion!Step(w)
    PROVE  PromInv'
<1> USE DEF PromInv
<1>1. PICK j, todo, s, rest :
         j = worker[w].j /\ todo = worker[w].todo /\ s = Head(worker[w].todo) /\ rest = Tail(worker[w].todo)
    OBVIOUS
<1>2. todo # <<>> /\ worker[w].todo # <<>>
    BY <1>1 DEF Promotion!Step
<1>3. j \in journals /\ FixAt(j, todo)
    BY <1>1, <1>2 DEF PromWork, Recovering
<1>4. /\ Promotion!Succeeds(s, j) /\ file' = Promotion!Effect(s, j) /\ journals' = Promotion!Journals(s, j)
      /\ record' = Promotion!Records(s, j)
      /\ worker' = [worker EXCEPT ![w] = [worker[w] EXCEPT !.todo = Tail(@)]]
      /\ UNCHANGED <<holder, spent, owed, trouble>>
    BY <1>1 DEF Promotion!Step, Promotion!Becomes
<1>5. Fixing(j, todo)
    BY <1>1, <1>3, <1>4 DEF Fixing
<1>6. Fixed(j, todo)
    <2>1. CASE todo = Relinking /\ file[Promotion!Swap(j)].text = j.before
        BY <1>5, <2>1, FixRelinks
    <2>2. CASE todo \in Clearing /\ KeptOutside(Doomed(j))
        <3>1. CASE todo = <<"backup", "forget">>
            BY <1>5, <2>2, <3>1, FixDropsBackup
        <3>2. CASE todo # <<"backup", "forget">>
            BY <1>5, <2>2, <3>2, FixSweeps
        <3> QED
            BY <3>1, <3>2
    <2>3. CASE /\ todo = Applying /\ KeptOutside({Promotion!Swap(j)})
               /\ j.op = "promote" /\ j.before # Absent => file[Promotion!Backup(j)].text = j.before
        BY <1>5, <2>3, FixCommits
    <2>4. CASE todo \in Sweeping /\ KeptOutside({Promotion!Swap(j)})
        BY <1>5, <2>4, FixSweeps
    <2>5. CASE todo = <<"forget">>
        BY <1>5, <2>5, FixForgets
    <2> QED
        BY <1>3, <2>1, <2>2, <2>3, <2>4, <2>5 DEF FixAt
<1>7. /\ s \notin {"open journal", "write journal"}
      /\ s # "forget" => FixAt(j, rest)'
      /\ s = "forget" => rest = <<>>
    BY <1>1, <1>6 DEF Fixed
<1> QED
    BY <1>1, <1>2, <1>4, <1>6, <1>7, FixOn DEF Fixed


-----------------------------------------------------------------------------
(* A call fails.                                                           *)

\* Names come to lead where others led, or nowhere; no backup gets a second link.
LEMMA FileShuffled ==
    ASSUME PromFiles, DOMAIN file' = Promotion!Name, file' = [n \in Promotion!Name |-> file'[n]],
           \A m \in Promotion!Name :
              \/ file'[m] = Promotion!NoFile
              \/ \E k \in Promotion!Name :
                    /\ file'[m] = file[k]
                    /\ k = m \/ \A i \in Promotion!Tx : k # <<i, "backup">> /\ m # <<i, "backup">>
    PROVE  PromFiles'
<1>1. \A m \in Promotion!Name : file'[m] \in FileValues /\ Fits(file'[m])
    BY NoFileFits DEF PromFiles
<1>2. file' \in [Promotion!Name -> FileValues]
    BY <1>1
<1>3. ASSUME NEW a \in Promotion!Name, NEW b \in Promotion!Name, file'[a].ino = file'[b].ino
      PROVE  file'[a] = file'[b]
    <2>1. \A k \in Promotion!Name : file[k].ino = 0 => file[k] = Promotion!NoFile
        BY FileIs
    <2> QED
        BY <1>3, <2>1, NoFileFits DEF PromFiles
<1>4. ASSUME NEW i \in Promotion!Tx, file'[<<i, "backup">>].ino # 0
      PROVE  Exclusive(<<i, "backup">>)'
    <2>1. <<i, "backup">> \in Promotion!Name /\ file'[<<i, "backup">>] = file[<<i, "backup">>]
        BY <1>4, PromBackup, NoFileFits
    <2>2. Exclusive(<<i, "backup">>)
        BY <1>4, <2>1 DEF PromFiles
    <2>3. ASSUME NEW m \in Promotion!Name \ {<<i, "backup">>}
          PROVE  file'[m].ino # file'[<<i, "backup">>].ino
        <3>1. CASE file'[m] = Promotion!NoFile
            BY <1>4, <3>1, NoFileFits
        <3>2. ASSUME NEW k \in Promotion!Name, file'[m] = file[k],
                     k = m \/ \A i2 \in Promotion!Tx : k # <<i2, "backup">> /\ m # <<i2, "backup">>
              PROVE  file'[m].ino # file'[<<i, "backup">>].ino
            <4>1. k # <<i, "backup">>
                BY <3>2
            <4> QED
                BY <2>1, <2>2, <3>2, <4>1 DEF Exclusive
        <3> QED
            BY <3>1, <3>2
    <2> QED
        BY <2>3 DEF Exclusive
<1> QED
    BY <1>1, <1>2, <1>3, <1>4 DEF PromFiles

\* Only the second link may have been made by a call that failed.
LEMMA Failing ==
    ASSUME PromFiles, NEW s, NEW j, ~Promotion!Succeeds(s, j)
    PROVE  \/ Promotion!Effect(s, j) = file
           \/ s = "claim" /\ Promotion!Effect(s, j) = [file EXCEPT ![Promotion!Swap(j)] = file[Promotion!Target]]
<1>1. file = [n \in Promotion!Name |-> file[n]] /\ Promotion!Target \in Promotion!Name
    BY DEF PromFiles, Promotion!Name
<1>2. CASE s \in {"check", "claim"}
    BY <1>2, Effects
<1>3. CASE s = "unlink"
    <2>1. file[Promotion!Target] = Promotion!NoFile
        BY <1>3 DEF Promotion!Succeeds, Promotion!Removes
    <2> QED
        BY <1>1, <1>3, <2>1, Effects
<1>4. CASE s \in {"publish", "relink"}
    <2>1. file[Promotion!Target] # Promotion!NoFile
        BY <1>4 DEF Promotion!Succeeds, Promotion!Removes
    <2> QED
        BY <1>4, <2>1, Effects
<1>5. CASE s \in {"swap", "prepared", "backup"}
    <2>1. Promotion!Removes(s, j) /\ ~Promotion!AsExpected(s, j)
        BY <1>5 DEF Promotion!Succeeds
    <2>2. /\ s = "swap" => Promotion!At(s, j) = Promotion!Swap(j)
          /\ s = "prepared" => Promotion!At(s, j) = Promotion!Prepared(j)
          /\ s = "backup" => Promotion!At(s, j) = Promotion!Backup(j)
        BY DEF Promotion!At, Promotion!Swap, Promotion!Prepared
    <2> QED
        BY <1>5, <2>1, <2>2, Removals DEF Promotion!AsExpected
<1>6. CASE s \notin {"check", "claim", "unlink", "publish", "relink", "swap", "prepared", "backup"}
    BY <1>6 DEF Promotion!Succeeds, Promotion!Removes
<1> QED
    BY <1>2, <1>3, <1>4, <1>5, <1>6

\* The transaction's second link may have been made; the prepared file may be gone.
LEMMA Tidying ==
    ASSUME PromInv, NEW j \in Known, NEW f,
           f = file \/ /\ f = [file EXCEPT ![Promotion!Swap(j)] = file[Promotion!Target]]
                       /\ file[Promotion!Swap(j)].ino = 0,
           file' = Promotion!Tidied(f, j), spent'.tx = spent.tx, owed' = owed
    PROVE  /\ PromFiles' /\ PromFresh' /\ KeptOutside({})'
           /\ \A k \in Promotion!Tx : file'[<<k, "backup">>] = file[<<k, "backup">>]
<1> DEFINE s == Promotion!Swap(j)
           p == Promotion!Prepared(j)
           t == Promotion!Target
<1> USE DEF PromInv
<1>1. /\ s \in Promotion!Name /\ p \in Promotion!Name /\ t \in Promotion!Name
      /\ s # p /\ s # t /\ p # t /\ p \notin Lasting
      /\ \A k : <<k, "backup">> \notin {s, p, t}
      /\ s = <<j.id, "swap">> /\ p = <<j.id, "prepared">> /\ t = <<0, "target">>
      /\ j.id \in Nat /\ j.id <= spent.tx /\ spent.tx \in Nat
    BY OwnNames, PromNames
<1>2. file = [n \in Promotion!Name |-> file[n]] /\ DOMAIN file = Promotion!Name
    BY DEF PromTyped, PromFiles
<1> HIDE DEF s, p, t
<1>3. /\ f = [n \in Promotion!Name |-> f[n]] /\ DOMAIN f = Promotion!Name
      /\ \A m \in Promotion!Name \ {s} : f[m] = file[m]
      /\ f[s] = file[s] \/ (f[s] = file[t] /\ file[s].ino = 0)
    BY <1>1, <1>2 DEF s, t
<1>4. /\ file' = [n \in Promotion!Name |-> file'[n]] /\ DOMAIN file' = Promotion!Name
      /\ \A m \in Promotion!Name \ {p} : file'[m] = f[m]
      /\ file'[p] = f[p] \/ file'[p] = Promotion!NoFile
    <2>1. file' = f \/ file' = [f EXCEPT ![p] = Promotion!NoFile]
        BY DEF Promotion!Tidied, p
    <2> QED
        BY <1>1, <1>3, <2>1
<1>5. /\ \A m \in Promotion!Name \ {s, p} : file'[m] = file[m]
      /\ file'[s] = file[s] \/ (file'[s] = file[t] /\ file[s].ino = 0)
      /\ file'[p] = file[p] \/ file'[p] = Promotion!NoFile
    BY <1>1, <1>3, <1>4
<1>6. PromFiles'
    <2>1. ASSUME NEW m \in Promotion!Name
          PROVE  \/ file'[m] = Promotion!NoFile
                 \/ \E k \in Promotion!Name :
                       /\ file'[m] = file[k]
                       /\ k = m \/ \A i \in Promotion!Tx : k # <<i, "backup">> /\ m # <<i, "backup">>
        BY <1>1, <1>5
    <2> QED
        BY <1>4, <2>1, FileShuffled DEF PromTyped
<1>7. PromFresh'
    <2> SUFFICES ASSUME NEW k \in Promotion!Tx, NEW x \in {"swap", "prepared", "backup"}, k > spent.tx
                 PROVE  file'[<<k, x>>].ino = 0
        BY DEF PromFresh
    <2>1. <<k, x>> \in Promotion!Name
        BY DEF Promotion!Name
    <2>2. k # j.id
        BY <1>1, PromNumbers
    <2>3. <<k, x>> \in Promotion!Name \ {s, p}
        BY <1>1, <2>1, <2>2
    <2>4. file'[<<k, x>>] = file[<<k, x>>]
        BY <1>5, <2>3
    <2> QED
        BY <2>4 DEF PromFresh
<1>8. \A k \in Promotion!Tx : file'[<<k, "backup">>] = file[<<k, "backup">>]
    BY <1>1, <1>5, PromBackup
<1>9. KeptOutside({})'
    <2> SUFFICES ASSUME NEW x \in owed
                 PROVE  \E m \in Lasting : file'[m].text = x
        BY DEF KeptOutside
    <2>1. PICK m \in Lasting : file[m].text = x
        BY DEF KeptOutside
    <2>2. m # p /\ m \in Promotion!Name /\ x # Absent
        BY <1>1, <2>1, PromLasting, OwedIs
    <2>3. file'[m] = file[m] \/ (m = s /\ file[s].ino = 0)
        BY <1>5, <2>2
    <2>4. file[m].ino # 0
        BY <2>1, <2>2, FileIs DEF PromTyped
    <2> QED
        BY <2>1, <2>3, <2>4
<1> QED
    BY <1>6, <1>7, <1>8, <1>9

LEMMA PromAbandons ==
    ASSUME PromInv, NEW w \in Worker, worker[w].todo # <<>>, NEW f, Promotion!Abandoned(w, f),
           \/ f = file
           \/ ~Promotion!Succeeds(Head(worker[w].todo), worker[w].j)
              /\ f = Promotion!Effect(Head(worker[w].todo), worker[w].j),
           UNCHANGED <<journals, record, owed>>,
           spent' \in [calls : Nat, tx : 0 .. MaxCalls, faults : Nat, edits : Nat], spent'.tx = spent.tx,
           trouble' \subseteq {"edit", "torn", "overlap"}
    PROVE  PromInv'
<1> USE DEF PromInv
<1>1. Transacts(w) \/ Recovers(w)
    BY DEF PromLocked
<1>2. \A v \in Worker \ {w} : ~Transacts(v) /\ ~Recovers(v)
    BY <1>1, PromSole
<1>3. PICK j, s : j = worker[w].j /\ s = Head(worker[w].todo)
    OBVIOUS
<1>4. \/ f = file
      \/ s = "claim" /\ f = [file EXCEPT ![Promotion!Swap(j)] = file[Promotion!Target]]
    BY <1>3, Failing DEF PromTyped
<1>5. CASE Transacts(w)
    <2>1. file' = Promotion!Tidied(f, j) /\ holder' = "none" /\ worker' = [worker EXCEPT ![w] = Promotion!Idle]
        BY <1>3, <1>5 DEF Promotion!Abandoned, Promotion!Doing, Promotion!Becomes, Transacts, Promotion!None
    <2>2. j \in Known
        BY <1>3, <1>5, Running
    <2>3. s = "claim" => file[Promotion!Swap(j)].ino = 0
        <3>1. PICK p \in 1 .. 16 : RunAt(j, p) /\ s = PublishCalls[p]
            BY <1>3, <1>5, Running
        <3>2. s = "claim" => p = 9
            <4>1. \/ p = 1 \/ p = 2 \/ p = 3 \/ p = 4 \/ p = 5 \/ p = 6 \/ p = 7 \/ p = 8 \/ p = 9 \/ p = 10
                  \/ p = 11 \/ p = 12 \/ p = 13 \/ p = 14 \/ p = 15 \/ p = 16
                OBVIOUS
            <4> QED
                BY <3>1, <4>1, CallAt
        <3> QED
            BY <3>1, <3>2 DEF RunAt
    <2>4. /\ PromFiles' /\ PromFresh' /\ KeptOutside({})'
          /\ \A k \in Promotion!Tx : file'[<<k, "backup">>] = file[<<k, "backup">>]
        BY <1>4, <2>1, <2>2, <2>3, Tidying
    <2>5. Pauses(w, Promotion!Idle)
        BY <1>2, <2>1, IdleIs DEF Pauses, PauseStages
    <2>6. record' \in [Candidate -> PromRecords] /\ \A c \in Candidate : Moved(c)
        BY RecordStill
    <2> QED
        BY <1>2, <2>4, <2>5, <2>6, PromLetGo
<1>6. CASE Recovers(w)
    <2>1. PICK x : x = [worker[w] EXCEPT !.todo = <<>>, !.bad = TRUE]
        OBVIOUS
    <2>2. file' = f /\ holder' = holder /\ worker' = [worker EXCEPT ![w] = x] /\ holder = w
        BY <1>6, <2>1, PromSole DEF Promotion!Abandoned, Promotion!Doing, Promotion!Becomes, Recovers
    <2>3. s # "claim"
        <3>1. FixAt(j, worker[w].todo)
            BY <1>3, <1>6 DEF PromWork, Recovering
        <3> QED
            BY <1>3, <3>1, TailsAre DEF FixAt, Clearing, Sweeping
    <2>4. file' = file
        BY <1>4, <2>2, <2>3
    <2>5. <<>> \in Seq(CallNames \cup {"relink", "backup"})
        BY EmptySeq
    <2>6. /\ x \in PromWorkers /\ x.stage = "recovering" /\ x.op = worker[w].op /\ x.cand = worker[w].cand
          /\ x.todo = <<>> /\ x.left = worker[w].left
        BY <1>6, <2>1, <2>5, PromWorker DEF PromWorkers, Recovers
    <2>7. Works(w, x)
        BY <1>2, <1>6, <2>2, <2>6 DEF Works, PromLocked, Recovers
    <2>8. Recovering(w)'
        BY <1>6, <2>6, <2>7, PromWorks DEF Recovering, PromWork
    <2> QED
        BY <2>4, <2>6, <2>7, <2>8, PromTurns
<1> QED
    BY <1>1, <1>5, <1>6

LEMMA PromFails ==
    ASSUME PromInv, NEW w \in Worker, Promotion!Fail(w) \/ Promotion!Throw(w)
    PROVE  PromInv'
<1> USE DEF PromInv
<1>1. /\ spent \in [calls : Nat, tx : 0 .. MaxCalls, faults : Nat, edits : Nat]
      /\ trouble \subseteq {"edit", "torn", "overlap"}
    BY DEF PromTyped
<1>2. CASE Promotion!Fail(w)
    <2>1. PICK f : /\ f = Promotion!Effect(Head(worker[w].todo), worker[w].j)
                   /\ Promotion!Abandoned(w, f)
        BY <1>2 DEF Promotion!Fail
    <2>2. /\ worker[w].todo # <<>> /\ ~Promotion!Succeeds(Head(worker[w].todo), worker[w].j)
          /\ UNCHANGED <<journals, record, owed, spent, trouble>>
        BY <1>2 DEF Promotion!Fail, Promotion!history
    <2> QED
        BY <1>1, <2>1, <2>2, PromAbandons
<1>3. CASE Promotion!Throw(w)
    <2>1. PICK f : f = file /\ Promotion!Abandoned(w, f)
        BY <1>3 DEF Promotion!Throw
    <2>2. /\ worker[w].todo # <<>> /\ trouble' = trouble \cup Promotion!Tear(w)
          /\ spent' = [spent EXCEPT !["faults"] = @ + 1] /\ UNCHANGED <<journals, record, owed>>
        BY <1>3 DEF Promotion!Throw, Promotion!Spend
    <2>3. trouble' \subseteq {"edit", "torn", "overlap"}
        BY <1>1, <2>2 DEF Promotion!Tear
    <2> QED
        BY <2>1, <2>2, <2>3, PromSpent, PromAbandons
<1> QED
    BY <1>2, <1>3


-----------------------------------------------------------------------------
(* The user edits the file.                                                *)

Edited(t) ==
    /\ PromFiles' /\ file'[Promotion!Target].text = t /\ t \in UserText \cup Original
    /\ \A n \in Promotion!Name \ {Promotion!Target} :
          /\ file'[n].ino = file[n].ino
          /\ file'[n] = file[n] \/ file[n].ino = file[Promotion!Target].ino
          /\ file[n].ino \notin {0, file[Promotion!Target].ino} => file'[Promotion!Target].ino # file[n].ino
    /\ \/ /\ file'[Promotion!Target].ino = file[Promotion!Target].ino
          /\ \A n \in Promotion!Name : file[n].ino = file[Promotion!Target].ino => file'[n].text = t
       \/ file'[Promotion!Target].ino = 0
       \/ Exclusive(Promotion!Target)'
    /\ owed' = (owed \ {file[Promotion!Target].text}) \cup Promotion!Saved(t)
    /\ trouble' = trouble \cup {"edit"}
    /\ spent' = [spent EXCEPT !["edits"] = @ + 1]
    /\ UNCHANGED <<journals, record, holder, worker>>

LEMMA EditsInPlace ==
    ASSUME PromInv, NEW t \in UserText, Promotion!EditInPlace(t)
    PROVE  Edited(t)
<1> USE DEF PromInv
<1>1. /\ file[Promotion!Target] # Promotion!NoFile
      /\ file' = [n \in Promotion!Name |-> IF file[n].ino = file[Promotion!Target].ino
                                              THEN [file[n] EXCEPT !.text = t] ELSE file[n]]
      /\ owed' = (owed \ {file[Promotion!Target].text}) \cup Promotion!Saved(t)
      /\ trouble' = trouble \cup {"edit"}
      /\ spent' = [spent EXCEPT !["edits"] = @ + 1]
      /\ UNCHANGED <<journals, record, holder, worker>>
    BY DEF Promotion!EditInPlace, Promotion!Spend
<1>2. Promotion!Target \in Promotion!Name /\ t \in PublishTexts \ {Absent}
    BY PromTexts DEF Promotion!Name
<1>3. file[Promotion!Target].ino # 0
    BY <1>1, <1>2, FileIs DEF PromTyped
<1>4. /\ PromFiles' /\ \A n \in Promotion!Name : file'[n].ino = file[n].ino
      /\ \A n \in Promotion!Name : file[n].ino = file[Promotion!Target].ino => file'[n].text = t
      /\ \A n \in Promotion!Name : file[n].ino # file[Promotion!Target].ino => file'[n] = file[n]
    BY <1>1, <1>2, <1>3, FileEdited DEF PromTyped
<1> QED
    BY <1>1, <1>2, <1>4 DEF Edited

LEMMA EditsAnew ==
    ASSUME PromInv, NEW t \in UserText \cup Original, Promotion!EditReplace(t)
    PROVE  Edited(t)
<1> DEFINE n == Promotion!Target
<1> USE DEF PromInv
<1>1. /\ file' = [file EXCEPT ![n] = IF t = Absent THEN Promotion!NoFile ELSE Promotion!New(t)]
      /\ owed' = (owed \ {file[n].text}) \cup Promotion!Saved(t)
      /\ trouble' = trouble \cup {"edit"}
      /\ spent' = [spent EXCEPT !["edits"] = @ + 1]
      /\ UNCHANGED <<journals, record, holder, worker>>
    BY DEF Promotion!EditReplace, Promotion!Spend
<1>2. n \in Promotion!Name /\ t \in PublishTexts
    BY PromTexts DEF Promotion!Name
<1>3. CASE t = Absent
    <2>1. file' = [file EXCEPT ![n] = Promotion!NoFile]
        BY <1>1, <1>3
    <2>2. PromFiles' /\ file'[n] = Promotion!NoFile /\ \A m \in Promotion!Name \ {n} : file'[m] = file[m]
        BY <1>2, <2>1, FileGone DEF PromTyped, PromFiles
    <2> QED
        BY <1>1, <1>3, <2>2, NoFileFits DEF Edited
<1>4. CASE t # Absent
    <2>1. file' = [file EXCEPT ![n] = Promotion!New(t)]
        BY <1>1, <1>4
    <2>2. /\ PromFiles' /\ file'[n].text = t /\ Exclusive(n)'
          /\ \A m \in Promotion!Name : file[m].ino # file'[n].ino
          /\ \A m \in Promotion!Name \ {n} : file'[m] = file[m]
        BY <1>2, <1>4, <2>1, FileMade DEF PromTyped
    <2> QED
        BY <1>1, <2>2 DEF Edited
<1> QED
    BY <1>3, <1>4

LEMMA EditKeeps ==
    ASSUME PromInv, NEW t, Edited(t)
    PROVE  /\ \A S : KeptOutside(S) /\ Promotion!Target \notin S => KeptOutside(S)'
           /\ \A k \in Promotion!Tx : file'[<<k, "backup">>] = file[<<k, "backup">>]
           /\ \A x \in owed : x # file[Promotion!Target].text =>
                 \A n \in Lasting : file[n].text = x => n # Promotion!Target /\ file'[n].text = x
<1> DEFINE g == Promotion!Target
<1> USE DEF PromInv
<1>1. g \in Promotion!Name /\ g \in Lasting /\ Lasting \subseteq Promotion!Name /\ \A k \in Promotion!Tx : <<k, "backup">> # g
    BY PromLasting DEF Promotion!Target, Promotion!Tx
<1>2. ASSUME NEW x \in owed, x # file[g].text, NEW n \in Lasting, file[n].text = x
      PROVE  n # g /\ file'[n].text = x
    BY <1>1, <1>2 DEF PromTyped, PromFiles, Edited
<1>3. ASSUME NEW S, KeptOutside(S), g \notin S
      PROVE  KeptOutside(S)'
    <2> SUFFICES ASSUME NEW x \in owed'
                 PROVE  \E n \in Lasting \ S : file'[n].text = x
        BY DEF KeptOutside
    <2>1. CASE x \in owed /\ x # file[g].text
        BY <1>2, <1>3, <2>1 DEF KeptOutside
    <2>2. CASE x = t
        BY <1>1, <1>3, <2>2 DEF Edited
    <2> QED
        BY <2>1, <2>2 DEF Edited, Promotion!Saved
<1>4. ASSUME NEW k \in Promotion!Tx
      PROVE  file'[<<k, "backup">>] = file[<<k, "backup">>]
    <2> DEFINE b == <<k, "backup">>
    <2>1. b \in Promotion!Name /\ b # g
        BY <1>1, PromBackup
    <2>2. CASE file[b].ino # 0
        BY <1>1, <2>1, <2>2 DEF Edited, PromTyped, PromFiles, Exclusive
    <2>3. CASE file[b].ino = 0
        <3>1. file[b] = Promotion!NoFile /\ file'[b].ino = 0
            BY <2>1, <2>3, FileIs DEF Edited, PromTyped
        <3>2. file'[b].text = Absent /\ file'[b] \in FileValues
            BY <2>1, <3>1 DEF Edited, PromFiles, Fits
        <3>3. file'[b] = Promotion!NoFile
            BY <3>1, <3>2 DEF FileValues, Promotion!NoFile
        <3> QED
            BY <3>1, <3>3
    <2> QED
        BY <2>2, <2>3
<1> QED
    BY <1>2, <1>3, <1>4

LEMMA EditsRun ==
    ASSUME PromInv, NEW t, Edited(t), NEW j \in Known, NEW p \in 1 .. 17, RunAt(j, p),
           p = 11 => \E w \in Worker : /\ worker[w].todo # <<>> /\ Head(worker[w].todo) = "unlink"
                                      /\ worker[w].j = j
    PROVE  RunAt(j, p)'
<1> DEFINE g == Promotion!Target
           s == Promotion!Swap(j)
           q == Promotion!Prepared(j)
           b == Promotion!Backup(j)
<1> USE DEF PromInv
<1>1. /\ g \in Promotion!Name /\ s \in Promotion!Name /\ q \in Promotion!Name /\ s # g /\ q # g /\ s # q
      /\ s \in Lasting /\ g \in Lasting
      /\ j.backup # 0 => b \in Promotion!Name /\ j.backup \in Promotion!Tx
      /\ b # g
    BY OwnNames
<1>2. j.op = "promote" /\ j.before # Absent => j.backup # 0
    BY JournalTexts
<1>3. j.op = "promote" /\ j.before # Absent => file'[b] = file[b]
    BY <1>1, <1>2, EditKeeps DEF Promotion!Backup
<1>4. file'[s].ino = file[s].ino /\ file'[q].ino = file[q].ino
    BY <1>1 DEF Edited
<1>5. ASSUME p = 8
      PROVE  file'[q].ino # 0 /\ Exclusive(q)'
    <2>1. file[q].ino # 0 /\ Exclusive(q)
        BY <1>5 DEF RunAt
    <2>2. file[q].ino # file[g].ino
        BY <1>1, <2>1 DEF Exclusive
    <2>3. file'[g].ino # file[q].ino
        BY <1>1, <2>1, <2>2 DEF Edited
    <2> QED
        BY <1>1, <1>4, <2>1, <2>3 DEF Exclusive, Edited
<1>6. ASSUME p = 11
      PROVE  /\ KeptOutside({g})'
             /\ \/ file'[s].ino = file'[g].ino
                \/ file'[g].ino = 0
                \/ Exclusive(g)'
    <2>1. /\ KeptOutside({g})
          /\ file[s].ino = file[g].ino \/ file[g].ino = 0 \/ Exclusive(g)
        BY <1>6 DEF RunAt
    <2>2. \/ file'[s].ino = file'[g].ino
          \/ file'[g].ino = 0
          \/ Exclusive(g)'
        <3>1. CASE file'[g].ino = file[g].ino
            BY <1>1, <1>4, <2>1, <3>1 DEF Exclusive, Edited
        <3> QED
            BY <3>1 DEF Edited
    <2>3. KeptOutside({g})'
        <3> SUFFICES ASSUME NEW x \in owed'
                     PROVE  \E n \in Lasting \ {g} : file'[n].text = x
            BY DEF KeptOutside, Promotion!Target
        <3>1. CASE x \in owed /\ x # file[g].text
            <4>1. PICK n \in Lasting \ {g} : file[n].text = x
                BY <2>1, <3>1 DEF KeptOutside
            <4> QED
                BY <3>1, <4>1, EditKeeps
        <3>2. CASE x \in Promotion!Saved(t)
            <4>1. x = t /\ t # Absent /\ ~Promotion!Exposed
                BY <3>2 DEF Promotion!Saved
            <4>2. file[s].ino = file'[g].ino
                <5>1. file[s].ino = j.ino
                    BY <1>6 DEF RunAt
                <5>2. file'[g].ino = j.ino
                    BY <1>6, <4>1 DEF Promotion!Exposed
                <5> QED
                    BY <5>1, <5>2
            <4>3. file'[s].ino = file'[g].ino
                BY <1>4, <4>2
            <4>4. file'[g].ino # 0
                <5>1. Fits(file'[g]) /\ file'[g].text = t
                    BY <1>1 DEF Edited, PromFiles
                <5> QED
                    BY <4>1, <5>1 DEF Fits
            <4>5. ~ Exclusive(g)'
                BY <1>1, <4>3 DEF Exclusive
            <4>6. file'[g].ino = file[g].ino /\ \A m \in Promotion!Name : file[m].ino = file[g].ino => file'[m].text = t
                BY <4>4, <4>5 DEF Edited
            <4>7. file[s].ino = file[g].ino
                BY <4>2, <4>6
            <4> QED
                BY <1>1, <4>1, <4>6, <4>7
        <3> QED
            BY <3>1, <3>2 DEF Edited
    <2> QED
        BY <2>2, <2>3
<1>7. /\ j.op = "promote" /\ j.before # Absent =>
            /\ p <= 4 => file'[b].ino = 0
            /\ p = 5 => file'[b].ino # 0
            /\ p >= 6 => file'[b].text = j.before
      /\ p <= 7 => file'[q].ino = 0
      /\ p <= 9 => file'[s].ino = 0
      /\ p \in {10, 11} => file'[s].ino = j.ino
    BY <1>3, <1>4 DEF RunAt
<1> QED
    BY <1>5, <1>6, <1>7 DEF RunAt, Promotion!Backup, Promotion!Swap, Promotion!Prepared, Promotion!Target

LEMMA EditsFix ==
    ASSUME PromInv, NEW t, Edited(t), NEW j \in journals, NEW todo, FixAt(j, todo)
    PROVE  FixAt(j, todo)'
<1> DEFINE g == Promotion!Target
           s == Promotion!Swap(j)
<1> USE DEF PromInv
<1>1. j \in Known
    BY DEF Known
<1>2. /\ s \in Promotion!Name /\ s # g /\ g \notin Doomed(j) /\ g \notin {s}
      /\ j.backup # 0 => j.backup \in Promotion!Tx
    BY <1>1, OwnNames DEF Doomed
<1>3. j.op = "promote" /\ j.before # Absent => file'[Promotion!Backup(j)] = file[Promotion!Backup(j)]
    BY <1>1, <1>2, JournalTexts, EditKeeps DEF Promotion!Backup
<1>4. CASE todo = Relinking /\ file[s].text = j.before /\ file[s].ino \notin {0, file[g].ino}
    BY <1>2, <1>4 DEF FixAt, Edited, Promotion!Swap, Promotion!Target
<1>5. CASE todo \in Clearing /\ KeptOutside(Doomed(j))
    <2>1. KeptOutside(Doomed(j))'
        <3>1. PICK S : S = Doomed(j) /\ KeptOutside(S)
            BY <1>5
        <3>2. KeptOutside(S)'
            BY <1>2, <3>1, EditKeeps
        <3> QED
            BY <3>1, <3>2 DEF Doomed, Promotion!Swap, Promotion!Backup, KeptOutside
    <2> QED
        BY <1>5, <2>1 DEF FixAt, Clearing
<1>6. CASE /\ KeptOutside({s})
           /\ \/ /\ todo = Applying
                 /\ j.op = "promote" /\ j.before # Absent => file[Promotion!Backup(j)].text = j.before
              \/ todo \in Sweeping
    <2>1. KeptOutside({s})'
        <3>1. PICK S : S = {s} /\ KeptOutside(S)
            BY <1>6
        <3>2. KeptOutside(S)'
            BY <1>2, <3>1, EditKeeps
        <3> QED
            BY <3>1, <3>2 DEF Promotion!Swap, KeptOutside
    <2>2. CASE /\ todo = Applying
               /\ j.op = "promote" /\ j.before # Absent => file[Promotion!Backup(j)].text = j.before
        BY <1>3, <2>1, <2>2 DEF FixAt, Promotion!Swap, Promotion!Backup
    <2>3. CASE todo \in Sweeping
        BY <2>1, <2>3 DEF FixAt, Sweeping, Promotion!Swap
    <2> QED
        BY <1>6, <2>2, <2>3
<1>7. CASE todo = <<"forget">>
    BY <1>7 DEF FixAt
<1> QED
    BY <1>4, <1>5, <1>6, <1>7 DEF FixAt

LEMMA PromEdits ==
    ASSUME PromInv, NEW t, Edited(t)
    PROVE  PromInv'
<1> USE DEF PromInv
<1>1. /\ UNCHANGED <<journals, record, holder, worker>> /\ trouble' = trouble \cup {"edit"}
      /\ spent' \in [calls : Nat, tx : 0 .. MaxCalls, faults : Nat, edits : Nat] /\ spent'.tx = spent.tx
    BY PromSpent DEF Edited
<1>2. Known' = Known
    BY <1>1 DEF Known, Transacts
<1>3. PromTyped'
    <2>1. t = Absent \/ t \in (UserText \cup Original) \ {Absent}
        BY DEF Edited
    <2>2. owed' \subseteq (UserText \cup Original) \ {Absent}
        BY <2>1 DEF Edited, PromTyped, Promotion!Saved
    <2>3. PromFiles'
        BY DEF Edited
    <2> QED
        BY <1>1, <2>2, <2>3 DEF PromTyped
<1>4. PromFresh'
    <2> SUFFICES ASSUME NEW k \in Promotion!Tx, NEW x \in {"swap", "prepared", "backup"}, k > spent.tx
                 PROVE  file'[<<k, x>>].ino = 0
        BY <1>1 DEF PromFresh
    <2>1. <<k, x>> \in Promotion!Name /\ <<k, x>> # Promotion!Target
        BY PromNumbers DEF Promotion!Name, Promotion!Target
    <2> QED
        BY <2>1 DEF PromFresh, Edited
<1>5. PromLocked'
    BY <1>1 DEF PromLocked, Transacts, Recovers
<1>6. PromJournaled'
    <2>1. \A y \in Known' : \E z \in Known : Alike(y, z)
        BY <1>2, PromFits DEF Alike
    <2>2. spent.tx \in Nat /\ record' \in [Candidate -> PromRecords] /\ \A c \in Candidate : Moved(c)
        BY <1>1, RecordStill, PromNumbers DEF PromTyped
    <2>3. ASSUME NEW y \in Known, y.op = "promote", y.backup # 0
          PROVE  file'[Promotion!Backup(y)].text \in {Absent, Torn, y.before}
        BY <2>3, OwnNames, EditKeeps, BackupOwned DEF Promotion!Backup
    <2> QED
        BY <1>1, <2>1, <2>2, <2>3, JournalsStill DEF PromTyped
<1>7. PromRecorded'
    <2>1. \A c \in Candidate : record[c].backup # 0 => record[c].backup \in Promotion!Tx
        BY PromNumbers DEF PromTyped, PromRecords
    <2> QED
        BY <1>1, <2>1, EditKeeps, RecordsStill
<1>8. KeptOutside({})'
    BY EditKeeps
<1>9. ASSUME NEW w \in Worker, Transacts(w)
      PROVE  Transacting(w)'
    <2>1. PICK j : j = worker[w].j
        OBVIOUS
    <2>2. j \in PromJournals /\ j.whole /\ j \in Known
        BY <1>9, <2>1 DEF PromWork, Transacting, Known
    <2>3. PICK p \in 1 .. 17 : Placed(worker[w].todo, j, p) /\ RunAt(j, p)
        BY <1>9, <2>1 DEF PromWork, Transacting
    <2>4. j.op = "rollback" => j.before # Absent
        BY <2>2, JournalTexts
    <2>5. p = 11 => worker[w].todo # <<>> /\ Head(worker[w].todo) = "unlink"
        <3> SUFFICES ASSUME p = 11
                     PROVE  worker[w].todo # <<>> /\ Head(worker[w].todo) = "unlink"
            OBVIOUS
        <3>4. worker[w].todo # <<>> /\ Head(worker[w].todo) = PublishCalls[11]
            BY <2>2, <2>3, <2>4, PlaceAt
        <3> QED
            BY <3>4, CallAt
    <2>6. RunAt(j, p)'
        BY <2>1, <2>2, <2>3, <2>5, EditsRun
    <2>7. Placed(worker[w].todo, j, p)'
        BY <1>1, <2>3 DEF Placed
    <2> QED
        BY <1>1, <2>1, <2>2, <2>6, <2>7 DEF Transacting
<1>10. ASSUME NEW w \in Worker, Recovers(w)
       PROVE  Recovering(w)'
    <2>1. PICK j, todo : j = worker[w].j /\ todo = worker[w].todo
        OBVIOUS
    <2>2. Recovering(w)
        BY <1>10 DEF PromWork
    <2>3. todo # <<>> => j \in journals /\ FixAt(j, todo)'
        BY <2>1, <2>2, EditsFix DEF Recovering
    <2> QED
        BY <1>1, <2>1, <2>2, <2>3 DEF Recovering
<1>11. PromWork'
    BY <1>1, <1>9, <1>10 DEF PromWork, Transacts, Recovers
<1> QED
    BY <1>3, <1>4, <1>5, <1>6, <1>7, <1>8, <1>11

LEMMA PromKeeps ==
    ASSUME PromInv, Promotion!Next
    PROVE  PromInv'
<1>1. ASSUME NEW w \in Worker, NEW c \in Candidate, NEW op \in {"promote", "rollback", "review"}, Promotion!Call(w, op, c)
      PROVE  PromInv'
    BY <1>1, PromCalled
<1>2. ASSUME NEW w \in Worker, Promotion!Start(w) \/ Promotion!Contended(w) \/ Promotion!Refuse(w)
      PROVE  PromInv'
    BY <1>2, PromCalled
<1>3. ASSUME NEW w \in Worker, Promotion!EndRecovery(w) \/ Promotion!Finish(w) \/ Promotion!Die(w)
      PROVE  PromInv'
    BY <1>3, PromEnds
<1>4. ASSUME NEW w \in Worker, Promotion!Step(w)
      PROVE  PromInv'
    <2>1. Transacts(w) \/ Recovers(w)
        BY <1>4 DEF PromInv, PromLocked, Promotion!Step
    <2> QED
        BY <1>4, <2>1, PromRuns, PromFixes
<1>5. ASSUME NEW w \in Worker, Promotion!Fail(w) \/ Promotion!Throw(w)
      PROVE  PromInv'
    BY <1>5, PromFails
<1>6. ASSUME NEW w \in Worker, Promotion!BeginRecovery(w) \/ Promotion!Decide(w) \/ Promotion!Begin(w) \/ Promotion!Review(w)
      PROVE  PromInv'
    BY <1>6, PromScans, PromDecides, PromBegins, PromReview
<1>7. ASSUME NEW t \in UserText, Promotion!EditInPlace(t)
      PROVE  PromInv'
    BY <1>7, EditsInPlace, PromEdits
<1>8. ASSUME NEW t \in UserText \cup Original, Promotion!EditReplace(t)
      PROVE  PromInv'
    BY <1>8, EditsAnew, PromEdits
<1> QED
    BY <1>1, <1>2, <1>3, <1>4, <1>5, <1>6, <1>7, <1>8 DEF Promotion!Next

LEMMA PromStutters ==
    ASSUME UNCHANGED <<file, journals, record, holder, owed, trouble, published, spent, worker>>
    PROVE  PromInv => PromInv'
<1>0. /\ file' = file /\ journals' = journals /\ record' = record /\ holder' = holder
      /\ owed' = owed /\ trouble' = trouble /\ spent' = spent /\ worker' = worker
    OBVIOUS
<1>1. (PromTyped <=> PromTyped') /\ (PromFresh <=> PromFresh')
    BY <1>0 DEF PromTyped, PromFiles, Exclusive, PromFresh
<1>2. PromLocked <=> PromLocked'
    BY <1>0 DEF PromLocked, Transacts, Recovers
<1>3. (PromJournaled <=> PromJournaled') /\ (PromRecorded <=> PromRecorded')
    BY <1>0 DEF PromJournaled, Known, Transacts, JournalFits, Uses, PromRecorded, Backed
<1>4. KeptOutside({}) <=> KeptOutside({})'
    BY <1>0 DEF KeptOutside
<1>5. PromWork <=> PromWork'
    BY <1>0 DEF PromWork, Transacts, Transacting, RunAt, Recovers, Recovering, FixAt, KeptOutside,
        Exclusive
<1> QED
    BY <1>1, <1>2, <1>3, <1>4, <1>5 DEF PromInv

LEMMA PromKept == PromInv => Promotion!UserTextKept /\ Promotion!RollbackPossible
<1> SUFFICES ASSUME PromInv
             PROVE  Promotion!UserTextKept /\ Promotion!RollbackPossible
    OBVIOUS
<1>1. Promotion!UserTextKept
    BY PromLasting DEF PromInv, KeptOutside, Promotion!UserTextKept
<1>2. Promotion!RollbackPossible
    BY DEF PromInv, PromRecorded, Backed, Promotion!RollbackPossible
<1> QED
    BY <1>1, <1>2

-----------------------------------------------------------------------------
(* All three.                                                              *)

EvolutionInv == (by = "plan" => HistInv) /\ (by = "review" => RevInv) /\ (by = "promotion" => PromInv)
LEMMA EvolutionStarts == Init => EvolutionInv
BY NewPlanHolds, ReviewInit, PromInit DEF Init, EvolutionInv
LEMMA EvolutionGoesOn == EvolutionInv /\ [Next]_vars => EvolutionInv'
<1> SUFFICES ASSUME EvolutionInv, [Next]_vars PROVE EvolutionInv'
    OBVIOUS
<1>1. CASE by = "plan" /\ Historical!Next /\ UNCHANGED by
    BY <1>1, PlanSteps DEF EvolutionInv
<1>2. CASE by = "review" /\ Reviewing!Next /\ UNCHANGED by
    BY <1>2, ReviewStep DEF EvolutionInv
<1>3. CASE by = "promotion" /\ Promotion!Next /\ UNCHANGED by
    BY <1>3, PromKeeps DEF EvolutionInv
<1>4. CASE UNCHANGED vars
    <2>1. UNCHANGED <<by, plan, worker, epochFile, candidate, exec, sent, unknown>>
          /\ UNCHANGED <<ledger, live, covered, lease, run, audits, seen>>
          /\ UNCHANGED <<file, journals, record, holder, owed, trouble, published, spent>>
        BY <1>4 DEF vars, history, review, promotion
    <2>2. HistInv => HistInv'
        BY <2>1 DEF HistInv, HistTyped, HistDone, HistPlaced, HistCharged, Historical!Begun
    <2>3. RevInv => RevInv'
        BY <2>1 DEF RevInv, RevTyped, RevHeld, RevAudited, RevLive, RevPlan
    <2>4. PromInv => PromInv'
        BY <2>1, PromStutters
    <2> QED
        BY <2>1, <2>2, <2>3, <2>4 DEF EvolutionInv
<1> QED
    BY <1>1, <1>2, <1>3, <1>4 DEF Next
LEMMA EvolutionInvariant == Spec => []EvolutionInv
BY EvolutionStarts, EvolutionGoesOn, PTL DEF Spec

\* A promotion or a rollback may stop, fail or be recovered anywhere while the user saves at any
\* moment, a new file between the last check and the unlink behind it apart: what was in the
\* skill file when promoteSkillCandidate or rollbackSkillCandidate found it, and what the user
\* saved since, is the text of some file that is not tidied away, and what a promoted revision
\* replaced is in its backup.
THEOREM TextsAreKept == Spec => []TextsKept
<1>1. EvolutionInv => TextsKept
    BY PromKept DEF EvolutionInv, TextsKept
<1> QED
    BY <1>1, EvolutionInvariant, PTL

\* Wherever a run of a historical plan stops, verifiedPlan accepts what it left, and the
\* candidate it made has every chunk, a reduction and a checker behind it.
THEOREM PlanAlwaysHolds == Spec => []PlanHolds
<1>1. EvolutionInv => PlanHolds
    BY PlanVerified DEF EvolutionInv, PlanHolds
<1> QED
    BY <1>1, EvolutionInvariant, PTL

\* No number of runs, stops and resumptions makes a call that the plan was not charged for
\* before, exceeds the confirmed budget, or repeats a call of unknown outcome.
THEOREM CallsAreAccounted == Spec => []CallsAccounted
<1>1. EvolutionInv => CallsAccounted
    BY PlanCharged DEF EvolutionInv, CallsAccounted
<1> QED
    BY <1>1, EvolutionInvariant, PTL

\* However many processes enqueue, force, audit, fail, lapse or die while a plan runs, no turn
\* gets more auditors than maxAttempts, ledger.json calls no turn settled, and the index none
\* covered, that nobody reviewed, no turn has a recorded candidate that is not there, and one with
\* a live candidate is closed as unchanged only when the plan has covered it.
THEOREM AuditsAreTrue == Spec => []AuditsTrue
<1>1. EvolutionInv => AuditsTrue
    BY ReviewSays DEF EvolutionInv, AuditsTrue
<1> QED
    BY <1>1, EvolutionInvariant, PTL

\* No step begins an audit of a turn that publishHistoricalCoverage has covered, or creates a
\* live candidate of it, and none completes a cancelled plan or creates its candidate.
THEOREM FencesAlwaysHold == Spec => FencesHold
<1>1. /\ EvolutionInv /\ [Next]_vars
      => [/\ by = "review" => Reviewing!FenceStep
          /\ by = "plan" => Historical!CancelStep]_vars
    <2> SUFFICES ASSUME EvolutionInv, Next
                 PROVE  /\ by = "review" => Reviewing!FenceStep
                        /\ by = "plan" => Historical!CancelStep
        OBVIOUS
    <2>1. by = "review" => Reviewing!Next
        BY DEF Next
    <2>2. by = "plan" => Historical!Next
        BY DEF Next
    <2> QED
        BY <2>1, <2>2, ReviewFences, PlanFences DEF EvolutionInv
<1> QED
    BY <1>1, EvolutionInvariant, PTL DEF Spec, FencesHold
=============================================================================

----------------------------- MODULE SkillReview -----------------------------
(***************************************************************************)
(* Who reviews an assistant turn, and who says so (skill-evolution-store,  *)
(* skill-evolution-runtime and the run of skill-evolution-historical).     *)
(* Live audits take turns from a durable ledger; a historical plan reviews *)
(* the same turns in bulk.  A claim per turn, its fencing token and a      *)
(* project-wide lease keep them apart; the ledger, the claims, the         *)
(* candidates and the coverage index are separate files, written one after *)
(* another under one lock, and a process may die between two writes.       *)
(***************************************************************************)
EXTENDS Integers, FiniteSets

CONSTANTS
    Worker,         \* server processes that audit live turns
    Message,        \* completed assistant turns of one session
    MaxAttempts, MaxBacklog,            \* options of the plugin
    MaxFaults, MaxLapses                \* bounds of the instance
VARIABLES
    ledger,     \* ledger.json: the record of each turn
    claims,     \* review-claims.json: who may conclude each turn
    live,       \* candidates.json: turns with a candidate of a live audit
    mined,      \* candidates.json: turns with a candidate of the plan
    covered,    \* historical-index.json: turns the plan has covered
    plan,       \* historical-index.json: the plan's durable cursor
    deleted,    \* session-exclusions.json: the session was deleted
    lease,      \* the historical execution lease: its holder, and whether it
                \* still has it (nobody takes it over while the holder lives)
    worker,     \* what each process is doing, and the turns it has queued
    run,        \* the stage of the plan's executor
    spent,      \* faults and lapses so far
    audits, seen    \* history: auditor children per turn; turns anyone reviewed
files == <<ledger, claims, live, mined, covered, plan, deleted>>
history == <<audits, seen>>
vars == <<files, lease, worker, run, spent, history>>

None == "none"
Open == {"pending", "running"}
NoRecord == [status |-> None, attempts |-> 0, forced |-> 0, why |-> None]
Free == [by |-> None, valid |-> TRUE]
NoClaim == [owner |-> None, token |-> None, state |-> "failed", fresh |-> FALSE]
Off == [pc |-> "idle", m |-> None, queue |-> {}, boot |-> TRUE]
NewPlan == [state |-> "previewed", done |-> {}, found |-> {}, reduction |-> None,
            issued |-> FALSE, checked |-> FALSE, final |-> FALSE]

Init ==
    /\ ledger = [m \in Message |-> NoRecord]
    /\ claims = [m \in Message |-> NoClaim]
    /\ live = {} /\ mined = {} /\ covered = {}
    /\ plan = NewPlan
    /\ deleted = FALSE
    /\ lease = Free
    /\ worker = [w \in Worker |-> Off]
    /\ run = "idle"
    /\ spent = [faults |-> 0, lapses |-> 0]
    /\ audits = [m \in Message |-> 0] /\ seen = {}

---------------------------------------------------------------------------
\* The store.  A write of the claims comes before the write of the ledger that
\* goes with it, except where a new turn is enqueued.
Active(c) == c.state = "active" /\ c.fresh
HistoricalOwner(m) == claims[m].owner = "plan" /\ Active(claims[m])
Mine(w, m) == claims[m] = [owner |-> "live", token |-> w, state |-> "active",
                           fresh |-> claims[m].fresh]
WhenCompleted(m) == m \in covered /\ plan.state = "completed"
IsCovered(m) == m \in covered
Concluded(m) == ledger[m].status \in {"candidate", "no-change"}

Settled(l, m, status, why) ==
    [l EXCEPT ![m].status = status, ![m].why = why]
Allowed(r) == r.attempts < MaxAttempts
\* upsertLiveClaimLocked: an active plan, or a turn it has completed, is not
\* displaced; the same live work may take its own completed claim again.
MayClaim(m) == ~HistoricalOwner(m) /\ ~(claims[m].state = "completed" /\ claims[m].owner = "plan")
LiveClaim(token) == [owner |-> "live", token |-> token, state |-> "active", fresh |-> TRUE]
Claimed(m, token) == [claims EXCEPT ![m] = LiveClaim(token)]
\* The live claim of the turn is given up, completed or failed.
Dropped(c, m, state) ==
    IF c[m].owner = "live" /\ (state = "completed" \/ c[m].state = "active")
    THEN [c EXCEPT ![m].state = state] ELSE c
\* finalizeReviewedLiveCandidateLocked, over the turns in S.
FinalLedger(l, S) ==
    [m \in Message |-> IF m \in S THEN [l[m] EXCEPT !.status = "candidate", !.why = None] ELSE l[m]]
FinalClaims(c, S) ==
    [m \in Message |-> IF m \in S THEN Dropped(c, m, "completed")[m] ELSE c[m]]
\* reviewedLiveCandidate, of the turns the ledger knows.
\* Mutant: only those that are recorded.
ReviewedRecorded == {m \in live : ledger[m].status = "candidate"}
Reviewed == {m \in live : ledger[m].status # None}

Room == Cardinality({m \in Message : ledger[m].status \in Open}) < MaxBacklog
Becomes(w, me) == worker' = [worker EXCEPT ![w] = me]
Goes(w, pc) == Becomes(w, [worker[w] EXCEPT !.pc = pc])

Holds(w) == lease = [by |-> w, valid |-> TRUE]
Freed(w) == IF lease.by = w THEN Free ELSE lease

\* A process dies; a token only it knew is nobody's now.
Orphaned(c, w) ==
    [m \in Message |-> IF c[m].token = w THEN [c[m] EXCEPT !.token = "gone"] ELSE c[m]]
Dies(w, c, l) ==
    /\ spent.faults < MaxFaults
    /\ claims' = Orphaned(c, w) /\ ledger' = l
    /\ lease' = Freed(w)
    /\ Becomes(w, Off)
    /\ spent' = [spent EXCEPT !.faults = @ + 1]

\* Both files are written and the process goes on as me, or it dies between.
Saves(w, c, l, me) ==
    \/ claims' = c /\ ledger' = l /\ Becomes(w, me) /\ UNCHANGED <<lease, spent>>
    \/ c # claims /\ l # ledger /\ Dies(w, c, ledger)
SavesLedgerFirst(w, c, l, me) ==
    \/ claims' = c /\ ledger' = l /\ Becomes(w, me) /\ UNCHANGED <<lease, spent>>
    \/ c # claims /\ l # ledger /\ Dies(w, claims, l)

---------------------------------------------------------------------------
\* enqueueSkillAudit: a turn completes, or is audited by hand.
Queued(w, m) == [worker[w] EXCEPT !.queue = @ \cup {m}]
Enqueue(w, m) ==
    LET r == ledger[m] IN
    /\ ~deleted
    /\ \/ /\ HistoricalOwner(m) /\ r = NoRecord
          /\ Saves(w, claims, Settled(ledger, m, "failed", "blocked"), worker[w])
       \/ /\ ~HistoricalOwner(m) /\ IsCovered(m) /\ ~Concluded(m)
          /\ Saves(w, claims, Settled(ledger, m, "no-change", "covered"), worker[w])
       \/ /\ ~HistoricalOwner(m) /\ ~IsCovered(m)
          /\ r.status = "failed" /\ r.why = "blocked" /\ MayClaim(m)
          /\ Saves(w, Claimed(m, "queue"), Settled(ledger, m, "pending", None), Queued(w, m))
       \/ /\ ~HistoricalOwner(m) /\ ~IsCovered(m) /\ r = NoRecord
          /\ IF Room
             THEN SavesLedgerFirst(w, IF MayClaim(m) THEN Claimed(m, "queue") ELSE claims,
                                   Settled(ledger, m, "pending", None), Queued(w, m))
             ELSE Saves(w, claims, Settled(ledger, m, "failed", "backlog"), worker[w])
    /\ UNCHANGED <<live, mined, covered, plan, deleted, run, history>>

\* The same with force: a failed or unchanged turn is audited again.
Force(w, m) ==
    LET r == ledger[m]
        l == [Settled(ledger, m, "pending", None) EXCEPT ![m].forced = @ + 1]
    IN
    /\ ~deleted /\ ~HistoricalOwner(m) /\ ~IsCovered(m)
    /\ r.status \in {"failed", "no-change"}
    /\ Allowed(r) /\ r.forced < MaxAttempts - 1
    /\ IF MayClaim(m) THEN Saves(w, Claimed(m, "queue"), l, Queued(w, m))
       ELSE Saves(w, claims, Settled(l, m, "failed", "blocked"), worker[w])
    /\ UNCHANGED <<live, mined, covered, plan, deleted, run, history>>

\* recordDeletedSkillSession: the session's open work ends.
Delete(w) ==
    LET ended == {m \in Message : ledger[m].status \in Open} IN
    /\ ~deleted /\ deleted' = TRUE
    /\ \/ Dies(w, claims, ledger)
       \/ Saves(w, [m \in Message |-> IF m \in ended THEN Dropped(claims, m, "failed")[m] ELSE claims[m]],
                [m \in Message |-> IF m \in ended THEN Settled(ledger, m, "failed", "deleted")[m]
                                   ELSE ledger[m]], worker[w])
    /\ UNCHANGED <<live, mined, covered, plan, run, history>>

---------------------------------------------------------------------------
\* recoverPendingSkillAudits, at start-up and under the lease: published
\* candidates are recorded, interrupted audits queued again, blocked ones too.
Startup(w) ==
    LET s1 == {m \in Reviewed : ~Concluded(m)}
        l1 == FinalLedger(ledger, s1)
        stopped == {m \in Message : l1[m].status = "running"}
        l2 == [m \in Message |-> IF m \notin stopped THEN l1[m]
                  ELSE IF Allowed(l1[m]) THEN [l1[m] EXCEPT !.status = "pending"]
                  ELSE [l1[m] EXCEPT !.status = "failed", !.why = "limit"]]
        gone == {m \in Message : deleted /\ l2[m].status \in Open}
        l3 == [m \in Message |-> IF m \in gone THEN Settled(l2, m, "failed", "deleted")[m] ELSE l2[m]]
        c3 == [m \in Message |-> IF m \in stopped \cup gone THEN Dropped(claims, m, "failed")[m]
                  ELSE FinalClaims(claims, s1)[m]]
        blocked == {m \in Message : l3[m].status = "failed" /\ l3[m].why = "blocked"}
        again == {m \in blocked : ~IsCovered(m) /\ MayClaim(m)}
        l4 == [m \in Message |-> IF m \in again THEN Settled(l3, m, "pending", None)[m]
                  ELSE IF m \in blocked /\ IsCovered(m) THEN Settled(l3, m, "no-change", "covered")[m]
                  ELSE l3[m]]
        c4 == [m \in Message |-> IF m \in again THEN LiveClaim("queue") ELSE c3[m]]
        pending == {m \in Message : l4[m].status = "pending"}
    IN
    /\ worker[w].boot /\ lease = Free
    /\ \E kept \in SUBSET pending :
          /\ Cardinality(kept) = IF Cardinality(pending) <= MaxBacklog
                                 THEN Cardinality(pending) ELSE MaxBacklog
          /\ \/ Saves(w, c4, [m \in Message |-> IF m \in pending \ kept
                                 THEN Settled(l4, m, "failed", "backlog")[m] ELSE l4[m]],
                      [worker[w] EXCEPT !.queue = @ \cup kept, !.boot = FALSE])
             \/ c3 # claims /\ Dies(w, c3, ledger)
    /\ UNCHANGED <<live, mined, covered, plan, deleted, run, history>>

---------------------------------------------------------------------------
\* One live audit (process, processOwned), under the lease.
Keeps == <<live, mined, covered, plan, deleted, run>>
Take(w, m) ==
    /\ worker[w].pc = "idle" /\ m \in worker[w].queue /\ lease = Free
    /\ lease' = [Free EXCEPT !.by = w]
    /\ Becomes(w, [worker[w] EXCEPT !.pc = "acquire", !.m = m, !.queue = @ \ {m}])
    /\ UNCHANGED <<files, run, spent, history>>

\* The lock stays busy: the error is recorded nowhere and the turn leaves the
\* queue of this process, still pending in the ledger.
GiveUp(w) ==
    /\ worker[w].pc = "acquire"
    /\ Goes(w, "release")
    /\ UNCHANGED <<files, lease, run, spent, history>>

\* beginSkillAudit.
Acquire(w) ==
    LET m == worker[w].m
        Ends(c, l) == Saves(w, c, l, [worker[w] EXCEPT !.pc = "release"])
    IN
    /\ worker[w].pc = "acquire"
    /\ \/ /\ ~Holds(w) \/ ledger[m].status # "pending"
          /\ Goes(w, "release") /\ UNCHANGED <<ledger, claims, lease, spent>>
       \/ /\ Holds(w) /\ ledger[m].status = "pending"
          /\ IF m \in Reviewed THEN Ends(FinalClaims(claims, {m}), FinalLedger(ledger, {m}))
             ELSE IF IsCovered(m) THEN Ends(claims, Settled(ledger, m, "no-change", "covered"))
             ELSE IF ~Allowed(ledger[m])
                  THEN Ends(Dropped(claims, m, "failed"), Settled(ledger, m, "failed", "limit"))
             ELSE IF ~MayClaim(m) THEN Ends(claims, Settled(ledger, m, "failed", "blocked"))
             ELSE Saves(w, Claimed(m, w),
                        [Settled(ledger, m, "running", None) EXCEPT ![m].attempts = @ + 1],
                        [worker[w] EXCEPT !.pc = "capture"])
    /\ UNCHANGED <<Keeps, history>>

\* liveReviewStillOwned between any two effects: the claim is renewed, and a
\* turn the plan has covered or claimed is left without a word.
Owned(w) == ~IsCovered(worker[w].m) /\ Mine(w, worker[w].m)
Stages == [capture |-> {"audit", "skip"}, audit |-> {"check", "skip", "publish"},
           check |-> {"publish"}]
Proceed(w) ==
    LET m == worker[w].m
        pc == worker[w].pc
    IN
    /\ pc \in DOMAIN Stages /\ Holds(w) /\ Owned(w)
    /\ pc = "capture" => ~deleted
    /\ \E next \in Stages[pc] :
          /\ Goes(w, next)
          /\ audits' = IF next = "audit" THEN [audits EXCEPT ![m] = @ + 1] ELSE audits
    /\ claims' = [claims EXCEPT ![m].fresh = TRUE]
    /\ seen' = seen \cup {m}
    /\ UNCHANGED <<ledger, lease, spent, Keeps>>
Disowned(w) ==
    LET m == worker[w].m IN
    /\ worker[w].pc \in DOMAIN Stages /\ Holds(w) /\ ~Owned(w)
    /\ ledger' = IF worker[w].pc = "capture" /\ IsCovered(m) /\ ~Concluded(m)
                    THEN Settled(ledger, m, "no-change", "covered") ELSE ledger
    /\ Goes(w, "release")
    /\ UNCHANGED <<claims, lease, spent, Keeps, history>>
\* A child or the host fails; or the lease is gone, and then even the failure
\* is not recorded: the turn stays running until some process starts.
Error(w) ==
    /\ worker[w].pc \in DOMAIN Stages \cup {"skip", "publish"}
    /\ Goes(w, IF Holds(w) THEN "failing" ELSE "release")
    /\ UNCHANGED <<files, lease, run, spent, history>>

\* markLiveSkillLedgerOutcome: only the owner closes the turn.
Skip(w) ==
    LET m == worker[w].m
        me == [worker[w] EXCEPT !.pc = "release"]
    IN
    /\ worker[w].pc = "skip"
    /\ IF ledger[m].status = "running" /\ Owned(w)
       THEN Saves(w, Dropped(claims, m, "completed"), Settled(ledger, m, "no-change", None), me)
       ELSE Becomes(w, me) /\ UNCHANGED <<ledger, claims, lease, spent>>
    /\ UNCHANGED <<Keeps, history>>

\* createSkillCandidate: the candidate is written first, then the claim, then
\* the ledger; an audit that finds its candidate written only records it.
Publish(w) ==
    LET m == worker[w].m
        me == [worker[w] EXCEPT !.pc = "release"]
    IN
    /\ worker[w].pc = "publish" /\ Owned(w)
    /\ live' = live \cup {m}
    /\ \/ Saves(w, FinalClaims(claims, {m}), FinalLedger(ledger, {m}), me)
       \/ m \notin live /\ Dies(w, claims, ledger)
    /\ UNCHANGED <<mined, covered, plan, deleted, run, history>>
Suppressed(w) ==
    /\ worker[w].pc = "publish" /\ ~Owned(w)
    /\ Goes(w, IF Holds(w) THEN "failing" ELSE "release")
    /\ UNCHANGED <<files, lease, run, spent, history>>

\* failSkillAudit with this audit's token.
FailAudit(w) ==
    LET m == worker[w].m
        Ends(c, l) == Saves(w, c, l, [worker[w] EXCEPT !.pc = "release"])
    IN
    /\ worker[w].pc = "failing"
    /\ IF Concluded(m) \/ ~Mine(w, m) THEN Ends(claims, ledger)
       ELSE IF m \in Reviewed THEN Ends(FinalClaims(claims, {m}), FinalLedger(ledger, {m}))
       ELSE IF IsCovered(m) THEN Ends(claims, Settled(ledger, m, "no-change", "covered"))
       ELSE Ends(Dropped(claims, m, "failed"), Settled(ledger, m, "failed", "audit"))
    /\ UNCHANGED <<Keeps, history>>

Release(w) ==
    /\ worker[w].pc = "release"
    /\ lease' = Freed(w)
    /\ claims' = Orphaned(claims, w)
    /\ Becomes(w, [worker[w] EXCEPT !.pc = "idle", !.m = None])
    /\ UNCHANGED <<ledger, live, mined, covered, plan, deleted, run, spent, history>>
Die(w) ==
    /\ ~worker[w].boot
    /\ Dies(w, claims, ledger)
    /\ UNCHANGED <<Keeps, history>>

---------------------------------------------------------------------------
\* The executor of the historical plan over every turn of the session.
Live == <<live, deleted, worker, lease, spent, audits>>
PlanOwns == \A m \in Message : claims[m].owner = "plan" /\ Active(claims[m])
Interrupted == run' = "interrupt"
\* liveLedgerReviewCoverage: a live review has concluded the turn.
LiveCovers(m) ==
    m \in Reviewed \/ (ledger[m].status = "no-change" /\ ledger[m].why # "covered")

\* run or resume; a completed plan only publishes its coverage again, one with
\* a call of unknown outcome or a final output it did not complete is refused.
RunStart ==
    /\ run = "idle" /\ lease = Free
    /\ plan.state # "cancelled" /\ ~plan.issued
    /\ plan.final => plan.state = "completed"
    /\ lease' = [Free EXCEPT !.by = "plan"]
    /\ run' = IF plan.state = "completed" THEN "again" ELSE "reserve"
    /\ UNCHANGED <<files, worker, spent, history>>

RunDies(c, l) ==
    /\ spent.faults < MaxFaults
    /\ claims' = c /\ ledger' = l
    /\ lease' = Freed("plan")
    /\ run' = "idle"
    /\ spent' = [spent EXCEPT !.faults = @ + 1]
    /\ UNCHANGED worker

\* reserveHistoricalReviewClaims: an active live audit of a turn blocks the
\* plan; otherwise open live work of its turns is fenced off.  A candidate that
\* waits to be recorded is recorded only if no turn before its own has changed
\* the ledger: ledgerChanged short-circuits.
Contested == {m \in Message \ Reviewed :
    claims[m].owner = "live" /\ Active(claims[m]) /\ ledger[m].status \in Open}
Unsettled ==
    {m \in Reviewed : ledger[m].status # "candidate"}
        \cup {m \in Message \ Reviewed : ledger[m].status \in Open}
Fenced(first) ==
    [m \in Message |-> IF m \in Reviewed \cap {first} THEN FinalLedger(ledger, {m})[m]
        ELSE IF m \in Unsettled \ Reviewed THEN Settled(ledger, m, "failed", "fenced")[m]
        ELSE ledger[m]]
PlanClaim == [owner |-> "plan", token |-> "plan", state |-> "active", fresh |-> TRUE]
Resumable(p) == IF p.state = "cancelled" THEN p ELSE [p EXCEPT !.state = "resumable"]
Reserve ==
    /\ run = "reserve"
    /\ LET c == [m \in Message |-> PlanClaim] IN
       IF Contested # {}
       THEN /\ plan' = Resumable(plan) /\ run' = "release"
            /\ UNCHANGED <<claims, ledger, lease, worker, spent>>
       ELSE /\ \E first \in IF Unsettled = {} THEN {None} ELSE Unsettled :
                  \/ /\ claims' = c /\ ledger' = Fenced(first) /\ run' = "start"
                     /\ UNCHANGED <<lease, worker, spent>>
                  \/ c # claims /\ Fenced(first) # ledger /\ RunDies(c, ledger)
            /\ UNCHANGED plan
    /\ UNCHANGED <<live, mined, covered, deleted, history>>
Start ==
    /\ run = "start"
    /\ IF plan.state = "cancelled" THEN run' = "release" /\ UNCHANGED plan
       ELSE run' = "chunk" /\ plan' = [plan EXCEPT !.state = "running"]
    /\ UNCHANGED <<ledger, claims, mined, covered, seen, Live>>

\* The next chunk: one a live review has concluded is passed over, any other
\* is charged to the plan before its child runs.
Left == Message \ plan.done
Chunk ==
    LET m == CHOOSE x \in Left : TRUE IN
    /\ run = "chunk" /\ Left # {} /\ PlanOwns
    /\ IF plan.state = "cancelled" THEN run' = "release" /\ UNCHANGED <<plan, claims>>
       ELSE IF LiveCovers(m) THEN plan' = [plan EXCEPT !.done = @ \cup {m}] /\ UNCHANGED <<run, claims>>
       ELSE run' = "reading" /\ plan' = [plan EXCEPT !.issued = TRUE] /\ UNCHANGED claims
    /\ UNCHANGED <<ledger, mined, covered, seen, Live>>
\* The child's findings are committed; the lease and the claims are checked as
\* it returns, the plan's cursor under the lock later.
Read ==
    LET m == CHOOSE x \in Left : TRUE IN
    /\ run = "reading" /\ Holds("plan") /\ PlanOwns
    /\ seen' = seen \cup {m}
    /\ run' = IF plan.state = "cancelled" THEN "release" ELSE "checkpoint"
    /\ UNCHANGED <<ledger, claims, plan, mined, covered, Live>>
Checkpoint(finds) ==
    LET m == CHOOSE x \in Left : TRUE IN
    /\ run = "checkpoint"
    /\ IF plan.state = "cancelled" THEN Interrupted /\ UNCHANGED plan
       ELSE /\ run' = "chunk"
            /\ plan' = [plan EXCEPT !.done = @ \cup {m}, !.issued = FALSE,
                                    !.found = IF finds THEN @ \cup {m} ELSE @]
    /\ UNCHANGED <<ledger, claims, mined, covered, seen, Live>>

\* One finding is chosen, unless a live review has concluded its turn since; a
\* reduction already on record is used as it stands.
Reduce ==
    /\ run = "chunk" /\ Left = {}
    /\ plan.reduction = None => PlanOwns /\ plan.state # "cancelled"
    /\ \E r \in IF plan.reduction # None THEN {plan.reduction}
                ELSE IF plan.found = {} THEN {"no-change"}
                ELSE {IF LiveCovers(m) THEN "no-change" ELSE m : m \in plan.found} :
          plan' = [plan EXCEPT !.reduction = r]
    /\ run' = "cover"
    /\ UNCHANGED <<ledger, claims, mined, covered, seen, Live>>

\* publishHistoricalCoverage: the index under one hold of the lock, the ledger
\* under the next.
Cover ==
    /\ run \in {"cover", "again"}
    /\ covered' = Message
    /\ run' = IF run = "cover" THEN "reconcile" ELSE "reconcile again"
    /\ UNCHANGED <<ledger, claims, plan, mined, seen, Live>>
Reconcile ==
    /\ run \in {"reconcile", "reconcile again"}
    /\ ledger' = [m \in Message |-> IF ledger[m].status \in Open \cup {"failed"}
                     THEN Settled(ledger, m, "no-change", "covered")[m] ELSE ledger[m]]
    /\ run' = IF run = "reconcile again" THEN "release"
              ELSE IF plan.reduction = "no-change" THEN "final"
              ELSE IF plan.checked THEN "publish" ELSE "checker"
    /\ UNCHANGED <<claims, plan, mined, covered, seen, Live>>
Check ==
    /\ run = "checker" /\ PlanOwns /\ Holds("plan")
    /\ IF plan.state = "cancelled" THEN run' = "release" /\ UNCHANGED plan
       ELSE run' = "publish" /\ plan' = [plan EXCEPT !.checked = TRUE]
    /\ UNCHANGED <<ledger, claims, mined, covered, seen, Live>>
\* The claims are checked, then the candidate is created under the lock that
\* cancellation takes, if the plan is still running.
Publishable ==
    /\ run = "publish" /\ PlanOwns
    /\ run' = "create"
    /\ UNCHANGED <<files, seen, Live>>
Create ==
    /\ run = "create"
    /\ IF plan.state = "running"
       THEN mined' = mined \cup {plan.reduction} /\ run' = "final"
       ELSE Interrupted /\ UNCHANGED mined
    /\ UNCHANGED <<ledger, claims, plan, covered, seen, Live>>
Final ==
    /\ run = "final"
    /\ IF plan.state = "cancelled" THEN Interrupted /\ UNCHANGED plan
       ELSE run' = "claims" /\ plan' = [plan EXCEPT !.final = TRUE, !.state = "completed"]
    /\ UNCHANGED <<ledger, claims, mined, covered, seen, Live>>
CompleteClaims ==
    /\ run = "claims" /\ PlanOwns
    /\ claims' = [m \in Message |-> [claims[m] EXCEPT !.state = "completed"]]
    /\ run' = "again"
    /\ UNCHANGED <<ledger, plan, mined, covered, seen, Live>>

\* A child fails, a claim or the lease is gone, the lock stays busy.
RunFails ==
    /\ run \in {"chunk", "reading", "checkpoint", "cover", "reconcile", "checker",
                "publish", "create", "final", "claims", "again", "reconcile again"}
    /\ Interrupted
    /\ UNCHANGED <<files, seen, Live>>
GivenUp ==
    [m \in Message |-> IF claims[m].owner = "plan" /\ claims[m].state = "active"
                          THEN [claims[m] EXCEPT !.state = "failed"] ELSE claims[m]]
\* The catch: claims first, then the plan is resumable.
Interrupt ==
    /\ run = "interrupt"
    /\ claims' = GivenUp
    /\ plan' = Resumable(plan)
    /\ run' = "release"
    /\ UNCHANGED <<ledger, mined, covered, seen, Live>>
RunRelease ==
    /\ run = "release"
    /\ claims' = GivenUp
    /\ lease' = Freed("plan")
    /\ run' = "idle"
    /\ UNCHANGED <<ledger, live, mined, covered, plan, deleted, worker, spent, history>>
RunDie ==
    /\ run # "idle"
    /\ RunDies(claims, ledger)
    /\ UNCHANGED <<live, mined, covered, plan, deleted, history>>
\* Cancellation waits for nobody.
Cancel ==
    /\ plan.state \notin {"completed", "cancelled"}
    /\ plan' = [plan EXCEPT !.state = "cancelled"]
    /\ UNCHANGED <<ledger, claims, live, mined, covered, deleted, lease, worker, run, spent, history>>

---------------------------------------------------------------------------
\* Two minutes pass over a claim; or the heartbeat of the lease's holder stalls.
Lapse(m) ==
    /\ Active(claims[m]) /\ spent.lapses < MaxLapses
    /\ claims' = [claims EXCEPT ![m].fresh = FALSE]
    /\ spent' = [spent EXCEPT !.lapses = @ + 1]
    /\ UNCHANGED <<ledger, live, mined, covered, plan, deleted, lease, worker, run, history>>
LeaseLapse ==
    /\ lease.by # None /\ lease.valid /\ spent.lapses < MaxLapses
    /\ lease' = [lease EXCEPT !.valid = FALSE]
    /\ spent' = [spent EXCEPT !.lapses = @ + 1]
    /\ UNCHANGED <<files, worker, run, history>>

Audit(w) ==
    \/ \E m \in Message : Take(w, m)
    \/ Startup(w) \/ Acquire(w) \/ GiveUp(w) \/ Proceed(w) \/ Disowned(w) \/ Error(w) \/ Skip(w)
    \/ Publish(w) \/ Suppressed(w) \/ FailAudit(w) \/ Release(w)
Execute ==
    \/ Reserve \/ Start \/ Chunk \/ Read \/ (\E finds \in BOOLEAN : Checkpoint(finds))
    \/ Reduce \/ Cover \/ Reconcile \/ Check \/ Publishable \/ Create \/ Final
    \/ CompleteClaims \/ RunFails \/ Interrupt \/ RunRelease
Next ==
    \/ \E w \in Worker : Audit(w) \/ Die(w) \/ Delete(w) \/ (\E m \in Message : Enqueue(w, m) \/ Force(w, m))
    \/ RunStart \/ Execute \/ RunDie \/ Cancel
    \/ (\E m \in Message : Lapse(m)) \/ LeaseLapse
Spec == Init /\ [][Next]_vars

---------------------------------------------------------------------------
ReviewTypeOK ==
    /\ ledger \in [Message -> [status : {None, "pending", "running", "failed", "no-change", "candidate"},
                               attempts : Nat, forced : Nat, why : STRING]]
    /\ live \cup mined \cup covered \cup seen \cup plan.done \cup plan.found \subseteq Message
    /\ lease \in [by : Worker \cup {None, "plan"}, valid : BOOLEAN]

\* A turn is never reviewed by more live auditors than the option allows,
\* however often processes die, leases lapse or a user forces it again.
AuditsBounded == \A m \in Message : audits[m] <= MaxAttempts

\* A turn the ledger calls settled, or the index calls covered, was reviewed.
SettledWasReviewed ==
    \A m \in Message : Concluded(m) \/ m \in covered => m \in seen

\* The ledger names a candidate only when there is one, and only the coverage of
\* the plan closes a turn with a live candidate as unchanged.
CandidateRecorded ==
    \A m \in Message :
        /\ ledger[m].status = "candidate" => m \in live
        /\ m \in live /\ ledger[m].status = "no-change" => m \in covered

\* What reserving and reconciling are to do with a candidate that a dead process
\* has left unrecorded: no turn that has one is closed as unchanged.
CandidateStays == \A m \in live : ledger[m].status # "no-change"

\* What the plan has covered is fenced: no live candidate appears for it and
\* no new live auditor starts on it.
FenceStep ==
    \A m \in covered : m \in covered' /\ (m \in live' => m \in live) /\ audits'[m] = audits[m]
=============================================================================

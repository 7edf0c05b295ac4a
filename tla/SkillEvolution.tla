---------------------------- MODULE SkillEvolution ----------------------------
(***************************************************************************)
(* The three protocols of skill evolution.  A turn is reviewed live or by  *)
(* a historical plan (SkillReview), a plan is carried through (Historical- *)
(* Plan), an accepted candidate is published (SkillPromotion).  They share *)
(* a store but no step: each starts from files the others have finished    *)
(* with, so one of them at a time is enough to see every state of it.      *)
(***************************************************************************)
EXTENDS Integers, Sequences, FiniteSets

CONSTANTS
    Worker, MaxFaults,
    Message, MaxBacklog, MaxLapses,                         \* SkillReview
    Chunks, MaxModelCalls, MaxAttempts,                     \* HistoricalPlan
    Candidate, Basis, Proposal, Absent, Torn, Original, UserText,
    MaxCalls, MaxStops, MaxEdits                            \* SkillPromotion

\* A process is neither the executor of a plan nor nobody, the other holders of the lease.
\* A half-written file and what a revision proposes, which its record keeps as well, are told
\* from what the user writes.
ASSUME EvolutionAssumption ==
    /\ Worker \cap {"none", "plan"} = {}
    /\ MaxAttempts \in Nat \ {0} /\ MaxBacklog \in Nat \ {0} /\ MaxLapses \in Nat
    /\ Chunks \in Nat \ {0} /\ MaxModelCalls \in Nat
    /\ MaxCalls \in Nat /\ MaxStops \in Nat /\ MaxFaults \in Nat /\ MaxEdits \in Nat
    /\ Absent \notin UserText \cup {Proposal[c] : c \in Candidate} \cup {Torn}
    /\ Torn \notin UserText \cup Original
    /\ \A c \in Candidate :
          /\ Basis[c] # Proposal[c]
          /\ Basis[c] # Absent => Proposal[c] \notin UserText \cup Original

VARIABLES
    by, worker, spent, plan,
    file, journals, record, holder, owed, trouble, published,
    ledger, claims, live, mined, covered, deleted, lease, run, audits, seen,
    epochFile, candidate, exec, sent, unknown
promotion == <<file, journals, record, holder, owed, trouble, published>>
review == <<ledger, claims, live, mined, covered, deleted, lease, run, audits, seen>>
history == <<epochFile, candidate, exec, sent, unknown>>
vars == <<by, worker, spent, plan, promotion, review, history>>

Promotion == INSTANCE SkillPromotion WITH MaxFaults <- MaxStops
Reviewing == INSTANCE SkillReview
Historical == INSTANCE HistoricalPlan

\* The variables of the parts that are not looked at.
NoPromotion ==
    /\ file = {} /\ journals = {} /\ record = {} /\ holder = {}
    /\ owed = {} /\ trouble = {} /\ published = {}
NoReview ==
    /\ ledger = {} /\ claims = {} /\ live = {} /\ mined = {} /\ covered = {}
    /\ deleted = {} /\ lease = {} /\ run = {} /\ audits = {} /\ seen = {}
NoHistory == epochFile = {} /\ candidate = {} /\ exec = {} /\ sent = {} /\ unknown = {}

Init ==
    \/ by = "promotion" /\ Promotion!Init /\ NoReview /\ NoHistory /\ plan = {}
    \/ by = "review" /\ Reviewing!Init /\ NoPromotion /\ NoHistory
    \/ by = "plan" /\ Historical!Init /\ NoPromotion /\ NoReview /\ worker = {} /\ spent = {}
Next ==
    \/ by = "promotion" /\ Promotion!Next /\ UNCHANGED <<by, plan, review, history>>
    \/ by = "review" /\ Reviewing!Next /\ UNCHANGED <<by, promotion, history>>
    \/ by = "plan" /\ Historical!Next /\ UNCHANGED <<by, worker, spent, promotion, review>>
Spec == Init /\ [][Next]_vars

---------------------------------------------------------------------------
\* What was in the skill file when promoteSkillCandidate or rollback found it,
\* and what the user saved since (but a new file between the last check and the
\* unlink), is in some file whatever stops where; what a promoted revision
\* replaced is in its independent backup.
TextsKept == by = "promotion" => Promotion!UserTextKept /\ Promotion!RollbackPossible
\* recoverSkillTransactions can resolve every journal that a dead or failed
\* process leaves, at any point of a transaction or of a recovery; with none
\* outstanding the skill file holds what the last revision that
\* appendSkillCandidateRevision committed says it does.
RecordsRecover == by = "promotion" => Promotion!Recoverable /\ Promotion!FileMatchesRecords
\* No turn is given to more live auditors than maxAttempts, however often
\* processes die, leases lapse or enqueueSkillAudit is forced.
\* What ledger.json and the coverage say of a turn is so: a settled turn was
\* reviewed, and a candidate and its record agree.
AuditsTrue == by = "review" =>
    Reviewing!AuditsBounded /\ Reviewing!SettledWasReviewed /\ Reviewing!CandidateRecorded
\* Once publishHistoricalCoverage has a turn, no live audit of it begins or
\* creates a candidate; after cancel a plan creates and completes nothing.
FencesHold == [][/\ by = "review" => Reviewing!FenceStep
                 /\ by = "plan" => Historical!CancelStep]_vars
\* Wherever a run of a historical plan stops, verifiedPlan accepts what it left
\* (unless its completion was interrupted or its candidate reviewed since), and
\* its candidate has every chunk, a reduction and a checker behind it.
PlanHolds == by = "plan" => Historical!VerifierAccepts /\ Historical!CandidateIsBacked
\* Every call was charged to the plan before it was made, within the confirmed
\* budget over all runs, and none follows a call of unknown outcome.
CallsAccounted == by = "plan" => Historical!CallsCharged /\ Historical!UnknownNeverReplayed
=============================================================================

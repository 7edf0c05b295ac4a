---------------------------- MODULE HistoricalPlan ----------------------------
(***************************************************************************)
(* One confirmed plan of skill-evolution-historical: its sealed chunks are *)
(* read by auditors one after another, a finding is chosen, a checker      *)
(* judges it, a candidate is created and the plan completes.  Every paid   *)
(* call leaves an entry in the durable index before it is made; a run may  *)
(* stop anywhere and a later run resumes from the entries, after a verifier *)
(* has read them all again.  How the plan shares turns with live audits is *)
(* SkillReview; here their claims may be lost at any check.                *)
(***************************************************************************)
EXTENDS Integers, Sequences, FiniteSets

CONSTANTS
    Chunks,         \* how many chunks the plan has sealed
    MaxModelCalls,  \* its hard budget
    MaxAttempts     \* calls for one chunk or checker in one run
VARIABLES
    plan,       \* the record of the plan in historical-index.json
    epochFile,  \* the create-only file that fixes the deadline
    candidate,  \* the candidate of the plan: none, as created, or since reviewed
    exec,       \* where the executor is, and its attempts at the present call
    sent, unknown   \* history: calls made; a call ended without a known outcome
vars == <<plan, epochFile, candidate, exec, sent, unknown>>

Entry(stage, key, paid, done) == [stage |-> stage, key |-> key, paid |-> paid, done |-> done]
Final == 0          \* the key of every entry that is not about a chunk
NewPlan == [state |-> "previewed", next |-> 0, calls |-> 0, log |-> <<>>, epoch |-> FALSE,
            reduction |-> "none", checker |-> FALSE, final |-> FALSE, named |-> FALSE]
Idle == [pc |-> "idle", tries |-> 0]

Init ==
    /\ plan = NewPlan
    /\ epochFile = FALSE
    /\ candidate = "none"
    /\ exec = Idle
    /\ sent = 0 /\ unknown = FALSE

---------------------------------------------------------------------------
\* verifiedPlan: the parts of what it demands.
Staged(p, stage) == {i \in DOMAIN p.log : p.log[i].stage = stage}
Issued(p) == {i \in DOMAIN p.log : ~p.log[i].done}
Paid(p) == {i \in DOMAIN p.log : p.log[i].paid}
Before(p, i, stage) == {j \in Staged(p, stage) : j < i}
Happened(p, i, stage) == Before(p, i, stage) # {}

Accounted(p) ==
    /\ p.calls = Cardinality(Paid(p))
    /\ p.calls <= MaxModelCalls
    /\ p.next \in 0..Chunks /\ p.next = Cardinality(Staged(p, "chunk"))
    /\ Cardinality(Issued(p)) <= 1
    /\ \A i \in DOMAIN p.log : ~p.log[i].done => i = Len(p.log) /\ p.log[i].stage = "issued"

\* Each committed entry follows from those before it.
Follows(p, i) ==
    LET e == p.log[i]
        read == Cardinality(Before(p, i, "chunk"))
        chosen == Happened(p, i, "reduction")
        judged == Happened(p, i, "checker")
        over == Happened(p, i, "final")
    IN
    CASE e.stage = "chunk" -> ~chosen /\ e.key = read + 1
      [] e.stage = "rejected" ->
            IF chosen THEN ~judged /\ ~over /\ e.key = Final
            ELSE read < Chunks /\ e.key = read + 1
      [] e.stage = "reduction" -> ~chosen /\ read = Chunks
      [] e.stage = "checker" -> chosen /\ ~judged /\ ~over
      [] e.stage = "final" -> chosen /\ ~over
      [] OTHER -> FALSE
InOrder(p) == \A i \in DOMAIN p.log : p.log[i].done => Follows(p, i)
Referenced(p) ==
    /\ Cardinality(Staged(p, "reduction")) = IF p.reduction = "none" THEN 0 ELSE 1
    /\ Cardinality(Staged(p, "checker")) = IF p.checker THEN 1 ELSE 0
    /\ p.checker => p.reduction = "candidate"
    /\ (\E i \in DOMAIN p.log : p.log[i].stage = "rejected" /\ p.log[i].key = Final)
          => p.reduction = "candidate"
\* A completed plan is proved whole, its candidate as it was created; any other
\* carries nothing of a completion.
Proved(p, c) ==
    IF p.state = "completed"
    THEN /\ Issued(p) = {} /\ p.next = Chunks /\ p.reduction # "none"
         /\ p.final /\ Cardinality(Staged(p, "final")) = 1
         /\ p.reduction = "candidate" => p.checker /\ p.named /\ c = "created"
    ELSE ~p.final /\ Staged(p, "final") = {} /\ ~p.named
Begun(p) ==
    p.epoch \/ (p.state \notin {"running", "completed"} /\ p.log = <<>> /\ p.reduction = "none" /\ ~p.final)
Verified(p, c) == Accounted(p) /\ InOrder(p) /\ Referenced(p) /\ Proved(p, c) /\ Begun(p)
Accepted == Verified(plan, candidate)

---------------------------------------------------------------------------
Goes(pc) == exec' = [exec EXCEPT !.pc = pc]
Cancelled == plan.state = "cancelled"
Spent == plan.calls >= MaxModelCalls
Committed(stage, key) == Append(plan.log, Entry(stage, key, FALSE, TRUE))
Unmarked(stage) == [plan.log EXCEPT ![Len(plan.log)].stage = stage]
\* The last issued entry gets its stage.
Commit(stage) ==
    LET last == plan.log[Len(plan.log)]
    IN  [plan.log EXCEPT ![Len(plan.log)] = Entry(stage, last.key, last.paid, TRUE)]

Replay ==           \* without the refusal of a call of unknown outcome
    /\ exec.pc = "idle" /\ Accepted
    /\ plan.state \notin {"cancelled", "completed"}
    /\ Goes("reserve")
    /\ UNCHANGED <<plan, epochFile, candidate, sent, unknown>>
\* run or resume: the entries are verified; a plan that is cancelled, completed
\* or has a call of unknown outcome goes no further.
Run ==
    /\ exec.pc = "idle" /\ Accepted
    /\ plan.state \notin {"cancelled", "completed"} /\ Issued(plan) = {}
    /\ Goes("reserve")
    /\ UNCHANGED <<plan, epochFile, candidate, sent, unknown>>

\* A turn of the plan is being audited live; or a live outcome is inconsistent.
Blocked ==
    /\ exec.pc = "reserve"
    /\ \/ plan' = IF Cancelled THEN plan ELSE [plan EXCEPT !.state = "resumable"]
       \/ UNCHANGED plan
    /\ exec' = Idle
    /\ UNCHANGED <<epochFile, candidate, sent, unknown>>

\* run-start: the deadline is fixed once; the file comes before the index.
Begin ==
    /\ exec.pc = "reserve"
    /\ IF Cancelled \/ (~plan.epoch /\ epochFile) THEN exec' = Idle /\ UNCHANGED <<plan, epochFile>>
       ELSE \/ /\ plan' = [plan EXCEPT !.state = "running", !.epoch = TRUE]
               /\ epochFile' = TRUE /\ Goes("chunk")
            \/ /\ ~epochFile /\ epochFile' = TRUE       \* the process dies in between
               /\ exec' = Idle /\ UNCHANGED plan
    /\ UNCHANGED <<candidate, sent, unknown>>

\* The next chunk; one that a live review has concluded costs nothing, and is
\* passed over even if the plan is cancelled by then.
Chunk ==
    /\ exec.pc = "chunk" /\ plan.next < Chunks
    /\ IF Cancelled THEN exec' = Idle
       ELSE exec' = [pc |-> IF Spent THEN "interrupt" ELSE "attempt", tries |-> 0]
    /\ UNCHANGED <<plan, epochFile, candidate, sent, unknown>>
LiveChunk ==
    /\ exec.pc = "attempt" /\ exec.tries = 0 /\ plan.next < Chunks
    /\ plan' = [plan EXCEPT !.next = @ + 1, !.log = Committed("chunk", plan.next + 1)]
    /\ Goes("chunk")
    /\ UNCHANGED <<epochFile, candidate, sent, unknown>>

\* One attempt, of an auditor or of the checker: the plan is read again, the
\* call is charged, the claims and the lease are renewed, the child runs.
Target == IF plan.next < Chunks THEN plan.next + 1 ELSE Final
Attempt ==
    /\ exec.pc = "attempt"
    /\ exec' = IF Cancelled
               THEN IF Target = Final THEN Idle ELSE [exec EXCEPT !.pc = "interrupt"]
               ELSE IF Spent THEN [exec EXCEPT !.pc = "interrupt"]
               ELSE [pc |-> "issue", tries |-> exec.tries + 1]
    /\ UNCHANGED <<plan, epochFile, candidate, sent, unknown>>
Issue ==
    /\ exec.pc = "issue"
    /\ plan' = [plan EXCEPT !.calls = @ + 1, !.log = Append(@, Entry("issued", Target, TRUE, FALSE))]
    /\ Goes("issued")
    /\ UNCHANGED <<epochFile, candidate, sent, unknown>>
\* The invoker asks once more whether the plan is cancelled.
Send ==
    /\ exec.pc = "issued"
    /\ IF Cancelled THEN Goes("answered") /\ UNCHANGED sent
       ELSE Goes("calling") /\ sent' = sent + 1
    /\ UNCHANGED <<plan, epochFile, candidate, unknown>>

\* The child ends: with an answer, or with an outcome nobody knows.
Answer ==
    /\ exec.pc = "calling"
    /\ \E valid \in BOOLEAN :
          exec' = IF Cancelled THEN Idle ELSE [exec EXCEPT !.pc = IF valid THEN "accept" ELSE "reject"]
    /\ UNCHANGED <<plan, epochFile, candidate, sent, unknown>>
NoAnswer ==
    /\ exec.pc = "calling"
    /\ unknown' = TRUE
    /\ exec' = IF Cancelled THEN Idle ELSE [exec EXCEPT !.pc = "interrupt"]
    /\ UNCHANGED <<plan, epochFile, candidate, sent>>
Unsent ==
    /\ exec.pc = "answered"
    /\ exec' = Idle
    /\ UNCHANGED <<plan, epochFile, candidate, sent, unknown>>

\* A valid output is committed with the cursor; an invalid one leaves a receipt
\* before the next attempt.
Accept ==
    /\ exec.pc = "accept"
    /\ IF Cancelled THEN Goes("interrupt") /\ UNCHANGED plan
       ELSE IF Target = Final
       THEN plan' = [plan EXCEPT !.checker = TRUE, !.log = Commit("checker")] /\ Goes("publish")
       ELSE plan' = [plan EXCEPT !.next = @ + 1, !.log = Commit("chunk")] /\ Goes("chunk")
    /\ UNCHANGED <<epochFile, candidate, sent, unknown>>
Reject ==
    /\ exec.pc = "reject"
    /\ IF Cancelled THEN Goes("interrupt") /\ UNCHANGED plan
       ELSE /\ plan' = [plan EXCEPT !.log = Commit("rejected")]
            /\ Goes(IF exec.tries < MaxAttempts THEN "attempt" ELSE "interrupt")
    /\ UNCHANGED <<epochFile, candidate, sent, unknown>>

\* Every chunk is read: one finding is chosen or none, once; the coverage is
\* published; a choice already judged goes to its publication.
Reduce ==
    /\ exec.pc = "chunk" /\ plan.next = Chunks
    /\ IF ~Accepted THEN Goes("interrupt") /\ UNCHANGED plan
       ELSE IF plan.reduction # "none" THEN UNCHANGED plan /\ Goes("reduced")
       ELSE IF Cancelled THEN exec' = Idle /\ UNCHANGED plan
       ELSE /\ \E r \in {"candidate", "no-change"} :
                  plan' = [plan EXCEPT !.reduction = r, !.log = Committed("reduction", Final)]
            /\ Goes("reduced")
    /\ UNCHANGED <<epochFile, candidate, sent, unknown>>
Judge ==
    /\ exec.pc = "reduced"
    /\ exec' = IF plan.reduction = "no-change" THEN [exec EXCEPT !.pc = "finish"]
               ELSE IF ~Accepted THEN [exec EXCEPT !.pc = "interrupt"]
               ELSE IF plan.checker THEN [exec EXCEPT !.pc = "publish"]
               ELSE IF Cancelled THEN Idle
               ELSE IF Spent THEN [exec EXCEPT !.pc = "interrupt"]
               ELSE [pc |-> "attempt", tries |-> 0]
    /\ UNCHANGED <<plan, epochFile, candidate, sent, unknown>>

\* The candidate has the identity of everything it was made from: a second
\* creation finds the first.
Publish ==
    /\ exec.pc = "publish"
    /\ IF Cancelled THEN (exec' = Idle \/ Goes("interrupt")) /\ UNCHANGED candidate
       ELSE /\ candidate' = IF candidate = "none" THEN "created" ELSE candidate
            /\ Goes("finish")
    /\ UNCHANGED <<plan, epochFile, sent, unknown>>

\* The final output is committed, and proved again before it is reported; what
\* fails after that makes the plan resumable like any other failure.
Finish ==
    /\ exec.pc = "finish"
    /\ IF Cancelled \/ ~Accepted THEN Goes("interrupt") /\ UNCHANGED plan
       ELSE /\ plan' = [plan EXCEPT !.state = "completed", !.final = TRUE,
                            !.named = plan.reduction = "candidate", !.log = Committed("final", Final)]
            /\ Goes("finished")
    /\ UNCHANGED <<epochFile, candidate, sent, unknown>>
Report ==
    /\ exec.pc = "finished"
    /\ exec' = IF Accepted THEN Idle ELSE [exec EXCEPT !.pc = "interrupt"]
    /\ UNCHANGED <<plan, epochFile, candidate, sent, unknown>>

\* A claim or the lease is lost, the lock stays busy, an object is unreadable.
Fails ==
    /\ exec.pc \notin {"idle", "reserve", "interrupt"}
    /\ Goes("interrupt")
    /\ unknown' = (unknown \/ exec.pc = "calling")
    /\ UNCHANGED <<plan, epochFile, candidate, sent>>
Interrupt ==
    /\ exec.pc = "interrupt"
    /\ plan' = IF Cancelled THEN plan ELSE [plan EXCEPT !.state = "resumable"]
    /\ exec' = Idle
    /\ UNCHANGED <<epochFile, candidate, sent, unknown>>
Die ==
    /\ exec.pc # "idle"
    /\ exec' = Idle
    /\ unknown' = (unknown \/ exec.pc = "calling")
    /\ UNCHANGED <<plan, epochFile, candidate, sent>>

\* A new process makes what a dead one left running resumable; a user cancels,
\* or reviews the candidate, at any moment.
Recover ==
    /\ exec.pc = "idle" /\ plan.state = "running"
    /\ plan' = [plan EXCEPT !.state = "resumable"]
    /\ UNCHANGED <<epochFile, candidate, exec, sent, unknown>>
Cancel ==
    /\ plan.state \notin {"completed", "cancelled"}
    /\ plan' = [plan EXCEPT !.state = "cancelled"]
    /\ UNCHANGED <<epochFile, candidate, exec, sent, unknown>>
Review ==
    /\ candidate = "created" /\ candidate' = "reviewed"
    /\ UNCHANGED <<plan, epochFile, exec, sent, unknown>>

Execute ==
    \/ Blocked \/ Begin \/ Chunk \/ LiveChunk \/ Attempt \/ Issue \/ Send \/ Answer \/ NoAnswer
    \/ Unsent \/ Accept \/ Reject \/ Reduce \/ Judge \/ Publish \/ Finish \/ Report
    \/ Fails \/ Interrupt
Next == Run \/ Execute \/ Die \/ Recover \/ Cancel \/ Review
Spec == Init /\ [][Next]_vars

---------------------------------------------------------------------------
PlanTypeOK ==
    /\ plan.state \in {"previewed", "running", "resumable", "completed", "cancelled"}
    /\ candidate \in {"none", "created", "reviewed"}
    /\ sent \in Nat

\* Whatever a run leaves behind, at any point of it, the verifier accepts: a
\* stop never makes a plan unusable, except in the two cases named here, where
\* the completion itself was interrupted or its candidate reviewed since.
CompletionDisturbed == plan.final /\ (plan.state # "completed" \/ candidate = "reviewed")
VerifierAccepts == Accepted \/ CompletionDisturbed

\* Each call is charged before it is made, so no number of runs and crashes
\* makes more calls than the plan confirmed.
CallsCharged == sent <= plan.calls /\ plan.calls <= MaxModelCalls

\* A call whose outcome nobody knows is the last one of its plan.
UnknownNeverReplayed == unknown => exec.pc \notin {"issue", "issued", "calling"}

\* A candidate has the whole plan behind it: every chunk, a choice, a checker.
CandidateIsBacked ==
    candidate # "none" =>
        /\ plan.next = Chunks /\ plan.reduction = "candidate" /\ plan.checker
        /\ InOrder(plan)
\* Nothing is created or completed after a cancellation.
CancelStep ==
    plan.state = "cancelled" =>
        plan'.state = "cancelled" /\ plan'.final = plan.final /\ candidate' \in {candidate, "reviewed"}
=============================================================================

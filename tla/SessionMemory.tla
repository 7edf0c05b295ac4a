--------------------------- MODULE SessionMemory ---------------------------
(***************************************************************************)
(* The memory of one session (src/session-memory/): its task checkpoint,   *)
(* the guarded executions of a run by alg_run and alg_resume, and the       *)
(* journal of context deliveries.                                          *)
(*                                                                         *)
(* A checkpoint is replaced by compare-and-swap on its revision, under the *)
(* writer lock, so a locked operation is one action; what was read before  *)
(* the lock was taken may be stale, and other calls of the plugin run at   *)
(* every await.  A locked operation may find the lock busy for longer than *)
(* it waits, or fail to release it: it then throws before or after its     *)
(* effect (Fails).                                                         *)
(***************************************************************************)
EXTENDS Integers, Sequences, FiniteSets

CONSTANTS
    Caller,       \* calls of executeWithMemory for the session and the run
    Retry,        \* operator allowances ("retry" nodes)
    Request,      \* context deliveries, one per hook invocation
    MaxPins,      \* bound of pins and of used_retries in the schema
    Window,       \* entries the delivery journal retains
    MaxRevision,  \* bound: checkpoint revisions
    MaxRun,       \* bound: revisions of the run
    MaxFails,     \* bound: locked operations that throw
    None          \* no call, no allowance

BoundsAssumption ==
    /\ MaxPins \in Nat \ {0}
    /\ Window \in Nat \ {0}
    /\ {MaxRevision, MaxRun, MaxFails} \subseteq Nat
    /\ None \notin Caller \cup Retry

VARIABLES
    head,         \* the checkpoint the head names
    revoked,      \* allowances the registry revokes
    run,          \* the committed run; its status is what its nodes amount to
    call,         \* the guarded calls
    spent,        \* executions that took the lease of the run under each allowance
    journal,      \* deliveries/<owner>: the retained observations
    hook,         \* the deliveries in progress
    published,    \* requests whose text was put into a prompt
    unavailable,  \* deliveryUnavailable has the session
    fails

vars == <<head, revoked, run, call, spent, journal, hook, published, unavailable, fails>>
memoryVars == <<head, revoked>>
runVars == <<run, call, spent>>
deliveryVars == <<journal, hook, published, unavailable>>

\* A pinned node: an allowance, a failed attempt with the revision of the run it cites,
\* or an attempt that blocks nothing.
Node ==
    [kind : {"retry"}, retry : Retry]
        \cup [kind : {"failure"}, cites : 1..MaxRun]
        \cup [kind : {"other"}]

\* `bound`: the skill that declares alg_execute and the reviewed environment.
Checkpoint ==
    [revision : 0..MaxRevision, bound : BOOLEAN, pins : Seq(Node), used : Seq(Retry),
     gap : BOOLEAN, deleted : BOOLEAN]
Run == [revision : 0..MaxRun, status : {"open", "failed", "done"}, lease : Caller \cup {None}]

\* `loaded` is the revision of the run that the tool hands to executeWithMemory, `read` the
\* one of the checkpoint that an update is based on, 0 before it is read.
CallPC == {"idle", "decide", "gap", "consume", "execute", "running", "classify", "record", "pin"}
Call == [pc : CallPC, guarded : BOOLEAN, loaded : 0..MaxRun, retry : Retry \cup {None},
         read : 0..MaxRevision, outcome : {"failure", "success", "indeterminate"}, node : Node]
NoCall == [pc |-> "idle", guarded |-> FALSE, loaded |-> 0, retry |-> None, read |-> 0,
           outcome |-> "indeterminate", node |-> [kind |-> "other"]]

Entry == [request : Request, revision : 1..MaxRevision,
          state : {"prepared", "emitted", "hook_failed", "emission_unconfirmed"}]
HookPC == {"idle", "bare", "render", "prepared", "checked", "shown", "failing",
           "refused", "done"}
Hook == [pc : HookPC, read : 0..MaxRevision]

TypeOK ==
    /\ head \in Checkpoint /\ Len(head.pins) <= MaxPins /\ Len(head.used) <= MaxPins
    /\ revoked \in SUBSET Retry
    /\ run \in Run
    /\ call \in [Caller -> Call]
    /\ spent \in [Retry -> Nat]
    /\ journal \in Seq(Entry) /\ Len(journal) <= Window
    /\ hook \in [Request -> Hook]
    /\ published \in SUBSET Request
    /\ unavailable \in BOOLEAN
    /\ fails \in 0..MaxFails

Init ==
    /\ head = [revision |-> 0, bound |-> FALSE, pins |-> << >>, used |-> << >>,
               gap |-> FALSE, deleted |-> FALSE]
    /\ revoked = {}
    /\ run = [revision |-> 0, status |-> "open", lease |-> None]
    /\ call = [c \in Caller |-> NoCall]
    /\ spent = [r \in Retry |-> 0]
    /\ journal = << >>
    /\ hook = [q \in Request |-> [pc |-> "idle", read |-> 0]]
    /\ published = {}
    /\ unavailable = FALSE
    /\ fails = 0

-----------------------------------------------------------------------------
(* MemoryStore.update.                                                     *)

Members(s) == {s[i] : i \in 1..Len(s)}
Pinned == {n.retry : n \in {m \in Members(head.pins) : m.kind = "retry"}}

\* What store.node and the schema refuse: a pinned node that is revoked, and lists that
\* are too long.
\* Mutant: the pins are not looked up again.
AdmissibleUnchecked(c) == Len(c.pins) <= MaxPins /\ Len(c.used) <= MaxPins
Admissible(c) ==
    /\ \A i \in 1..Len(c.pins) : c.pins[i].kind = "retry" => c.pins[i].retry \notin revoked
    /\ Len(c.pins) <= MaxPins
    /\ Len(c.used) <= MaxPins

Updates(read, c) == ~head.deleted /\ head.revision = read /\ Admissible(c)
Replace(c) == head.revision < MaxRevision /\ head' = [c EXCEPT !.revision = @ + 1]
Fails == fails < MaxFails /\ fails' = fails + 1

\* An update of the operator's command or of a hook, read and replaced without a
\* competitor; one that loses the race changes nothing.
Update(c) ==
    /\ Updates(head.revision, c) /\ Replace(c)
    /\ UNCHANGED <<revoked, runVars, deliveryVars, fails>>

BeginTask == Update([head EXCEPT !.bound = FALSE, !.pins = << >>, !.used = << >>, !.gap = FALSE])
\* selectEnvironment, then loadSkill: binding again gives the same skill node.
BindSkill == ~head.bound /\ Update([head EXCEPT !.bound = TRUE])
\* compact, progress, noteOpening and captureResult advance the revision.
Compact == head.revision > 0 /\ Update(head)
Delete == head.revision > 0 /\ Update([head EXCEPT !.bound = FALSE, !.pins = << >>, !.deleted = TRUE])

\* allowRetry: a new node, for the operation the checkpoint is bound to.
AllowRetry(r) ==
    /\ head.bound
    /\ r \notin Pinned \cup Members(head.used) \cup revoked
    /\ spent[r] = 0 /\ \A c \in Caller : call[c].retry # r
    /\ Update([head EXCEPT !.pins = Append(@, [kind |-> "retry", retry |-> r])])

Revoke(r) ==
    /\ revoked' = revoked \cup {r}
    /\ UNCHANGED <<head, runVars, deliveryVars, fails>>

-----------------------------------------------------------------------------
(* executeWithMemory and SessionMemoryRuntime.guarded, in mode "assist".   *)

SetCall(c, v) == call' = [call EXCEPT ![c] = v]
Moves(c) == UNCHANGED <<memoryVars, run, spent, deliveryVars>>

\* The tool loads the run.  No skill is bound: it executes without memory.  Otherwise a
\* delivery that failed keeps the call from starting.
Start(c) ==
    LET loaded == [NoCall EXCEPT !.loaded = run.revision] IN
    /\ call[c].pc = "idle"
    /\ IF ~head.bound THEN SetCall(c, [loaded EXCEPT !.pc = "execute"])
       ELSE ~unavailable /\ SetCall(c, [loaded EXCEPT !.pc = "decide", !.guarded = TRUE])
    /\ Moves(c) /\ UNCHANGED fails

\* The allowances that are pinned and not consumed.
Offered == Pinned \ Members(head.used)
Failures == {i \in 1..Len(head.pins) : head.pins[i].kind = "failure"}
\* The newest failed attempt decides.
NewestFailure == CHOOSE i \in Failures : \A j \in Failures : j <= i

\* preflight: the first unused allowance, else committedFailureDecision.
Throws == ~head.bound \/ Pinned \cap revoked # {}
Decision ==
    IF Offered # {} THEN "retry"
    ELSE IF Failures = {} THEN "allowed"
    ELSE IF head.pins[NewestFailure].cites # run.revision THEN "gap"
    ELSE "blocked"

Decide(c) ==
    /\ call[c].pc = "decide"
    /\ \/ (Throws \/ Decision = "blocked") /\ SetCall(c, NoCall)
       \/ /\ ~Throws /\ Decision = "retry"
          /\ \E r \in Offered : SetCall(c, [call[c] EXCEPT !.pc = "consume", !.retry = r])
       \/ ~Throws /\ Decision = "allowed" /\ SetCall(c, [call[c] EXCEPT !.pc = "execute"])
       \/ ~Throws /\ Decision = "gap" /\ SetCall(c, [call[c] EXCEPT !.pc = "gap"])
    /\ Moves(c) /\ UNCHANGED fails

\* recordAttempt looks at the bindings first, and throws when the task has moved on.
LookAtBindings(c) ==
    /\ call[c].pc = "record"
    /\ SetCall(c, IF head.bound THEN [call[c] EXCEPT !.pc = "pin"] ELSE NoCall)
    /\ Moves(c) /\ UNCHANGED fails

\* runtime.update reads the revision its compare-and-swap will expect.
ReadRevision(c) ==
    /\ call[c].pc \in {"gap", "consume", "pin"} /\ call[c].read = 0
    /\ SetCall(c, IF call[c].pc = "gap" /\ head.gap THEN [call[c] EXCEPT !.pc = "execute"]
                  ELSE IF head.revision = 0 THEN NoCall
                  ELSE [call[c] EXCEPT !.read = head.revision])
    /\ Moves(c) /\ UNCHANGED fails

Changed(c) ==
    CASE call[c].pc = "gap" -> [head EXCEPT !.gap = TRUE]
      [] call[c].pc = "consume" -> [head EXCEPT !.used = Append(@, call[c].retry)]
      [] call[c].pc = "pin" -> [head EXCEPT !.pins = Append(@, call[c].node)]

\* Where the call goes when its update is in place, and when it threw: a gap is only a
\* note, an allowance that could not be consumed starts nothing.
Proceed(c) == IF call[c].pc = "pin" THEN NoCall
              ELSE [call[c] EXCEPT !.pc = "execute", !.read = 0]
Threw(c) == IF call[c].pc = "gap" THEN [call[c] EXCEPT !.pc = "execute", !.read = 0]
            ELSE NoCall

CompareAndSwap(c) ==
    /\ call[c].read > 0
    /\ \/ /\ Updates(call[c].read, Changed(c)) /\ Replace(Changed(c))
          /\ \/ SetCall(c, Proceed(c)) /\ UNCHANGED fails
             \/ SetCall(c, Threw(c)) /\ Fails
       \/ /\ ~Updates(call[c].read, Changed(c))
          /\ SetCall(c, Threw(c)) /\ UNCHANGED <<head, fails>>
       \/ SetCall(c, Threw(c)) /\ Fails /\ UNCHANGED head
    /\ UNCHANGED <<revoked, run, spent, deliveryVars>>

\* executeRun takes the lease of the run, and its first save commits only over the revision
\* the tool has loaded; it throws when either is refused.
\* Mutant: the save commits over whatever is there.
TakesAnyRevision(c) == run.lease = None
Takes(c) == run.lease = None /\ call[c].loaded = run.revision
Execute(c) ==
    /\ call[c].pc = "execute"
    /\ \/ /\ Takes(c) /\ run.revision < MaxRun
          /\ spent' = [r \in Retry |-> IF r = call[c].retry THEN spent[r] + 1 ELSE spent[r]]
          /\ run' = [revision |-> run.revision + 1, lease |-> c,
                     status |-> IF run.status = "done" THEN "done" ELSE "open"]
          /\ SetCall(c, [call[c] EXCEPT !.pc = "running"])
       \/ /\ ~Takes(c) /\ UNCHANGED <<run, spent>>
          /\ SetCall(c, [call[c] EXCEPT !.pc = "classify", !.outcome = "indeterminate"])
    /\ UNCHANGED <<memoryVars, deliveryVars, fails>>

\* It ends with every node terminal, or blocked; a run that is done stays so.
OutcomeOf(status) ==
    CASE status = "failed" -> "failure" [] status = "done" -> "success" [] OTHER -> "indeterminate"
Finish(c) ==
    /\ call[c].pc = "running" /\ run.revision < MaxRun
    /\ \E s \in IF run.status = "done" THEN {"done"} ELSE {"open", "failed", "done"} :
        /\ run' = [revision |-> run.revision + 1, status |-> s, lease |-> None]
        /\ SetCall(c, [call[c] EXCEPT !.pc = "classify", !.outcome = OutcomeOf(s)])
    /\ UNCHANGED <<memoryVars, spent, deliveryVars, fails>>

\* The citation is of the run as it is committed now, whoever committed it.
Cites(c) == run.revision

Classify(c) ==
    /\ call[c].pc = "classify"
    /\ SetCall(c, IF ~call[c].guarded THEN NoCall
                  ELSE [call[c] EXCEPT !.pc = "record",
                            !.node = IF call[c].outcome = "failure"
                                     THEN [kind |-> "failure", cites |-> Cites(c)]
                                     ELSE [kind |-> "other"]])
    /\ Moves(c) /\ UNCHANGED fails

-----------------------------------------------------------------------------
(* ContextDelivery.replace.                                                *)

\* The revision read matters only until the delivery is prepared.
SetHook(q, pc) == hook' = [hook EXCEPT ![q] = [pc |-> pc, read |-> 0]]
Hooks(q) == UNCHANGED <<memoryVars, runVars>>

\* memory.prepare: without a checkpoint, or when it throws, nothing is to be recorded.
Render(q) ==
    /\ hook[q].pc = "idle"
    /\ \/ (head.revision = 0 \/ head.deleted) /\ SetHook(q, "bare") /\ UNCHANGED fails
       \/ SetHook(q, "bare") /\ Fails
       \/ /\ head.revision > 0 /\ ~head.deleted
          /\ hook' = [hook EXCEPT ![q] = [pc |-> "render", read |-> head.revision]]
          /\ UNCHANGED fails
    /\ UNCHANGED <<journal, published, unavailable>> /\ Hooks(q)

\* The last entries of the journal and a new one.
Retained(e) ==
    Append(SubSeq(journal, 1 + (IF Len(journal) >= Window THEN 1 ELSE 0), Len(journal)), e)

\* prepareDelivery: the context is of the current checkpoint.
Prepare(q) ==
    LET fresh == ~head.deleted /\ head.revision = hook[q].read
        after == Retained([request |-> q, revision |-> head.revision, state |-> "prepared"])
    IN
    /\ hook[q].pc = "render"
    /\ \/ fresh /\ journal' = after /\ SetHook(q, "prepared") /\ UNCHANGED fails
       \/ fresh /\ journal' = after /\ SetHook(q, "refused") /\ Fails
       \/ ~fresh /\ SetHook(q, "refused") /\ UNCHANGED <<journal, fails>>
       \/ SetHook(q, "refused") /\ Fails /\ UNCHANGED journal
    /\ UNCHANGED <<published, unavailable>> /\ Hooks(q)

Index(q) == {i \in 1..Len(journal) : journal[i].request = q}

\* The last look at the record and the checkpoint before the text goes out.
Check(q) ==
    /\ hook[q].pc = "prepared"
    /\ \/ /\ \E i \in Index(q) : journal[i].revision = head.revision
          /\ SetHook(q, "checked") /\ UNCHANGED fails
       \/ /\ \A i \in Index(q) : journal[i].revision # head.revision
          /\ SetHook(q, "failing") /\ UNCHANGED fails
       \/ SetHook(q, "failing") /\ Fails
    /\ UNCHANGED <<journal, published, unavailable>> /\ Hooks(q)

\* OwnedContext.replace: the slots are written unless a foreign edit conflicts.
Publish(q) ==
    /\ hook[q].pc = "checked"
    /\ \/ published' = published \cup {q} /\ SetHook(q, "shown") /\ UNCHANGED fails
       \/ SetHook(q, "failing") /\ Fails /\ UNCHANGED published
    /\ UNCHANGED <<journal, unavailable>> /\ Hooks(q)

\* Nothing was prepared: the hook succeeds without a record.
PublishBare(q) ==
    /\ hook[q].pc = "bare" /\ SetHook(q, "done") /\ unavailable' = FALSE
    /\ UNCHANGED <<journal, published, fails>> /\ Hooks(q)

\* settleDelivery: only a prepared record that is still retained is settled.
Settles(q, state) ==
    \E i \in Index(q) : /\ journal[i].state = "prepared"
                        /\ journal' = [journal EXCEPT ![i].state = state]
Retains(q) == \E i \in Index(q) : journal[i].state = "prepared"

SettleEmitted(q) ==
    /\ hook[q].pc = "shown"
    /\ \/ Settles(q, "emitted") /\ SetHook(q, "done") /\ unavailable' = FALSE /\ UNCHANGED fails
       \/ Settles(q, "emitted") /\ SetHook(q, "failing") /\ UNCHANGED unavailable /\ Fails
       \/ ~Retains(q) /\ SetHook(q, "failing") /\ UNCHANGED <<journal, unavailable, fails>>
       \/ SetHook(q, "failing") /\ UNCHANGED <<journal, unavailable>> /\ Fails
    /\ UNCHANGED published /\ Hooks(q)

\* Mutant: nobody asks whether the text was out.
ReasonAlways(q) == "hook_failed"
Reason(q) == IF q \in published THEN "emission_unconfirmed" ELSE "hook_failed"

\* The record, if there is one to be written, says why; the session is marked, and the
\* text is withdrawn where that is possible.
HookFails(q) ==
    /\ \/ hook[q].pc = "failing" /\ Settles(q, Reason(q))
       \/ hook[q].pc \in {"failing", "refused"} /\ UNCHANGED journal
    /\ SetHook(q, "done") /\ unavailable' = TRUE
    /\ UNCHANGED <<published, fails>> /\ Hooks(q)

-----------------------------------------------------------------------------
\* The plugin's process dies: its calls and deliveries stop where they are.
Crash ==
    /\ call' = [c \in Caller |-> NoCall]
    /\ hook' = [q \in Request |-> [pc |-> IF hook[q].pc = "idle" THEN "idle" ELSE "done",
                                   read |-> 0]]
    /\ run' = [run EXCEPT !.lease = None]
    /\ unavailable' = FALSE
    /\ UNCHANGED <<memoryVars, spent, journal, published, fails>>

Operator == BeginTask \/ BindSkill \/ Compact \/ Delete \/ \E r \in Retry : AllowRetry(r) \/ Revoke(r)
Guarded(c) ==
    \/ Start(c) \/ Decide(c) \/ LookAtBindings(c) \/ ReadRevision(c) \/ CompareAndSwap(c)
    \/ Execute(c) \/ Finish(c) \/ Classify(c)
Deliver(q) ==
    \/ Render(q) \/ Prepare(q) \/ Check(q) \/ Publish(q) \/ PublishBare(q)
    \/ SettleEmitted(q) \/ HookFails(q)

Next ==
    \/ Operator
    \/ \E c \in Caller : Guarded(c)
    \/ \E q \in Request : Deliver(q)
    \/ Crash

Spec == Init /\ [][Next]_vars

-----------------------------------------------------------------------------
(* Properties.                                                             *)

\* docs/session-memory.md:230-231, the allowance "is consumed before one execution, including if
\* that execution crashes": no allowance is behind two executions, whatever crashes, is
\* refused or begins a new task between the decision, the consumption and the execution.
\* Two calls may be offered it and both consume it: guarded looks at used_retries only in
\* preflight.  What keeps the second from executing is the run each has loaded before.
AllowanceOnce == \A r \in Retry : spent[r] <= 1

\* An allowance that an execution was started under is not offered by preflight any more.
ConsumedIsGone == \A r \in Retry : spent[r] > 0 => r \notin Offered

\* The calls of a session for one run follow one another.
NoOverlap == \A c, d \in Caller : c = d

\* committedFailureDecision: a failure blocks while, and only while, the committed run
\* still shows it.  A failed revision of the run that some pinned attempt cites is not
\* executed again without an allowance, however many older failures are pinned, and an
\* interrupted or finished run is never blocked.  Calls that overlap may record their
\* attempts in another order than they ran in, and cite one another's revisions.
RepeatBlocked ==
    (~Throws /\ ~head.deleted) =>
        (Decision = "blocked" <=>
            /\ run.status = "failed"
            /\ \E i \in Failures : head.pins[i].cites = run.revision
            /\ Offered = {})

\* What guarded promises of failures and of the allowances that excuse them.
RepeatsExcused == ConsumedIsGone /\ AllowanceOnce /\ (NoOverlap => RepeatBlocked)

\* An allowance that is revoked after preflight has offered it is not consumed any more,
\* as long as its task lasts: a new task clears the pins the update looks up.
ConsumeStep == \A c \in Caller : call[c].pc = "consume" /\ call'[c].pc = "execute"
    => call[c].retry \notin revoked \cap Pinned

\* docs/context-decision-contract.md, publication "remains prepared/unknown until supported
\* evidence resolves it": a record says emitted, or that it may have been, only of a text
\* that was put into a prompt, and hook_failed only of one that was not.
DeliveryHonest == \A i \in 1..Len(journal) :
    /\ journal[i].state \in {"emitted", "emission_unconfirmed"} => journal[i].request \in published
    /\ journal[i].state = "hook_failed" => journal[i].request \notin published

=============================================================================

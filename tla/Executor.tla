------------------------------ MODULE Executor ------------------------------
(***************************************************************************)
(* The durable executor of one ALG run (executeRun of src/executor.ts and  *)
(* the alg_run / alg_resume tools that call it).  It reserves attempts,    *)
(* saves them, launches children, classifies what they return, routes      *)
(* checker feedback and saves again.  A save replaces the manifest on disk *)
(* with the state in memory (disk' = mem); a crash keeps the disk and      *)
(* loses the memory.                                                       *)
(*                                                                         *)
(* JavaScript runs to its next await without interruption, so an action is *)
(* the code between two awaits.  A save may wait for a contended lock on a *)
(* timer, so it is a step of its own: the siblings of a batch interleave   *)
(* between a change in memory and its commit.                              *)
(***************************************************************************)
EXTENDS RunState

CONSTANTS
    Concurrency,  \* the effective max_concurrency
    MaxWaves,     \* options.maxWaves
    MaxCalls,     \* bound: alg_run / alg_resume / close calls explored
    MaxCrashes,   \* bound: crashes of the process
    MaxFaults     \* bound: failed saves and children that throw

ASSUME BoundsAssumption ==
    /\ Concurrency \in Nat \ {0}
    /\ MaxWaves \in Nat \ {0}
    /\ MaxCalls \in Nat
    /\ MaxCrashes \in Nat
    /\ MaxFaults \in Nat

VARIABLES
    disk,       \* progress.json: the last committed run state
    sidecars,   \* <<node, attempt>> pairs with a sessions/<node>-a<n>.json file
    mem,        \* the run object of the invocation (a copy of disk when idle)
    phase,      \* where executeRun is
    queue,      \* the ready nodes of the wave not batched yet
    child,      \* where runOneNode is, per node of the batch
    wave,       \* waves started by this invocation
    cancelled,  \* toolContext.abort.aborted
    launched,   \* history: <<node, attempt>> pairs whose child work was started
    calls, crashes, faults

vars == <<disk, sidecars, mem, phase, queue, child, wave, cancelled, launched,
          calls, crashes, faults>>
bounds == <<calls, crashes, faults>>

\* A phase that awaits a save, and the phase its commit leads to.
SaveThen == [opening |-> "wave", reserving |-> "launch", settleSave |-> "batch",
             handledSave |-> "feedback", routeSave |-> "waveEnd", waveSave |-> "waveSaved",
             preflightSave |-> "idle", finalSave |-> "idle"]
Phase == DOMAIN SaveThen \cup
         {"idle", "wave", "batch", "launch", "children", "feedback", "waveEnd", "waveSaved"}
\* "broken": the child's save failed (PersistenceBoundaryError); "rejected": it threw.
ChildState == {"none", "reserved", "working", "linking", "prompted", "settling",
               "settled", "rejected", "broken"}

NoChild == [n \in Node |-> "none"]

TypeOK ==
    /\ disk \in RunState
    /\ mem \in RunState
    /\ sidecars \in SUBSET (Node \X Nat)
    /\ launched \in SUBSET (Node \X Nat)
    /\ phase \in Phase
    /\ queue \in SUBSET Node
    /\ child \in [Node -> ChildState]
    /\ wave \in Nat
    /\ cancelled \in BOOLEAN
    /\ calls \in Nat /\ crashes \in Nat /\ faults \in Nat

Init ==
    /\ disk = PlannedRun
    /\ mem = PlannedRun
    /\ sidecars = {}
    /\ launched = {}
    /\ phase = "idle"
    /\ queue = {}
    /\ child = NoChild
    /\ wave = 0
    /\ cancelled = FALSE
    /\ calls = 0 /\ crashes = 0 /\ faults = 0

-----------------------------------------------------------------------------
(* The tool calls.                                                         *)

\* loadRunForOwner: a running attempt without a session id takes it from its
\* sidecar, and the reconciled state is saved before it is returned.
\* Mutant: the sidecars are not looked at.
Unreconciled(r) == r
Reconciled(r) ==
    LET lost == {n \in HasStatus(r, {"running"}) : <<n, Used(r, n)>> \in sidecars}
    IN  [r EXCEPT !.node = [n \in Node |->
            IF n \in lost THEN [r.node[n] EXCEPT !.att[Used(r, n)].session = TRUE]
            ELSE r.node[n]]]

\* executeRun up to its first save, on the state the tool prepared.
Open(r) ==
    /\ phase = "idle"
    /\ calls < MaxCalls
    /\ calls' = calls + 1
    /\ disk' = Reconciled(disk)
    /\ mem' = [r EXCEPT !.status = "running"]
    /\ phase' = "opening"
    /\ wave' = 0
    /\ cancelled' = FALSE
    /\ UNCHANGED <<sidecars, queue, child, launched, crashes, faults>>

AlgRun == Open(Reconciled(disk))
AlgResume == Open(PrepareRunForResume(Reconciled(disk)))

\* alg_resume close=true: load, close and save under one execution lease; a
\* state the schema rejects is not saved and the call reports the error.
AlgClose ==
    LET fresh == Reconciled(disk) IN
    /\ phase = "idle"
    /\ calls < MaxCalls
    /\ MayClose(fresh)
    /\ calls' = calls + 1
    /\ disk' = IF SchemaValid(Closed(fresh)) THEN Closed(fresh) ELSE fresh
    /\ mem' = disk'
    /\ UNCHANGED <<sidecars, phase, queue, child, wave, cancelled, launched, crashes, faults>>

-----------------------------------------------------------------------------
(* executeRun: saves, waves and batches.                                   *)

\* save(run): the schema is enforced before the manifest is replaced.
Save == SchemaValid(mem) /\ disk' = mem

\* The pending commit of the phase.
Commit ==
    /\ phase \in DOMAIN SaveThen
    /\ Save
    /\ phase' = SaveThen[phase]
    /\ UNCHANGED <<sidecars, mem, queue, child, wave, cancelled, launched, bounds>>

\* After the last wave: propagate, apply the global limit, name the result.
Finish(r) ==
    LET final == FinishGlobalLimit(SkipFailedDescendants(r)) IN
    /\ mem' = [final EXCEPT !.status = IF ~AllTerminal(final) THEN "blocked"
                                       ELSE IF AnyFailed(final) THEN "failed" ELSE "done"]
    /\ phase' = "finalSave"

\* The head of the wave loop, with every break that leaves it.
WaveStart ==
    LET swept == SkipFailedDescendants(mem)
        stop == wave >= MaxWaves \/ cancelled \/ AllTerminal(mem)
    IN
    /\ phase = "wave"
    /\ IF stop \/ ReadyNodes(swept) = {}
       THEN Finish(mem) /\ UNCHANGED <<queue, wave>>
       ELSE /\ mem' = swept
            /\ queue' = ReadyNodes(swept)
            /\ wave' = wave + 1
            /\ phase' = "batch"
    /\ UNCHANGED <<disk, sidecars, child, cancelled, launched, bounds>>

\* The next `Concurrency` nodes of the queue, in graph order.
NextBatch == {n \in queue : Cardinality({m \in queue : m < n}) < Concurrency}

\* Mutant: the batch is launched before its reservations are saved.
ReserveUnsaved ==
    /\ phase = "batch"
    /\ queue # {} /\ ~cancelled
    /\ mem' = ReserveBatch(mem, NextBatch)
    /\ child' = [n \in Node |-> IF n \in Reserved(mem, NextBatch) THEN "reserved" ELSE "none"]
    /\ queue' = queue \ NextBatch
    /\ phase' = "launch"
    /\ UNCHANGED <<disk, sidecars, wave, cancelled, launched, bounds>>

ReserveNext ==
    /\ phase = "batch"
    /\ queue # {} /\ ~cancelled
    /\ mem' = ReserveBatch(mem, NextBatch)
    /\ child' = [n \in Node |-> IF n \in Reserved(mem, NextBatch) THEN "reserved" ELSE "none"]
    /\ queue' = queue \ NextBatch
    /\ phase' = "reserving"
    /\ UNCHANGED <<disk, sidecars, wave, cancelled, launched, bounds>>

\* A shell gate of the batch became unusable: the run blocks and the call fails.
PreflightFails ==
    /\ phase = "batch"
    /\ queue # {} /\ ~cancelled
    /\ mem.global < MaxGlobal
    /\ \E n \in NextBatch : ShellRequired(n) /\ Used(mem, n) < Limit[n]
    /\ mem' = [mem EXCEPT !.status = "blocked"]
    /\ queue' = {}
    /\ phase' = "preflightSave"
    /\ UNCHANGED <<disk, sidecars, child, wave, cancelled, launched, bounds>>

\* The batch loop is over, or cancelled.
WaveBatched ==
    /\ phase = "batch"
    /\ queue = {} \/ cancelled
    /\ queue' = {}
    /\ phase' = "feedback"
    /\ UNCHANGED <<disk, sidecars, mem, child, wave, cancelled, launched, bounds>>

\* The reservations are durable: runOneNode starts for each of them, or throws
\* at once when the call was cancelled meanwhile.
Launch ==
    LET reserved == {n \in Node : child[n] = "reserved"} IN
    /\ phase = "launch"
    /\ phase' = "children"
    /\ child' = [n \in Node |-> IF n \notin reserved THEN child[n]
                                ELSE IF cancelled THEN "rejected" ELSE "working"]
    /\ launched' = IF cancelled THEN launched
                   ELSE launched \cup {<<n, Used(mem, n)>> : n \in reserved}
    /\ UNCHANGED <<disk, sidecars, mem, queue, wave, cancelled, bounds>>

-----------------------------------------------------------------------------
(* runOneNode, one child of the batch.                                     *)

\* onSessionCreated: the sidecar is written, then the id enters the run.
SessionCreated(n) ==
    /\ phase = "children"
    /\ child[n] = "working"
    /\ Agent[n] # "shell"
    /\ sidecars' = sidecars \cup {<<n, Used(mem, n)>>}
    /\ mem' = SetLast(mem, n, [Last(mem, n) EXCEPT !.session = TRUE])
    /\ child' = [child EXCEPT ![n] = "linking"]
    /\ UNCHANGED <<disk, phase, queue, wave, cancelled, launched, bounds>>

\* The session is durable in the manifest; only now is the child prompted.
SessionSaved(n) ==
    /\ phase = "children"
    /\ child[n] = "linking"
    /\ Save
    /\ child' = [child EXCEPT ![n] = "prompted"]
    /\ UNCHANGED <<sidecars, mem, phase, queue, wave, cancelled, launched, bounds>>

\* The child answered (or could not be created): classify and settle in memory.
Answers(n) ==
    /\ phase = "children"
    /\ child[n] \in {"working", "prompted"}
    /\ \E outcome \in OutcomesOf(n) :
        /\ \/ child[n] = "prompted"
           \/ child[n] = "working" /\ Agent[n] = "shell"
           \/ child[n] = "working" /\ outcome = "sdk_error"
        /\ mem' = Settle(mem, n, outcome)
    /\ child' = [child EXCEPT ![n] = "settling"]
    /\ UNCHANGED <<disk, sidecars, phase, queue, wave, cancelled, launched, bounds>>

OutcomeSaved(n) ==
    /\ phase = "children"
    /\ child[n] = "settling"
    /\ Save
    /\ child' = [child EXCEPT ![n] = "settled"]
    /\ UNCHANGED <<sidecars, mem, phase, queue, wave, cancelled, launched, bounds>>

\* The child's promise rejects before any outcome was recorded.
Throws(n) ==
    /\ phase = "children"
    /\ child[n] \in {"working", "prompted"}
    /\ faults < MaxFaults
    /\ faults' = faults + 1
    /\ child' = [child EXCEPT ![n] = "rejected"]
    /\ UNCHANGED <<disk, sidecars, mem, phase, queue, wave, cancelled, launched, calls, crashes>>

\* A child's save fails: its promise rejects with a PersistenceBoundaryError.
ChildSaveFails(n) ==
    /\ phase = "children"
    /\ child[n] \in {"linking", "settling"}
    /\ faults < MaxFaults
    /\ faults' = faults + 1
    /\ child' = [child EXCEPT ![n] = "broken"]
    /\ UNCHANGED <<disk, sidecars, mem, phase, queue, wave, cancelled, launched, calls, crashes>>

\* Promise.allSettled: a failed save ends the call, a rejection is recorded.
ChildrenSettled ==
    LET in(S) == {n \in Node : child[n] \in S} IN
    /\ phase = "children"
    /\ in({"none", "settled", "rejected", "broken"}) = Node
    /\ child' = NoChild
    /\ IF in({"broken"}) # {}
       THEN mem' = disk /\ queue' = {} /\ phase' = "idle"
       ELSE /\ mem' = RecordRejection(mem, in({"rejected"}))
            /\ phase' = "settleSave"
            /\ UNCHANGED queue
    /\ UNCHANGED <<disk, sidecars, wave, cancelled, launched, bounds>>

-----------------------------------------------------------------------------
(* The end of a wave.                                                      *)

\* applyCheckerFeedback: checkers in graph order; one that cannot be repaired
\* is marked handled and the scan goes on, the first that can is routed.
ApplyFeedback ==
    LET waiting == Unrouted(mem)
        first == CHOOSE c \in waiting : \A other \in waiting : c <= other
    IN
    /\ phase = "feedback"
    /\ \/ /\ waiting = {}
          /\ phase' = "waveEnd"
          /\ UNCHANGED mem
       \/ /\ waiting # {}
          /\ ~CanRoute(mem, first)
          /\ mem' = Handle(mem, first)
          /\ phase' = "handledSave"
       \/ /\ waiting # {}
          /\ CanRoute(mem, first)
          /\ mem' = Route(mem, first)
          /\ phase' = "routeSave"
    /\ UNCHANGED <<disk, sidecars, queue, child, wave, cancelled, launched, bounds>>

WaveEnd ==
    /\ phase = "waveEnd"
    /\ mem' = FinishGlobalLimit(mem)
    /\ phase' = "waveSave"
    /\ UNCHANGED <<disk, sidecars, queue, child, wave, cancelled, launched, bounds>>

\* The break on an exhausted global budget, or the next wave.
WaveSaved ==
    /\ phase = "waveSaved"
    /\ IF mem.global >= MaxGlobal THEN Finish(mem) ELSE phase' = "wave" /\ UNCHANGED mem
    /\ UNCHANGED <<disk, sidecars, queue, child, wave, cancelled, launched, bounds>>

-----------------------------------------------------------------------------
(* What happens around the executor.                                       *)

Cancel ==
    /\ phase # "idle" /\ ~cancelled
    /\ cancelled' = TRUE
    /\ UNCHANGED <<disk, sidecars, mem, phase, queue, child, wave, launched, bounds>>

\* The invocation is gone; the manifest and the sidecars stay.
Abandon ==
    /\ mem' = disk
    /\ phase' = "idle"
    /\ queue' = {}
    /\ child' = NoChild
    /\ UNCHANGED <<disk, sidecars, wave, cancelled, launched, calls>>

\* The schema refuses the state: the call fails with it.
SaveRefused ==
    /\ phase \in DOMAIN SaveThen
    /\ ~SchemaValid(mem)
    /\ Abandon
    /\ UNCHANGED <<crashes, faults>>

SaveFails ==
    /\ phase \in DOMAIN SaveThen
    /\ faults < MaxFaults
    /\ faults' = faults + 1
    /\ Abandon
    /\ UNCHANGED crashes

Crash ==
    /\ phase # "idle"
    /\ crashes < MaxCrashes
    /\ crashes' = crashes + 1
    /\ Abandon
    /\ UNCHANGED faults

ChildStep(n) == SessionCreated(n) \/ SessionSaved(n) \/ Answers(n) \/ OutcomeSaved(n)

\* Everything the executor does by itself once called.
Execute ==
    \/ Commit \/ WaveStart \/ ReserveNext \/ WaveBatched \/ Launch
    \/ \E n \in Node : ChildStep(n)
    \/ ChildrenSettled \/ ApplyFeedback \/ WaveEnd \/ WaveSaved \/ SaveRefused

Next ==
    \/ AlgRun \/ AlgResume \/ AlgClose
    \/ Execute
    \/ PreflightFails
    \/ \E n \in Node : Throws(n) \/ ChildSaveFails(n)
    \/ Cancel \/ SaveFails \/ Crash

Spec == Init /\ [][Next]_vars

\* A started call keeps running while the process lives; a child answers, because
\* the host ends every prompt and the shell runner enforces its timeout.
FairSpec == Spec /\ WF_vars(Execute)

-----------------------------------------------------------------------------
(* Properties.                                                             *)

ChildIn(S) == {n \in Node : child[n] \in S}
SavePending == phase \in DOMAIN SaveThen \/ ChildIn({"linking", "settling"}) # {}

\* A routed repair has reopened a node whose attempt still runs: the record that an
\* interrupted call left and alg_run, other than alg_resume, does not end.
ReopensInterrupted == phase = "routeSave" /\
    \E n \in HasStatus(mem, {"pending"}) : LastIs(mem, n, "running")

\* No save the executor asks for is refused by the strict run-state schema: every
\* state it builds, with any set of siblings half done, keeps the invariants that
\* RunStateSchema checks before the commit (a refusal ends the call).  The one
\* exception is the route that RoutesAreLegal is about.
SavesAreLegal == SavePending /\ ~ReopensInterrupted => SchemaValid(mem)

\* What a routed rejection reopens can be saved; RunStateSchema says of the reopened
\* nodes that a "running final attempt requires running node status".  The code does
\* not keep this: see ReopensInterrupted.
RoutesAreLegal == phase = "routeSave" => SchemaValid(mem)

\* Child work is charged before it starts: each attempt ever launched is counted in
\* the manifest on disk, so no sequence of crashes, failed saves and resumes runs
\* more children than the global budget (README.md, "both hard").
LaunchesCharged ==
    /\ launched \subseteq History(disk)
    /\ Cardinality(launched) <= MaxGlobal

\* An attempt number is launched once: what is reserved and about to start was
\* never started by an earlier batch, call or process.
NeverRelaunched == phase = "launch" =>
    \A n \in ChildIn({"reserved"}) : <<n, Used(mem, n)>> \notin launched

\* Both: a launch is charged before it happens and happens once.
LaunchesAccounted == LaunchesCharged /\ NeverRelaunched

\* A node runs, and keeps running, only on accepted inputs: feedback never reopens
\* a dependency under a running node.
InputsAccepted == \A n \in HasStatus(mem, {"running"}) : DependenciesDone(mem, n)

\* No child session is forgotten: while a call runs, every sidecar's session is in
\* the run's history, whichever crash separated the sidecar from the save.
SessionsAccounted == phase # "idle" =>
    \A x \in sidecars : x \in History(mem) /\ mem.node[x[1]].att[x[2]].session

\* A call that ends "blocked" was stopped by something outside the schedule: a
\* cancellation, its wave limit, the global budget, or a stale running attempt
\* that only alg_resume can reopen.  It never stops with a ready node it could run.
BlockedHasCause == (phase = "finalSave" /\ mem.status = "blocked") =>
    \/ cancelled \/ wave >= MaxWaves \/ mem.global >= MaxGlobal
    \/ HasStatus(mem, {"running"}) # {}

\* Both: what readyNodes gives to a wave may run, and what it leaves out may not.
ScheduleSound == InputsAccepted /\ BlockedHasCause

\* Saved history is only extended: no step drops, renumbers or rewrites an attempt
\* that had ended, except to mark its rejection handled.
HistoryKept == [][\A n \in Node : \A i \in 1..Used(disk, n) :
    /\ i <= Used(disk', n)
    /\ LET old == disk.node[n].att[i]  new == disk'.node[n].att[i] IN
        /\ old.session => new.session
        /\ old.status # "running" =>
             new \in {old, [old EXCEPT !.applied = TRUE]}]_disk

\* A saved result is withdrawn only by a checker's routed rejection: when a done
\* node is reopened, the same commit marks a rejection handled whose target is the
\* node or an ancestor of it.
ReopenedByFeedback == [][\A n \in HasStatus(disk, {"done"}) :
    disk'.node[n].status # "done" =>
        \E c \in Node :
            /\ Feedback[c] # NoNode
            /\ n \in {Feedback[c]} \cup DescendantsOf(Feedback[c])
            /\ c \in Unrouted(disk)
            /\ disk'.node[c].att[Used(disk, c)].applied]_disk

\* Both: what a save changes of what was saved before is what a route may change.
SavesExtend == HistoryKept /\ ReopenedByFeedback

\* A call returns: with children that answer and saves that are attempted, every
\* wave ends and the waves run out.
CallReturns == phase # "idle" ~> phase = "idle"
=============================================================================

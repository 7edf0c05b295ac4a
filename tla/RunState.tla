------------------------------ MODULE RunState ------------------------------
(***************************************************************************)
(* One ALG run as data: the graph its plan fixed, the state each node      *)
(* keeps, the invariants the run-state schema enforces on every save and   *)
(* load (src/schemas.ts), the scheduling operators of src/graph.ts and the *)
(* pure state transformers of src/executor.ts.  Timestamps, prompts,       *)
(* outputs and diagnostics are left out: what is kept of an attempt is     *)
(* its status, its classified outcome, whether the child session is known  *)
(* and whether a rejection was handled.                                    *)
(***************************************************************************)
EXTENDS Integers, Sequences, FiniteSets

CONSTANTS
    N,            \* number of nodes; node n is the n-th of graph.nodes
    Deps,         \* Deps[n]: depends_on
    Agent,        \* Agent[n]: the role of the node
    Gated,        \* nodes whose loop.gate is "shell" or "all"
    Feedback,     \* Feedback[n]: feedback_to of a checker, 0 for none
    Limit,        \* Limit[n]: loop.max_attempts
    MaxGlobal     \* graph.max_global_attempts

Node == 1..N
NoNode == 0
ModelAgent == {"explorer", "researcher", "implementer", "checker"}

\* What GraphDefSchema accepts (the part that shapes execution).
GraphDefSchema ==
    /\ N \in Nat \ {0}
    /\ Deps \in [Node -> SUBSET Node]
    /\ \A n \in Node : \A d \in Deps[n] : d < n
    /\ Agent \in [Node -> ModelAgent \cup {"shell"}]
    /\ Gated \in SUBSET Node
    /\ Feedback \in [Node -> Node \cup {NoNode}]
    /\ \A n \in Node : Feedback[n] # NoNode =>
          Agent[n] = "checker" /\ Feedback[n] \in Deps[n]
    /\ Limit \in [Node -> Nat \ {0}]
    /\ MaxGlobal \in Nat \ {0}

ASSUME GraphAssumption == GraphDefSchema

-----------------------------------------------------------------------------
(* The persisted run state, reduced to what execution reads and writes.    *)

Outcome == {"passed", "schema_invalid", "sdk_error", "gate_failure",
            "substantive_rejection", "incomplete", "none"}
AttemptState == [status : {"running", "done", "failed"}, outcome : Outcome,
                 session : BOOLEAN, applied : BOOLEAN]
NodeState == [status : {"pending", "running", "done", "failed", "skipped"},
              att : Seq(AttemptState)]
RunState == [status : {"planning", "running", "done", "failed", "blocked"},
             node : [Node -> NodeState], global : Nat,
             criteria : Node \cup {NoNode}]

\* initNodeStates: every node pending with no attempt; createRun with no criteria.
PlannedRun ==
    [status |-> "planning", global |-> 0, criteria |-> NoNode,
     node |-> [n \in Node |-> [status |-> "pending", att |-> << >>]]]

Used(r, n) == Len(r.node[n].att)
Last(r, n) == r.node[n].att[Used(r, n)]
LastIs(r, n, st) == Used(r, n) > 0 /\ Last(r, n).status = st
HasStatus(r, S) == {n \in Node : r.node[n].status \in S}
\* Every attempt ever reserved, as <<node, attempt number>>.
History(r) == UNION {{n} \X (1..Used(r, n)) : n \in Node}

\* r with the status of the nodes of S replaced.
Mark(r, S, st) ==
    [r EXCEPT !.node = [n \in Node |->
        IF n \in S THEN [r.node[n] EXCEPT !.status = st] ELSE r.node[n]]]
\* r with the last attempt of n ended (or linked, or routed) as the record a.
SetLast(r, n, a) == [r EXCEPT !.node[n].att[Used(r, n)] = a]

Unfinished(r) == HasStatus(r, {"pending", "running"})
AllTerminal(r) == Unfinished(r) = {}
AnyFailed(r) == HasStatus(r, {"failed"}) # {}
DependenciesDone(r, n) == \A d \in Deps[n] : r.node[d].status = "done"
\* Mutant: a dependency only has to be unfailed.
ReadyUnlessFailed(r) == {n \in HasStatus(r, {"pending"}) :
    \A d \in Deps[n] : r.node[d].status \notin {"failed", "skipped"}}
ReadyNodes(r) == {n \in HasStatus(r, {"pending"}) : DependenciesDone(r, n)}

\* descendantsOf: the nodes that transitively depend on n; the closed sets are
\* those that contain, with a node of C \cup {n}, everything depending on it.
Descendants == [n \in Node |->
    {m \in Node : \A C \in SUBSET Node :
        (\A k \in Node : Deps[k] \cap (C \cup {n}) # {} => k \in C) => m \in C}]
DescendantsOf(n) == Descendants[n]

\* while (skipFailedDescendants(run)): the least set of pending nodes closed
\* under "a dependency failed, was skipped, or is itself in the set".
SkippedBy(r) ==
    LET bad(C) == HasStatus(r, {"failed", "skipped"}) \cup C
        pending == HasStatus(r, {"pending"})
    IN  {m \in pending : \A C \in SUBSET pending :
            (\A k \in pending : Deps[k] \cap bad(C) # {} => k \in C) => m \in C}
SkipFailedDescendants(r) == Mark(r, SkippedBy(r), "skipped")

\* The invariants RunStateSchema enforces on every save and every load.
SchemaValid(r) ==
    /\ \A n \in Node :
        LET st == r.node[n].status IN
        /\ Used(r, n) <= Limit[n]
        /\ \A i \in 1..Used(r, n) : LET a == r.node[n].att[i] IN
              /\ a.status = "running" => i = Used(r, n)
              /\ (a.status = "done") <=> (a.outcome = "passed")
              /\ a.outcome = "substantive_rejection" => Agent[n] = "checker"
        /\ (st = "running") <=> LastIs(r, n, "running")
        /\ st = "done" => LastIs(r, n, "done") /\ DependenciesDone(r, n)
        /\ st = "failed" => Used(r, n) = 0 \/ LastIs(r, n, "failed")
        /\ st = "skipped" => \E d \in Deps[n] : r.node[d].status \in {"failed", "skipped"}
    /\ r.global = Cardinality(History(r))
    /\ r.global <= MaxGlobal
    /\ r.status = "done" => HasStatus(r, {"done"}) = Node
    /\ r.status = "failed" => AnyFailed(r) /\ AllTerminal(r)
    /\ r.status = "planning" => r.global = 0 /\ HasStatus(r, {"pending"}) = Node

-----------------------------------------------------------------------------
(* Attempts: reservation, classification and settlement.                   *)

\* reserveAttempt over a batch, in graph order: the first members get what is
\* left of the global budget, the others are refused.
Reserved(r, batch) ==
    {n \in batch : /\ Used(r, n) < Limit[n]
                   /\ Cardinality({m \in batch : m < n /\ Used(r, m) < Limit[m]})
                        < MaxGlobal - r.global}
Reserve(r, S) ==
    LET attempt == [status |-> "running", outcome |-> "none",
                    session |-> FALSE, applied |-> FALSE]
    IN  [r EXCEPT !.global = @ + Cardinality(S),
                  !.node = [n \in Node |-> IF n \notin S THEN r.node[n]
                              ELSE [status |-> "running",
                                    att |-> Append(r.node[n].att, attempt)]]]
\* A refused node fails, unless only the budget is short and its last attempt passed.
Refuse(r, S) ==
    LET kept == {n \in S : Used(r, n) < Limit[n] /\ LastIs(r, n, "done")}
    IN  Mark(Mark(r, kept, "pending"), S \ kept, "failed")
ReserveBatch(r, batch) ==
    Refuse(Reserve(r, Reserved(r, batch)), batch \ Reserved(r, batch))

ShellRequired(n) == Agent[n] = "shell" \/ n \in Gated

\* What a child can hand back: an SDK error (never for a shell node), a verdict
\* of the output schema, the exit of its shell gate, and whether the checker
\* passed the work or the implementer declared itself done.
Reply == [error : BOOLEAN, schemaOk : BOOLEAN, shellOk : BOOLEAN, accepted : BOOLEAN]
Classify(n, reply) ==
    LET accepted == Agent[n] \in {"checker", "implementer"} => reply.accepted
        gateFailed == ShellRequired(n) /\ ~reply.shellOk
    IN  IF ~reply.error /\ reply.schemaOk /\ accepted /\ ~gateFailed THEN "passed"
        ELSE IF reply.error /\ Agent[n] # "shell" THEN "sdk_error"
        ELSE IF ~reply.schemaOk THEN "schema_invalid"
        ELSE IF gateFailed THEN "gate_failure"
        ELSE IF Agent[n] = "checker" THEN "substantive_rejection"
        ELSE IF Agent[n] = "implementer" THEN "incomplete"
        ELSE "gate_failure"
Outcomes == [n \in Node |-> {Classify(n, reply) : reply \in Reply}]
OutcomesOf(n) == Outcomes[n]

\* A rejection that waits for routing is not retried in place.
AwaitsRouting(n, outcome) == Feedback[n] # NoNode /\ outcome = "substantive_rejection"
RetryStatus(r, n) == IF Used(r, n) < Limit[n] THEN "pending" ELSE "failed"

Settle(r, n, outcome) ==
    LET passed == outcome = "passed"
        ended == [Last(r, n) EXCEPT !.status = IF passed THEN "done" ELSE "failed",
                                    !.outcome = outcome]
        status == IF passed THEN "done"
                  ELSE IF AwaitsRouting(n, outcome) THEN "failed" ELSE RetryStatus(r, n)
        locks == passed /\ Agent[n] = "researcher" /\ r.criteria = NoNode
    IN  [Mark(SetLast(r, n, ended), {n}, status)
            EXCEPT !.criteria = IF locks THEN n ELSE @]

\* The executor's record of a child whose promise rejected.
\* Mutant: the node is reopened and its attempt left running.
RejectionUnrecorded(r, S) ==
    [r EXCEPT !.node = [n \in Node |->
        IF n \notin S THEN r.node[n] ELSE [r.node[n] EXCEPT !.status = RetryStatus(r, n)]]]
RecordRejection(r, S) ==
    [r EXCEPT !.node = [n \in Node |->
        IF n \notin S THEN r.node[n]
        ELSE [status |-> RetryStatus(r, n),
              att |-> [r.node[n].att EXCEPT ![Used(r, n)].status = "failed",
                                            ![Used(r, n)].outcome = "sdk_error"]]]]

-----------------------------------------------------------------------------
(* Feedback, the global limit, resume and close.                           *)

\* Failed checkers whose substantive rejection has not been handled yet.
Unrouted(r) == {c \in HasStatus(r, {"failed"}) :
    /\ Feedback[c] # NoNode
    /\ Used(r, c) > 0
    /\ Last(r, c).outcome = "substantive_rejection"
    /\ ~Last(r, c).applied}
\* The repair can be paid for: the checker, its target and everything below.
CanRoute(r, c) ==
    LET below == DescendantsOf(Feedback[c]) IN
    /\ \A n \in below \cup {c, Feedback[c]} : Used(r, n) < Limit[n]
    /\ MaxGlobal - r.global >= 1 + Cardinality(below)
\* Mutants: the mark is forgotten; the mark erases the outcome it marks.
HandleNothing(r, c) == r
HandleErasing(r, c) == SetLast(r, c, [Last(r, c) EXCEPT !.applied = TRUE, !.outcome = "none"])
Handle(r, c) == SetLast(r, c, [Last(r, c) EXCEPT !.applied = TRUE])
Route(r, c) ==
    LET reopened == {n \in DescendantsOf(Feedback[c]) : Used(r, n) < Limit[n]}
    IN  Mark(Handle(r, c), {Feedback[c]} \cup reopened, "pending")

\* Nodes that could run but have no global budget: failed, unless their last
\* attempt passed (a reopened node keeps its accepted result).
FinishGlobalLimit(r) ==
    IF r.global < MaxGlobal THEN r
    ELSE SkipFailedDescendants(
            Mark(r, {n \in ReadyNodes(r) : ~LastIs(r, n, "done")}, "failed"))

\* The history of an interrupted node: its running attempt ended as a failure.
InterruptedHistory(r, n) ==
    IF LastIs(r, n, "running")
    THEN [r.node[n].att EXCEPT ![Used(r, n)].status = "failed"]
    ELSE r.node[n].att

PrepareRunForResume(r) ==
    LET interrupted == HasStatus(r, {"running"})
        reopened == HasStatus(r, {"skipped"})
                    \cup {n \in HasStatus(r, {"running", "failed"}) : Used(r, n) < Limit[n]}
        node(n) == [status |-> IF n \in reopened THEN "pending"
                               ELSE IF n \in interrupted THEN "failed" ELSE r.node[n].status,
                    att |-> IF n \in interrupted THEN InterruptedHistory(r, n)
                            ELSE r.node[n].att]
    IN  [r EXCEPT !.node = [n \in Node |-> node(n)],
                  !.status = IF reopened # {} THEN "blocked" ELSE @]

\* closeRun: unfinished nodes become failed, or skipped when their last attempt passed.
Closed(r) ==
    LET p == PrepareRunForResume(r)
        kept == {n \in Unfinished(p) : LastIs(p, n, "done")}
    IN  [Mark(Mark(p, kept, "skipped"), Unfinished(p) \ kept, "failed")
            EXCEPT !.status = "failed"]
\* The guards of closeRun: not finished yet, and some node can carry the failure.
MayClose(r) == r.status \notin {"done", "failed"} /\ AnyFailed(Closed(r))

=============================================================================

------------------------ MODULE SessionMemory_proofs ------------------------
(***************************************************************************)
(* Facts about the steps of SessionMemory, for any number of calls,        *)
(* allowances and deliveries, whatever throws and wherever the process     *)
(* dies: the variables keep their types, an allowance is behind one        *)
(* execution at most and not offered again, calls that follow one another  *)
(* respect failures, and the delivery journal is honest.  Memories is of   *)
(* them; its theorems cite these lemmas.                                   *)
(***************************************************************************)
EXTENDS SessionMemory, SequenceTheorems, FiniteSetTheorems, TLAPS

\* What the position of a call says of the rest of it.
CallSound(v) ==
    /\ v.retry # None => v.pc \notin {"idle", "decide", "gap"}
    /\ v.pc = "consume" => v.retry # None
    /\ v.read > 0 => v.pc \in {"gap", "consume", "pin"}
    /\ v.loaded <= run.revision
    /\ v.node.kind # "retry"
    /\ v.pc = "classify" /\ v.outcome = "failure" => run.revision > 0

\* An allowance that is behind an execution, or about to be, is no longer offered.
Consumed ==
    /\ ConsumedIsGone
    /\ \A c \in Caller : call[c].pc = "execute" => call[c].retry \notin Offered

\* The allowance of a call that may still execute, since the run is as the call has loaded
\* it, is not behind an execution: one under the same allowance would have moved the run.
FreshFor(v) ==
    (v.pc \in {"consume", "execute"} /\ v.retry # None /\ v.loaded = run.revision)
        => spent[v.retry] = 0
Once == AllowanceOnce /\ \A c \in Caller : FreshFor(call[c])

\* Calls that follow one another: an attempt is recorded of the run as it still is, and the
\* pinned failures cite the run in the order of its revisions.
Current(v) ==
    /\ v.pc = "classify" /\ v.outcome = "failure" => run.status = "failed"
    /\ v.pc \in {"record", "pin"} /\ v.node.kind = "failure" =>
        v.node.cites = run.revision /\ run.status = "failed"
Ordered ==
    /\ \A i \in Failures :
        /\ head.pins[i].cites <= run.revision
        /\ head.pins[i].cites = run.revision => run.status = "failed"
    /\ \A i, j \in Failures : i <= j => head.pins[i].cites <= head.pins[j].cites
InTurn == NoOverlap => Ordered /\ \A c \in Caller : Current(call[c])

\* What a delivery and the journal know of one another.
Delivered ==
    /\ \A q \in Request : hook[q].pc = "render" => hook[q].read > 0
    /\ \A q \in Request : hook[q].pc = "shown" => q \in published
    /\ DeliveryHonest
    /\ \A i \in 1..Len(journal) :
        journal[i].state = "hook_failed" => hook[journal[i].request].pc = "done"

Inv ==
    /\ TypeOK
    /\ \A c \in Caller : CallSound(call[c])
    /\ Consumed
    /\ Once
    /\ InTurn
    /\ Delivered
-----------------------------------------------------------------------------
(* The lists of a checkpoint.                                              *)

\* A pinned node has the fields of its kind.
LEMMA NodeFields ==
    ASSUME NEW n \in Node
    PROVE  /\ n.kind \in {"retry", "failure", "other"}
           /\ n.kind = "retry" => n.retry \in Retry
           /\ n.kind = "failure" => n.cites \in 1..MaxRun
BY DEF Node

\* What preflight reads depends on the two lists alone.
LEMMA ListsKept ==
    ASSUME head'.pins = head.pins, head'.used = head.used
    PROVE  Offered' = Offered /\ Failures' = Failures
BY DEF Offered, Pinned, Members, Failures

\* beginTask and delete leave no pin, so nothing is offered and nothing has failed.
LEMMA ListsCleared ==
    ASSUME head'.pins = << >>
    PROVE  Offered' = {} /\ Failures' = {}
<1>1. Len(head'.pins) = 0
    BY EmptySeq
<1>2. 1..Len(head'.pins) = {}
    BY <1>1
<1> QED
    BY <1>2 DEF Offered, Pinned, Members, Failures

\* pin: one node more, behind the others.
LEMMA PinsGrow ==
    ASSUME head.pins \in Seq(Node), NEW n \in Node,
           head'.pins = Append(head.pins, n), head'.used = head.used
    PROVE  /\ n.kind # "retry" => Offered' = Offered
           /\ n.kind = "retry" => Offered' \subseteq Offered \cup {n.retry}
           /\ Failures' = Failures \cup (IF n.kind = "failure" THEN {Len(head.pins) + 1} ELSE {})
           /\ \A i \in Failures : head'.pins[i] = head.pins[i]
           /\ head'.pins[Len(head.pins) + 1] = n
           /\ Len(head.pins) \in Nat
<1>1. /\ Len(head'.pins) = Len(head.pins) + 1 /\ Len(head.pins) \in Nat
      /\ \A i \in 1..Len(head.pins) : head'.pins[i] = head.pins[i]
      /\ head'.pins[Len(head.pins) + 1] = n
    BY AppendProperties, LenProperties
<1>2. Members(head'.pins) = Members(head.pins) \cup {n}
    <2>1. ASSUME NEW x \in Members(head'.pins) PROVE x \in Members(head.pins) \cup {n}
        <3>1. PICK i \in 1..Len(head'.pins) : x = head'.pins[i]
            BY <2>1 DEF Members
        <3>2. i \in 1..Len(head.pins) \/ i = Len(head.pins) + 1
            BY <1>1
        <3> QED
            BY <1>1, <3>1, <3>2 DEF Members
    <2>2. ASSUME NEW x \in Members(head.pins) \cup {n} PROVE x \in Members(head'.pins)
        <3>1. CASE x = n
            <4>1. Len(head.pins) + 1 \in 1..Len(head'.pins)
                BY <1>1
            <4> QED
                BY <1>1, <3>1, <4>1 DEF Members
        <3>2. CASE x \in Members(head.pins)
            <4>1. PICK i \in 1..Len(head.pins) : x = head.pins[i]
                BY <3>2 DEF Members
            <4>2. i \in 1..Len(head'.pins)
                BY <1>1
            <4> QED
                BY <1>1, <4>1, <4>2 DEF Members
        <3> QED
            BY <2>2, <3>1, <3>2
    <2> QED
        BY <2>1, <2>2
<1>3. /\ n.kind # "retry" => Pinned' = Pinned
      /\ n.kind = "retry" => Pinned' = Pinned \cup {n.retry}
    BY <1>2 DEF Pinned
<1>4. Failures' = Failures \cup (IF n.kind = "failure" THEN {Len(head.pins) + 1} ELSE {})
    BY <1>1 DEF Failures
<1> QED
    BY <1>1, <1>3, <1>4 DEF Offered, Failures

\* guarded: the allowance joins the used ones.
LEMMA UsedGrows ==
    ASSUME head.used \in Seq(Retry), NEW r \in Retry,
           head'.pins = head.pins, head'.used = Append(head.used, r)
    PROVE  Offered' \subseteq Offered /\ r \notin Offered' /\ Failures' = Failures
<1>1. /\ Len(head'.used) = Len(head.used) + 1 /\ Len(head.used) \in Nat
      /\ \A i \in 1..Len(head.used) : head'.used[i] = head.used[i]
      /\ head'.used[Len(head.used) + 1] = r
    BY AppendProperties, LenProperties
<1>2. Members(head.used) \subseteq Members(head'.used)
    <2>1. 1..Len(head.used) \subseteq 1..Len(head'.used)
        BY <1>1
    <2> QED
        BY <1>1, <2>1 DEF Members
<1>3. r \in Members(head'.used)
    <2>1. Len(head.used) + 1 \in 1..Len(head'.used)
        BY <1>1
    <2> QED
        BY <1>1, <2>1 DEF Members
<1>4. Pinned' = Pinned /\ Failures' = Failures
    BY DEF Pinned, Members, Failures
<1> QED
    BY <1>2, <1>3, <1>4 DEF Offered

\* store.update: the new checkpoint is the changed one with the next revision.
LEMMA ReplaceFacts ==
    ASSUME BoundsAssumption, TypeOK, NEW c \in Checkpoint, c.revision = head.revision,
           Admissible(c), Replace(c)
    PROVE  /\ head' \in Checkpoint
           /\ Len(head'.pins) <= MaxPins /\ Len(head'.used) <= MaxPins
           /\ head'.pins = c.pins /\ head'.used = c.used
<1>1. head.revision \in 0..MaxRevision /\ head.revision < MaxRevision /\ MaxRevision \in Nat
    BY DEF TypeOK, Checkpoint, Replace, BoundsAssumption
<1>2. head' = [c EXCEPT !.revision = c.revision + 1] /\ c.revision + 1 \in 0..MaxRevision
    BY <1>1 DEF Replace
<1>3. head' \in Checkpoint /\ head'.pins = c.pins /\ head'.used = c.used
    BY <1>2 DEF Checkpoint
<1> QED
    BY <1>3 DEF Admissible
-----------------------------------------------------------------------------
(* The operator's commands and other updates of the checkpoint.            *)

\* A step that changes the checkpoint only: it may offer allowances nobody knows of, and
\* may forget failures.
LEMMA HeadKeeps ==
    ASSUME Inv, TypeOK', UNCHANGED <<runVars, deliveryVars, fails>>,
           \A r \in Offered' \ Offered : spent[r] = 0 /\ \A c \in Caller : call[c].retry # r,
           Failures' \subseteq Failures,
           \A i \in Failures' : head'.pins[i] = head.pins[i]
    PROVE  Inv'
<1>1. call' = call /\ run' = run /\ spent' = spent /\ journal' = journal /\ hook' = hook
      /\ published' = published
    BY DEF runVars, deliveryVars
<1>2. \A c \in Caller : CallSound(call[c])'
    BY <1>1 DEF Inv, CallSound
<1>3. Consumed'
    <2>1. ConsumedIsGone'
        <3> SUFFICES ASSUME NEW r \in Retry, spent'[r] > 0 PROVE r \notin Offered'
            BY DEF ConsumedIsGone
        <3>1. r \notin Offered
            BY <1>1 DEF Inv, Consumed, ConsumedIsGone
        <3> QED
            BY <1>1, <3>1
    <2>2. ASSUME NEW c \in Caller, call'[c].pc = "execute" PROVE call'[c].retry \notin Offered'
        <3>1. call[c].retry \notin Offered
            BY <1>1, <2>2 DEF Inv, Consumed
        <3> QED
            BY <1>1, <3>1
    <2> QED
        BY <2>1, <2>2 DEF Consumed
<1>4. InTurn'
    <2> SUFFICES ASSUME NoOverlap PROVE InTurn'
        BY DEF InTurn, NoOverlap
    <2>1. Ordered /\ \A c \in Caller : Current(call[c])
        BY DEF Inv, InTurn
    <2>2. \A c \in Caller : Current(call[c])'
        BY <1>1, <2>1 DEF Current
    <2>3. Ordered'
        BY <1>1, <2>1 DEF Ordered
    <2> QED
        BY <2>2, <2>3 DEF InTurn
<1>5. Delivered'
    BY <1>1 DEF Inv, Delivered, DeliveryHonest
<1>6. Once'
    BY <1>1 DEF Inv, Once, AllowanceOnce, FreshFor
<1> QED
    BY <1>2, <1>3, <1>4, <1>5, <1>6 DEF Inv

\* The types after a step that changes the checkpoint only.
LEMMA HeadTypes ==
    ASSUME TypeOK, UNCHANGED <<revoked, runVars, deliveryVars, fails>>,
           head' \in Checkpoint, Len(head'.pins) <= MaxPins, Len(head'.used) <= MaxPins
    PROVE  TypeOK'
BY DEF TypeOK, runVars, deliveryVars

\* beginTask, selectEnvironment and loadSkill, compact and what only advances the revision,
\* delete, allowRetry, revoke.
LEMMA OperatorStep == ASSUME BoundsAssumption, Inv, Operator PROVE Inv'
<1>0. TypeOK /\ head \in Checkpoint /\ << >> \in Seq(Node) /\ << >> \in Seq(Retry)
      /\ head.pins \in Seq(Node) /\ head.used \in Seq(Retry)
    BY EmptySeq DEF Inv, TypeOK, Checkpoint
<1>1. CASE BeginTask
    <2> DEFINE c == [head EXCEPT !.bound = FALSE, !.pins = << >>, !.used = << >>, !.gap = FALSE]
    <2>1. c \in Checkpoint /\ c.revision = head.revision /\ c.pins = << >>
        BY <1>0 DEF Checkpoint
    <2>2. Admissible(c) /\ Replace(c) /\ UNCHANGED <<revoked, runVars, deliveryVars, fails>>
        BY <1>1 DEF BeginTask, Update, Updates
    <2> HIDE DEF c
    <2>3. TypeOK' /\ head'.pins = << >>
        BY <1>0, <2>1, <2>2, ReplaceFacts, HeadTypes
    <2>4. Offered' = {} /\ Failures' = {}
        BY <2>3, ListsCleared
    <2>5. UNCHANGED <<runVars, deliveryVars, fails>>
        BY <2>2
    <2> QED
        BY <2>3, <2>4, <2>5, HeadKeeps
<1>2. CASE BindSkill
    <2> DEFINE c == [head EXCEPT !.bound = TRUE]
    <2>1. c \in Checkpoint /\ c.revision = head.revision /\ c.pins = head.pins /\ c.used = head.used
        BY <1>0 DEF Checkpoint
    <2>2. Admissible(c) /\ Replace(c) /\ UNCHANGED <<revoked, runVars, deliveryVars, fails>>
        BY <1>2 DEF BindSkill, Update, Updates
    <2> HIDE DEF c
    <2>3. TypeOK' /\ head'.pins = head.pins /\ head'.used = head.used
        BY <1>0, <2>1, <2>2, ReplaceFacts, HeadTypes
    <2>4. Offered' = Offered /\ Failures' = Failures
        BY <2>3, ListsKept
    <2>5. UNCHANGED <<runVars, deliveryVars, fails>>
        BY <2>2
    <2> QED
        BY <2>3, <2>4, <2>5, HeadKeeps
<1>3. CASE Compact
    <2>1. Admissible(head) /\ Replace(head) /\ UNCHANGED <<revoked, runVars, deliveryVars, fails>>
        BY <1>3 DEF Compact, Update, Updates
    <2>3. TypeOK' /\ head'.pins = head.pins /\ head'.used = head.used
        BY <1>0, <2>1, ReplaceFacts, HeadTypes
    <2>4. Offered' = Offered /\ Failures' = Failures
        BY <2>3, ListsKept
    <2>5. UNCHANGED <<runVars, deliveryVars, fails>>
        BY <2>1
    <2> QED
        BY <2>3, <2>4, <2>5, HeadKeeps
<1>4. CASE Delete
    <2> DEFINE c == [head EXCEPT !.bound = FALSE, !.pins = << >>, !.deleted = TRUE]
    <2>1. c \in Checkpoint /\ c.revision = head.revision /\ c.pins = << >>
        BY <1>0 DEF Checkpoint
    <2>2. Admissible(c) /\ Replace(c) /\ UNCHANGED <<revoked, runVars, deliveryVars, fails>>
        BY <1>4 DEF Delete, Update, Updates
    <2> HIDE DEF c
    <2>3. TypeOK' /\ head'.pins = << >>
        BY <1>0, <2>1, <2>2, ReplaceFacts, HeadTypes
    <2>4. Offered' = {} /\ Failures' = {}
        BY <2>3, ListsCleared
    <2>5. UNCHANGED <<runVars, deliveryVars, fails>>
        BY <2>2
    <2> QED
        BY <2>3, <2>4, <2>5, HeadKeeps
<1>5. ASSUME NEW r \in Retry, AllowRetry(r) PROVE Inv'
    <2> DEFINE n == [kind |-> "retry", retry |-> r]
               c == [head EXCEPT !.pins = Append(head.pins, n)]
    <2>1. n \in Node /\ n.kind = "retry" /\ n.retry = r
        BY DEF Node
    <2>2. Admissible(c) /\ Replace(c) /\ UNCHANGED <<revoked, runVars, deliveryVars, fails>>
          /\ spent[r] = 0 /\ \A d \in Caller : call[d].retry # r
        BY <1>5 DEF AllowRetry, Update, Updates
    <2> HIDE DEF n
    <2>3. c \in Checkpoint /\ c.revision = head.revision /\ c.pins = Append(head.pins, n)
          /\ c.used = head.used
        BY <1>0, <2>1, AppendProperties DEF Checkpoint
    <2> HIDE DEF c
    <2>4. TypeOK' /\ head'.pins = Append(head.pins, n) /\ head'.used = head.used
        BY <1>0, <2>2, <2>3, ReplaceFacts, HeadTypes
    <2>5. /\ Offered' \subseteq Offered \cup {r} /\ Failures' = Failures
          /\ \A i \in Failures : head'.pins[i] = head.pins[i]
        BY <1>0, <2>1, <2>4, PinsGrow
    <2>6. UNCHANGED <<runVars, deliveryVars, fails>>
        BY <2>2
    <2>7. \A x \in Offered' \ Offered : spent[x] = 0 /\ \A d \in Caller : call[d].retry # x
        BY <2>2, <2>5
    <2>8. Failures' \subseteq Failures /\ \A i \in Failures' : head'.pins[i] = head.pins[i]
        BY <2>5
    <2> QED
        BY <2>4, <2>5, <2>6, <2>7, <2>8, HeadKeeps
<1>6. ASSUME NEW r \in Retry, Revoke(r) PROVE Inv'
    <2>1. TypeOK' /\ head' = head /\ UNCHANGED <<runVars, deliveryVars, fails>>
        BY <1>0, <1>6 DEF Revoke, TypeOK, runVars, deliveryVars
    <2>2. Offered' = Offered /\ Failures' = Failures
        BY <2>1, ListsKept
    <2> QED
        BY <2>1, <2>2, HeadKeeps
<1> QED
    BY <1>1, <1>2, <1>3, <1>4, <1>5, <1>6 DEF Operator
-----------------------------------------------------------------------------
(* Guarded calls that only move on.                                        *)

\* Only pinned allowances are offered, so none is None.
LEMMA OfferedRetry ==
    ASSUME BoundsAssumption, TypeOK
    PROVE  Offered \subseteq Retry /\ None \notin Offered /\ None \notin Retry
<1>1. None \notin Retry
    BY DEF BoundsAssumption
<1>2. head.pins \in Seq(Node)
    BY DEF TypeOK, Checkpoint
<1>3. Members(head.pins) \subseteq Node
    BY <1>2, ElementOfSeq DEF Members
<1>4. Pinned \subseteq Retry
    BY <1>3, NodeFields DEF Pinned
<1> QED
    BY <1>1, <1>4 DEF Offered

\* A call that has not started, or has ended.
LEMMA NoCallFacts ==
    ASSUME BoundsAssumption
    PROVE  /\ NoCall \in Call /\ FreshFor(NoCall) /\ Current(NoCall)
           /\ TypeOK => CallSound(NoCall)
           /\ NoCall.pc = "idle" /\ NoCall.retry = None /\ NoCall.read = 0 /\ NoCall.loaded = 0
           /\ NoCall.node = [kind |-> "other"]
<1>1. [kind |-> "other"] \in Node
    BY DEF Node
<1>2. 0 \in 0..MaxRevision /\ 0 \in 0..MaxRun
    BY DEF BoundsAssumption
<1>3. NoCall \in Call
    BY <1>1, <1>2 DEF NoCall, Call, CallPC
<1>4. TypeOK => 0 <= run.revision
    BY DEF TypeOK, Run
<1> QED
    BY <1>3, <1>4 DEF NoCall, CallSound, FreshFor, Current

\* One call is replaced.
LEMMA CallReplaced ==
    ASSUME TypeOK, NEW c \in Caller, NEW v \in Call, SetCall(c, v)
    PROVE  /\ call' \in [Caller -> Call] /\ call'[c] = v
           /\ \A d \in Caller : d # c => call'[d] = call[d]
BY DEF TypeOK, SetCall

\* A call moves, and no execution has taken the lease.
LEMMA OnceKept ==
    ASSUME Once, NEW c \in Caller, NEW v, call'[c] = v, FreshFor(v),
           \A d \in Caller : d # c => call'[d] = call[d],
           run' = run, spent' = spent
    PROVE  Once'
<1>1. ASSUME NEW d \in Caller PROVE FreshFor(call[d])'
    <2>1. CASE d = c
        BY <2>1 DEF FreshFor
    <2>2. CASE d # c
        BY <2>2 DEF Once, FreshFor
    <2> QED
        BY <2>1, <2>2
<1> QED
    BY <1>1 DEF Once, AllowanceOnce

\* A call moves to a state that is sound of itself.
LEMMA CallMoves ==
    ASSUME Inv, NEW c \in Caller, NEW v \in Call, SetCall(c, v),
           UNCHANGED <<memoryVars, run, spent, deliveryVars>>, fails' \in 0..MaxFails,
           CallSound(v), v.pc = "execute" => v.retry \notin Offered,
           FreshFor(v), NoOverlap => Current(v)
    PROVE  Inv'
<1>1. /\ call' \in [Caller -> Call] /\ call'[c] = v
      /\ \A d \in Caller : d # c => call'[d] = call[d]
    BY CallReplaced DEF Inv
<1>2. head' = head /\ revoked' = revoked /\ run' = run /\ spent' = spent /\ journal' = journal
      /\ hook' = hook /\ published' = published /\ unavailable' = unavailable
    BY DEF memoryVars, deliveryVars
<1>3. TypeOK'
    BY <1>1, <1>2 DEF Inv, TypeOK
<1>4. Offered' = Offered /\ Failures' = Failures
    BY <1>2, ListsKept
<1>5. \A d \in Caller : CallSound(call[d])'
    BY <1>1, <1>2 DEF Inv, CallSound
<1>6. Consumed'
    <2>1. ConsumedIsGone'
        BY <1>2, <1>4 DEF Inv, Consumed, ConsumedIsGone
    <2>2. ASSUME NEW d \in Caller, call'[d].pc = "execute" PROVE call'[d].retry \notin Offered'
        BY <1>1, <1>4, <2>2 DEF Inv, Consumed
    <2> QED
        BY <2>1, <2>2 DEF Consumed
<1>7. InTurn'
    <2> SUFFICES ASSUME NoOverlap PROVE InTurn'
        BY DEF InTurn, NoOverlap
    <2>1. Ordered /\ \A d \in Caller : Current(call[d])
        BY DEF Inv, InTurn
    <2>2. Ordered'
        BY <1>2, <1>4, <2>1 DEF Ordered
    <2>3. ASSUME NEW d \in Caller PROVE Current(call[d])'
        <3>1. CASE d = c
            BY <1>1, <1>2, <3>1 DEF Current
        <3>2. CASE d # c
            BY <1>1, <1>2, <2>1, <3>2 DEF Current
        <3> QED
            BY <3>1, <3>2
    <2> QED
        BY <2>2, <2>3 DEF InTurn
<1>8. Delivered'
    BY <1>2 DEF Inv, Delivered, DeliveryHonest
<1>9. Once'
    BY <1>1, <1>2, OnceKept DEF Inv
<1> QED
    BY <1>3, <1>5, <1>6, <1>7, <1>8, <1>9 DEF Inv

\* The calls are records, and what they say of themselves is sound.
LEMMA CallFacts ==
    ASSUME Inv, NEW c \in Caller
    PROVE  /\ call[c] \in Call /\ CallSound(call[c])
           /\ call[c].pc \in CallPC /\ call[c].retry \in Retry \cup {None}
           /\ call[c].read \in 0..MaxRevision /\ call[c].node \in Node
           /\ call[c].loaded \in 0..MaxRun /\ FreshFor(call[c])
BY DEF Inv, TypeOK, Call, Once

\* executeWithMemory starts a call, or refuses it.
LEMMA StartStep == ASSUME BoundsAssumption, Inv, NEW c \in Caller, Start(c) PROVE Inv'
<1> DEFINE u == [NoCall EXCEPT !.loaded = run.revision]
           v == [u EXCEPT !.pc = "execute"]
           w == [u EXCEPT !.pc = "decide", !.guarded = TRUE]
<1>0. run.revision \in 0..MaxRun
    BY DEF Inv, TypeOK, Run
<1>1. /\ v \in Call /\ v.pc = "execute" /\ v.retry = None /\ v.read = 0
      /\ v.node = [kind |-> "other"] /\ v.loaded = run.revision
      /\ w \in Call /\ w.pc = "decide" /\ w.retry = None /\ w.read = 0
      /\ w.node = [kind |-> "other"] /\ w.loaded = run.revision
    BY <1>0, NoCallFacts DEF Call, CallPC
<1>2. SetCall(c, v) \/ SetCall(c, w)
    BY DEF Start
<1>3. UNCHANGED <<memoryVars, run, spent, deliveryVars>> /\ fails' \in 0..MaxFails
    BY DEF Start, Moves, Inv, TypeOK
<1> HIDE DEF u, v, w
<1>4. CallSound(v) /\ CallSound(w) /\ FreshFor(v) /\ FreshFor(w) /\ Current(v) /\ Current(w)
    BY <1>0, <1>1 DEF CallSound, FreshFor, Current
<1>5. None \notin Offered
    BY OfferedRetry DEF Inv
<1> QED
    BY <1>1, <1>2, <1>3, <1>4, <1>5, CallMoves

\* preflight: an allowance that it offers is fresh.
LEMMA DecideStep == ASSUME BoundsAssumption, Inv, NEW c \in Caller, Decide(c) PROVE Inv'
<1>1. /\ call[c] \in Call /\ call[c].pc = "decide" /\ call[c].retry = None /\ call[c].read = 0
      /\ call[c].node.kind # "retry" /\ call[c].loaded <= run.revision
    <2>1. call[c] \in Call /\ call[c].read \in 0..MaxRevision /\ call[c].pc = "decide"
        BY CallFacts DEF Decide
    <2>2. /\ ~(call[c].read > 0) /\ ~(call[c].retry # None) /\ call[c].node.kind # "retry"
          /\ call[c].loaded <= run.revision
        BY <2>1, CallFacts DEF CallSound
    <2> QED
        BY <2>1, <2>2
<1>2. UNCHANGED <<memoryVars, run, spent, deliveryVars>> /\ fails' \in 0..MaxFails
    BY DEF Decide, Moves, Inv, TypeOK
<1>3. None \notin Offered /\ Offered \subseteq Retry /\ None \notin Retry
    BY OfferedRetry DEF Inv
<1>4. CASE SetCall(c, NoCall)
    BY <1>2, <1>4, NoCallFacts, CallMoves DEF Inv
<1>5. CASE \E r \in Offered : SetCall(c, [call[c] EXCEPT !.pc = "consume", !.retry = r])
    <2>1. PICK r \in Offered : SetCall(c, [call[c] EXCEPT !.pc = "consume", !.retry = r])
        BY <1>5
    <2> DEFINE v == [call[c] EXCEPT !.pc = "consume", !.retry = r]
    <2>2. /\ v \in Call /\ v.pc = "consume" /\ v.retry = r /\ v.read = 0 /\ v.node = call[c].node
          /\ v.loaded = call[c].loaded
        BY <1>1, <1>3 DEF Call, CallPC
    <2>3. SetCall(c, v)
        BY <2>1
    <2> HIDE DEF v
    <2>4. spent[r] = 0
        <3>1. ~(spent[r] > 0)
            BY <1>3 DEF Inv, Consumed, ConsumedIsGone
        <3>2. spent[r] \in Nat
            BY <1>3 DEF Inv, TypeOK
        <3> QED
            BY <3>1, <3>2
    <2>5. CallSound(v) /\ FreshFor(v) /\ Current(v)
        BY <1>1, <1>3, <2>2, <2>4 DEF CallSound, FreshFor, Current
    <2> QED
        BY <1>2, <2>2, <2>3, <2>5, CallMoves
<1>6. CASE \E p \in {"execute", "gap"} : SetCall(c, [call[c] EXCEPT !.pc = p])
    <2>1. PICK p \in {"execute", "gap"} : SetCall(c, [call[c] EXCEPT !.pc = p])
        BY <1>6
    <2> DEFINE v == [call[c] EXCEPT !.pc = p]
    <2>2. /\ v \in Call /\ v.pc = p /\ v.retry = None /\ v.read = 0 /\ v.node = call[c].node
          /\ v.loaded = call[c].loaded
        BY <1>1 DEF Call, CallPC
    <2>3. SetCall(c, v)
        BY <2>1
    <2> HIDE DEF v
    <2>4. CallSound(v) /\ FreshFor(v) /\ Current(v)
        BY <1>1, <2>2 DEF CallSound, FreshFor, Current
    <2> QED
        BY <1>2, <1>3, <2>2, <2>3, <2>4, CallMoves
<1> QED
    BY <1>4, <1>5, <1>6 DEF Decide

\* recordAttempt looks at the bindings.
LEMMA LookStep == ASSUME BoundsAssumption, Inv, NEW c \in Caller, LookAtBindings(c) PROVE Inv'
<1>1. call[c] \in Call /\ call[c].pc = "record" /\ CallSound(call[c])
    BY CallFacts DEF LookAtBindings
<1>2. UNCHANGED <<memoryVars, run, spent, deliveryVars>> /\ fails' \in 0..MaxFails
    BY DEF LookAtBindings, Moves, Inv, TypeOK
<1>3. CASE SetCall(c, NoCall)
    BY <1>2, <1>3, NoCallFacts, CallMoves DEF Inv
<1>4. CASE SetCall(c, [call[c] EXCEPT !.pc = "pin"])
    <2> DEFINE v == [call[c] EXCEPT !.pc = "pin"]
    <2>1. /\ v \in Call /\ v.pc = "pin" /\ v.retry = call[c].retry /\ v.node = call[c].node
          /\ v.read = call[c].read /\ v.loaded = call[c].loaded
        BY <1>1 DEF Call, CallPC
    <2>2. SetCall(c, v)
        BY <1>4
    <2> HIDE DEF v
    <2>3. CallSound(v) /\ FreshFor(v)
        BY <1>1, <2>1 DEF CallSound, FreshFor
    <2>4. NoOverlap => Current(v)
        BY <1>1, <2>1 DEF Inv, InTurn, Current
    <2> QED
        BY <1>2, <2>1, <2>2, <2>3, <2>4, CallMoves
<1> QED
    BY <1>3, <1>4 DEF LookAtBindings

\* runtime.update reads the checkpoint it will replace.
LEMMA ReadStep == ASSUME BoundsAssumption, Inv, NEW c \in Caller, ReadRevision(c) PROVE Inv'
<1>1. /\ call[c] \in Call /\ call[c].pc \in {"gap", "consume", "pin"} /\ call[c].read = 0
      /\ CallSound(call[c]) /\ FreshFor(call[c])
    BY CallFacts DEF ReadRevision
<1>2. UNCHANGED <<memoryVars, run, spent, deliveryVars>> /\ fails' \in 0..MaxFails
    BY DEF ReadRevision, Moves, Inv, TypeOK
<1>3. None \notin Offered
    BY OfferedRetry DEF Inv
<1>4. CASE SetCall(c, NoCall)
    BY <1>2, <1>4, NoCallFacts, CallMoves DEF Inv
<1>5. CASE call[c].pc = "gap" /\ SetCall(c, [call[c] EXCEPT !.pc = "execute"])
    <2> DEFINE v == [call[c] EXCEPT !.pc = "execute"]
    <2>1. /\ v \in Call /\ v.pc = "execute" /\ v.retry = None /\ v.read = 0 /\ v.node = call[c].node
          /\ v.loaded = call[c].loaded
        BY <1>1, <1>5 DEF Call, CallPC, CallSound
    <2>2. SetCall(c, v)
        BY <1>5
    <2> HIDE DEF v
    <2>3. CallSound(v) /\ FreshFor(v) /\ Current(v)
        BY <1>1, <2>1 DEF CallSound, FreshFor, Current
    <2> QED
        BY <1>2, <1>3, <2>1, <2>2, <2>3, CallMoves
<1>6. CASE SetCall(c, [call[c] EXCEPT !.read = head.revision])
    <2> DEFINE v == [call[c] EXCEPT !.read = head.revision]
    <2>1. head.revision \in 0..MaxRevision
        BY DEF Inv, TypeOK, Checkpoint
    <2>2. /\ v \in Call /\ v.pc = call[c].pc /\ v.retry = call[c].retry /\ v.node = call[c].node
          /\ v.outcome = call[c].outcome /\ v.loaded = call[c].loaded
        BY <1>1, <2>1 DEF Call
    <2>3. SetCall(c, v)
        BY <1>6
    <2> HIDE DEF v
    <2>4. CallSound(v) /\ FreshFor(v)
        BY <1>1, <2>2 DEF CallSound, FreshFor
    <2>5. NoOverlap => Current(v)
        BY <2>2 DEF Inv, InTurn, Current
    <2> QED
        BY <1>1, <1>2, <2>2, <2>3, <2>4, <2>5, CallMoves
<1> QED
    BY <1>4, <1>5, <1>6 DEF ReadRevision

\* executeWithMemory classifies the result; a failure cites the run as it is committed.
LEMMA ClassifyStep == ASSUME BoundsAssumption, Inv, NEW c \in Caller, Classify(c) PROVE Inv'
<1>1. /\ call[c] \in Call /\ call[c].pc = "classify" /\ CallSound(call[c])
    BY CallFacts DEF Classify
<1>2. UNCHANGED <<memoryVars, run, spent, deliveryVars>> /\ fails' \in 0..MaxFails
    BY DEF Classify, Moves, Inv, TypeOK
<1>3. CASE SetCall(c, NoCall)
    BY <1>2, <1>3, NoCallFacts, CallMoves DEF Inv
<1>4. CASE SetCall(c, [call[c] EXCEPT !.pc = "record",
                          !.node = IF call[c].outcome = "failure"
                                   THEN [kind |-> "failure", cites |-> Cites(c)]
                                   ELSE [kind |-> "other"]])
    <2> DEFINE n == IF call[c].outcome = "failure" THEN [kind |-> "failure", cites |-> Cites(c)]
                    ELSE [kind |-> "other"]
               v == [call[c] EXCEPT !.pc = "record", !.node = n]
    <2>1. /\ n \in Node /\ n.kind # "retry"
          /\ n.kind = "failure" => n.cites = run.revision /\ call[c].outcome = "failure"
        <3>1. run.revision \in 0..MaxRun /\ MaxRun \in Nat
            BY DEF Inv, TypeOK, Run, BoundsAssumption
        <3>2. call[c].outcome = "failure" => run.revision \in 1..MaxRun
            BY <1>1, <3>1 DEF CallSound
        <3> QED
            BY <3>2 DEF Node, Cites
    <2> HIDE DEF n
    <2>2. v \in Call /\ v.pc = "record" /\ v.retry = call[c].retry /\ v.node = n
          /\ v.read = call[c].read /\ v.loaded = call[c].loaded
        BY <1>1, <2>1 DEF Call, CallPC
    <2>3. SetCall(c, v)
        BY <1>4 DEF n
    <2> HIDE DEF v
    <2>4. CallSound(v) /\ FreshFor(v)
        BY <1>1, <2>1, <2>2 DEF CallSound, FreshFor
    <2>5. NoOverlap => Current(v)
        BY <1>1, <2>1, <2>2 DEF Inv, InTurn, Current
    <2> QED
        BY <1>2, <2>2, <2>3, <2>4, <2>5, CallMoves
<1> QED
    BY <1>3, <1>4 DEF Classify
-----------------------------------------------------------------------------
(* The compare-and-swap of a guarded call.                                 *)

\* A call moves and the checkpoint is replaced by one that offers nothing new.
LEMMA SwapKeeps ==
    ASSUME Inv, NEW c \in Caller, NEW v \in Call, SetCall(c, v),
           UNCHANGED <<revoked, run, spent, deliveryVars>>, fails' \in 0..MaxFails,
           head' \in Checkpoint, Len(head'.pins) <= MaxPins, Len(head'.used) <= MaxPins,
           CallSound(v), Offered' \subseteq Offered, v.pc = "execute" => v.retry \notin Offered',
           FreshFor(v), NoOverlap => Current(v), InTurn => (NoOverlap => Ordered')
    PROVE  Inv'
<1>1. /\ call' \in [Caller -> Call] /\ call'[c] = v
      /\ \A d \in Caller : d # c => call'[d] = call[d]
    BY CallReplaced DEF Inv
<1>2. revoked' = revoked /\ run' = run /\ spent' = spent /\ journal' = journal
      /\ hook' = hook /\ published' = published /\ unavailable' = unavailable
    BY DEF deliveryVars
<1>3. TypeOK'
    BY <1>1, <1>2 DEF Inv, TypeOK
<1>5. \A d \in Caller : CallSound(call[d])'
    BY <1>1, <1>2 DEF Inv, CallSound
<1>6. Consumed'
    <2>1. ConsumedIsGone'
        BY <1>2 DEF Inv, Consumed, ConsumedIsGone
    <2>2. ASSUME NEW d \in Caller, call'[d].pc = "execute" PROVE call'[d].retry \notin Offered'
        BY <1>1, <2>2 DEF Inv, Consumed
    <2> QED
        BY <2>1, <2>2 DEF Consumed
<1>7. InTurn'
    <2> SUFFICES ASSUME NoOverlap PROVE InTurn'
        BY DEF InTurn, NoOverlap
    <2>1. \A d \in Caller : Current(call[d])
        BY DEF Inv, InTurn
    <2>2. Ordered'
        BY DEF Inv
    <2>3. ASSUME NEW d \in Caller PROVE Current(call[d])'
        <3>1. CASE d = c
            BY <1>1, <1>2, <3>1 DEF Current
        <3>2. CASE d # c
            BY <1>1, <1>2, <2>1, <3>2 DEF Current
        <3> QED
            BY <3>1, <3>2
    <2> QED
        BY <2>2, <2>3 DEF InTurn
<1>8. Delivered'
    BY <1>2 DEF Inv, Delivered, DeliveryHonest
<1>9. Once'
    BY <1>1, <1>2, OnceKept DEF Inv
<1> QED
    BY <1>3, <1>5, <1>6, <1>7, <1>8, <1>9 DEF Inv

\* With the same failures and the same run, they are cited in the same order.
LEMMA OrderedKept ==
    ASSUME run' = run, Failures' = Failures, \A i \in Failures : head'.pins[i] = head.pins[i]
    PROVE  Ordered => Ordered'
BY DEF Ordered

\* A failure of the run as it is joins them as the last one.
LEMMA OrderedGrows ==
    ASSUME Inv, run' = run, NEW n \in Node, Len(head.pins) \in Nat,
           n.kind = "failure" => n.cites = run.revision /\ run.status = "failed",
           Failures' = Failures \cup (IF n.kind = "failure" THEN {Len(head.pins) + 1} ELSE {}),
           \A i \in Failures : head'.pins[i] = head.pins[i],
           head'.pins[Len(head.pins) + 1] = n
    PROVE  Ordered => Ordered'
<1>1. CASE n.kind # "failure"
    BY <1>1, OrderedKept
<1>2. CASE n.kind = "failure"
    <2> SUFFICES ASSUME Ordered PROVE Ordered'
        OBVIOUS
    <2> DEFINE k == Len(head.pins) + 1
    <2>1. Failures' = Failures \cup {k} /\ head'.pins[k].cites = run.revision /\ run.status = "failed"
        BY <1>2
    <2>2. \A i \in Failures : i < k /\ i \in Int /\ i # k
        BY DEF Failures
    <2>3. k \in Int /\ run.revision \in Int
        BY DEF Inv, TypeOK, Run
    <2> HIDE DEF k
    <2>4. \A i \in Failures' :
            /\ head'.pins[i].cites <= run.revision
            /\ head'.pins[i].cites = run.revision => run.status = "failed"
        BY <2>1, <2>2, <2>3 DEF Ordered
    <2>5. ASSUME NEW i \in Failures', NEW j \in Failures', i <= j
          PROVE  head'.pins[i].cites <= head'.pins[j].cites
        <3>1. CASE j = k
            BY <2>1, <2>4, <3>1
        <3>2. CASE j # k
            <4>1. j \in Failures /\ j < k
                BY <2>1, <2>2, <3>2
            <4>2. i \in Failures
                BY <2>1, <2>2, <2>3, <2>5, <4>1
            <4> QED
                BY <2>5, <4>1, <4>2 DEF Ordered
        <3> QED
            BY <3>1, <3>2
    <2> QED
        BY <2>4, <2>5 DEF Ordered
<1> QED
    BY <1>1, <1>2

\* An update that throws: a gap is only a note, an allowance that could not be consumed
\* starts nothing.
LEMMA ThrewFacts ==
    ASSUME BoundsAssumption, Inv, NEW c \in Caller, call[c].pc \in {"gap", "consume", "pin"}
    PROVE  /\ Threw(c) \in Call /\ CallSound(Threw(c)) /\ FreshFor(Threw(c)) /\ Current(Threw(c))
           /\ Threw(c).pc = "execute" => Threw(c).retry = None
<1>1. CASE call[c].pc # "gap"
    BY <1>1, NoCallFacts DEF Threw, Inv
<1>2. CASE call[c].pc = "gap"
    <2> DEFINE v == [call[c] EXCEPT !.pc = "execute", !.read = 0]
    <2>1. call[c] \in Call /\ CallSound(call[c]) /\ 0 \in 0..MaxRevision
        BY CallFacts DEF BoundsAssumption
    <2>2. /\ v \in Call /\ v.pc = "execute" /\ v.retry = None /\ v.read = 0 /\ v.node = call[c].node
          /\ v.loaded = call[c].loaded
        BY <1>2, <2>1 DEF Call, CallPC, CallSound
    <2>3. Threw(c) = v
        BY <1>2 DEF Threw
    <2> HIDE DEF v
    <2>4. CallSound(v) /\ FreshFor(v) /\ Current(v)
        BY <2>1, <2>2 DEF CallSound, FreshFor, Current
    <2> QED
        BY <2>2, <2>3, <2>4
<1> QED
    BY <1>1, <1>2

\* An update in place: a call that was to consume goes on with its allowance.
LEMMA ProceedFacts ==
    ASSUME BoundsAssumption, Inv, NEW c \in Caller, call[c].pc \in {"gap", "consume", "pin"}
    PROVE  /\ Proceed(c) \in Call /\ CallSound(Proceed(c))
           /\ FreshFor(Proceed(c)) /\ Current(Proceed(c))
           /\ Proceed(c).pc = "execute" => Proceed(c).retry = call[c].retry
           /\ call[c].pc = "gap" => call[c].retry = None
           /\ call[c].pc = "consume" => call[c].retry \in Retry
           /\ call[c].pc = "pin" => Proceed(c).pc # "execute"
<1>1. /\ call[c] \in Call /\ CallSound(call[c]) /\ 0 \in 0..MaxRevision
      /\ call[c].retry \in Retry \cup {None} /\ FreshFor(call[c])
    BY CallFacts DEF BoundsAssumption
<1>2. CASE call[c].pc = "pin"
    BY <1>2, NoCallFacts DEF Proceed, Inv
<1>3. CASE call[c].pc # "pin"
    <2> DEFINE v == [call[c] EXCEPT !.pc = "execute", !.read = 0]
    <2>2. /\ v \in Call /\ v.pc = "execute" /\ v.retry = call[c].retry /\ v.read = 0
          /\ v.node = call[c].node /\ v.loaded = call[c].loaded
        BY <1>1 DEF Call, CallPC
    <2>3. Proceed(c) = v
        BY <1>3 DEF Proceed
    <2> HIDE DEF v
    <2>4. CallSound(v)
        BY <1>1, <2>2 DEF CallSound
    <2>5. FreshFor(v) /\ Current(v)
        BY <1>1, <1>3, <2>2 DEF FreshFor, Current, CallSound
    <2>6. (call[c].pc = "gap" => call[c].retry = None) /\ (call[c].pc = "consume" => call[c].retry \in Retry)
        BY <1>1 DEF CallSound
    <2> QED
        BY <1>3, <2>2, <2>3, <2>4, <2>5, <2>6
<1> QED
    BY <1>2, <1>3

\* store.update under the revision a call has read.
LEMMA SwapStep == ASSUME BoundsAssumption, Inv, NEW c \in Caller, CompareAndSwap(c) PROVE Inv'
<1>1. call[c].pc \in {"gap", "consume", "pin"} /\ call[c].node \in Node /\ call[c].node.kind # "retry"
    BY CallFacts DEF CompareAndSwap, CallSound
<1>2. UNCHANGED <<revoked, run, spent, deliveryVars>>
    BY DEF CompareAndSwap
<1>3. fails' \in 0..MaxFails
    BY DEF CompareAndSwap, Fails, Inv, TypeOK, BoundsAssumption
<1>4. head \in Checkpoint /\ head.pins \in Seq(Node) /\ head.used \in Seq(Retry) /\ TypeOK
    BY DEF Inv, TypeOK, Checkpoint
<1>5. None \notin Offered
    BY OfferedRetry DEF Inv
<1>6. CASE head' = head /\ SetCall(c, Threw(c))
    BY <1>1, <1>2, <1>3, <1>5, <1>6, ThrewFacts, CallMoves DEF memoryVars
<1>7. CASE /\ Updates(call[c].read, Changed(c)) /\ Replace(Changed(c))
           /\ SetCall(c, Proceed(c)) \/ SetCall(c, Threw(c))
    <2>1. Admissible(Changed(c))
        BY <1>7 DEF Updates
    <2>2. ASSUME Changed(c) \in Checkpoint, Changed(c).revision = head.revision
          PROVE  /\ head' \in Checkpoint /\ Len(head'.pins) <= MaxPins /\ Len(head'.used) <= MaxPins
                 /\ head'.pins = Changed(c).pins /\ head'.used = Changed(c).used
        BY <1>4, <1>7, <2>1, <2>2, ReplaceFacts
    <2>3. PICK v \in {Proceed(c), Threw(c)} : SetCall(c, v)
        BY <1>7
    <2>4. /\ v \in Call /\ CallSound(v) /\ FreshFor(v) /\ Current(v)
          /\ v.pc = "execute" => v.retry \in {None, call[c].retry}
        BY <1>1, <2>3, ThrewFacts, ProceedFacts
    <2>5. CASE call[c].pc = "gap"
        <3>1. Changed(c) = [head EXCEPT !.gap = TRUE]
            BY <2>5 DEF Changed
        <3>2. /\ Changed(c) \in Checkpoint /\ Changed(c).revision = head.revision
              /\ Changed(c).pins = head.pins /\ Changed(c).used = head.used
            BY <1>4, <3>1 DEF Checkpoint
        <3>3. /\ head' \in Checkpoint /\ Len(head'.pins) <= MaxPins /\ Len(head'.used) <= MaxPins
              /\ head'.pins = head.pins /\ head'.used = head.used
            BY <2>2, <3>2
        <3>4. Offered' = Offered /\ Failures' = Failures
            BY <3>3, ListsKept
        <3>5. InTurn => (NoOverlap => Ordered')
            BY <1>2, <3>3, <3>4, OrderedKept DEF InTurn
        <3>6. v.pc = "execute" => v.retry \notin Offered'
            BY <1>1, <1>5, <2>4, <2>5, <3>4, ProceedFacts
        <3>7. Offered' \subseteq Offered
            BY <3>4
        <3> QED
            BY <1>2, <1>3, <2>3, <2>4, <3>3, <3>5, <3>6, <3>7, SwapKeeps
    <2>6. CASE call[c].pc = "consume"
        <3> DEFINE r == call[c].retry
        <3>0. r \in Retry
            BY <1>1, <2>6, ProceedFacts
        <3>1. Changed(c) = [head EXCEPT !.used = Append(head.used, r)]
            BY <2>6 DEF Changed
        <3>2. /\ Changed(c) \in Checkpoint /\ Changed(c).revision = head.revision
              /\ Changed(c).pins = head.pins /\ Changed(c).used = Append(head.used, r)
            <4> DEFINE s == Append(head.used, r)
            <4>1. s \in Seq(Retry)
                BY <1>4, <3>0, AppendProperties
            <4>2. Changed(c) = [head EXCEPT !.used = s]
                BY <3>1
            <4> HIDE DEF s
            <4>3. /\ Changed(c) \in Checkpoint /\ Changed(c).revision = head.revision
                  /\ Changed(c).pins = head.pins /\ Changed(c).used = s
                BY <1>4, <4>1, <4>2 DEF Checkpoint
            <4> QED
                BY <4>3 DEF s
        <3>3. /\ head' \in Checkpoint /\ Len(head'.pins) <= MaxPins /\ Len(head'.used) <= MaxPins
              /\ head'.pins = head.pins /\ head'.used = Append(head.used, r)
            BY <2>2, <3>2
        <3>4. Offered' \subseteq Offered /\ r \notin Offered' /\ Failures' = Failures
            BY <1>4, <3>0, <3>3, UsedGrows
        <3>5. InTurn => (NoOverlap => Ordered')
            BY <1>2, <3>3, <3>4, OrderedKept DEF InTurn
        <3>6. v.pc = "execute" => v.retry \notin Offered'
            BY <1>5, <2>4, <3>4
        <3> QED
            BY <1>2, <1>3, <2>3, <2>4, <3>3, <3>4, <3>5, <3>6, SwapKeeps
    <2>7. CASE call[c].pc = "pin"
        <3> DEFINE n == call[c].node
        <3>0. n \in Node /\ n.kind # "retry"
            BY <1>1
        <3>1. Changed(c) = [head EXCEPT !.pins = Append(head.pins, n)]
            BY <2>7 DEF Changed
        <3>2. /\ Changed(c) \in Checkpoint /\ Changed(c).revision = head.revision
              /\ Changed(c).pins = Append(head.pins, n) /\ Changed(c).used = head.used
            <4> DEFINE s == Append(head.pins, n)
            <4>1. s \in Seq(Node)
                BY <1>4, <3>0, AppendProperties
            <4>2. Changed(c) = [head EXCEPT !.pins = s]
                BY <3>1
            <4> HIDE DEF s
            <4>3. /\ Changed(c) \in Checkpoint /\ Changed(c).revision = head.revision
                  /\ Changed(c).used = head.used /\ Changed(c).pins = s
                BY <1>4, <4>1, <4>2 DEF Checkpoint
            <4> QED
                BY <4>3 DEF s
        <3>3. /\ head' \in Checkpoint /\ Len(head'.pins) <= MaxPins /\ Len(head'.used) <= MaxPins
              /\ head'.pins = Append(head.pins, n) /\ head'.used = head.used
            BY <2>2, <3>2
        <3>4. /\ Offered' = Offered /\ Len(head.pins) \in Nat
              /\ Failures' = Failures \cup (IF n.kind = "failure" THEN {Len(head.pins) + 1} ELSE {})
              /\ \A i \in Failures : head'.pins[i] = head.pins[i]
              /\ head'.pins[Len(head.pins) + 1] = n
            <4> HIDE DEF n
            <4> QED
                BY <1>4, <3>0, <3>3, PinsGrow
        <3>5. InTurn => (NoOverlap => Ordered')
            <4> SUFFICES ASSUME InTurn, NoOverlap PROVE Ordered'
                OBVIOUS
            <4>1. Ordered /\ Current(call[c])
                BY DEF InTurn
            <4>2. n.kind = "failure" => n.cites = run.revision /\ run.status = "failed"
                BY <2>7, <4>1 DEF Current
            <4> HIDE DEF n
            <4> QED
                BY <1>2, <3>0, <3>4, <4>1, <4>2, OrderedGrows
        <3>6. v.pc = "execute" => v.retry \notin Offered'
            BY <1>1, <2>3, <2>7, <3>4, ProceedFacts, ThrewFacts, <1>5
        <3>7. Offered' \subseteq Offered
            BY <3>4
        <3> QED
            BY <1>2, <1>3, <2>3, <2>4, <3>3, <3>5, <3>6, <3>7, SwapKeeps
    <2> QED
        BY <1>1, <2>5, <2>6, <2>7
<1> QED
    BY <1>6, <1>7 DEF CompareAndSwap
-----------------------------------------------------------------------------
(* Executions of the run, and the end of the process.                      *)

\* The run is committed anew by the call that moves: a revision more, so no pinned failure
\* is of the run any more.
LEMMA RunMoves ==
    ASSUME Inv, NEW c \in Caller, NEW v \in Call, SetCall(c, v), run' \in Run,
           run'.revision = run.revision + 1, spent' \in [Retry -> Nat],
           UNCHANGED <<memoryVars, deliveryVars, fails>>,
           v.pc \in {"running", "classify"}, ~(v.read > 0), v.node.kind # "retry",
           v.loaded = call[c].loaded,
           \A r \in Retry : spent'[r] > 0 => r \notin Offered,
           AllowanceOnce',
           v.pc = "classify" /\ v.outcome = "failure" => run'.status = "failed"
    PROVE  Inv'
<1>1. /\ call' \in [Caller -> Call] /\ call'[c] = v
      /\ \A d \in Caller : d # c => call'[d] = call[d]
    BY CallReplaced DEF Inv
<1>2. head' = head /\ revoked' = revoked /\ journal' = journal /\ hook' = hook
      /\ published' = published /\ unavailable' = unavailable /\ fails' = fails
    BY DEF memoryVars, deliveryVars
<1>3. TypeOK'
    BY <1>1, <1>2 DEF Inv, TypeOK
<1>4. Offered' = Offered /\ Failures' = Failures
    BY <1>2, ListsKept
<1>5. /\ run.revision \in Nat
      /\ \A d \in Caller : call[d].loaded \in Nat /\ call[d].loaded <= run.revision
    <2>1. \A d \in Caller : call[d].loaded \in 0..MaxRun /\ call[d].loaded <= run.revision
        BY CallFacts DEF CallSound
    <2> QED
        BY <2>1 DEF Inv, TypeOK, Run
<1>6. \A d \in Caller : CallSound(call[d])'
    <2>1. ASSUME NEW d \in Caller, d # c PROVE CallSound(call[d])'
        BY <1>1, <1>5, <2>1 DEF Inv, CallSound
    <2>2. CallSound(call[c])'
        BY <1>1, <1>5 DEF CallSound
    <2> QED
        BY <2>1, <2>2
<1>7. Consumed'
    <2>1. ConsumedIsGone'
        BY <1>4 DEF ConsumedIsGone
    <2>2. ASSUME NEW d \in Caller, call'[d].pc = "execute" PROVE call'[d].retry \notin Offered'
        BY <1>1, <1>4, <2>2 DEF Inv, Consumed
    <2> QED
        BY <2>1, <2>2 DEF Consumed
<1>8. InTurn'
    <2> SUFFICES ASSUME NoOverlap PROVE InTurn'
        BY DEF InTurn, NoOverlap
    <2>1. Ordered
        BY DEF Inv, InTurn
    <2>2. \A i \in Failures : head.pins[i].cites \in Nat
        <3> SUFFICES ASSUME NEW i \in Failures PROVE head.pins[i].cites \in Nat
            OBVIOUS
        <3>1. head.pins[i] \in Node /\ head.pins[i].kind = "failure"
            BY ElementOfSeq DEF Failures, Inv, TypeOK, Checkpoint
        <3> QED
            BY <3>1, NodeFields
    <2>3. Ordered'
        <3>1. \A i \in Failures : head.pins[i].cites < run'.revision
            BY <1>5, <2>1, <2>2 DEF Ordered
        <3> QED
            BY <1>2, <1>4, <1>5, <2>1, <2>2, <3>1 DEF Ordered
    <2>4. ASSUME NEW d \in Caller PROVE Current(call[d])'
        <3>1. d = c
            BY DEF NoOverlap
        <3> QED
            BY <1>1, <3>1 DEF Current
    <2> QED
        BY <2>3, <2>4 DEF InTurn
<1>9. Delivered'
    BY <1>2 DEF Inv, Delivered, DeliveryHonest
<1>10. Once'
    <2>1. \A d \in Caller : call'[d].loaded < run'.revision
        BY <1>1, <1>5
    <2>2. \A d \in Caller : call'[d].loaded # run'.revision
        BY <1>1, <1>5, <2>1
    <2> QED
        BY <2>2 DEF Once, FreshFor
<1> QED
    BY <1>3, <1>6, <1>7, <1>8, <1>9, <1>10 DEF Inv

\* executeRun takes the lease of the run, or is refused.
LEMMA ExecuteStep == ASSUME BoundsAssumption, Inv, NEW c \in Caller, Execute(c) PROVE Inv'
<1>1. /\ call[c] \in Call /\ call[c].pc = "execute" /\ CallSound(call[c]) /\ FreshFor(call[c])
      /\ call[c].retry \in Retry \cup {None} /\ call[c].read \in 0..MaxRevision
    BY CallFacts DEF Execute
<1>2. UNCHANGED <<memoryVars, deliveryVars, fails>>
    BY DEF Execute
<1>3. CASE /\ Takes(c) /\ run.revision < MaxRun
           /\ spent' = [r \in Retry |-> IF r = call[c].retry THEN spent[r] + 1 ELSE spent[r]]
           /\ run' = [revision |-> run.revision + 1, lease |-> c,
                      status |-> IF run.status = "done" THEN "done" ELSE "open"]
           /\ SetCall(c, [call[c] EXCEPT !.pc = "running"])
    <2> DEFINE v == [call[c] EXCEPT !.pc = "running"]
    <2>1. /\ v \in Call /\ v.pc = "running" /\ v.retry = call[c].retry /\ v.read = call[c].read
          /\ v.node = call[c].node /\ v.loaded = call[c].loaded
        BY <1>1 DEF Call, CallPC
    <2>2. SetCall(c, v)
        BY <1>3
    <2> HIDE DEF v
    <2>3. run' \in Run /\ run'.revision = run.revision + 1
        <3>1. run.revision + 1 \in 0..MaxRun
            BY <1>3 DEF Inv, TypeOK, Run, BoundsAssumption
        <3> DEFINE k == run.revision + 1
                   s == IF run.status = "done" THEN "done" ELSE "open"
        <3>2. run' = [revision |-> k, lease |-> c, status |-> s] /\ k \in 0..MaxRun
            BY <1>3, <3>1
        <3>3. s \in {"open", "done"}
            OBVIOUS
        <3> HIDE DEF k, s
        <3>4. run' \in Run /\ run'.revision = k
            BY <3>2, <3>3 DEF Run
        <3> QED
            BY <3>4 DEF k
    <2>4. /\ spent' \in [Retry -> Nat]
          /\ \A r \in Retry : r # call[c].retry => spent'[r] = spent[r]
          /\ \A r \in Retry : r = call[c].retry => spent'[r] = spent[r] + 1
        BY <1>3 DEF Inv, TypeOK
    <2>5. \A r \in Retry : spent'[r] > 0 => r \notin Offered
        BY <1>1, <2>4 DEF Inv, Consumed, ConsumedIsGone
    <2>6. AllowanceOnce'
        <3> SUFFICES ASSUME NEW r \in Retry PROVE spent'[r] <= 1
            BY DEF AllowanceOnce
        <3>1. AllowanceOnce /\ FreshFor(call[c]) /\ call[c].loaded = run.revision
            BY <1>1, <1>3 DEF Inv, Once, Takes
        <3>2. CASE r = call[c].retry
            <4>1. r # None
                BY DEF BoundsAssumption
            <4>2. spent[r] = 0
                BY <1>1, <3>1, <3>2, <4>1 DEF FreshFor
            <4> QED
                BY <2>4, <3>2, <4>2
        <3>3. CASE r # call[c].retry
            BY <2>4, <3>1, <3>3 DEF AllowanceOnce
        <3> QED
            BY <3>2, <3>3
    <2>7. ~(v.read > 0)
        BY <1>1, <2>1 DEF CallSound
    <2>8. v.node.kind # "retry"
        BY <1>1, <2>1 DEF CallSound
    <2> QED
        BY <1>2, <2>1, <2>2, <2>3, <2>4, <2>5, <2>6, <2>7, <2>8, RunMoves
<1>4. CASE /\ run' = run /\ spent' = spent
           /\ SetCall(c, [call[c] EXCEPT !.pc = "classify", !.outcome = "indeterminate"])
    <2> DEFINE v == [call[c] EXCEPT !.pc = "classify", !.outcome = "indeterminate"]
    <2>2. /\ v \in Call /\ v.pc = "classify" /\ v.retry = call[c].retry /\ v.read = call[c].read
          /\ v.node = call[c].node /\ v.outcome = "indeterminate" /\ v.loaded = call[c].loaded
        BY <1>1 DEF Call, CallPC
    <2>3. SetCall(c, v)
        BY <1>4
    <2> HIDE DEF v
    <2>4. CallSound(v) /\ FreshFor(v) /\ Current(v)
        BY <1>1, <2>2 DEF CallSound, FreshFor, Current
    <2>5. UNCHANGED <<memoryVars, run, spent, deliveryVars>> /\ fails' \in 0..MaxFails
        BY <1>2, <1>4 DEF Inv, TypeOK
    <2> QED
        BY <2>2, <2>3, <2>4, <2>5, CallMoves
<1> QED
    BY <1>3, <1>4 DEF Execute

\* executeRun returns: the run has failed, is done or waits, and its lease is free.
LEMMA FinishStep == ASSUME BoundsAssumption, Inv, NEW c \in Caller, Finish(c) PROVE Inv'
<1>1. /\ call[c] \in Call /\ call[c].pc = "running" /\ CallSound(call[c])
      /\ call[c].read \in 0..MaxRevision
    BY CallFacts DEF Finish
<1>2. PICK s \in {"open", "failed", "done"} :
        /\ run' = [revision |-> run.revision + 1, status |-> s, lease |-> None]
        /\ SetCall(c, [call[c] EXCEPT !.pc = "classify", !.outcome = OutcomeOf(s)])
    BY DEF Finish
<1>3. UNCHANGED <<memoryVars, deliveryVars, fails>> /\ spent' = spent
    BY DEF Finish
<1> DEFINE o == OutcomeOf(s)
           v == [call[c] EXCEPT !.pc = "classify", !.outcome = o]
<1>0. o \in {"failure", "success", "indeterminate"} /\ (o = "failure" => s = "failed")
    BY DEF OutcomeOf
<1> HIDE DEF o
<1>4. /\ v \in Call /\ v.pc = "classify" /\ v.read = call[c].read /\ v.node = call[c].node
      /\ v.loaded = call[c].loaded
      /\ v.outcome = "failure" => s = "failed"
    BY <1>0, <1>1 DEF Call, CallPC
<1>5. SetCall(c, v)
    BY <1>2 DEF o
<1> HIDE DEF v
<1>6. run' \in Run /\ run'.revision = run.revision + 1 /\ run'.status = s
    <2> DEFINE k == run.revision + 1
    <2>1. k \in 0..MaxRun
        BY DEF Finish, Inv, TypeOK, Run, BoundsAssumption
    <2>2. run' = [revision |-> k, status |-> s, lease |-> None]
        BY <1>2
    <2> HIDE DEF k
    <2>3. run' \in Run /\ run'.revision = k /\ run'.status = s
        BY <2>1, <2>2 DEF Run
    <2> QED
        BY <2>3 DEF k
<1>7. ~(v.read > 0) /\ v.node.kind # "retry"
    BY <1>1, <1>4 DEF CallSound
<1>8. \A r \in Retry : spent'[r] > 0 => r \notin Offered
    BY <1>3 DEF Inv, Consumed, ConsumedIsGone
<1>9. AllowanceOnce'
    BY <1>3 DEF Inv, Once, AllowanceOnce
<1>10. spent' \in [Retry -> Nat]
    BY <1>3 DEF Inv, TypeOK
<1> QED
    BY <1>3, <1>4, <1>5, <1>6, <1>7, <1>8, <1>9, <1>10, RunMoves

\* The plugin's process dies: its calls and deliveries are gone, the run and its allowances
\* are as they were committed.
LEMMA CrashStep == ASSUME BoundsAssumption, Inv, Crash PROVE Inv'
<1>1. /\ \A c \in Caller : call'[c] = NoCall
      /\ head' = head /\ revoked' = revoked /\ spent' = spent /\ journal' = journal
      /\ published' = published /\ fails' = fails /\ unavailable' = FALSE
    BY DEF Crash, memoryVars
<1>2. NoCall \in Call /\ NoCall.pc = "idle" /\ NoCall.retry = None /\ NoCall.read = 0
      /\ NoCall.node = [kind |-> "other"] /\ NoCall.loaded <= run.revision
    BY NoCallFacts DEF Inv, CallSound
<1>3. /\ run' \in Run /\ run'.revision = run.revision /\ run'.status = run.status
    <2>1. run' = [run EXCEPT !.lease = None]
        BY DEF Crash
    <2> QED
        BY <2>1 DEF Inv, TypeOK, Run
<1>4. /\ hook' \in [Request -> Hook]
      /\ \A q \in Request : /\ hook'[q].pc \in {"idle", "done"}
                            /\ hook[q].pc = "done" => hook'[q].pc = "done"
    <2>1. 0 \in 0..MaxRevision
        BY DEF BoundsAssumption
    <2>2. hook' = [q \in Request |-> [pc |-> IF hook[q].pc = "idle" THEN "idle" ELSE "done",
                                      read |-> 0]]
        BY DEF Crash
    <2> QED
        BY <2>1, <2>2 DEF Hook, HookPC
<1>5. call' \in [Caller -> Call]
    BY <1>2 DEF Crash
<1>6. TypeOK'
    BY <1>1, <1>3, <1>4, <1>5 DEF Inv, TypeOK
<1>7. Offered' = Offered /\ Failures' = Failures
    BY <1>1, ListsKept
<1>8. \A c \in Caller : CallSound(call[c])'
    BY <1>1, <1>2, <1>3 DEF CallSound
<1>9. Consumed'
    BY <1>1, <1>2, <1>7 DEF Inv, Consumed, ConsumedIsGone
<1>10. InTurn'
    <2> SUFFICES ASSUME NoOverlap PROVE InTurn'
        BY DEF InTurn, NoOverlap
    <2>1. Ordered'
        BY <1>1, <1>3, <1>7 DEF Inv, InTurn, Ordered
    <2>2. \A c \in Caller : Current(call[c])'
        BY <1>1, <1>2 DEF Current
    <2> QED
        BY <2>1, <2>2 DEF InTurn
<1>11. Delivered'
    <2>1. DeliveryHonest'
        BY <1>1 DEF Inv, Delivered, DeliveryHonest
    <2>2. \A i \in 1..Len(journal) : journal[i].request \in Request
        <3> SUFFICES ASSUME NEW i \in 1..Len(journal) PROVE journal[i].request \in Request
            OBVIOUS
        <3>1. journal[i] \in Entry
            BY ElementOfSeq DEF Inv, TypeOK
        <3> QED
            BY <3>1 DEF Entry
    <2>3. \A i \in 1..Len(journal) :
            journal[i].state = "hook_failed" => hook'[journal[i].request].pc = "done"
        BY <1>4, <2>2 DEF Inv, Delivered
    <2> QED
        BY <1>1, <1>4, <2>1, <2>3 DEF Delivered
<1>12. Once'
    BY <1>1, <1>2 DEF Inv, Once, AllowanceOnce, FreshFor
<1> QED
    BY <1>6, <1>8, <1>9, <1>10, <1>11, <1>12 DEF Inv
-----------------------------------------------------------------------------
(* Context deliveries.                                                     *)

\* The entries of the journal are deliveries.
LEMMA EntryFacts ==
    ASSUME Inv
    PROVE  /\ journal \in Seq(Entry) /\ Len(journal) \in Nat
           /\ \A i \in 1..Len(journal) : journal[i] \in Entry /\ journal[i].request \in Request
<1>1. journal \in Seq(Entry) /\ Len(journal) \in Nat
    BY LenProperties DEF Inv, TypeOK
<1>2. \A i \in 1..Len(journal) : journal[i] \in Entry
    BY <1>1, ElementOfSeq
<1> QED
    BY <1>1, <1>2 DEF Entry

\* One delivery moves; what the journal says anew is prepared, or true of that delivery.
LEMMA DeliveryMoves ==
    ASSUME Inv, NEW q \in Request, NEW h \in Hook, hook' = [hook EXCEPT ![q] = h],
           UNCHANGED <<memoryVars, runVars>>, fails' \in 0..MaxFails, unavailable' \in BOOLEAN,
           published' \in {published, published \cup {q}},
           journal' \in Seq(Entry), Len(journal') <= Window, hook[q].pc # "done",
           h.pc = "render" => h.read > 0, h.pc = "shown" => q \in published',
           \A i \in 1..Len(journal') :
               \/ \E j \in 1..Len(journal) : journal'[i] = journal[j]
               \/ journal'[i].state = "prepared"
               \/ /\ journal'[i].request = q /\ q \in published'
                  /\ journal'[i].state \in {"emitted", "emission_unconfirmed"}
               \/ /\ journal'[i].request = q /\ q \notin published' /\ h.pc = "done"
                  /\ journal'[i].state = "hook_failed"
    PROVE  Inv'
<1>1. head' = head /\ revoked' = revoked /\ run' = run /\ call' = call /\ spent' = spent
    BY DEF memoryVars, runVars
<1>2. /\ hook' \in [Request -> Hook] /\ hook'[q] = h
      /\ \A p \in Request : p # q => hook'[p] = hook[p]
    BY DEF Inv, TypeOK
<1>3. TypeOK'
    BY <1>1, <1>2 DEF Inv, TypeOK
<1>4. Offered' = Offered /\ Failures' = Failures
    BY <1>1, ListsKept
<1>5. \A c \in Caller : CallSound(call[c])'
    BY <1>1 DEF Inv, CallSound
<1>6. Consumed'
    BY <1>1, <1>4 DEF Inv, Consumed, ConsumedIsGone
<1>7. InTurn'
    <2> SUFFICES ASSUME NoOverlap PROVE InTurn'
        BY DEF InTurn, NoOverlap
    <2>1. Ordered'
        BY <1>1, <1>4 DEF Inv, InTurn, Ordered
    <2>2. \A c \in Caller : Current(call[c])'
        BY <1>1 DEF Inv, InTurn, Current
    <2> QED
        BY <2>1, <2>2 DEF InTurn
<1>8. Delivered'
    <2>1. /\ \A p \in Request : hook'[p].pc = "render" => hook'[p].read > 0
          /\ \A p \in Request : hook'[p].pc = "shown" => p \in published'
        BY <1>2 DEF Inv, Delivered
    <2>2. ASSUME NEW i \in 1..Len(journal')
          PROVE  /\ journal'[i].state \in {"emitted", "emission_unconfirmed"}
                        => journal'[i].request \in published'
                 /\ journal'[i].state = "hook_failed" =>
                        /\ journal'[i].request \notin published'
                        /\ hook'[journal'[i].request].pc = "done"
        <3>1. CASE \E j \in 1..Len(journal) : journal'[i] = journal[j]
            <4>1. PICK j \in 1..Len(journal) : journal'[i] = journal[j]
                BY <3>1
            <4> DEFINE p == journal[j].request
            <4>2. p \in Request
                BY EntryFacts
            <4>3. /\ journal[j].state \in {"emitted", "emission_unconfirmed"} => p \in published
                  /\ journal[j].state = "hook_failed" => p \notin published /\ hook[p].pc = "done"
                BY DEF Inv, Delivered, DeliveryHonest
            <4>4. hook[p].pc = "done" => p # q
                OBVIOUS
            <4>5. journal'[i].state = journal[j].state /\ journal'[i].request = p
                BY <4>1
            <4> HIDE DEF p
            <4> QED
                BY <1>2, <4>2, <4>3, <4>4, <4>5
        <3>2. CASE ~\E j \in 1..Len(journal) : journal'[i] = journal[j]
            BY <1>2, <3>2
        <3> QED
            BY <3>1, <3>2
    <2> QED
        BY <2>1, <2>2 DEF Delivered, DeliveryHonest
<1>9. Once'
    BY <1>1 DEF Inv, Once, AllowanceOnce, FreshFor
<1> QED
    BY <1>3, <1>5, <1>6, <1>7, <1>8, <1>9 DEF Inv

\* A delivery that writes nothing.
LEMMA DeliveryWaits ==
    ASSUME Inv, NEW q \in Request, NEW h \in Hook, hook' = [hook EXCEPT ![q] = h],
           UNCHANGED <<memoryVars, runVars>>, fails' \in 0..MaxFails, unavailable' \in BOOLEAN,
           published' \in {published, published \cup {q}}, journal' = journal,
           hook[q].pc # "done", h.pc = "render" => h.read > 0, h.pc = "shown" => q \in published'
    PROVE  Inv'
<1>1. journal' \in Seq(Entry) /\ Len(journal') <= Window
    BY DEF Inv, TypeOK
<1>2. \A i \in 1..Len(journal') : \E j \in 1..Len(journal) : journal'[i] = journal[j]
    OBVIOUS
<1> QED
    BY <1>1, <1>2, DeliveryMoves

\* The positions of a delivery, and the counter of failures.
LEMMA HookFacts ==
    ASSUME BoundsAssumption, TypeOK
    PROVE  /\ \A x \in HookPC : [pc |-> x, read |-> 0] \in Hook
           /\ fails \in 0..MaxFails /\ (Fails => fails' \in 0..MaxFails)
           /\ unavailable \in BOOLEAN
           /\ head.revision \in 0..MaxRevision
<1>1. 0 \in 0..MaxRevision
    BY DEF BoundsAssumption
<1> QED
    BY <1>1 DEF TypeOK, Hook, Fails, BoundsAssumption, Checkpoint

\* settleDelivery changes the state of one record of the delivery.
LEMMA SettledFacts ==
    ASSUME Inv, NEW q \in Request, NEW state \in {"emitted", "hook_failed", "emission_unconfirmed"},
           Settles(q, state)
    PROVE  /\ journal' \in Seq(Entry) /\ Len(journal') <= Window
           /\ \A i \in 1..Len(journal') :
                \/ \E j \in 1..Len(journal) : journal'[i] = journal[j]
                \/ journal'[i].request = q /\ journal'[i].state = state
<1>1. PICK k \in 1..Len(journal) :
        journal[k].request = q /\ journal' = [journal EXCEPT ![k].state = state]
    BY DEF Settles, Index
<1> DEFINE e == [journal[k] EXCEPT !.state = state]
<1>2. journal \in Seq(Entry) /\ journal[k] \in Entry /\ Len(journal) <= Window
    BY EntryFacts DEF Inv, TypeOK
<1>3. e \in Entry /\ e.request = q /\ e.state = state
    BY <1>1, <1>2 DEF Entry
<1>4. journal' = [journal EXCEPT ![k] = e]
    BY <1>1
<1> HIDE DEF e
<1>5. /\ journal' \in Seq(Entry) /\ Len(journal') = Len(journal)
      /\ \A i \in 1..Len(journal) : journal'[i] = IF i = k THEN e ELSE journal[i]
    BY <1>2, <1>3, <1>4, ExceptSeq
<1> QED
    BY <1>2, <1>3, <1>5

\* prepareDelivery retains the last entries and the new one.
LEMMA RetainedFacts ==
    ASSUME BoundsAssumption, Inv, NEW e \in Entry, journal' = Retained(e)
    PROVE  /\ journal' \in Seq(Entry) /\ Len(journal') <= Window
           /\ \A i \in 1..Len(journal') :
                \/ \E j \in 1..Len(journal) : journal'[i] = journal[j]
                \/ journal'[i] = e
<1> DEFINE n == Len(journal)
           m == 1 + (IF n >= Window THEN 1 ELSE 0)
           s == SubSeq(journal, m, n)
<1>1. /\ journal \in Seq(Entry) /\ n \in Nat /\ n <= Window /\ Window \in Nat \ {0}
      /\ \A i \in 1..n : journal[i] \in Entry
    BY EntryFacts DEF Inv, TypeOK, BoundsAssumption
<1>2. m \in Int /\ m >= 1 /\ (n >= Window => m = 2) /\ (n < Window => m = 1)
    BY <1>1
<1>3. journal' = Append(s, e)
    BY DEF Retained
<1> HIDE DEF m, n
<1>4. \A i \in m..n : journal[i] \in Entry
    BY <1>1, <1>2
<1>5. /\ s \in Seq(Entry) /\ Len(s) = (IF m <= n THEN n - m + 1 ELSE 0)
      /\ \A i \in 1..(n - m + 1) : s[i] = journal[m + i - 1]
    BY <1>1, <1>2, <1>4, SubSeqProperties
<1> HIDE DEF s
<1>6. Len(s) + 1 <= Window /\ Len(s) \in Nat
    BY <1>1, <1>2, <1>5
<1>7. /\ journal' \in Seq(Entry) /\ Len(journal') = Len(s) + 1
      /\ \A i \in 1..Len(s) : journal'[i] = s[i]
      /\ journal'[Len(s) + 1] = e
    BY <1>3, <1>5, AppendProperties
<1>8. ASSUME NEW i \in 1..Len(journal')
      PROVE  \/ \E j \in 1..Len(journal) : journal'[i] = journal[j]
             \/ journal'[i] = e
    <2>1. CASE i = Len(s) + 1
        BY <1>7, <2>1
    <2>2. CASE i # Len(s) + 1
        <3>1. i \in 1..Len(s)
            BY <1>6, <1>7, <2>2
        <3>2. m <= n /\ i \in 1..(n - m + 1)
            BY <1>1, <1>2, <1>5, <3>1
        <3>3. journal'[i] = journal[m + i - 1]
            BY <1>5, <1>7, <3>1, <3>2
        <3>4. m + i - 1 \in 1..n
            BY <1>1, <1>2, <3>2
        <3> QED
            BY <3>3, <3>4 DEF n
    <2> QED
        BY <2>1, <2>2
<1> QED
    BY <1>6, <1>7, <1>8

\* ContextDelivery.replace, what writes nothing: the rendering, the last look, the text.
LEMMA QuietDelivery ==
    ASSUME BoundsAssumption, Inv, NEW q \in Request,
           Render(q) \/ Check(q) \/ Publish(q) \/ PublishBare(q)
    PROVE  Inv'
<1>1. /\ \A x \in HookPC : [pc |-> x, read |-> 0] \in Hook
      /\ fails \in 0..MaxFails /\ (Fails => fails' \in 0..MaxFails)
      /\ unavailable \in BOOLEAN /\ head.revision \in 0..MaxRevision
    BY HookFacts DEF Inv
<1>2. UNCHANGED <<memoryVars, runVars>> /\ journal' = journal /\ fails' \in 0..MaxFails
      /\ unavailable' \in BOOLEAN /\ published' \in {published, published \cup {q}}
      /\ hook[q].pc # "done"
    BY <1>1 DEF Render, Check, Publish, PublishBare, Hooks
<1>3. CASE \E x \in {"bare", "checked", "failing", "done"} : SetHook(q, x)
    <2>1. PICK x \in {"bare", "checked", "failing", "done"} : SetHook(q, x)
        BY <1>3
    <2> DEFINE h == [pc |-> x, read |-> 0]
    <2>2. h \in Hook /\ h.pc = x /\ hook' = [hook EXCEPT ![q] = h]
        BY <1>1, <2>1 DEF HookPC, SetHook
    <2> HIDE DEF h
    <2> QED
        BY <1>2, <2>2, DeliveryWaits
<1>4. CASE SetHook(q, "shown") /\ q \in published'
    <2> DEFINE h == [pc |-> "shown", read |-> 0]
    <2>2. h \in Hook /\ h.pc = "shown" /\ hook' = [hook EXCEPT ![q] = h]
        BY <1>1, <1>4 DEF HookPC, SetHook
    <2> HIDE DEF h
    <2> QED
        BY <1>2, <1>4, <2>2, DeliveryWaits
<1>5. CASE /\ head.revision > 0
           /\ hook' = [hook EXCEPT ![q] = [pc |-> "render", read |-> head.revision]]
    <2> DEFINE h == [pc |-> "render", read |-> head.revision]
    <2>2. h \in Hook /\ h.read > 0 /\ h.pc = "render" /\ hook' = [hook EXCEPT ![q] = h]
        BY <1>1, <1>5 DEF Hook, HookPC
    <2> HIDE DEF h
    <2> QED
        BY <1>2, <2>2, DeliveryWaits
<1> QED
    BY <1>3, <1>4, <1>5 DEF Render, Check, Publish, PublishBare

\* prepareDelivery, settleDelivery and the record of a failure.
LEMMA RecordedDelivery ==
    ASSUME BoundsAssumption, Inv, NEW q \in Request,
           Prepare(q) \/ SettleEmitted(q) \/ HookFails(q)
    PROVE  Inv'
<1>1. /\ \A x \in HookPC : [pc |-> x, read |-> 0] \in Hook
      /\ fails \in 0..MaxFails /\ (Fails => fails' \in 0..MaxFails)
      /\ unavailable \in BOOLEAN /\ head.revision \in 0..MaxRevision
    BY HookFacts DEF Inv
<1>2. UNCHANGED <<memoryVars, runVars>> /\ fails' \in 0..MaxFails
      /\ unavailable' \in BOOLEAN /\ published' = published /\ hook[q].pc # "done"
    BY <1>1 DEF Prepare, SettleEmitted, HookFails, Hooks
<1>3. PICK x \in {"prepared", "refused", "failing", "done"} : SetHook(q, x)
    BY DEF Prepare, SettleEmitted, HookFails
<1> DEFINE h == [pc |-> x, read |-> 0]
<1>4. h \in Hook /\ h.pc = x /\ hook' = [hook EXCEPT ![q] = h]
    BY <1>1, <1>3 DEF HookPC, SetHook
<1> HIDE DEF h
<1>5. CASE journal' = journal
    BY <1>2, <1>4, <1>5, DeliveryWaits
<1>6. CASE Prepare(q) /\ journal' # journal
    <2> DEFINE e == [request |-> q, revision |-> head.revision, state |-> "prepared"]
    <2>1. hook[q].pc = "render" /\ head.revision = hook[q].read /\ journal' = Retained(e)
        BY <1>6 DEF Prepare
    <2>2. e \in Entry /\ e.state = "prepared"
        <3>1. head.revision \in 1..MaxRevision
            BY <1>1, <2>1 DEF Inv, Delivered
        <3> QED
            BY <3>1 DEF Entry
    <2> HIDE DEF e
    <2>3. /\ journal' \in Seq(Entry) /\ Len(journal') <= Window
          /\ \A i \in 1..Len(journal') :
                \/ \E j \in 1..Len(journal) : journal'[i] = journal[j]
                \/ journal'[i] = e
        BY <2>1, <2>2, RetainedFacts
    <2> QED
        BY <1>2, <1>4, <2>2, <2>3, DeliveryMoves
<1>7. CASE SettleEmitted(q) /\ journal' # journal
    <2>1. Settles(q, "emitted") /\ q \in published
        BY <1>7 DEF SettleEmitted, Inv, Delivered
    <2>2. /\ journal' \in Seq(Entry) /\ Len(journal') <= Window
          /\ \A i \in 1..Len(journal') :
                \/ \E j \in 1..Len(journal) : journal'[i] = journal[j]
                \/ journal'[i].request = q /\ journal'[i].state = "emitted"
        BY <2>1, SettledFacts
    <2> QED
        BY <1>2, <1>4, <2>1, <2>2, DeliveryMoves
<1>8. CASE HookFails(q) /\ journal' # journal
    <2>1. Settles(q, Reason(q)) /\ SetHook(q, "done")
        BY <1>8 DEF HookFails
    <2>2. /\ Reason(q) \in {"hook_failed", "emission_unconfirmed"}
          /\ Reason(q) = "hook_failed" => q \notin published
          /\ Reason(q) = "emission_unconfirmed" => q \in published
        BY DEF Reason
    <2>3. /\ journal' \in Seq(Entry) /\ Len(journal') <= Window
          /\ \A i \in 1..Len(journal') :
                \/ \E j \in 1..Len(journal) : journal'[i] = journal[j]
                \/ journal'[i].request = q /\ journal'[i].state = Reason(q)
        BY <2>1, <2>2, SettledFacts
    <2>4. h.pc = "done"
        <3>1. hook \in [Request -> Hook]
            BY DEF Inv, TypeOK
        <3> QED
            BY <1>4, <2>1, <3>1 DEF SetHook
    <2> QED
        BY <1>2, <1>4, <2>2, <2>3, <2>4, DeliveryMoves
<1> QED
    BY <1>5, <1>6, <1>7, <1>8
-----------------------------------------------------------------------------
(* The invariant.                                                          *)

\* A session starts without a checkpoint, a call or a record.
LEMMA InitInv == ASSUME BoundsAssumption, Init PROVE Inv
<1>1. head.pins = << >> /\ head.used = << >> /\ journal = << >> /\ Len(<< >>) = 0
      /\ << >> \in Seq(Node) /\ << >> \in Seq(Retry) /\ << >> \in Seq(Entry)
    BY EmptySeq DEF Init
<1>2. NoCall \in Call /\ (TypeOK => CallSound(NoCall)) /\ NoCall.pc = "idle"
    BY NoCallFacts
<1>3. 0 \in 0..MaxRevision /\ 0 \in 0..MaxRun /\ 0 \in 0..MaxFails /\ 0 <= MaxPins /\ 0 <= Window
    BY DEF BoundsAssumption
<1>4. head \in Checkpoint
    BY <1>1, <1>3 DEF Init, Checkpoint
<1>5. run \in Run /\ hook \in [Request -> Hook]
    BY <1>3 DEF Init, Run, Hook, HookPC
<1>6. TypeOK
    BY <1>1, <1>2, <1>3, <1>4, <1>5 DEF Init, TypeOK
<1>7. Offered = {} /\ Failures = {} /\ 1..Len(journal) = {}
    BY <1>1 DEF Offered, Pinned, Members, Failures
<1>8. \A c \in Caller : call[c] = NoCall
    BY DEF Init
<1>9. \A r \in Retry : spent[r] = 0
    BY DEF Init
<1>10. \A q \in Request : hook[q].pc = "idle"
    BY DEF Init
<1>11. \A c \in Caller : CallSound(call[c])
    BY <1>2, <1>6, <1>8
<1>12. Consumed
    BY <1>7 DEF Consumed, ConsumedIsGone
<1>13. InTurn
    BY <1>2, <1>7, <1>8 DEF InTurn, Ordered, Current
<1>14. Delivered
    BY <1>7, <1>10 DEF Delivered, DeliveryHonest
<1>15. Once
    BY <1>2, <1>8, <1>9 DEF Once, AllowanceOnce, FreshFor
<1> QED
    BY <1>6, <1>11, <1>12, <1>13, <1>14, <1>15 DEF Inv

\* Every step keeps it.
LEMMA NextInv == ASSUME BoundsAssumption, Inv, Next PROVE Inv'
<1>1. CASE Operator
    BY <1>1, OperatorStep
<1>2. ASSUME NEW c \in Caller, Guarded(c) PROVE Inv'
    BY <1>2, StartStep, DecideStep, LookStep, ReadStep, SwapStep, ExecuteStep, FinishStep, ClassifyStep
       DEF Guarded
<1>3. ASSUME NEW q \in Request, Deliver(q) PROVE Inv'
    BY <1>3, QuietDelivery, RecordedDelivery DEF Deliver
<1>4. CASE Crash
    BY <1>4, CrashStep
<1> QED
    BY <1>1, <1>2, <1>3, <1>4 DEF Next

\* So does a step of something else.
LEMMA StutterInv == ASSUME Inv, UNCHANGED vars PROVE Inv'
<1>1. UNCHANGED <<runVars, deliveryVars, fails>> /\ head' = head /\ revoked' = revoked
    BY DEF vars, runVars, deliveryVars
<1>2. TypeOK'
    BY <1>1 DEF Inv, TypeOK, runVars, deliveryVars
<1>3. Offered' = Offered /\ Failures' = Failures
    BY <1>1, ListsKept
<1> QED
    BY <1>1, <1>2, <1>3, HeadKeeps
-----------------------------------------------------------------------------
(* What it says of the properties.                                         *)

\* The pinned failures have a newest one.
LEMMA Newest ==
    ASSUME TypeOK, Failures # {}
    PROVE  NewestFailure \in Failures /\ \A j \in Failures : j <= NewestFailure
<1> DEFINE R == StrictSubsetOrdering(Nat)
           n == Len(head.pins)
           T == {i..n : i \in Failures}
<1>1. n \in Nat /\ Failures \subseteq 1..n
    BY LenProperties DEF TypeOK, Checkpoint, Failures
<1>2. T \subseteq FiniteSubsetsOf(Nat) /\ T # {}
    <2>1. ASSUME NEW i \in Failures PROVE i..n \subseteq Nat /\ IsFiniteSet(i..n)
        <3>1. i \in Nat /\ i \in Int /\ n \in Int
            BY <1>1
        <3> HIDE DEF n
        <3> QED
            BY <3>1, FS_Interval
    <2> QED
        BY <2>1 DEF FiniteSubsetsOf
<1>3. PICK t \in T : \A u \in T : <<u, t>> \notin R
    <2> HIDE DEF T
    <2> QED
        BY <1>2, FS_StrictSubsetOrderingWellFounded, WFMin
<1>4. PICK i \in Failures : t = i..n
    OBVIOUS
<1>5. ASSUME NEW j \in Failures, j > i PROVE FALSE
    <2>1. j \in Int /\ i \in Int /\ j <= n
        BY <1>1
    <2>2. j..n \subseteq i..n /\ i \in i..n /\ i \notin j..n /\ i..n \subseteq Nat /\ j..n \subseteq Nat
        BY <1>1, <1>5, <2>1
    <2>3. <<j..n, i..n>> \in R
        BY <2>2 DEF StrictSubsetOrdering
    <2> QED
        BY <1>3, <1>4, <2>3
<1>6. \E k \in Failures : \A j \in Failures : j <= k
    <2>1. \A j \in Failures : j \in Int
        BY <1>1
    <2> QED
        BY <1>5, <2>1
<1> QED
    BY <1>6 DEF NewestFailure

\* committedFailureDecision looks at the newest failure alone, and needs no other: what is
\* pinned before it cites the same revision of the run, or an earlier one.
LEMMA InvRepeatBlocked == ASSUME Inv, NoOverlap PROVE RepeatBlocked
<1> SUFFICES ASSUME ~Throws, ~head.deleted
             PROVE  Decision = "blocked" <=>
                        /\ run.status = "failed"
                        /\ \E i \in Failures : head.pins[i].cites = run.revision
                        /\ Offered = {}
    BY DEF RepeatBlocked
<1>1. Ordered /\ TypeOK
    BY DEF Inv, InTurn
<1>2. ASSUME Decision = "blocked"
      PROVE  /\ run.status = "failed" /\ Offered = {}
             /\ \E i \in Failures : head.pins[i].cites = run.revision
    <2>1. Offered = {} /\ Failures # {} /\ head.pins[NewestFailure].cites = run.revision
        BY <1>2 DEF Decision
    <2>2. NewestFailure \in Failures
        BY <1>1, <2>1, Newest
    <2> QED
        BY <1>1, <2>1, <2>2 DEF Ordered
<1>3. ASSUME Offered = {}, NEW i \in Failures, head.pins[i].cites = run.revision
      PROVE  Decision = "blocked"
    <2>1. NewestFailure \in Failures /\ i <= NewestFailure
        BY <1>1, Newest
    <2>2. /\ head.pins[i].cites <= head.pins[NewestFailure].cites
          /\ head.pins[NewestFailure].cites <= run.revision
        BY <1>1, <2>1 DEF Ordered
    <2>3. head.pins[NewestFailure].cites \in Int /\ run.revision \in Int
        <3>1. head.pins[NewestFailure] \in Node /\ head.pins[NewestFailure].kind = "failure"
            BY <1>1, <2>1, ElementOfSeq DEF Failures, TypeOK, Checkpoint
        <3> QED
            BY <1>1, <3>1, NodeFields DEF TypeOK, Run
    <2>4. head.pins[NewestFailure].cites = run.revision
        BY <1>3, <2>2, <2>3
    <2> QED
        BY <1>3, <2>1, <2>4 DEF Decision
<1> QED
    BY <1>2, <1>3

\* guarded: an allowance that was executed under is not offered again.
LEMMA InvConsumed == ASSUME Inv PROVE ConsumedIsGone
BY DEF Inv, Consumed

\* guarded and executeRun: it is executed under once.
LEMMA InvAllowanceOnce == ASSUME Inv PROVE AllowanceOnce
BY DEF Inv, Once

\* Together: what guarded promises of failures and allowances.
LEMMA InvRepeatsExcused == ASSUME Inv PROVE RepeatsExcused
BY InvConsumed, InvAllowanceOnce, InvRepeatBlocked DEF RepeatsExcused

\* settleDelivery: the records are true of what was published.
LEMMA InvDeliveryHonest == ASSUME Inv PROVE DeliveryHonest
BY DEF Inv, Delivered

\* update looks the pins up again: what is revoked and still pinned is not consumed.
LEMMA ConsumeFacts == ASSUME Inv, Next PROVE ConsumeStep
<1> SUFFICES ASSUME NEW c \in Caller, call[c].pc = "consume", call'[c].pc = "execute"
             PROVE  call[c].retry \notin revoked \cap Pinned
    BY DEF ConsumeStep
<1>1. call \in [Caller -> Call] /\ call[c] \in Call
    BY CallFacts DEF Inv, TypeOK
<1>2. ASSUME Operator \/ (\E q \in Request : Deliver(q)) PROVE FALSE
    <2>1. call' = call
        BY <1>2 DEF Operator, BeginTask, BindSkill, Compact, Delete, AllowRetry, Revoke, Update,
            Deliver, Render, Prepare, Check, Publish, PublishBare, SettleEmitted, HookFails,
            Hooks, runVars
    <2> QED
        BY <2>1
<1>3. ASSUME Crash PROVE FALSE
    BY <1>3 DEF Crash, NoCall
<1>4. ASSUME NEW d \in Caller, d # c, Guarded(d) PROVE FALSE
    <2>1. PICK v : SetCall(d, v)
        BY <1>4 DEF Guarded, Start, Decide, LookAtBindings, ReadRevision, CompareAndSwap, Execute, Finish, Classify
    <2> QED
        BY <1>1, <1>4, <2>1 DEF SetCall
<1>5. ASSUME Guarded(c), ~CompareAndSwap(c) PROVE FALSE
    <2>1. ReadRevision(c)
        BY <1>5 DEF Guarded, Start, Decide, LookAtBindings, Execute, Finish, Classify
    <2>2. SetCall(c, NoCall) \/ SetCall(c, [call[c] EXCEPT !.read = head.revision])
        BY <2>1 DEF ReadRevision
    <2> QED
        BY <1>1, <2>2 DEF SetCall, NoCall, Call
<1>6. ASSUME CompareAndSwap(c), ~Updates(call[c].read, Changed(c)) PROVE FALSE
    <2>1. SetCall(c, NoCall)
        BY <1>6 DEF CompareAndSwap, Threw
    <2> QED
        BY <1>1, <2>1 DEF SetCall, NoCall
<1>7. CASE CompareAndSwap(c) /\ Updates(call[c].read, Changed(c))
    <2>1. Changed(c) = [head EXCEPT !.used = Append(@, call[c].retry)]
        BY DEF Changed
    <2>2. head.pins = Changed(c).pins
        BY <2>1 DEF Inv, TypeOK, Checkpoint
    <2>3. \A i \in 1..Len(head.pins) : head.pins[i].kind = "retry" => head.pins[i].retry \notin revoked
        BY <1>7, <2>2 DEF Updates, Admissible
    <2> QED
        BY <2>3 DEF Pinned, Members
<1> QED
    BY <1>2, <1>3, <1>4, <1>5, <1>6, <1>7 DEF Next

\* The session's state is sound whatever its calls, deliveries and its operator do, and
\* wherever the process dies: the types, and the records of executions and deliveries.
THEOREM Sound == ASSUME BoundsAssumption PROVE Spec => []Inv
<1>1. Init => Inv
    BY InitInv
<1>2. Inv /\ [Next]_vars => Inv'
    BY NextInv, StutterInv
<1> QED
    BY <1>1, <1>2, PTL DEF Spec
=============================================================================

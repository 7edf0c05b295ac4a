----------------------- MODULE EnvironmentReplication -----------------------
(***************************************************************************)
(* Replication of an environment memory to an object store and its         *)
(* recovery (src/environment-memory/replication.ts, object-store.ts).      *)
(* Objects are content-addressed and immutable; the manifest is replaced   *)
(* by compare-and-swap and is the remote commit point.                     *)
(*                                                                         *)
(* Every event carries the hash of its predecessor, so a revision and its  *)
(* event hash stand for the whole history up to it: a cursor is modelled   *)
(* as that history, and two cursors are equal when the histories are.  An  *)
(* action is the code between two awaits, so the local database, shared    *)
(* by other connections, and the manifest change between any two of them.  *)
(* Each Engine is a database of the same namespace; one that is lost takes *)
(* no more steps and its successor is another Engine, empty at first.      *)
(***************************************************************************)
EXTENDS Integers, Sequences, FiniteSets

CONSTANTS
    Engine,       \* local databases, each with a caller that replicates it
    Event,        \* what an event may record
    EventLimit,   \* options.eventLimit
    MaxAttempts,  \* options.maxAttempts
    MaxBatches,   \* MAX_MANIFEST_BATCHES
    MaxRecovery,  \* MAX_RECOVERY_BYTES, in events
    MaxRevision,  \* bound: the revision no database goes beyond
    MaxFaults     \* bound: requests to the object store that fail

ASSUME LimitsAssumption ==
    /\ EventLimit \in Nat \ {0}
    /\ MaxAttempts \in Nat \ {0}
    /\ MaxBatches \in Nat
    /\ MaxRecovery \in Nat
    /\ MaxRevision \in Nat
    /\ MaxFaults \in Nat

VARIABLES
    journal,   \* the events of the current history, per database
    base,      \* base_revision: older events are known by their receipts only
    objects,   \* the immutable objects of the store
    manifest,  \* manifest.json
    call,      \* the call an engine's caller is in, up to its receipt
    faults

vars == <<journal, base, objects, manifest, call, faults>>

History == Seq(Event)
UpTo(h, revision) == SubSeq(h, 1, revision)
Extends(s, t) == Len(s) <= Len(t) /\ \A i \in 1..Len(s) : s[i] = t[i]

\* A snapshot has the whole history in its receipts, a segment the events in between.
Object == [kind : {"snapshot", "events"}, from : History, to : History]
Snapshot(h) == [kind |-> "snapshot", from |-> << >>, to |-> h]
Segment(h, k) == [kind |-> "events", from |-> h, to |-> k]

\* `generation` 0 stands for the absence of a manifest.
Manifest == [generation : Nat, head : History, snapshot : Object, batches : Seq(Object)]
NoManifest == [generation |-> 0, head |-> << >>, snapshot |-> Snapshot(<< >>), batches |-> << >>]
Committed(m) == m.generation > 0

\* "done": the receipt reports the cursors `local` and `next.head`.
PC == {"idle", "read", "decide", "put", "publish", "retry", "done", "load"}
Call == [pc : PC, attempt : Nat, local : History, remote : Manifest, next : Manifest]
NoCall == [pc |-> "idle", attempt |-> 0, local |-> << >>, remote |-> NoManifest,
           next |-> NoManifest]

TypeOK ==
    /\ journal \in [Engine -> History]
    /\ base \in [Engine -> Nat]
    /\ objects \in SUBSET Object
    /\ manifest \in Manifest /\ Len(manifest.batches) <= MaxBatches
    /\ call \in [Engine -> Call]
    /\ faults \in Nat

Init ==
    /\ journal = [e \in Engine |-> << >>]
    /\ base = [e \in Engine |-> 0]
    /\ objects = {}
    /\ manifest = NoManifest
    /\ call = [e \in Engine |-> NoCall]
    /\ faults = 0

-----------------------------------------------------------------------------
(* validateManifestContents.                                               *)

\* The references are contiguous from the snapshot to the head, and every object
\* they name is in the store.
Verified(m) ==
    LET cursor(i) == IF i = 0 THEN m.snapshot.to ELSE m.batches[i].to IN
    /\ m.snapshot \in objects
    /\ \A i \in 1..Len(m.batches) :
        /\ m.batches[i] \in objects
        /\ m.batches[i].from = cursor(i - 1)
    /\ m.head = cursor(Len(m.batches))

\* The aggregate size is looked at after each segment, never for a snapshot alone.
RecoveryFits(m) == m.batches = << >> \/ Len(m.head) <= MaxRecovery

Valid(m) == Len(m.batches) <= MaxBatches /\ RecoveryFits(m) /\ Verified(m)

-----------------------------------------------------------------------------
(* replicateEnvironmentMemory.                                             *)

SetCall(e, c) == call' = [call EXCEPT ![e] = c]
Local == <<journal, base>>

\* A call of another connection of the database.
AppendEvent(e) ==
    /\ Len(journal[e]) < MaxRevision
    /\ \E x \in Event : journal' = [journal EXCEPT ![e] = Append(@, x)]
    /\ UNCHANGED <<base, objects, manifest, call, faults>>

\* engine.status(), then the manifest is asked for.
Observe(e) ==
    /\ call[e].pc \in {"idle", "retry"}
    /\ SetCall(e, [NoCall EXCEPT !.pc = "read", !.local = journal[e],
                                 !.attempt = call[e].attempt + 1])
    /\ UNCHANGED <<Local, objects, manifest, faults>>

\* A remote that does not validate ends the call; objects are immutable, so
\* validation sees what the manifest named when it was read.
ReadManifest(e) ==
    /\ call[e].pc = "read"
    /\ SetCall(e, IF Committed(manifest) /\ ~Valid(manifest) THEN NoCall
                  ELSE [call[e] EXCEPT !.pc = "decide", !.remote = manifest])
    /\ UNCHANGED <<Local, objects, manifest, faults>>

\* CONFLICT and REMOTE_UNAVAILABLE are tried again, other errors are not.
Again(e) == IF call[e].attempt < MaxAttempts
            THEN [NoCall EXCEPT !.pc = "retry", !.attempt = call[e].attempt] ELSE NoCall

Upload(e, next) ==
    [call[e] EXCEPT !.pc = "put",
                    !.next = [next EXCEPT !.generation = call[e].remote.generation + 1]]
Receipt(e, next) ==
    [NoCall EXCEPT !.pc = "done", !.local = call[e].local, !.next = next]
CheckpointManifest(h) ==
    [generation |-> 0, head |-> h, snapshot |-> Snapshot(h), batches |-> << >>]

\* uploadCheckpoint: the database is what it was when it was observed, and its
\* receipts have the remote head.
\* Mutant: a checkpoint replaces any head.
CheckpointOverAny(e) ==
    IF journal[e] = call[e].local
    THEN Upload(e, CheckpointManifest(call[e].local))
    ELSE Again(e)
Checkpoint(e) ==
    LET head == call[e].remote.head IN
    IF journal[e] = call[e].local /\ UpTo(journal[e], Len(head)) = head
    THEN Upload(e, CheckpointManifest(call[e].local))
    ELSE Again(e)

\* Mutant: the limit alone bounds the segment, not what was observed.
LimitUnobserved(e) ==
    LET room == Len(journal[e]) - Len(call[e].remote.head)
    IN  IF EventLimit < room THEN EventLimit ELSE room
SegmentLimit(e) ==
    LET room == Len(call[e].local) - Len(call[e].remote.head)
    IN  IF EventLimit < room THEN EventLimit ELSE room

\* The next events of the journal, which must continue the remote head.
NextSegment(e) ==
    LET remote == call[e].remote
        from == UpTo(journal[e], Len(remote.head))
        to == UpTo(journal[e], Len(remote.head) + SegmentLimit(e))
    IN  IF from # remote.head THEN NoCall
        ELSE Upload(e, [remote EXCEPT !.head = to,
                                       !.batches = Append(@, Segment(from, to))])

\* The cursor is retained and the manifest has room for another segment.
TakesSegment(e) ==
    Len(call[e].remote.batches) < MaxBatches /\ base[e] <= Len(call[e].remote.head)

\* The code between the last read of the remote and the upload.
Decide(e) ==
    LET remote == call[e].remote
        behind == Len(remote.head) < Len(call[e].local)
    IN
    /\ call[e].pc = "decide"
    /\ \/ ~Committed(remote) /\ SetCall(e, Checkpoint(e))
       \/ /\ Committed(remote) /\ remote.head = call[e].local
          /\ SetCall(e, Receipt(e, remote))
       \/ /\ Committed(remote) /\ remote.head # call[e].local /\ ~behind
          /\ SetCall(e, Again(e))
       \/ Committed(remote) /\ behind /\ TakesSegment(e) /\ SetCall(e, NextSegment(e))
       \/ Committed(remote) /\ behind /\ ~TakesSegment(e) /\ SetCall(e, Checkpoint(e))
    /\ UNCHANGED <<Local, objects, manifest, faults>>

\* putIfAbsent of the new segment, or of the snapshot when there is none.
Uploaded(e) ==
    LET m == call[e].next
    IN  objects \cup {IF m.batches = << >> THEN m.snapshot ELSE m.batches[Len(m.batches)]}
Put(e) ==
    /\ call[e].pc = "put"
    /\ objects' = Uploaded(e)
    /\ SetCall(e, [call[e] EXCEPT !.pc = "publish"])
    /\ UNCHANGED <<Local, manifest, faults>>

\* replaceManifest: under the store's lock the manifest is still the one that was read.
Swaps(e) == manifest = call[e].remote

Publish(e) ==
    /\ call[e].pc = "publish"
    /\ IF Swaps(e)
       THEN manifest' = call[e].next /\ SetCall(e, Receipt(e, call[e].next))
       ELSE SetCall(e, Again(e)) /\ UNCHANGED manifest
    /\ UNCHANGED <<Local, objects, faults>>

\* A request fails; an upload or a replacement may have happened all the same.
Unavailable(e) ==
    /\ call[e].pc \in {"read", "put", "publish"}
    /\ faults < MaxFaults
    /\ faults' = faults + 1
    /\ SetCall(e, Again(e))
    /\ \/ UNCHANGED <<objects, manifest>>
       \/ /\ call[e].pc = "put"
          /\ objects' = Uploaded(e)
          /\ UNCHANGED manifest
       \/ /\ call[e].pc = "publish" /\ Swaps(e)
          /\ manifest' = call[e].next
          /\ UNCHANGED objects
    /\ UNCHANGED Local

\* A call returned its receipt, is cancelled at an await, or its process dies.
Stop(e) ==
    /\ call[e].pc # "idle"
    /\ SetCall(e, NoCall)
    /\ UNCHANGED <<Local, objects, manifest, faults>>

-----------------------------------------------------------------------------
(* restoreEnvironmentMemory.                                               *)

StartRestore(e) ==
    /\ call[e].pc = "idle"
    /\ Committed(manifest) /\ Valid(manifest)
    /\ SetCall(e, [NoCall EXCEPT !.pc = "load", !.remote = manifest])
    /\ UNCHANGED <<Local, objects, manifest, faults>>

\* restoreWithReplay: one transaction, into an empty destination only.
Load(e) ==
    /\ call[e].pc = "load"
    /\ IF journal[e] = << >>
       THEN /\ journal' = [journal EXCEPT ![e] = call[e].remote.head]
            /\ base' = [base EXCEPT ![e] = Len(call[e].remote.snapshot.to)]
       ELSE UNCHANGED Local
    /\ SetCall(e, NoCall)
    /\ UNCHANGED <<objects, manifest, faults>>

\* restoreSnapshot: an exported snapshot of some database, perhaps an old one.
RestoreFile(e) ==
    /\ journal[e] = << >>
    /\ \E o \in Engine \ {e} : \E k \in 1..Len(journal[o]) :
        /\ journal' = [journal EXCEPT ![e] = UpTo(journal[o], k)]
        /\ base' = [base EXCEPT ![e] = k]
    /\ UNCHANGED <<objects, manifest, call, faults>>

-----------------------------------------------------------------------------
Replicate(e) ==
    \/ Observe(e) \/ ReadManifest(e) \/ Decide(e) \/ Put(e) \/ Publish(e)
    \/ Unavailable(e) \/ Stop(e)
Restore(e) == StartRestore(e) \/ Load(e) \/ RestoreFile(e)

Next == \E e \in Engine : AppendEvent(e) \/ Replicate(e) \/ Restore(e)

Spec == Init /\ [][Next]_vars

-----------------------------------------------------------------------------
(* Properties.                                                             *)

\* Whoever reads the store at any moment finds a manifest that validates: its objects
\* are there and lead from the snapshot to the head without a gap, although uploads,
\* local appends, crashes and rival writers interleave.
ManifestWhole == Committed(manifest) => Verified(manifest)

\* A receipt is true when it is returned and stays true: the history it calls replicated
\* is in the remote, and it claims no more than the database had committed when it was
\* observed (pending_lag is not negative).
ReceiptsHonest == \A e \in Engine : call[e].pc = "done" =>
    /\ Extends(call[e].next.head, manifest.head)
    /\ Extends(call[e].next.head, call[e].local)

\* What is published and what is reported are both true.
ReplicationTrue == ManifestWhole /\ ReceiptsHonest

\* The remote history is append-only: the replication implements the abstract log.
Remote == INSTANCE RemoteLog WITH log <- manifest.head
RemoteIsLog == Remote!Spec

=============================================================================

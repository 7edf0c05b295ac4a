------------------------------ MODULE RunStore ------------------------------
(***************************************************************************)
(* The authoritative manifest of one run (progress.json) and the three     *)
(* locks around it: the execution lease with its guard, and the mirror     *)
(* mutex that orders compare-and-swap commits (src/store.ts,               *)
(* src/ownership.ts).  A client is a tool call in a process of its own: it *)
(* executes the run (load, take the lease, save again and again), mutates  *)
(* it (take the lease, load, save) or only loads it.                       *)
(*                                                                         *)
(* The guard and the mirror are the mutex of FilesystemMutex, taken as the *)
(* Lock it implements: one holder, and a dead one can be replaced.  The    *)
(* lease is not: it is taken over as soon as it has expired, whether its   *)
(* holder lives or not, and every fenced commit must notice.  Each action  *)
(* is a file operation; lock files are written whole.                      *)
(***************************************************************************)
EXTENDS Naturals, FiniteSets

CONSTANTS
    Client,     \* tool calls, each in its own process
    Nobody,
    MaxRevision \* bound: no save is started on a later revision

ASSUME ClientAssumption ==
    /\ Nobody \notin Client
    /\ MaxRevision \in Nat

VARIABLES
    up,        \* clients whose process runs
    guard,     \* execution.lock.guard: its holder
    mirror,    \* the mirror mutex: its holder
    lease,     \* execution.lock
    manifest,  \* progress.json
    backup,    \* progress.json.bak
    staged,    \* the copy of the manifest a commit keeps for the backup
    unlinked,  \* whose session sidecar belongs to an attempt without session id
    op,        \* what a client was called for
    pc,        \* where it is
    goal,      \* what it takes the guard for
    copy,      \* the run state it loaded and changes
    handle     \* its RunLock handle; "lost": it will only be released

vars == <<up, guard, mirror, lease, manifest, backup, staged, unlinked, op, pc, goal, copy, handle>>

\* The changes a state of the run contains, and its revision.
Version == [revision : Nat, changes : SUBSET (Client \X Nat)]
Created == [revision |-> 0, changes |-> {}]
NoLease == [by |-> Nobody, expired |-> FALSE]
Lease == [by : Client \cup {Nobody}, expired : BOOLEAN]

Op == {"none", "run", "mutate", "load"}
Goal == {"none", "acquire", "save", "renew", "release"}
\* The save of a fenced client and of the reconciliation a load may make.
Saving == {"mirror", "compare", "stage", "fence", "rename", "backup", "unmirror"}
PC == {"out", "load", "guard", "guarded", "work", "unguard"} \cup Saving
Handle == {"none", "held", "lost", "released"}

TypeOK ==
    /\ up \in SUBSET Client
    /\ guard \in Client \cup {Nobody}
    /\ mirror \in Client \cup {Nobody}
    /\ lease \in Lease
    /\ manifest \in Version
    /\ backup \in Version
    /\ staged \in [Client -> Version]
    /\ unlinked \in Client \cup {Nobody}
    /\ op \in [Client -> Op]
    /\ pc \in [Client -> PC]
    /\ goal \in [Client -> Goal]
    /\ copy \in [Client -> Version]
    /\ handle \in [Client -> Handle]

Init ==
    /\ up = Client
    /\ guard = Nobody
    /\ mirror = Nobody
    /\ lease = NoLease
    /\ manifest = Created
    /\ backup = Created
    /\ staged = [c \in Client |-> Created]
    /\ unlinked = Nobody
    /\ op = [c \in Client |-> "none"]
    /\ pc = [c \in Client |-> "out"]
    /\ goal = [c \in Client |-> "none"]
    /\ copy = [c \in Client |-> Created]
    /\ handle = [c \in Client |-> "none"]

files == <<lease, manifest, backup, staged, unlinked>>
locks == <<guard, mirror>>

\* A lock is free, or its holder is dead and its lease has run out.
CanTake(lock) == lock = Nobody \/ lock \notin up
Goto(c, where) == pc' = [pc EXCEPT ![c] = where]
For(c, what) == goal' = [goal EXCEPT ![c] = what]
SetHandle(c, h) == handle' = [handle EXCEPT ![c] = h]
Keep(c, r) == copy' = [copy EXCEPT ![c] = r]
\* The call is over, and with it the state it had in memory.
Ends(c) ==
    /\ op' = [op EXCEPT ![c] = "none"]
    /\ Goto(c, "out")
    /\ For(c, "none")
    /\ Keep(c, Created)

\* A call that fails while it has a handle releases it; without one it ends.
Fails(c) ==
    IF handle[c] \in {"held", "lost"}
    THEN Goto(c, "guard") /\ For(c, "release") /\ SetHandle(c, "released")
         /\ UNCHANGED <<op, copy>>
    ELSE Ends(c) /\ UNCHANGED handle

-----------------------------------------------------------------------------
(* Calls and loads.                                                        *)

\* alg_run and alg_resume load before executeRun takes the lease; an owned
\* mutation takes the lease first; a status call only loads.
Call(c) ==
    /\ c \in up
    /\ op[c] = "none"
    /\ \/ \E what \in {"run", "load"} :
            op' = [op EXCEPT ![c] = what] /\ Goto(c, "load") /\ For(c, "none")
       \/ op' = [op EXCEPT ![c] = "mutate"] /\ Goto(c, "guard") /\ For(c, "acquire")
    /\ UNCHANGED <<up, locks, files, copy, handle>>

\* Where a call goes on once it has its state r.
AfterLoad(c, r) ==
    \/ op[c] = "run" /\ Goto(c, "guard") /\ For(c, "acquire") /\ Keep(c, r) /\ UNCHANGED op
    \/ op[c] = "mutate" /\ Goto(c, "work") /\ Keep(c, r) /\ UNCHANGED <<op, goal>>
    \/ op[c] = "load" /\ Ends(c)

\* loadRunForOwner reads under the mirror mutex.  A session it recovers from a
\* sidecar is saved before it returns, by persistRun, without the lease.
LoadRun(c) ==
    /\ pc[c] = "load"
    /\ CanTake(mirror)
    /\ IF unlinked # Nobody
       THEN Goto(c, "mirror") /\ Keep(c, manifest) /\ UNCHANGED <<op, goal>>
       ELSE AfterLoad(c, manifest)
    /\ UNCHANGED <<up, locks, files, handle>>

LoadDenied(c) ==
    /\ pc[c] = "load"
    /\ ~CanTake(mirror)
    /\ Fails(c)
    /\ UNCHANGED <<up, locks, files>>

-----------------------------------------------------------------------------
(* The execution guard and the lease.                                      *)

TakeGuard(c) ==
    /\ pc[c] = "guard"
    /\ CanTake(guard)
    /\ guard' = c
    /\ Goto(c, "guarded")
    /\ UNCHANGED <<up, mirror, files, op, goal, copy, handle>>

\* The wait is over: the call fails, a heartbeat counts the lease as lost, a release
\* leaves the file to its expiry.
GuardDenied(c) ==
    /\ pc[c] = "guard"
    /\ ~CanTake(guard)
    /\ \/ goal[c] = "renew" /\ Goto(c, "work") /\ For(c, "none") /\ SetHandle(c, "lost")
                            /\ UNCHANGED <<op, copy>>
       \/ goal[c] = "release" /\ Ends(c) /\ SetHandle(c, "none")
       \/ goal[c] \in {"acquire", "save"} /\ Fails(c)
    /\ UNCHANGED <<up, locks, files>>

MayTake(c) == lease.by = Nobody \/ lease.expired

\* acquireRunLock: no lease, or one that has expired and is renamed away.
AcquireLease(c) ==
    /\ pc[c] = "guarded" /\ goal[c] = "acquire"
    /\ IF MayTake(c)
       THEN lease' = [by |-> c, expired |-> FALSE] /\ SetHandle(c, "held")
       ELSE UNCHANGED <<lease, handle>>
    /\ Goto(c, "unguard")
    /\ UNCHANGED <<up, locks, manifest, backup, staged, unlinked, op, goal, copy>>

\* assertHeld. Mutant: the handle is believed and the file not read.
HeldInMemory(c) == handle[c] = "held"
Held(c) == handle[c] = "held" /\ lease.by = c /\ ~lease.expired

RenewLease(c) ==
    /\ pc[c] = "guarded" /\ goal[c] = "renew"
    /\ IF Held(c) THEN lease' = [by |-> c, expired |-> FALSE] /\ UNCHANGED handle
       ELSE SetHandle(c, "lost") /\ UNCHANGED lease
    /\ Goto(c, "unguard")
    /\ UNCHANGED <<up, locks, manifest, backup, staged, unlinked, op, goal, copy>>

RemoveLease(c) ==
    /\ pc[c] = "guarded" /\ goal[c] = "release"
    /\ lease' = IF lease.by = c THEN NoLease ELSE lease
    /\ SetHandle(c, "none")
    /\ Goto(c, "unguard")
    /\ UNCHANGED <<up, locks, manifest, backup, staged, unlinked, op, goal, copy>>

\* runCommitFenced: the first assertion, under the guard that stays held.
EnterFence(c) ==
    /\ pc[c] = "guarded" /\ goal[c] = "save"
    /\ IF Held(c) THEN Goto(c, "mirror") /\ UNCHANGED handle
       ELSE Goto(c, "unguard") /\ SetHandle(c, "lost")
    /\ UNCHANGED <<up, locks, files, op, goal, copy>>

\* A save that failed ends the call; an owned mutation saves once.
GivesUp(c) == goal[c] = "save" /\ (handle[c] = "lost" \/ op[c] = "mutate")
\* The guard is dropped, and the call goes on by what it held the guard for.
DropGuard(c) ==
    /\ pc[c] = "unguard"
    /\ guard' = IF guard = c THEN Nobody ELSE guard
    /\ \/ handle[c] = "none" /\ Ends(c) /\ UNCHANGED handle
       \/ /\ handle[c] # "none" /\ GivesUp(c)
          /\ Goto(c, "guard") /\ For(c, "release") /\ SetHandle(c, "released")
          /\ UNCHANGED <<op, copy>>
       \/ /\ handle[c] # "none" /\ ~GivesUp(c)
          /\ Goto(c, IF op[c] = "mutate" /\ goal[c] = "acquire" THEN "load" ELSE "work")
          /\ For(c, "none")
          /\ UNCHANGED <<op, copy, handle>>
    /\ UNCHANGED <<up, mirror, files>>

-----------------------------------------------------------------------------
(* What a holder does.                                                     *)

\* The state is changed in memory and saved; a child's sidecar is written first.
Save(c) ==
    /\ pc[c] = "work"
    /\ copy[c].revision < MaxRevision
    /\ \/ op[c] = "run" /\ unlinked' = c
       \/ UNCHANGED unlinked
    /\ Goto(c, "guard") /\ For(c, "save")
    /\ UNCHANGED <<up, locks, lease, manifest, backup, staged, op, copy, handle>>

Heartbeat(c) ==
    /\ pc[c] = "work" /\ handle[c] = "held"
    /\ Goto(c, "guard") /\ For(c, "renew")
    /\ UNCHANGED <<up, locks, files, op, copy, handle>>

Release(c) ==
    /\ pc[c] = "work"
    /\ Goto(c, "guard") /\ For(c, "release")
    /\ SetHandle(c, "released")
    /\ UNCHANGED <<up, locks, files, op, copy>>

-----------------------------------------------------------------------------
(* persistRunInternal.                                                     *)

\* A save that fails before its commit lets go of the mirror and of the guard.
Fenced(c) == goal[c] = "save"
Aborts(c) ==
    IF Fenced(c) THEN Goto(c, "unguard") /\ SetHandle(c, "lost") /\ UNCHANGED <<op, goal, copy>>
    ELSE Fails(c)

TakeMirror(c) ==
    /\ pc[c] = "mirror"
    /\ CanTake(mirror)
    /\ mirror' = c
    /\ Goto(c, "compare")
    /\ UNCHANGED <<up, guard, files, op, goal, copy, handle>>

MirrorDenied(c) ==
    /\ pc[c] = "mirror"
    /\ ~CanTake(mirror)
    /\ Aborts(c)
    /\ UNCHANGED <<up, locks, files>>

\* Mutant: the revision is not compared.
CompareNothing(c) ==
    /\ pc[c] = "compare"
    /\ Goto(c, "stage")
    /\ UNCHANGED <<up, locks, files, op, goal, copy, handle>>

\* The manifest is read again and its revision compared; then the immutable
\* objects and the derived files are written.
Compare(c) ==
    /\ pc[c] = "compare"
    /\ IF manifest.revision = copy[c].revision
       THEN Goto(c, "stage") /\ UNCHANGED <<mirror, op, goal, copy, handle>>
       ELSE Aborts(c) /\ mirror' = Nobody
    /\ UNCHANGED <<up, guard, files>>

\* Mutant: what is staged is the state about to be written.
StageCopy(c) ==
    /\ pc[c] = "stage"
    /\ staged' = [staged EXCEPT ![c] =
         [copy[c] EXCEPT !.revision = @ + 1, !.changes = @ \cup {<<c, copy[c].revision + 1>>}]]
    /\ Goto(c, "fence")
    /\ UNCHANGED <<up, locks, lease, manifest, backup, unlinked, op, goal, copy, handle>>

\* atomicWriteFile: the current manifest is copied aside.
Stage(c) ==
    /\ pc[c] = "stage"
    /\ staged' = [staged EXCEPT ![c] = manifest]
    /\ Goto(c, "fence")
    /\ UNCHANGED <<up, locks, lease, manifest, backup, unlinked, op, goal, copy, handle>>

\* The last assertions before the replacement.
CommitFence(c) ==
    /\ pc[c] = "fence"
    /\ IF Fenced(c) => Held(c)
       THEN Goto(c, "rename") /\ UNCHANGED <<mirror, op, goal, copy, handle>>
       ELSE Aborts(c) /\ mirror' = Nobody
    /\ UNCHANGED <<up, guard, files>>

\* renameSync(temporary, progress.json) and the copyback into the caller's state,
\* which knows of its own child's session, or of the one a load has recovered.
Replace(c) ==
    LET next == copy[c].revision + 1
        saved == [revision |-> next, changes |-> copy[c].changes \cup {<<c, next>>}]
    IN
    /\ pc[c] = "rename"
    /\ manifest' = saved
    /\ Keep(c, saved)
    /\ unlinked' = IF Fenced(c) /\ unlinked # c THEN unlinked ELSE Nobody
    /\ Goto(c, "backup")
    /\ UNCHANGED <<up, locks, lease, backup, staged, op, goal, handle>>

\* The staged manifest becomes the backup; a failure leaves the old backup.
RotateBackup(c) ==
    /\ pc[c] = "backup"
    /\ backup' \in {staged[c], backup}
    /\ staged' = [staged EXCEPT ![c] = Created]
    /\ Goto(c, "unmirror")
    /\ UNCHANGED <<up, locks, lease, manifest, unlinked, op, goal, copy, handle>>

DropMirror(c) ==
    /\ pc[c] = "unmirror"
    /\ mirror' = IF mirror = c THEN Nobody ELSE mirror
    /\ IF Fenced(c) THEN Goto(c, "unguard") /\ UNCHANGED <<op, goal, copy>>
       ELSE AfterLoad(c, copy[c])
    /\ UNCHANGED <<up, guard, files, handle>>

-----------------------------------------------------------------------------
(* Time and crashes.                                                       *)

LeaseExpires ==
    /\ lease.by # Nobody /\ ~lease.expired
    /\ lease' = [lease EXCEPT !.expired = TRUE]
    /\ UNCHANGED <<up, locks, manifest, backup, staged, unlinked, op, pc, goal, copy, handle>>

Crash(c) ==
    /\ c \in up
    /\ up' = up \ {c}
    /\ Ends(c)
    /\ SetHandle(c, "none")
    /\ staged' = [staged EXCEPT ![c] = Created]
    /\ UNCHANGED <<locks, lease, manifest, backup, unlinked>>

-----------------------------------------------------------------------------
LeaseStep(c) ==
    \/ TakeGuard(c) \/ GuardDenied(c) \/ AcquireLease(c) \/ RenewLease(c) \/ RemoveLease(c)
    \/ EnterFence(c) \/ DropGuard(c)
SaveStep(c) ==
    \/ TakeMirror(c) \/ MirrorDenied(c) \/ Compare(c) \/ Stage(c) \/ CommitFence(c) \/ Replace(c)
    \/ RotateBackup(c) \/ DropMirror(c)
Proceed(c) == LoadRun(c) \/ LoadDenied(c) \/ LeaseStep(c) \/ SaveStep(c)
Work(c) == Save(c) \/ Heartbeat(c) \/ Release(c)

Next ==
    \/ \E c \in Client : Call(c) \/ Proceed(c) \/ Work(c) \/ Crash(c)
    \/ LeaseExpires

Spec == Init /\ [][Next]_vars

-----------------------------------------------------------------------------
(* Properties.                                                             *)

\* No update is lost: every commit contains everything the manifest held before it,
\* whoever lost its lease, crashed or loaded its state long ago.
NothingLost == [][
    /\ manifest.changes \subseteq manifest'.changes
    /\ manifest'.revision = manifest.revision + 1]_manifest

\* A client that lost its lease to another one commits nothing any more: at the moment
\* of a fenced replacement the lease still names the client that makes it, though it
\* may have expired since it was asserted.
FenceHolds == \A c \in Client : pc[c] = "rename" /\ Fenced(c) => lease.by = c

\* The backup is a committed earlier state of the run, never a newer or a foreign one.
BackupIsEarlier ==
    /\ backup.changes \subseteq manifest.changes
    /\ backup.revision < manifest.revision \/ manifest = Created
=============================================================================

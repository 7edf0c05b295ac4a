-------------------------- MODULE FilesystemMutex --------------------------
(***************************************************************************)
(* The cross-process mutex of src/filesystem-mutex.ts: a record file that  *)
(* names its holder, changed only under a second, short-lived claim file   *)
(* (<mutex>.takeover).  Both files are created exclusively; one whose      *)
(* lease has expired and whose owner is proved dead may be renamed away.   *)
(*                                                                         *)
(* One process makes its calls one at a time and each is synchronous, so   *)
(* an action is one file-system operation, and processes interleave        *)
(* between any two of them.  A token is abstracted to the process that     *)
(* wrote it: a process has at most one mutex and one claim at a path.      *)
(* Leases expire at any moment.  A dead process is never restarted under   *)
(* the same pid; remote hosts and failing file operations are left out.    *)
(***************************************************************************)
EXTENDS Naturals, FiniteSets

CONSTANTS
    Proc,         \* processes (pids of one host) that use the mutex
    Nobody,       \* the owner of an absent file
    MayDie,       \* bound: the processes that may crash
    DieInClaim,   \* whether a crash may hit a process that owns the claim
    Survivors     \* bound: the processes such a crash may leave running

ASSUME ProcAssumption ==
    /\ Nobody \notin Proc
    /\ MayDie \subseteq Proc
    /\ DieInClaim \in BOOLEAN
    /\ Survivors \in Nat

VARIABLES
    up,       \* processes that run: isPidAlive
    mutex,    \* the record file at path
    claim,    \* the claim file at path.takeover
    job,      \* the operation a process performs
    pc,       \* where it is in that operation
    seen,     \* the owner it read before confirming a takeover
    handle    \* its FilesystemMutex handle

vars == <<up, mutex, claim, job, pc, seen, handle>>

\* A lock file; `whole` once its record is written, `expired` by expires_at.
File == [by : Proc \cup {Nobody}, whole : BOOLEAN, expired : BOOLEAN]
NoFile == [by |-> Nobody, whole |-> FALSE, expired |-> FALSE]
Created(p) == [by |-> p, whole |-> FALSE, expired |-> FALSE]
Written(p) == [by |-> p, whole |-> TRUE, expired |-> FALSE]
Exists(file) == file.by # Nobody

Job == {"none", "acquire", "renew", "release"}
Claiming == {"wants", "staleClaim", "renameClaim"}
InSection == {"writeClaim", "claimed", "staleMutex", "renameMutex", "create",
              "writeMutex", "commit", "unclaim", "dropClaim"}
PC == {"out"} \cup Claiming \cup InSection
Handle == {"none", "held", "lost", "released"}

TypeOK ==
    /\ up \in SUBSET Proc
    /\ mutex \in File
    /\ claim \in File
    /\ job \in [Proc -> Job]
    /\ pc \in [Proc -> PC]
    /\ seen \in [Proc -> Proc \cup {Nobody}]
    /\ handle \in [Proc -> Handle]

Init ==
    /\ up = Proc
    /\ mutex = NoFile
    /\ claim = NoFile
    /\ job = [p \in Proc |-> "none"]
    /\ pc = [p \in Proc |-> "out"]
    /\ seen = [p \in Proc |-> Nobody]
    /\ handle = [p \in Proc |-> "none"]

\* mutexDisposition: a written record whose lease expired and whose owner is dead.
\* Mutant: the pid is not asked for.
StaleByLease(file) == Exists(file) /\ file.whole /\ file.expired
CanTakeOver(file) == Exists(file) /\ file.whole /\ file.expired /\ file.by \notin up

Goto(p, where) == pc' = [pc EXCEPT ![p] = where]
SetHandle(p, h) == handle' = [handle EXCEPT ![p] = h]

\* The operation of p returns or throws.
Return(p) == Goto(p, "out") /\ job' = [job EXCEPT ![p] = "none"]

-----------------------------------------------------------------------------
(* acquireTakeoverClaim.                                                   *)

\* Mutant: the claim is created without the exclusive flag.
ClaimOverwriting(p) ==
    /\ pc[p] = "wants"
    /\ claim' = Created(p)
    /\ Goto(p, "writeClaim")
    /\ UNCHANGED <<up, mutex, job, seen, handle>>

Claim(p) ==
    /\ pc[p] = "wants"
    /\ ~Exists(claim)
    /\ claim' = Created(p)
    /\ Goto(p, "writeClaim")
    /\ UNCHANGED <<up, mutex, job, seen, handle>>

\* The record goes to the created file, wherever it is by now.
WriteClaim(p) ==
    /\ pc[p] = "writeClaim"
    /\ claim' = IF claim.by = p THEN [claim EXCEPT !.whole = TRUE] ELSE claim
    /\ Goto(p, "claimed")
    /\ UNCHANGED <<up, mutex, job, seen, handle>>

ObserveStaleClaim(p) ==
    /\ pc[p] = "wants"
    /\ CanTakeOver(claim)
    /\ seen' = [seen EXCEPT ![p] = claim.by]
    /\ Goto(p, "staleClaim")
    /\ UNCHANGED <<up, mutex, claim, job, handle>>

\* The claim is not to be had: an acquire throws, a heartbeat tries again or gives
\* the mutex up for lost, a release tries again until its deadline and leaves the file.
Denied(p) ==
    \/ /\ job[p] = "acquire"
       /\ Return(p)
       /\ UNCHANGED handle
    \/ /\ job[p] = "renew"
       /\ Return(p)
       /\ \E h \in {"held", "lost"} : SetHandle(p, h)
    \/ /\ job[p] = "release"
       /\ Goto(p, "wants")
       /\ UNCHANGED <<job, handle>>
    \/ /\ job[p] = "release"
       /\ Return(p)
       /\ SetHandle(p, "none")

ClaimDenied(p) ==
    /\ pc[p] = "wants"
    /\ Exists(claim) /\ ~CanTakeOver(claim)
    /\ Denied(p)
    /\ UNCHANGED <<up, mutex, claim, seen>>

ConfirmClaim(p) ==
    /\ pc[p] = "staleClaim"
    /\ IF claim.by = seen[p] /\ CanTakeOver(claim)
       THEN Goto(p, "renameClaim") /\ UNCHANGED <<job, handle>>
       ELSE Denied(p)
    /\ UNCHANGED <<up, mutex, claim, seen>>

\* renameSync moves whatever file has the claim's name now.
RenameClaim(p) ==
    /\ pc[p] = "renameClaim"
    /\ IF Exists(claim)
       THEN claim' = NoFile /\ Goto(p, "wants") /\ UNCHANGED <<job, handle>>
       ELSE Denied(p) /\ UNCHANGED claim
    /\ UNCHANGED <<up, mutex, seen>>

\* The claim is dropped if it is still the created file: a look, then a removal.
Unclaim(p) ==
    /\ pc[p] = "unclaim"
    /\ IF claim.by = p THEN Goto(p, "dropClaim") /\ UNCHANGED job ELSE Return(p)
    /\ UNCHANGED <<up, mutex, claim, seen, handle>>

DropClaim(p) ==
    /\ pc[p] = "dropClaim"
    /\ claim' = NoFile
    /\ Return(p)
    /\ UNCHANGED <<up, mutex, seen, handle>>

-----------------------------------------------------------------------------
(* acquireFilesystemMutex.                                                 *)

\* Mutant: any record at the path is contention.
AcquireIfAbsent(p) ==
    /\ p \in up
    /\ job[p] = "none" /\ handle[p] = "none"
    /\ ~Exists(mutex)
    /\ job' = [job EXCEPT ![p] = "acquire"]
    /\ Goto(p, "wants")
    /\ UNCHANGED <<up, mutex, claim, seen, handle>>

\* The look before the claim: a verified live record is contention at once.
StartAcquire(p) ==
    /\ p \in up
    /\ job[p] = "none" /\ handle[p] = "none"
    /\ ~Exists(mutex) \/ ~mutex.whole \/ CanTakeOver(mutex)
    /\ job' = [job EXCEPT ![p] = "acquire"]
    /\ Goto(p, "wants")
    /\ UNCHANGED <<up, mutex, claim, seen, handle>>

\* The look under the claim.
Inspect(p) ==
    /\ pc[p] = "claimed" /\ job[p] = "acquire"
    /\ Goto(p, IF ~Exists(mutex) THEN "create"
               ELSE IF CanTakeOver(mutex) THEN "staleMutex" ELSE "unclaim")
    /\ seen' = [seen EXCEPT ![p] = mutex.by]
    /\ UNCHANGED <<up, mutex, claim, job, handle>>

ConfirmMutex(p) ==
    /\ pc[p] = "staleMutex"
    /\ Goto(p, IF mutex.by = seen[p] /\ CanTakeOver(mutex) THEN "renameMutex" ELSE "unclaim")
    /\ UNCHANGED <<up, mutex, claim, job, seen, handle>>

RenameMutex(p) ==
    /\ pc[p] = "renameMutex"
    /\ mutex' = NoFile
    /\ Goto(p, IF Exists(mutex) THEN "create" ELSE "unclaim")
    /\ UNCHANGED <<up, claim, job, seen, handle>>

CreateMutex(p) ==
    /\ pc[p] = "create"
    /\ IF Exists(mutex) THEN Goto(p, "unclaim") /\ UNCHANGED mutex
       ELSE Goto(p, "writeMutex") /\ mutex' = Created(p)
    /\ UNCHANGED <<up, claim, job, seen, handle>>

WriteMutex(p) ==
    /\ pc[p] = "writeMutex"
    /\ mutex' = IF mutex.by = p THEN [mutex EXCEPT !.whole = TRUE] ELSE mutex
    /\ SetHandle(p, "held")
    /\ Goto(p, "unclaim")
    /\ UNCHANGED <<up, claim, job, seen>>

-----------------------------------------------------------------------------
(* The handle: heartbeat, assertHeld, release.                             *)

Heartbeat(p) ==
    /\ job[p] = "none" /\ handle[p] = "held"
    /\ job' = [job EXCEPT ![p] = "renew"]
    /\ Goto(p, "wants")
    /\ UNCHANGED <<up, mutex, claim, seen, handle>>

Release(p) ==
    /\ job[p] = "none" /\ handle[p] \in {"held", "lost"}
    /\ job' = [job EXCEPT ![p] = "release"]
    /\ SetHandle(p, "released")
    /\ Goto(p, "wants")
    /\ UNCHANGED <<up, mutex, claim, seen>>

\* A fenced section finds its record replaced or its lease expired.
AssertHeldFails(p) ==
    /\ job[p] = "none" /\ handle[p] = "held"
    /\ mutex.by # p \/ mutex.expired
    /\ SetHandle(p, "lost")
    /\ UNCHANGED <<up, mutex, claim, job, pc, seen>>

\* ownRecord, under the claim: a mutex that is not ours any more is not touched.
OwnRecord(p) ==
    /\ pc[p] = "claimed" /\ job[p] \in {"renew", "release"}
    /\ IF mutex.by = p
       THEN Goto(p, "commit") /\ UNCHANGED handle
       ELSE Goto(p, "unclaim") /\ SetHandle(p, IF job[p] = "renew" THEN "lost" ELSE "none")
    /\ UNCHANGED <<up, mutex, claim, job, seen>>

\* The rename of the renewed record over the path.
RenewCommit(p) ==
    /\ pc[p] = "commit" /\ job[p] = "renew"
    /\ mutex' = Written(p)
    /\ Goto(p, "unclaim")
    /\ UNCHANGED <<up, claim, job, seen, handle>>

ReleaseCommit(p) ==
    /\ pc[p] = "commit" /\ job[p] = "release"
    /\ mutex' = NoFile
    /\ SetHandle(p, "none")
    /\ Goto(p, "unclaim")
    /\ UNCHANGED <<up, claim, job, seen>>

-----------------------------------------------------------------------------
(* Time and crashes.                                                       *)

MutexExpires ==
    /\ Exists(mutex) /\ ~mutex.expired
    /\ mutex' = [mutex EXCEPT !.expired = TRUE]
    /\ UNCHANGED <<up, claim, job, pc, seen, handle>>

ClaimExpires ==
    /\ Exists(claim) /\ ~claim.expired
    /\ claim' = [claim EXCEPT !.expired = TRUE]
    /\ UNCHANGED <<up, mutex, job, pc, seen, handle>>

\* The process is gone; the files stay as they are.
Crash(p) ==
    /\ p \in up \cap MayDie
    /\ pc[p] \in InSection => DieInClaim /\ Cardinality(up \ {p}) <= Survivors
    /\ up' = up \ {p}
    /\ Return(p)
    /\ seen' = [seen EXCEPT ![p] = Nobody]
    /\ SetHandle(p, "none")
    /\ UNCHANGED <<mutex, claim>>

-----------------------------------------------------------------------------
ClaimStep(p) ==
    \/ Claim(p) \/ WriteClaim(p) \/ ObserveStaleClaim(p) \/ ClaimDenied(p)
    \/ ConfirmClaim(p) \/ RenameClaim(p) \/ Unclaim(p) \/ DropClaim(p)
MutexStep(p) ==
    \/ Inspect(p) \/ ConfirmMutex(p) \/ RenameMutex(p) \/ CreateMutex(p) \/ WriteMutex(p)
    \/ OwnRecord(p) \/ RenewCommit(p) \/ ReleaseCommit(p)
\* A started operation: code that runs to its end.
Operate(p) == ClaimStep(p) \/ MutexStep(p)
Use(p) == StartAcquire(p) \/ Heartbeat(p) \/ Release(p) \/ AssertHeldFails(p)

Next ==
    \/ \E p \in Proc : Operate(p) \/ Use(p) \/ Crash(p)
    \/ MutexExpires \/ ClaimExpires

Spec == Init /\ [][Next]_vars

\* A live process finishes the synchronous operation it is in, a waiter of
\* acquireFilesystemMutexAsync asks again, and clocks advance.
FairSpec ==
    /\ Spec
    /\ \A p \in Proc : WF_vars(Operate(p)) /\ WF_vars(StartAcquire(p))
    /\ WF_vars(MutexExpires) /\ WF_vars(ClaimExpires)

-----------------------------------------------------------------------------
(* Properties.                                                             *)

Holders == {p \in Proc : handle[p] = "held"}

\* At most one process holds a handle it has no reason to doubt, and its record is
\* the one at the path: an expired lease does not cost a live holder the mutex.
HolderOwnsMutex == \A p \in Holders : mutex.by = p

\* The record of a live process leaves the path only by its own release.
LiveRecordStays == [][
    (Exists(mutex) /\ mutex.by \in up /\ mutex'.by # mutex.by) => job[mutex.by] = "release"]_vars

\* The mutex implements the abstract lock.
Abstract == INSTANCE Lock WITH holders <- Holders
LockSpec == Abstract!Spec

\* The record of a crashed holder does not stay for good: while anybody is left to ask, the
\* mutex is taken over in the end, unless a process died between creating a file and
\* writing its record: such a file has no owner that could be found dead.
Ownerless(file) == Exists(file) /\ ~file.whole /\ file.by \notin up
DeadHolderReplaced == \A p \in Proc :
    (mutex.by = p /\ p \notin up) ~>
        (mutex.by # p \/ up = {} \/ Ownerless(mutex) \/ Ownerless(claim))

-----------------------------------------------------------------------------
(* What comments and documents say and the code does not do.               *)

\* src/filesystem-mutex.ts:246-247 "Exclusive creation and token verification
\* serialize mutations": one live process at a time is inside the claimed section.
ClaimSerializes == \A p, q \in Proc : pc[p] \in InSection /\ pc[q] \in InSection => p = q
=============================================================================

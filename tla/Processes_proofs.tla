-------------------------- MODULE Processes_proofs --------------------------
(***************************************************************************)
(* The mutex, the shell gate and the native helper for every set of        *)
(* processes, plugin processes and directories: the holder owns the mutex, *)
(* which is the abstract Lock; an answer that claims success is true, one  *)
(* without termination_failed leaves nothing of the command; and a helper  *)
(* is neither deleted under a gate nor forgotten.                          *)
(***************************************************************************)
EXTENDS Processes, TLAPS

-----------------------------------------------------------------------------
(* The mutex, as long as no process dies while it owns the claim.          *)

-----------------------------------------------------------------------------
(* The inductive invariant.                                                *)

\* The claim file is there exactly while a live process is in the section it guards.
ClaimGuards ==
    /\ \A p \in Proc : pc[p] \in InSection => claim.by = p
    /\ Exists(claim) => claim.by \in up /\ pc[claim.by] \in InSection

\* So nobody ever sees a claim it may rename away.
NoClaimTakeover == \A p \in Proc : pc[p] \notin {"staleClaim", "renameClaim"}

\* A dead process does nothing and holds nothing.
DeadAreOut == \A p \in Proc \ up : pc[p] = "out" /\ handle[p] = "none"

\* What each place in an operation says about the operation and its handle.
PlacesFit == \A p \in Proc :
    /\ pc[p] \in {"staleMutex", "renameMutex", "create", "writeMutex"} => job[p] = "acquire"
    /\ pc[p] = "commit" => job[p] \in {"renew", "release"}
    /\ pc[p] = "out" <=> job[p] = "none"
    /\ job[p] = "acquire" /\ pc[p] \notin {"unclaim", "dropClaim"} => handle[p] = "none"
    /\ job[p] = "renew" /\ pc[p] = "wants" => handle[p] = "held"
    /\ job[p] = "release" => handle[p] # "held"

\* What the process in the section has learnt about the mutex stays true.
MutexAsSeen == \A p \in Proc :
    /\ pc[p] \in {"writeMutex", "commit"} => mutex.by = p
    /\ pc[p] = "renameMutex" => mutex.by \notin up
    /\ pc[p] = "create" => ~Exists(mutex)

Protected ==
    /\ ClaimGuards
    /\ NoClaimTakeover
    /\ DeadAreOut
    /\ PlacesFit
    /\ MutexAsSeen
    /\ HolderOwnsMutex

Inductive == TypeOK /\ Protected

-----------------------------------------------------------------------------
(* Typing.                                                                 *)

\* Every action of the mutex keeps its variables in their types.
LEMMA TypeStep == TypeOK /\ [Next]_vars => TypeOK'
<1> SUFFICES ASSUME TypeOK, [Next]_vars PROVE TypeOK'
  OBVIOUS
<1> USE DEF TypeOK
<1>1. ASSUME NEW p \in Proc, ClaimStep(p) PROVE TypeOK'
  <2>1. CASE Claim(p)
    BY <2>1 DEF Claim, Goto, File, Created, PC, InSection
  <2>7. CASE WriteClaim(p)
    BY <2>7 DEF WriteClaim, Goto, File, PC, InSection
  <2>8. CASE ObserveStaleClaim(p)
    BY <2>8 DEF ObserveStaleClaim, Goto, File, PC, Claiming
  <2>2. ASSUME Denied(p) PROVE /\ job' \in [Proc -> Job]
                               /\ pc' \in [Proc -> PC]
                               /\ handle' \in [Proc -> Handle]
    BY <2>2 DEF Denied, Return, Goto, SetHandle, Job, PC, Claiming, Handle
  <2>3. CASE ClaimDenied(p)
    BY <2>2, <2>3 DEF ClaimDenied
  <2>4. CASE ConfirmClaim(p)
    BY <2>2, <2>4 DEF ConfirmClaim, Goto, PC, Claiming
  <2>5. CASE RenameClaim(p)
    <3>1. CASE Exists(claim)
      <4>1. claim' = NoFile /\ UNCHANGED <<job, handle>>
        BY <2>5, <3>1 DEF RenameClaim
      <4>2. NoFile \in File
        BY DEF NoFile, File
      <4> QED
        BY <2>5, <3>1, <4>1, <4>2 DEF RenameClaim, Goto, PC, Claiming
    <3>2. CASE ~Exists(claim)
      BY <2>2, <2>5, <3>2 DEF RenameClaim
    <3> QED
      BY <3>1, <3>2
  <2>6. CASE Unclaim(p)
    BY <2>6 DEF Unclaim, Return, Goto, PC, InSection, Job
  <2>9. CASE DropClaim(p)
    BY <2>9 DEF DropClaim, Return, Goto, PC, Job, File, NoFile
  <2> QED
    BY <1>1, <2>1, <2>3, <2>4, <2>5, <2>6, <2>7, <2>8, <2>9
    DEF ClaimStep
<1>2. ASSUME NEW p \in Proc, MutexStep(p) PROVE TypeOK'
  <2>1. CASE Inspect(p) \/ ConfirmMutex(p)
    BY <2>1 DEF Inspect, ConfirmMutex, Goto, File, PC, InSection
  <2>2. CASE RenameMutex(p)
    BY <2>2 DEF RenameMutex, Goto, File, NoFile, PC, InSection
  <2>3. CASE CreateMutex(p)
    <3>1. CASE Exists(mutex)
      BY <2>3, <3>1 DEF CreateMutex, Goto, PC, InSection
    <3>2. CASE ~Exists(mutex)
      <4>1. mutex' = Created(p)
        BY <2>3, <3>2 DEF CreateMutex
      <4>2. Created(p) \in File
        BY DEF Created, File
      <4> QED
        BY <2>3, <3>2, <4>1, <4>2 DEF CreateMutex, Goto, PC, InSection
    <3> QED
      BY <3>1, <3>2
  <2>4. CASE WriteMutex(p)
    BY <2>4 DEF WriteMutex, Goto, SetHandle, File, PC, InSection, Handle
  <2>5. CASE OwnRecord(p)
    BY <2>5 DEF OwnRecord, Goto, SetHandle, PC, InSection, Handle
  <2>6. CASE RenewCommit(p)
    BY <2>6 DEF RenewCommit, Goto, File, Written, PC, InSection
  <2>7. CASE ReleaseCommit(p)
    BY <2>7 DEF ReleaseCommit, Goto, SetHandle, File, NoFile, PC, InSection, Handle
  <2> QED
    BY <1>2, <2>1, <2>2, <2>3, <2>4, <2>5, <2>6, <2>7 DEF MutexStep
<1>3. ASSUME NEW p \in Proc, Use(p) PROVE TypeOK'
  BY <1>3 DEF Use, StartAcquire, Heartbeat, Release, AssertHeldFails, Goto, SetHandle,
              PC, Claiming, Job, Handle
<1>4. ASSUME NEW p \in Proc, Crash(p) PROVE TypeOK'
  BY <1>4 DEF Crash, Return, Goto, SetHandle, PC, Job, Handle
<1>5. CASE MutexExpires \/ ClaimExpires
  BY <1>5 DEF MutexExpires, ClaimExpires, File
<1>6. CASE UNCHANGED vars
  BY <1>6 DEF vars
<1> QED
  BY <1>1, <1>2, <1>3, <1>4, <1>5, <1>6 DEF Next, Operate

\* The variables of the mutex keep their types, whoever crashes wherever.
THEOREM TypeCorrect == Spec => []TypeOK
<1>1. Init => TypeOK
  BY DEF Init, TypeOK, File, NoFile, Job, PC, Handle
<1> QED
  BY <1>1, TypeStep, PTL DEF Spec

-----------------------------------------------------------------------------
(* Exclusion.                                                              *)

\* Every step keeps the invariant, unless a process dies while it owns the claim:
\* whoever is in the section is alone there, so what it has read of the mutex is
\* still true when it acts, and it acts on nothing that belongs to a live holder.
LEMMA InductiveStep ==
  ASSUME ~DieInClaim, Inductive, [Next]_vars
  PROVE  Inductive'
<1>1. TypeOK'
  BY TypeStep DEF Inductive
<1> USE ProcAssumption DEF Inductive, Protected, TypeOK, ClaimGuards, NoClaimTakeover, DeadAreOut,
        PlacesFit, MutexAsSeen, HolderOwnsMutex, Holders, InSection, Exists, Goto, SetHandle, Return, File
<1>2. ASSUME NEW p \in Proc, Claim(p) PROVE Protected'
  BY <1>2, <1>1 DEF Claim, Created
<1>3. ASSUME NEW p \in Proc, WriteClaim(p) PROVE Protected'
  BY <1>3, <1>1 DEF WriteClaim
<1>4. ASSUME NEW p \in Proc, ObserveStaleClaim(p) PROVE Protected'
  BY <1>4, <1>1 DEF ObserveStaleClaim, CanTakeOver
<1>5. ASSUME NEW p \in Proc, ClaimDenied(p) PROVE Protected'
  <2>1. CASE job[p] = "acquire"
    BY <1>5, <1>1, <2>1 DEF ClaimDenied, Denied
  <2>2. CASE job[p] = "renew"
    BY <1>5, <1>1, <2>2 DEF ClaimDenied, Denied
  <2>3. CASE job[p] = "release"
    BY <1>5, <1>1, <2>3 DEF ClaimDenied, Denied
  <2> QED
    BY <1>5, <2>1, <2>2, <2>3 DEF ClaimDenied, Denied
<1>6. ASSUME NEW p \in Proc, ConfirmClaim(p) PROVE Protected'
  BY <1>6, <1>1 DEF ConfirmClaim, Denied
<1>7. ASSUME NEW p \in Proc, RenameClaim(p) PROVE Protected'
  BY <1>7, <1>1 DEF RenameClaim, NoFile, Denied
<1>8. ASSUME NEW p \in Proc, Unclaim(p) PROVE Protected'
  BY <1>8, <1>1 DEF Unclaim
<1>9. ASSUME NEW p \in Proc, DropClaim(p) PROVE Protected'
  BY <1>9, <1>1 DEF DropClaim, NoFile
<1>10. ASSUME NEW p \in Proc, Inspect(p) PROVE Protected'
  BY <1>10, <1>1 DEF Inspect
<1>11. ASSUME NEW p \in Proc, ConfirmMutex(p) PROVE Protected'
  BY <1>11, <1>1 DEF ConfirmMutex, CanTakeOver
<1>12. ASSUME NEW p \in Proc, RenameMutex(p) PROVE Protected'
  BY <1>12, <1>1 DEF RenameMutex, NoFile
<1>13. ASSUME NEW p \in Proc, CreateMutex(p) PROVE Protected'
  BY <1>13, <1>1 DEF CreateMutex, Created
<1>14. ASSUME NEW p \in Proc, WriteMutex(p) PROVE Protected'
  BY <1>14, <1>1 DEF WriteMutex
<1>15. ASSUME NEW p \in Proc, OwnRecord(p) PROVE Protected'
  BY <1>15, <1>1 DEF OwnRecord
<1>16. ASSUME NEW p \in Proc, RenewCommit(p) PROVE Protected'
  BY <1>16, <1>1 DEF RenewCommit, Written
<1>17. ASSUME NEW p \in Proc, ReleaseCommit(p) PROVE Protected'
  BY <1>17, <1>1 DEF ReleaseCommit, NoFile
<1>18. ASSUME NEW p \in Proc, StartAcquire(p) PROVE Protected'
  BY <1>18, <1>1 DEF StartAcquire
<1>19. ASSUME NEW p \in Proc, Heartbeat(p) PROVE Protected'
  BY <1>19, <1>1 DEF Heartbeat
<1>20. ASSUME NEW p \in Proc, Release(p) PROVE Protected'
  BY <1>20, <1>1 DEF Release
<1>21. ASSUME NEW p \in Proc, AssertHeldFails(p) PROVE Protected'
  BY <1>21, <1>1 DEF AssertHeldFails
<1>30. ASSUME NEW p \in Proc, Crash(p) PROVE Protected'
  BY <1>30, <1>1 DEF Crash
<1>31. CASE MutexExpires
  BY <1>31, <1>1 DEF MutexExpires
<1>32. CASE ClaimExpires
  BY <1>32, <1>1 DEF ClaimExpires
<1>33. CASE UNCHANGED vars
  BY <1>33, <1>1 DEF vars
<1> QED
  BY <1>1, <1>2, <1>3, <1>4, <1>5, <1>6, <1>7, <1>8, <1>9, <1>10, <1>11, <1>12, <1>13, <1>14, <1>15, <1>16, <1>17, <1>18, <1>19, <1>20, <1>21, <1>30, <1>31, <1>32, <1>33
     DEF Next, Operate, ClaimStep, MutexStep, Use

\* A free mutex with idle processes satisfies the invariant.
LEMMA InitInductive == Init => Inductive
  BY ProcAssumption
  DEF Init, Inductive, Protected, TypeOK, ClaimGuards, NoClaimTakeover, DeadAreOut, PlacesFit,
      MutexAsSeen, HolderOwnsMutex, Holders, File, NoFile, Exists, Job, PC, InSection, Handle

\* It holds in every state as long as nobody dies owning the claim.
LEMMA AlwaysInductive == ASSUME ~DieInClaim PROVE Spec => []Inductive
  BY InitInductive, InductiveStep, PTL DEF Spec

\* The holder of a handle owns the record at the path, so there is at most one: an
\* expired lease, a waiter or a takeover never costs a live process the mutex.
THEOREM MutualExclusion == ASSUME ~DieInClaim PROVE Spec => []HolderOwnsMutex
<1>1. Inductive => HolderOwnsMutex
  BY DEF Inductive, Protected
<1> QED
  BY <1>1, AlwaysInductive, PTL

\* The record of a live process changes its owner only while that process releases it.
LEMMA RecordStep ==
  ASSUME Inductive, [Next]_vars, Exists(mutex), mutex.by \in up, mutex'.by # mutex.by
  PROVE  job[mutex.by] = "release"
<1> USE DEF Inductive, Protected, MutexAsSeen, TypeOK
<1>1. ASSUME NEW p \in Proc, ClaimStep(p) \/ Use(p) \/ Crash(p) PROVE mutex' = mutex
  BY <1>1 DEF ClaimStep, Claim, WriteClaim, ObserveStaleClaim, ClaimDenied, ConfirmClaim,
              RenameClaim, Unclaim, DropClaim, Use, StartAcquire, Heartbeat, Release,
              AssertHeldFails, Crash
<1>2. ASSUME NEW p \in Proc, MutexStep(p), mutex' # mutex
      PROVE  ReleaseCommit(p)
  <2>1. ~RenameMutex(p)
    BY DEF RenameMutex
  <2>2. ~CreateMutex(p)
    BY <1>2 DEF CreateMutex, Exists
  <2>3. WriteMutex(p) => mutex'.by = mutex.by
    BY DEF WriteMutex, File
  <2>4. RenewCommit(p) => mutex'.by = mutex.by
    BY DEF RenewCommit, Written
  <2>5. ~(Inspect(p) \/ ConfirmMutex(p) \/ OwnRecord(p))
    BY <1>2 DEF Inspect, ConfirmMutex, OwnRecord
  <2> QED
    BY <1>2, <2>1, <2>2, <2>3, <2>4, <2>5 DEF MutexStep
<1>3. ~(MutexExpires \/ ClaimExpires \/ UNCHANGED vars)
  BY DEF MutexExpires, ClaimExpires, vars, File
<1> QED
  BY <1>1, <1>2, <1>3 DEF Next, Operate, ReleaseCommit

\* No takeover hits the living: the record of a live process leaves the path only
\* while that process releases it.
THEOREM LiveRecordsStay == ASSUME ~DieInClaim PROVE Spec => LiveRecordStays
<1>1. Inductive /\ [Next]_vars =>
        [(Exists(mutex) /\ mutex.by \in up /\ mutex'.by # mutex.by)
            => job[mutex.by] = "release"]_vars
  BY RecordStep
<1> QED
  BY <1>1, AlwaysInductive, PTL DEF Spec, LiveRecordStays

-----------------------------------------------------------------------------
(* The abstract lock.                                                      *)

\* Only an acquisition that has written its record adds a holder.
LEMMA HoldersStep ==
  ASSUME Inductive, [Next]_vars
  PROVE  Holders' \subseteq Holders \/ \E p \in Proc : WriteMutex(p)
<1> USE DEF Inductive, Protected, PlacesFit, TypeOK, Holders, SetHandle
<1>1. ASSUME NEW p \in Proc, Denied(p), job[p] = "renew" => handle[p] = "held"
      PROVE  Holders' \subseteq Holders
  <2>1. CASE job[p] \in {"acquire", "release"}
    BY <1>1, <2>1 DEF Denied
  <2>2. CASE job[p] = "renew"
    BY <1>1, <2>2 DEF Denied
  <2> QED
    BY <1>1, <2>1, <2>2 DEF Denied
<1>2. ASSUME NEW p \in Proc, ClaimStep(p) PROVE Holders' \subseteq Holders
  <2>1. CASE ClaimDenied(p)
    BY <1>1, <2>1 DEF ClaimDenied
  <2>2. CASE ConfirmClaim(p) \/ RenameClaim(p)
    BY <2>2 DEF ConfirmClaim, RenameClaim, NoClaimTakeover
  <2>3. CASE Claim(p) \/ WriteClaim(p) \/ ObserveStaleClaim(p) \/ Unclaim(p) \/ DropClaim(p)
    BY <2>3 DEF Claim, WriteClaim, ObserveStaleClaim, Unclaim, DropClaim
  <2> QED
    BY <1>2, <2>1, <2>2, <2>3 DEF ClaimStep
<1>3. ASSUME NEW p \in Proc, MutexStep(p), ~WriteMutex(p) PROVE Holders' \subseteq Holders
  <2>1. CASE Inspect(p) \/ ConfirmMutex(p) \/ RenameMutex(p) \/ CreateMutex(p) \/ RenewCommit(p)
    BY <2>1 DEF Inspect, ConfirmMutex, RenameMutex, CreateMutex, RenewCommit
  <2>2. CASE OwnRecord(p) \/ ReleaseCommit(p)
    BY <2>2 DEF OwnRecord, ReleaseCommit
  <2> QED
    BY <1>3, <2>1, <2>2 DEF MutexStep
<1>4. ASSUME NEW p \in Proc, Use(p) \/ Crash(p) PROVE Holders' \subseteq Holders
  BY <1>4 DEF Use, StartAcquire, Heartbeat, Release, AssertHeldFails, Crash
<1>5. CASE MutexExpires \/ ClaimExpires \/ UNCHANGED vars
  BY <1>5 DEF MutexExpires, ClaimExpires, vars
<1> QED
  BY <1>2, <1>3, <1>4, <1>5 DEF Next, Operate

\* A step of the mutex takes the lock from nobody, gives it back, or leaves it.
LEMMA LockStep ==
  ASSUME Inductive, [Next]_vars
  PROVE  [Abstract!Next]_Holders
<1>1. \A p \in Holders : mutex.by = p
  BY DEF Inductive, Protected, HolderOwnsMutex
<1>2. CASE Holders' \subseteq Holders
  <2>1. CASE Holders' = Holders
    BY <2>1
  <2>2. CASE Holders' # Holders
    <3>1. PICK p \in Proc : p \in Holders /\ p \notin Holders'
      BY <1>2, <2>2 DEF Holders
    <3>2. Holders = {p} /\ Holders' = {}
      BY <1>1, <1>2, <3>1
    <3>3. Abstract!Leave(p)
      BY <3>2 DEF Abstract!Leave
    <3> QED
      BY <3>3 DEF Abstract!Next
  <2> QED
    BY <2>1, <2>2
<1>3. ASSUME NEW p \in Proc, WriteMutex(p) PROVE Abstract!Take(p)
  <2>1. mutex.by = p /\ handle[p] = "none"
    BY <1>3 DEF WriteMutex, Inductive, Protected, MutexAsSeen, PlacesFit
  <2>2. Holders = {}
    BY <1>1, <2>1 DEF Holders
  <2>3. Holders' = {p}
    BY <1>3, <2>2 DEF WriteMutex, SetHandle, Holders, Inductive, TypeOK
  <2> QED
    BY <2>2, <2>3 DEF Abstract!Take
<1> QED
  BY <1>2, <1>3, HoldersStep DEF Abstract!Next

\* The mutex implements the abstract lock: its handles are taken from nobody.
THEOREM ImplementsLock == ASSUME ~DieInClaim PROVE Spec => LockSpec
<1>1. Init => Abstract!Init
  BY DEF Init, Abstract!Init, Holders
<1> QED
  BY <1>1, AlwaysInductive, LockStep, PTL DEF Spec, LockSpec, Abstract!Spec

-----------------------------------------------------------------------------
(* The helper: the inductive invariant.                                    *)

Lease == [current : Dir \cup {NoDir}, building : Dir \cup {NoDir}, waiting : Nat, open : Nat,
          kids : Nat, lost : Nat, idle : BOOLEAN, janitor : BOOLEAN, retry : SUBSET Dir]
Directory == [state : {"none", "building", "whole", "changed", "partial"},
              pid : Plugin \cup {NoDir}, life : Nat]

HelperTypes ==
    /\ alive \in [Plugin -> BOOLEAN]
    /\ life \in [Plugin -> Nat]
    /\ local \in [Plugin -> Lease]
    /\ given \in [Plugin -> Dir \cup {NoDir}]
    /\ dir \in [Dir -> Directory]

\* No owner is of a process that is still to start.
OwnersStarted == \A d \in Dir, p \in Plugin : dir[d].pid = p => dir[d].life <= life[p]

FreeAreNobodys == \A d \in Dir : dir[d].state = "none" => dir[d].pid = NoDir
DeadKeepNothing == \A p \in Plugin : ~alive[p] => local[p] = Helpers!Clean

\* The directory is of the process that runs as p.
IsOf(p, ds, d) == ds[d].pid = p /\ ds[d].life = life[p]

\* A process builds one directory, or has one, and what it builds or has is its own; a gate
\* that is open, or has children, was given what the process has; what is to be deleted again
\* is the rest of a deletion; and what is whole is in use or will be deleted.
Fits(p, l, ds, g) ==
    /\ l.current = NoDir \/ l.building = NoDir
    /\ l.building # NoDir => IsOf(p, ds, l.building) /\ ds[l.building].state = "building"
    /\ l.current # NoDir => IsOf(p, ds, l.current) /\ ds[l.current].state \in {"whole", "changed"}
    /\ l.open + l.kids > 0 => l.current # NoDir /\ g = l.current
    /\ l.waiting > 0 <=> l.building # NoDir
    /\ \A d \in l.retry : ds[d].state = "partial"
    /\ \A d \in Dir : IsOf(p, ds, d) /\ ds[d].state = "whole" =>
          l.current = d /\ (Helpers!Idles(l) => l.idle)
OneRetries == \A p, q \in Plugin : p # q => local[p].retry \cap local[q].retry = {}

Tracked ==
    /\ HelperTypes
    /\ OwnersStarted
    /\ FreeAreNobodys
    /\ DeadKeepNothing
    /\ \A p \in Plugin : alive[p] => Fits(p, local[p], dir, given[p])
    /\ OneRetries

LEMMA Stands == Tracked => Helpers!HelperStands /\ Helpers!IdleIsScheduled
BY DEF Tracked, Fits, IsOf, HelperTypes, Lease, Helpers!HelperStands, Helpers!IdleIsScheduled, Helpers!Exact

-----------------------------------------------------------------------------
(* The parts of a step.                                                    *)

\* What p does to the directories of the others: nothing, but for the rests of them and for
\* those whose owner is gone.
Spares(p) == \A d \in Dir : \A q \in Plugin \ {p} :
    /\ (alive[q] /\ IsOf(q, dir, d) /\ (dir[d].state # "partial" \/ dir'[d].state = "whole")) =>
          dir'[d] = dir[d]
    /\ d \in local[q].retry => dir'[d] = dir[d]
\* It makes a directory its own, frees it or leaves its owner alone.
OwnersMove(p) == \A d \in Dir :
    \/ dir'[d].pid = dir[d].pid /\ dir'[d].life = dir[d].life
    \/ dir'[d] = Helpers!NoOwner
    \/ dir'[d].pid = p /\ dir'[d].life = life[p]
FreesKept == \A d \in Dir : dir'[d].state = "none" => dir'[d].pid = NoDir

\* A step of a process that runs on.
LEMMA OwnStep ==
  ASSUME Tracked, NoDir \notin Plugin, NEW p \in Plugin, alive[p],
         NEW l \in Lease, NEW g \in Dir \cup {NoDir},
         local' = [local EXCEPT ![p] = l], given' = [given EXCEPT ![p] = g],
         dir' \in [Dir -> Directory], UNCHANGED <<alive, life>>,
         Spares(p), OwnersMove(p), FreesKept, Fits(p, l, dir', g),
         \A q \in Plugin \ {p} : l.retry \cap local[q].retry = {}
  PROVE  Tracked'
<1>1. HelperTypes'
    BY DEF Tracked, HelperTypes
<1>2. OwnersStarted'
    BY DEF Tracked, HelperTypes, OwnersStarted, OwnersMove, Helpers!NoOwner
<1>3. FreeAreNobodys' /\ DeadKeepNothing'
    BY DEF Tracked, HelperTypes, DeadKeepNothing, FreeAreNobodys, FreesKept
<1>4. ASSUME NEW q \in Plugin, alive'[q] PROVE Fits(q, local[q], dir, given[q])'
    <2>1. CASE q = p
        BY <2>1 DEF Tracked, HelperTypes, Fits, IsOf
    <2>2. CASE q # p
        <3>1. /\ local'[q] = local[q] /\ given'[q] = given[q] /\ life' = life
              /\ Fits(q, local[q], dir, given[q]) /\ local[q] \in Lease
            BY <1>4, <2>2 DEF Tracked, HelperTypes
        <3>2. ASSUME NEW d \in Dir, IsOf(q, dir', d) PROVE IsOf(q, dir, d)
            BY <2>2, <3>2 DEF OwnersMove, IsOf, Helpers!NoOwner
        <3>3. /\ \A d \in Dir : d \in local[q].retry => dir'[d] = dir[d]
              /\ \A d \in Dir : (IsOf(q, dir, d) /\ (dir[d].state # "partial" \/ dir'[d].state = "whole"))
                                   => dir'[d] = dir[d]
            BY <1>4, <2>2 DEF Spares
        <3> QED
            BY <3>1, <3>2, <3>3 DEF Fits, IsOf, Lease
    <2> QED
        BY <2>1, <2>2
<1>5. OneRetries'
    BY DEF Tracked, HelperTypes, OneRetries
<1> QED
    BY <1>1, <1>2, <1>3, <1>4, <1>5 DEF Tracked

-----------------------------------------------------------------------------
(* The steps of the plugin processes.                                      *)

LEMMA Kept == ASSUME Tracked, NEW p \in Plugin
  PROVE given = [given EXCEPT ![p] = given[p]] /\ local = [local EXCEPT ![p] = local[p]]
BY DEF Tracked, HelperTypes

\* What the janitor sweeps is of nobody who runs.
Swept(p, swept, busy) == [d \in Dir |->
    IF d \in swept \cap busy THEN [dir[d] EXCEPT !.state = "partial"]
    ELSE IF d \in swept THEN Helpers!NoOwner ELSE dir[d]]
LEMMA SweepSpares ==
  ASSUME Tracked, NEW p \in Plugin, alive[p], NEW swept \in SUBSET Helpers!Removable(p),
         NEW busy \in SUBSET swept
  PROVE  /\ Swept(p, swept, busy) \in [Dir -> Directory]
         /\ \A d \in Dir : \A q \in Plugin : alive[q] /\ IsOf(q, dir, d) => d \notin swept
         /\ \A d \in Dir : \A q \in Plugin : d \in local[q].retry => d \notin swept
         /\ \A d \in swept : dir[d].state = "whole"
<1>1. Swept(p, swept, busy) \in [Dir -> Directory]
    BY DEF Tracked, HelperTypes, Directory, Swept, Helpers!NoOwner
<1>2. \A d \in Dir : \A q \in Plugin : alive[q] /\ IsOf(q, dir, d) => d \notin swept
    BY DEF IsOf, Helpers!Removable, Helpers!Abandoned
<1>3. \A d \in swept : dir[d].state = "whole"
    BY DEF Helpers!Removable, Helpers!Exact
<1>4. ASSUME NEW d \in Dir, NEW q \in Plugin, d \in local[q].retry PROVE d \notin swept
    <2>1. CASE alive[q]
        BY <1>3, <1>4, <2>1 DEF Tracked, Fits
    <2>2. CASE ~alive[q]
        BY <1>4, <2>2 DEF Tracked, DeadKeepNothing, Helpers!Clean
    <2> QED
        BY <2>1, <2>2
<1> QED
    BY <1>1, <1>2, <1>3, <1>4

LEMMA AcquireTracked ==
  ASSUME Tracked, NoDir \notin Dir, NoDir \notin Plugin, NEW p \in Plugin, Helpers!Acquire(p)
  PROVE  Tracked'
<1>1. PICK swept \in SUBSET Helpers!Removable(p), busy \in SUBSET Helpers!Removable(p) :
        LET l == [local[p] EXCEPT !.idle = FALSE, !.janitor = TRUE, !.retry = @ \cup (swept \cap busy)]
            left == Swept(p, swept, busy)
        IN  /\ busy \subseteq swept
            /\ \/ /\ l.current # NoDir /\ Helpers!Exact(l.current)
                  /\ \E after \in {Helpers!Opens(l), Helpers!Loses(l)} : local' = [local EXCEPT ![p] = after]
                  /\ given' = [given EXCEPT ![p] = l.current] /\ dir' = left
               \/ /\ l.current # NoDir /\ ~Helpers!Exact(l.current)
                  /\ local' = [local EXCEPT ![p] = Helpers!Scheduled(l)] /\ dir' = left /\ UNCHANGED given
               \/ /\ l.current = NoDir /\ l.building # NoDir
                  /\ local' = [local EXCEPT ![p] = [l EXCEPT !.waiting = @ + 1]]
                  /\ dir' = left /\ UNCHANGED given
               \/ /\ l.current = NoDir /\ l.building = NoDir
                  /\ \E d \in Dir : /\ dir[d].state = "none"
                                    /\ local' = [local EXCEPT ![p] = [l EXCEPT !.waiting = @ + 1, !.building = d]]
                                    /\ dir' = [left EXCEPT ![d] = [state |-> "building", pid |-> p, life |-> life[p]]]
                  /\ UNCHANGED given
    BY DEF Helpers!Acquire, Swept
<1> DEFINE l == [local[p] EXCEPT !.idle = FALSE, !.janitor = TRUE, !.retry = @ \cup (swept \cap busy)]
           left == Swept(p, swept, busy)
<1>2. /\ alive[p] /\ UNCHANGED <<alive, life>> /\ local[p] \in Lease
      /\ Fits(p, local[p], dir, given[p]) /\ busy \in SUBSET swept /\ swept \subseteq Dir
      /\ given[p] \in Dir \cup {NoDir} /\ dir \in [Dir -> Directory]
    BY <1>1 DEF Helpers!Acquire, Tracked, HelperTypes, Helpers!Removable
<1>3. l \in Lease /\ l.retry = local[p].retry \cup (swept \cap busy)
    BY <1>2 DEF Lease
<1>4. /\ left \in [Dir -> Directory]
      /\ \A d \in Dir : \A q \in Plugin : alive[q] /\ IsOf(q, dir, d) => d \notin swept
      /\ \A d \in Dir : \A q \in Plugin : d \in local[q].retry => d \notin swept
      /\ \A d \in swept : dir[d].state = "whole"
    BY <1>2, SweepSpares
<1>5. /\ \A d \in Dir \ swept : left[d] = dir[d]
      /\ \A d \in Dir : left[d].state \in {"whole", "building"} => left[d] = dir[d]
      /\ \A d \in Dir : \/ left[d] = dir[d]
                        \/ left[d] = Helpers!NoOwner
                        \/ left[d].pid = dir[d].pid /\ left[d].life = dir[d].life
      /\ \A d \in swept \cap busy : left[d].state = "partial"
      /\ \A d \in Dir : left[d].state = "none" => left[d].pid = NoDir
    <2>1. \A d \in Dir \ swept : left[d] = dir[d]
        BY DEF Swept
    <2>2. \A d \in swept \cap busy : /\ left[d].state = "partial"
                                    /\ left[d].pid = dir[d].pid /\ left[d].life = dir[d].life
        BY <1>2 DEF Swept, Directory
    <2>3. \A d \in swept \ busy : left[d] = Helpers!NoOwner
        BY <1>2 DEF Swept
    <2>4. Helpers!NoOwner.state = "none" /\ Helpers!NoOwner.pid = NoDir
        BY DEF Helpers!NoOwner
    <2>5. \A d \in Dir : dir[d].state = "none" => dir[d].pid = NoDir
        BY DEF Tracked, FreeAreNobodys
    <2> HIDE DEF left
    <2>6. swept \cap busy \subseteq Dir
        BY <1>2
    <2>7. ASSUME NEW d \in Dir
          PROVE  /\ d \notin swept => left[d] = dir[d]
                 /\ left[d].state \in {"whole", "building"} => left[d] = dir[d]
                 /\ \/ left[d] = dir[d]
                    \/ left[d] = Helpers!NoOwner
                    \/ left[d].pid = dir[d].pid /\ left[d].life = dir[d].life
                 /\ left[d].state = "none" => left[d].pid = NoDir
        <3>1. CASE d \notin swept
            BY <2>1, <2>5, <3>1
        <3>2. CASE d \in swept \cap busy
            BY <2>2, <3>2
        <3>3. CASE d \in swept \ busy
            BY <2>3, <2>4, <3>3
        <3> QED
            BY <3>1, <3>2, <3>3
    <2>8. \A d \in swept \cap busy : left[d].state = "partial"
        BY <2>2
    <2> QED
        BY <2>7, <2>8
<1>6. \A q \in Plugin \ {p} : l.retry \cap local[q].retry = {}
    <2>1. \A q \in Plugin \ {p} : local[p].retry \cap local[q].retry = {}
        BY DEF Tracked, OneRetries
    <2> QED
        BY <1>3, <1>4, <1>2, <2>1
<1>7. \A d \in l.retry : left[d].state = "partial"
    <2>1. \A d \in local[p].retry : d \in Dir /\ dir[d].state = "partial" /\ d \notin swept
        BY <1>2, <1>4 DEF Fits, Lease
    <2> QED
        BY <1>3, <1>5, <2>1
<1>8. /\ l.current = local[p].current /\ l.building = local[p].building /\ l.open = local[p].open
      /\ l.kids = local[p].kids /\ l.waiting = local[p].waiting /\ l.lost = local[p].lost
    BY <1>2 DEF Lease
<1>9. /\ \A d \in Dir : IsOf(p, left, d) /\ left[d].state = "whole" => l.current = d
      /\ \A d \in Dir : IsOf(p, dir, d) => left[d] = dir[d]
      /\ l.building # NoDir => IsOf(p, left, l.building) /\ left[l.building].state = "building"
      /\ l.current # NoDir => IsOf(p, left, l.current) /\ left[l.current].state \in {"whole", "changed"}
    BY <1>2, <1>3, <1>4, <1>5, <1>8 DEF Fits, IsOf, Lease
<1>10. l.open + l.kids > 0 => l.current # NoDir /\ given[p] = l.current
    BY <1>2, <1>8 DEF Fits
<1>11. (l.current = NoDir \/ l.building = NoDir) /\ (l.waiting > 0 <=> l.building # NoDir)
    BY <1>2, <1>8 DEF Fits
<1>12. /\ l.waiting \in Nat /\ l.open \in Nat /\ l.lost \in Nat /\ l.kids \in Nat
       /\ l.current \in Dir \cup {NoDir} /\ l.building \in Dir \cup {NoDir}
    BY <1>3 DEF Lease
<1> HIDE DEF l, left
\* What is the same in all four branches.
<1>13. ASSUME dir' = left, NEW after \in Lease, NEW g \in Dir \cup {NoDir},
              local' = [local EXCEPT ![p] = after], given' = [given EXCEPT ![p] = g],
              after.retry = l.retry, Fits(p, after, left, g)
       PROVE  Tracked'
    <2>1. Spares(p)
        BY <1>13, <1>4, <1>5 DEF Spares
    <2>2. OwnersMove(p) /\ FreesKept
        BY <1>13, <1>5 DEF OwnersMove, FreesKept
    <2> QED
        BY <1>13, <1>2, <1>4, <1>6, <2>1, <2>2, OwnStep
<1>14. CASE /\ l.current # NoDir /\ Helpers!Exact(l.current)
            /\ \E after \in {Helpers!Opens(l), Helpers!Loses(l)} : local' = [local EXCEPT ![p] = after]
            /\ given' = [given EXCEPT ![p] = l.current] /\ dir' = left
    <2>1. PICK after \in {Helpers!Opens(l), Helpers!Loses(l)} : local' = [local EXCEPT ![p] = after]
        BY <1>14
    <2>2. /\ after \in Lease /\ after.retry = l.retry /\ after.current = l.current
          /\ after.building = l.building /\ after.waiting = l.waiting
          /\ after.open + after.lost > 0
        <3>1. CASE after = [l EXCEPT !.open = @ + 1, !.kids = @ + 2]
            <4>1. l.open + 1 \in Nat /\ l.kids + 2 \in Nat /\ l.open + 1 + l.lost > 0
                BY <1>12
            <4>2. /\ after.retry = l.retry /\ after.current = l.current /\ after.lost = l.lost
                  /\ after.building = l.building /\ after.waiting = l.waiting /\ after.open = l.open + 1
                BY <1>3, <3>1 DEF Lease
            <4>3. after \in Lease
                BY <1>3, <3>1, <4>1 DEF Lease
            <4> QED
                BY <4>1, <4>2, <4>3
        <3>2. CASE after = [l EXCEPT !.lost = @ + 1]
            BY <1>3, <1>12, <3>2 DEF Lease
        <3> QED
            BY <2>1, <3>1, <3>2 DEF Helpers!Opens, Helpers!Loses
    <2>3. ~Helpers!Idles(after)
        BY <2>2 DEF Helpers!Idles, Helpers!Users, Lease
    <2>4. Fits(p, after, left, l.current)
        BY <1>7, <1>9, <1>11, <1>14, <2>2, <2>3 DEF Fits
    <2> QED
        BY <1>12, <1>13, <1>14, <2>1, <2>2, <2>4
<1>15. CASE /\ l.current # NoDir /\ ~Helpers!Exact(l.current)
            /\ local' = [local EXCEPT ![p] = Helpers!Scheduled(l)] /\ dir' = left /\ UNCHANGED given
    <2> DEFINE after == Helpers!Scheduled(l)
    <2>1. /\ after \in Lease /\ after.retry = l.retry /\ after.current = l.current
          /\ after.building = l.building /\ after.waiting = l.waiting /\ after.open = l.open
          /\ after.kids = l.kids /\ after.idle = Helpers!Idles(l) /\ after.lost = l.lost
        BY <1>3 DEF Helpers!Scheduled, Lease, Helpers!Idles
    <2>2. Helpers!Idles(after) => after.idle
        BY <2>1 DEF Helpers!Idles, Helpers!Users
    <2> HIDE DEF after
    <2>3. Fits(p, after, left, given[p])
        BY <1>7, <1>9, <1>10, <1>11, <2>1, <2>2 DEF Fits
    <2> QED
        BY <1>2, <1>13, <1>15, <2>1, <2>3, Kept DEF after
<1>16. CASE /\ l.current = NoDir /\ l.building # NoDir
            /\ local' = [local EXCEPT ![p] = [l EXCEPT !.waiting = @ + 1]]
            /\ dir' = left /\ UNCHANGED given
    <2> DEFINE after == [l EXCEPT !.waiting = @ + 1]
    <2>1. /\ after \in Lease /\ after.retry = l.retry /\ after.current = l.current
          /\ after.building = l.building /\ after.open = l.open /\ after.kids = l.kids
          /\ after.waiting = l.waiting + 1
        BY <1>3 DEF Lease
    <2> HIDE DEF after
    <2>2. Fits(p, after, left, given[p])
        BY <1>7, <1>9, <1>10, <1>11, <1>12, <1>16, <2>1 DEF Fits, Helpers!Idles
    <2> QED
        BY <1>2, <1>13, <1>16, <2>1, <2>2, Kept DEF after
<1>17. CASE /\ l.current = NoDir /\ l.building = NoDir
            /\ \E d \in Dir : /\ dir[d].state = "none"
                              /\ local' = [local EXCEPT ![p] = [l EXCEPT !.waiting = @ + 1, !.building = d]]
                              /\ dir' = [left EXCEPT ![d] = [state |-> "building", pid |-> p, life |-> life[p]]]
            /\ UNCHANGED given
    <2>1. PICK d \in Dir : /\ dir[d].state = "none"
                           /\ local' = [local EXCEPT ![p] = [l EXCEPT !.waiting = @ + 1, !.building = d]]
                           /\ dir' = [left EXCEPT ![d] = [state |-> "building", pid |-> p, life |-> life[p]]]
        BY <1>17
    <2> DEFINE after == [l EXCEPT !.waiting = @ + 1, !.building = d]
               taken == [left EXCEPT ![d] = [state |-> "building", pid |-> p, life |-> life[p]]]
    <2>2. /\ after \in Lease /\ after.retry = l.retry /\ after.current = l.current
          /\ after.building = d /\ after.open = l.open /\ after.kids = l.kids
          /\ after.waiting > 0
        <3>1. l.waiting + 1 \in Nat /\ l.waiting + 1 > 0
            BY <1>12
        <3>2. /\ after.retry = l.retry /\ after.current = l.current /\ after.waiting = l.waiting + 1
              /\ after.building = d /\ after.open = l.open /\ after.kids = l.kids
            BY <1>3 DEF Lease
        <3>3. after \in Lease
            BY <1>3, <3>1 DEF Lease
        <3> HIDE DEF after
        <3> QED
            BY <3>1, <3>2, <3>3
    <2>3. /\ taken \in [Dir -> Directory] /\ \A e \in Dir \ {d} : taken[e] = left[e]
          /\ taken[d] = [state |-> "building", pid |-> p, life |-> life[p]]
        BY <1>4 DEF Directory, Tracked, HelperTypes
    <2> HIDE DEF after, taken
    <2>4. d \notin l.retry /\ \A q \in Plugin : d \notin local[q].retry /\ ~IsOf(q, dir, d)
        <3>1. \A q \in Plugin : d \notin local[q].retry /\ ~IsOf(q, dir, d)
            BY <2>1 DEF Tracked, Fits, IsOf, FreeAreNobodys, DeadKeepNothing, Helpers!Clean
        <3> QED
            BY <1>3, <1>4, <2>1, <3>1
    <2>5. Fits(p, after, taken, given[p])
        BY <1>3, <1>7, <1>9, <1>10, <1>11, <1>17, <2>2, <2>3, <2>4 DEF Fits, IsOf, Helpers!Idles, Lease
    <2>6. Spares(p)
        BY <1>4, <1>5, <2>1, <2>3, <2>4 DEF Spares, taken
    <2>7. OwnersMove(p) /\ FreesKept
        BY <1>5, <2>1, <2>3 DEF OwnersMove, FreesKept, taken
    <2>8. /\ dir' = taken /\ local' = [local EXCEPT ![p] = after]
          /\ given' = [given EXCEPT ![p] = given[p]]
          /\ \A q \in Plugin \ {p} : after.retry \cap local[q].retry = {}
        BY <1>6, <1>17, <2>1, <2>2, Kept DEF after, taken
    <2> QED
        BY <1>2, <2>2, <2>3, <2>5, <2>6, <2>7, <2>8, OwnStep
<1> QED
    BY <1>1, <1>14, <1>15, <1>16, <1>17 DEF l, left

\* A step in which a running process goes on without changing a directory or what it gave.
LEMMA QuietStep ==
  ASSUME Tracked, NoDir \notin Plugin, NEW p \in Plugin, alive[p], NEW l \in Lease,
         local' = [local EXCEPT ![p] = l], UNCHANGED <<alive, life, given, dir>>,
         Fits(p, l, dir, given[p]), l.retry \subseteq local[p].retry
  PROVE  Tracked'
<1>1. Spares(p) /\ OwnersMove(p) /\ FreesKept
    BY DEF Spares, OwnersMove, FreesKept, Tracked, FreeAreNobodys
<1>2. \A q \in Plugin \ {p} : l.retry \cap local[q].retry = {}
    BY DEF Tracked, OneRetries
<1>3. dir' = dir /\ dir \in [Dir -> Directory] /\ given[p] \in Dir \cup {NoDir}
    BY DEF Tracked, HelperTypes
<1>4. given' = [given EXCEPT ![p] = given[p]]
    BY Kept
<1> QED
    BY <1>1, <1>2, <1>3, <1>4, OwnStep, ZenonT(30)

\* What a process that runs knows of itself.
LEMMA OwnFacts ==
  ASSUME Tracked, NEW p \in Plugin, alive[p]
  PROVE  /\ local[p] \in Lease /\ Fits(p, local[p], dir, given[p])
         /\ dir \in [Dir -> Directory] /\ given[p] \in Dir \cup {NoDir}
BY DEF Tracked, HelperTypes

\* A gate or a child of it ends: the timer is set when it was the last.
LEMMA CountsDown ==
  ASSUME Tracked, NoDir \notin Plugin, NEW p \in Plugin, Helpers!GateEnds(p) \/ Helpers!ChildCloses(p)
  PROVE  Tracked'
<1> DEFINE m == IF Helpers!GateEnds(p) THEN [local[p] EXCEPT !.open = @ - 1]
                ELSE [local[p] EXCEPT !.kids = @ - 1]
           l == Helpers!Scheduled(m)
<1>1. /\ alive[p] /\ UNCHANGED <<alive, life, given, dir>> /\ local' = [local EXCEPT ![p] = l]
      /\ Helpers!GateEnds(p) => local[p].open > 0
      /\ ~Helpers!GateEnds(p) => local[p].kids > 0
    BY DEF Helpers!GateEnds, Helpers!ChildCloses
<1>2. local[p] \in Lease /\ Fits(p, local[p], dir, given[p])
    BY <1>1, OwnFacts
<1>3. /\ m \in Lease /\ m.current = local[p].current /\ m.building = local[p].building
      /\ m.waiting = local[p].waiting /\ m.retry = local[p].retry
      /\ m.open + m.kids > 0 => local[p].open + local[p].kids > 0
    BY <1>1, <1>2 DEF Lease
<1> HIDE DEF m
<1>4. /\ l \in Lease /\ l.current = m.current /\ l.building = m.building
      /\ l.waiting = m.waiting /\ l.retry = m.retry /\ l.open = m.open /\ l.kids = m.kids
      /\ l.lost = m.lost /\ l.idle = Helpers!Idles(m)
    BY <1>3 DEF Lease, Helpers!Scheduled, Helpers!Idles
<1>5. Helpers!Idles(l) => l.idle
    BY <1>4 DEF Helpers!Idles, Helpers!Users
<1> HIDE DEF l
<1>6. Fits(p, l, dir, given[p])
    BY <1>2, <1>3, <1>4, <1>5 DEF Fits
<1> QED
    BY <1>1, <1>3, <1>4, <1>6, QuietStep

\* The compiler is done: the waiting gates are given what was built.
LEMMA BuiltTracked ==
  ASSUME Tracked, NoDir \notin Dir, NoDir \notin Plugin, NEW p \in Plugin, Helpers!Built(p)
  PROVE  Tracked'
<1> DEFINE b == local[p].building
           l == [local[p] EXCEPT !.current = b, !.building = NoDir, !.waiting = 0,
                                 !.open = @ + local[p].waiting, !.kids = @ + 2 * local[p].waiting]
           ds == Helpers!Become({b}, "whole")
<1>1. /\ alive[p] /\ b # NoDir /\ UNCHANGED <<alive, life>>
      /\ local' = [local EXCEPT ![p] = l] /\ given' = [given EXCEPT ![p] = b] /\ dir' = ds
    BY DEF Helpers!Built
<1>2. /\ local[p] \in Lease /\ Fits(p, local[p], dir, given[p]) /\ dir \in [Dir -> Directory]
      /\ b \in Dir
    BY <1>1, OwnFacts DEF Lease
<1>3. /\ l \in Lease /\ l.current = b /\ l.building = NoDir /\ l.waiting = 0
      /\ l.retry = local[p].retry /\ l.open = local[p].open + local[p].waiting
      /\ l.kids = local[p].kids + 2 * local[p].waiting /\ l.lost = local[p].lost /\ l.idle = local[p].idle
    <2>1. /\ local[p].open + local[p].waiting \in Nat
          /\ local[p].kids + 2 * local[p].waiting \in Nat
        BY <1>2 DEF Lease
    <2>2. l \in Lease
        BY <1>2, <2>1 DEF Lease
    <2>3. /\ l.current = b /\ l.building = NoDir /\ l.waiting = 0 /\ l.retry = local[p].retry
          /\ l.lost = local[p].lost /\ l.idle = local[p].idle
        BY <1>2 DEF Lease
    <2>4. /\ l.open = local[p].open + local[p].waiting
          /\ l.kids = local[p].kids + 2 * local[p].waiting
        BY <1>2 DEF Lease
    <2> QED
        BY <2>2, <2>3, <2>4
<1>4. /\ ds \in [Dir -> Directory] /\ \A d \in Dir \ {b} : ds[d] = dir[d]
      /\ ds[b].state = "whole" /\ ds[b].pid = dir[b].pid /\ ds[b].life = dir[b].life
    BY <1>2 DEF Helpers!Become, Directory
<1>5. IsOf(p, dir, b) /\ dir[b].state = "building" /\ local[p].current = NoDir
    BY <1>1, <1>2 DEF Fits
<1> HIDE DEF l, ds, b
<1>6. Fits(p, l, ds, b)
    <2>1. l.waiting = 0 /\ l.current # NoDir /\ IsOf(p, ds, b)
        BY <1>1, <1>3, <1>4, <1>5 DEF IsOf
    <2>2. ASSUME NEW d \in l.retry PROVE ds[d].state = "partial"
        BY <1>2, <1>3, <1>4, <1>5, <2>2 DEF Fits, Lease
    <2>3. ASSUME NEW d \in Dir, IsOf(p, ds, d), ds[d].state = "whole" PROVE d = b
        BY <1>2, <1>4, <1>5, <2>3 DEF Fits, IsOf
    <2>4. ~Helpers!Idles(l)
        <3>1. /\ local[p].waiting > 0 /\ local[p].waiting \in Nat /\ local[p].open \in Nat
              /\ local[p].lost \in Nat
            BY <1>1, <1>2 DEF Fits, Lease, b
        <3> QED
            BY <1>3, <3>1 DEF Helpers!Idles, Helpers!Users
    <2> QED
        BY <1>3, <1>4, <1>5, <2>1, <2>2, <2>3, <2>4 DEF Fits
<1>7. Spares(p)
    <2>1. \A q \in Plugin \ {p} : b \notin local[q].retry /\ ~IsOf(q, dir, b)
        BY <1>5 DEF Tracked, Fits, IsOf, DeadKeepNothing, Helpers!Clean
    <2> QED
        BY <1>1, <1>4, <2>1 DEF Spares
<1>8. OwnersMove(p) /\ FreesKept
    BY <1>1, <1>4 DEF OwnersMove, FreesKept, Tracked, FreeAreNobodys
<1>9. \A q \in Plugin \ {p} : l.retry \cap local[q].retry = {}
    BY <1>3 DEF Tracked, OneRetries
<1> QED
    BY <1>1, <1>2, <1>3, <1>4, <1>6, <1>7, <1>8, <1>9, OwnStep

\* What is given up: a directory is freed, or a rest of it stays.
GivesUp(d) == dir' \in {Helpers!Freed({d}), Helpers!Become({d}, "partial")}
LEMMA GivenUp ==
  ASSUME Tracked, NEW d \in Dir, GivesUp(d)
  PROVE  /\ dir' \in [Dir -> Directory] /\ \A e \in Dir \ {d} : dir'[e] = dir[e]
         /\ dir' = Helpers!Freed({d}) => dir'[d] = Helpers!NoOwner
         /\ dir' = Helpers!Become({d}, "partial") =>
               dir'[d].state = "partial" /\ dir'[d].pid = dir[d].pid /\ dir'[d].life = dir[d].life
         /\ dir'[d].state \in {"none", "partial"}
         /\ FreesKept
<1>1. dir \in [Dir -> Directory] /\ Helpers!NoOwner \in Directory
    BY DEF Tracked, HelperTypes, Directory, Helpers!NoOwner
<1>2. CASE dir' = Helpers!Freed({d})
    BY <1>1, <1>2, ZenonT(30)
    DEF Helpers!Freed, Helpers!Become, FreesKept, Tracked, FreeAreNobodys, Directory, Helpers!NoOwner
<1>3. CASE dir' = Helpers!Become({d}, "partial")
    <2>1. /\ dir' \in [Dir -> Directory] /\ \A e \in Dir \ {d} : dir'[e] = dir[e]
          /\ dir'[d] = [dir[d] EXCEPT !.state = "partial"]
        BY <1>1, <1>3 DEF Helpers!Become, Directory
    <2>2. dir'[d].state = "partial" /\ dir'[d].pid = dir[d].pid /\ dir'[d].life = dir[d].life
        BY <1>1, <2>1 DEF Directory
    <2>3. Helpers!Freed({d})[d] = Helpers!NoOwner /\ Helpers!NoOwner.state = "none"
        BY DEF Helpers!Freed, Helpers!NoOwner
    <2> QED
        BY <2>1, <2>2, <2>3 DEF FreesKept, Tracked, FreeAreNobodys
<1> QED
    BY <1>2, <1>3 DEF GivesUp

\* What p has, or has in the making, or is to delete again, is of no other running process.
LEMMA Exclusive ==
  ASSUME Tracked, NEW p \in Plugin, alive[p], NEW d \in Dir,
         \/ IsOf(p, dir, d) /\ dir[d].state # "partial"
         \/ d \in local[p].retry
         \/ dir[d].state = "none"
  PROVE  \A q \in Plugin \ {p} : d \notin local[q].retry
<1> SUFFICES ASSUME NEW q \in Plugin \ {p}, d \in local[q].retry PROVE FALSE
    OBVIOUS
<1>1. alive[q]
    BY DEF Tracked, DeadKeepNothing, Helpers!Clean
<1>2. dir[d].state = "partial"
    BY <1>1 DEF Tracked, Fits
<1> QED
    BY <1>2 DEF Tracked, OneRetries

\* A directory of p is given up by p.
LEMMA GiveUpSpares ==
  ASSUME Tracked, NEW p \in Plugin, alive[p], NEW d \in Dir, GivesUp(d),
         IsOf(p, dir, d), dir[d].state # "partial"
  PROVE  Spares(p) /\ OwnersMove(p) /\ FreesKept
<1>1. \A q \in Plugin \ {p} : d \notin local[q].retry /\ ~IsOf(q, dir, d)
    BY Exclusive DEF IsOf
<1> QED
    BY <1>1, GivenUp DEF Spares, OwnersMove, GivesUp

\* The build failed: what is left of it is nobody's.
LEMMA BuildFailsTracked ==
  ASSUME Tracked, NoDir \notin Dir, NoDir \notin Plugin, NEW p \in Plugin, Helpers!BuildFails(p)
  PROVE  Tracked'
<1> DEFINE b == local[p].building
           m == [local[p] EXCEPT !.building = NoDir, !.waiting = 0]
           l == Helpers!Scheduled(m)
<1>1. /\ alive[p] /\ b # NoDir /\ UNCHANGED <<alive, life, given>>
      /\ local' = [local EXCEPT ![p] = l] /\ GivesUp(b)
    BY DEF Helpers!BuildFails, GivesUp
<1>2. /\ local[p] \in Lease /\ Fits(p, local[p], dir, given[p]) /\ dir \in [Dir -> Directory]
      /\ b \in Dir /\ given[p] \in Dir \cup {NoDir}
    BY <1>1, OwnFacts DEF Lease
<1>3. IsOf(p, dir, b) /\ dir[b].state = "building" /\ local[p].current = NoDir
    BY <1>1, <1>2 DEF Fits
<1>4. /\ m \in Lease /\ m.current = NoDir /\ m.building = NoDir /\ m.waiting = 0
      /\ m.open = local[p].open /\ m.kids = local[p].kids /\ m.retry = local[p].retry
    BY <1>2, <1>3 DEF Lease
<1> HIDE DEF m
<1>5. /\ l \in Lease /\ l.current = NoDir /\ l.building = NoDir /\ l.waiting = 0
      /\ l.open = local[p].open /\ l.kids = local[p].kids /\ l.retry = local[p].retry
    BY <1>4 DEF Lease, Helpers!Scheduled, Helpers!Idles
<1> HIDE DEF l, b
<1>6. /\ dir' \in [Dir -> Directory] /\ \A e \in Dir \ {b} : dir'[e] = dir[e]
      /\ dir'[b].state \in {"none", "partial"}
    BY <1>1, <1>2, GivenUp
<1>7. Fits(p, l, dir', given[p])
    <2>1. ASSUME NEW d \in l.retry PROVE dir'[d].state = "partial"
        BY <1>2, <1>3, <1>5, <1>6, <2>1 DEF Fits, Lease
    <2>2. ASSUME NEW d \in Dir, IsOf(p, dir', d), dir'[d].state = "whole" PROVE FALSE
        BY <1>2, <1>3, <1>6, <2>2 DEF Fits, IsOf
    <2> QED
        BY <1>2, <1>3, <1>5, <2>1, <2>2 DEF Fits
<1>8. Spares(p) /\ OwnersMove(p) /\ FreesKept
    BY <1>1, <1>2, <1>3, GiveUpSpares
<1>9. \A q \in Plugin \ {p} : l.retry \cap local[q].retry = {}
    BY <1>5 DEF Tracked, OneRetries
<1>10. given' = [given EXCEPT ![p] = given[p]]
    BY <1>1, Kept
<1> QED
    BY <1>1, <1>2, <1>5, <1>6, <1>7, <1>8, <1>9, <1>10, OwnStep

\* The idle timer fires: only a helper without users and without children is deleted.
LEMMA IdleFiresTracked ==
  ASSUME Tracked, NoDir \notin Dir, NoDir \notin Plugin, NEW p \in Plugin, Helpers!IdleFires(p)
  PROVE  Tracked'
<1> DEFINE l == [local[p] EXCEPT !.idle = FALSE]
           c == local[p].current
<1>1. /\ alive[p] /\ UNCHANGED <<alive, life, given>>
      /\ IF Helpers!Idles(l) THEN Helpers!DeleteCurrent(p, l)
         ELSE local' = [local EXCEPT ![p] = l] /\ UNCHANGED dir
    BY DEF Helpers!IdleFires, Helpers!MayDelete
<1>2. /\ local[p] \in Lease /\ Fits(p, local[p], dir, given[p]) /\ dir \in [Dir -> Directory]
      /\ c \in Dir \cup {NoDir} /\ given[p] \in Dir \cup {NoDir}
    BY <1>1, OwnFacts DEF Lease
<1>3. /\ l \in Lease /\ l.current = c /\ l.building = local[p].building
      /\ l.waiting = local[p].waiting /\ l.open = local[p].open /\ l.kids = local[p].kids
      /\ l.retry = local[p].retry /\ l.lost = local[p].lost
    BY <1>2 DEF Lease
<1> HIDE DEF l
<1>4. ASSUME local' = [local EXCEPT ![p] = l], UNCHANGED dir,
             Helpers!Idles(l) => dir[c].state # "whole"
      PROVE  Tracked'
    <2>1. Fits(p, l, dir, given[p])
        BY <1>2, <1>3, <1>4 DEF Fits
    <2> QED
        BY <1>1, <1>3, <1>4, <2>1, QuietStep
<1>5. ASSUME Helpers!Idles(l), Helpers!Exact(c),
             NEW k \in Lease, local' = [local EXCEPT ![p] = k],
             k.current = NoDir, k.building = l.building, k.waiting = l.waiting,
             k.open = l.open, k.kids = l.kids,
             \/ dir' = Helpers!Freed({c}) /\ k.retry = l.retry
             \/ dir' = Helpers!Become({c}, "partial") /\ k.retry = l.retry \cup {c}
      PROVE  Tracked'
    <2>1. /\ c \in Dir /\ IsOf(p, dir, c) /\ dir[c].state = "whole" /\ GivesUp(c)
          /\ l.open = 0 /\ l.kids = 0
        <3>1. /\ l.current # NoDir /\ l.waiting + l.open + l.lost = 0 /\ l.kids = 0
              /\ l.waiting \in Nat /\ l.open \in Nat /\ l.lost \in Nat
            BY <1>3, <1>5 DEF Helpers!Idles, Helpers!Users, Lease
        <3>2. l.open = 0
            BY <3>1
        <3> QED
            BY <1>2, <1>3, <1>5, <3>1, <3>2 DEF Fits, Helpers!Exact, GivesUp
    <2>2. /\ dir' \in [Dir -> Directory] /\ \A e \in Dir \ {c} : dir'[e] = dir[e]
          /\ dir'[c].state \in {"none", "partial"}
          /\ dir' = Helpers!Become({c}, "partial") => dir'[c].state = "partial"
        BY <2>1, GivenUp
    <2>3. Spares(p) /\ OwnersMove(p) /\ FreesKept
        BY <1>1, <2>1, GiveUpSpares
    <2>4. Fits(p, k, dir', given[p])
        <3>1. ASSUME NEW d \in k.retry PROVE dir'[d].state = "partial"
            BY <1>2, <1>3, <1>5, <2>1, <2>2, <3>1 DEF Fits, Lease
        <3>2. ASSUME NEW d \in Dir, IsOf(p, dir', d), dir'[d].state = "whole" PROVE FALSE
            BY <1>2, <2>1, <2>2, <3>2 DEF Fits, IsOf
        <3>3. k.building = NoDir
            BY <1>2, <1>3, <1>5, <2>1 DEF Fits
        <3> QED
            BY <1>2, <1>3, <1>5, <2>1, <3>1, <3>2, <3>3 DEF Fits
    <2>5. \A q \in Plugin \ {p} : k.retry \cap local[q].retry = {}
        <3>1. \A q \in Plugin \ {p} : c \notin local[q].retry
            BY <1>1, <2>1, Exclusive
        <3> QED
            BY <1>3, <1>5, <3>1 DEF Tracked, OneRetries
    <2>6. given' = [given EXCEPT ![p] = given[p]]
        BY <1>1, Kept
    <2> QED
        BY <1>1, <1>2, <1>5, <2>2, <2>3, <2>4, <2>5, <2>6, OwnStep
<1>6. CASE Helpers!Idles(l) /\ Helpers!DeleteCurrent(p, l)
    <2>1. CASE ~Helpers!Exact(l.current) /\ local' = [local EXCEPT ![p] = l] /\ UNCHANGED dir
        BY <1>3, <1>4, <2>1 DEF Helpers!Exact
    <2>2. CASE /\ Helpers!Exact(c) /\ dir' = Helpers!Freed({c})
               /\ local' = [local EXCEPT ![p] = Helpers!Forgets(l)]
        <3> DEFINE k == Helpers!Forgets(l)
        <3>1. /\ k \in Lease /\ k.current = NoDir /\ k.building = l.building /\ k.waiting = l.waiting
              /\ k.open = l.open /\ k.kids = l.kids /\ k.retry = l.retry
            BY <1>3 DEF Lease, Helpers!Forgets
        <3> HIDE DEF k
        <3> QED
            BY <1>5, <1>6, <2>2, <3>1 DEF k
    <2>3. CASE /\ Helpers!Exact(c) /\ dir' = Helpers!Become({c}, "partial")
               /\ local' = [local EXCEPT ![p] = [Helpers!Forgets(l) EXCEPT !.retry = @ \cup {c}]]
        <3> DEFINE k == [Helpers!Forgets(l) EXCEPT !.retry = @ \cup {c}]
        <3>1. c \in Dir
            BY <1>2, <1>3, <1>6 DEF Helpers!Idles
        <3>2. k \in Lease
            BY <1>3, <3>1 DEF Lease, Helpers!Forgets
        <3>3. /\ k.current = NoDir /\ k.building = l.building /\ k.waiting = l.waiting
              /\ k.open = l.open /\ k.kids = l.kids /\ k.retry = l.retry \cup {c}
            BY <1>3 DEF Lease, Helpers!Forgets
        <3> HIDE DEF k
        <3> QED
            BY <1>5, <1>6, <2>3, <3>2, <3>3 DEF k
    <2> QED
        BY <1>3, <1>6, <2>1, <2>2, <2>3 DEF Helpers!DeleteCurrent
<1> QED
    BY <1>1, <1>4, <1>6

\* A rest is tried again, once.
LEMMA RetryTracked ==
  ASSUME Tracked, NoDir \notin Dir, NoDir \notin Plugin, NEW p \in Plugin, Helpers!Retry(p)
  PROVE  Tracked'
<1>1. PICK d \in local[p].retry : /\ local' = [local EXCEPT ![p].retry = @ \ {d}]
                                  /\ dir' \in {dir, Helpers!Freed({d})}
    BY DEF Helpers!Retry
<1> DEFINE l == [local[p] EXCEPT !.retry = @ \ {d}]
<1>2. /\ alive[p] /\ UNCHANGED <<alive, life, given>>
      /\ local[p] \in Lease /\ Fits(p, local[p], dir, given[p]) /\ dir \in [Dir -> Directory]
      /\ given[p] \in Dir \cup {NoDir}
    BY OwnFacts DEF Helpers!Retry
<1>3. d \in Dir /\ dir[d].state = "partial"
    BY <1>1, <1>2 DEF Fits, Lease
<1>4. /\ l \in Lease /\ l.current = local[p].current /\ l.building = local[p].building
      /\ l.waiting = local[p].waiting /\ l.open = local[p].open /\ l.kids = local[p].kids
      /\ l.lost = local[p].lost /\ l.idle = local[p].idle /\ l.retry = local[p].retry \ {d}
    BY <1>2 DEF Lease
<1>5. local' = [local EXCEPT ![p] = l]
    BY <1>1
<1> HIDE DEF l
<1>6. Helpers!Idles(l) = Helpers!Idles(local[p])
    BY <1>4 DEF Helpers!Idles, Helpers!Users
<1>7. CASE dir' = dir
    <2>1. Fits(p, l, dir, given[p])
        BY <1>2, <1>4, <1>6 DEF Fits
    <2> QED
        BY <1>2, <1>4, <1>5, <1>7, <2>1, QuietStep
<1>8. CASE dir' = Helpers!Freed({d})
    <2>1. /\ dir' \in [Dir -> Directory] /\ \A e \in Dir \ {d} : dir'[e] = dir[e]
          /\ dir'[d] = Helpers!NoOwner /\ FreesKept
        BY <1>3, <1>8, GivenUp DEF GivesUp
    <2>2. Helpers!NoOwner.state = "none"
        BY DEF Helpers!NoOwner
    <2>3. OwnersMove(p)
        BY <2>1 DEF OwnersMove
    <2>4. Fits(p, l, dir', given[p])
        <3>1. ASSUME NEW e \in l.retry PROVE dir'[e].state = "partial"
            BY <1>2, <1>4, <2>1, <3>1 DEF Fits, Lease
        <3>2. ASSUME NEW e \in Dir, IsOf(p, dir', e), dir'[e].state = "whole"
              PROVE  l.current = e /\ (Helpers!Idles(l) => l.idle)
            BY <1>2, <1>4, <1>6, <2>1, <2>2, <3>2 DEF Fits, IsOf
        <3>3. l.building # NoDir => IsOf(p, dir', l.building) /\ dir'[l.building].state = "building"
            BY <1>2, <1>3, <1>4, <2>1 DEF Fits, IsOf, Lease
        <3>4. l.current # NoDir =>
                IsOf(p, dir', l.current) /\ dir'[l.current].state \in {"whole", "changed"}
            BY <1>2, <1>3, <1>4, <2>1 DEF Fits, IsOf, Lease
        <3> QED
            BY <1>2, <1>4, <3>1, <3>2, <3>3, <3>4 DEF Fits
    <2>5. Spares(p)
        <3>1. \A q \in Plugin \ {p} : d \notin local[q].retry
            BY <1>1, <1>2, <1>3, Exclusive
        <3> QED
            BY <1>3, <2>1, <2>2, <3>1 DEF Spares
    <2>6. \A q \in Plugin \ {p} : l.retry \cap local[q].retry = {}
        BY <1>4 DEF Tracked, OneRetries
    <2>7. given' = [given EXCEPT ![p] = given[p]]
        BY <1>2, Kept
    <2> QED
        BY <1>2, <1>4, <1>5, <2>1, <2>3, <2>4, <2>5, <2>6, <2>7, OwnStep
<1> QED
    BY <1>1, <1>7, <1>8

\* A process ends, or starts again under its pid: the others see nothing of it but a directory
\* that is given up.
LEMMA EndsTracked ==
  ASSUME Tracked, NoDir \notin Dir, NoDir \notin Plugin, NEW p \in Plugin,
         Helpers!Exits(p) \/ Helpers!Crashes(p)
  PROVE  Tracked'
<1>1. /\ alive[p] /\ alive' = [alive EXCEPT ![p] = FALSE] /\ UNCHANGED <<life, given>>
      /\ local' = [local EXCEPT ![p] = Helpers!Clean]
      /\ \/ UNCHANGED dir
         \/ Helpers!Exact(local[p].current) /\ local[p].current # NoDir /\ GivesUp(local[p].current)
    BY DEF Helpers!Exits, Helpers!Crashes, Helpers!Idles, GivesUp
<1>2. /\ local[p] \in Lease /\ Fits(p, local[p], dir, given[p]) /\ dir \in [Dir -> Directory]
    BY <1>1, OwnFacts
<1>3. Helpers!Clean \in Lease /\ Helpers!Clean.retry = {}
    BY DEF Helpers!Clean, Lease
<1>4. /\ Spares(p) /\ OwnersMove(p) /\ FreesKept /\ dir' \in [Dir -> Directory]
    <2>1. CASE UNCHANGED dir
        BY <1>2, <2>1 DEF Spares, OwnersMove, FreesKept, Tracked, FreeAreNobodys
    <2>2. CASE /\ Helpers!Exact(local[p].current) /\ local[p].current # NoDir
               /\ GivesUp(local[p].current)
        <3>1. /\ local[p].current \in Dir /\ IsOf(p, dir, local[p].current)
              /\ dir[local[p].current].state # "partial"
            BY <1>2, <2>2 DEF Fits, Lease, Helpers!Exact
        <3> QED
            BY <1>1, <2>2, <3>1, GiveUpSpares, GivenUp
    <2> QED
        BY <1>1, <2>1, <2>2
<1>5. HelperTypes'
    BY <1>1, <1>3, <1>4 DEF Tracked, HelperTypes
<1>6. OwnersStarted'
    BY <1>1, <1>4 DEF Tracked, HelperTypes, OwnersStarted, OwnersMove, Helpers!NoOwner
<1>7. FreeAreNobodys' /\ DeadKeepNothing' /\ OneRetries'
    BY <1>1, <1>3, <1>4 DEF Tracked, HelperTypes, DeadKeepNothing, FreeAreNobodys, FreesKept, OneRetries
<1>8. ASSUME NEW q \in Plugin, alive'[q] PROVE Fits(q, local[q], dir, given[q])'
    <2>1. /\ q # p /\ alive[q] /\ local'[q] = local[q] /\ given' = given /\ life' = life
          /\ Fits(q, local[q], dir, given[q]) /\ local[q] \in Lease
        BY <1>1, <1>8 DEF Tracked, HelperTypes
    <2>2. ASSUME NEW d \in Dir, IsOf(q, dir', d) PROVE IsOf(q, dir, d)
        BY <1>4, <2>1, <2>2 DEF OwnersMove, IsOf, Helpers!NoOwner
    <2>3. /\ \A d \in Dir : d \in local[q].retry => dir'[d] = dir[d]
          /\ \A d \in Dir : (IsOf(q, dir, d) /\ (dir[d].state # "partial" \/ dir'[d].state = "whole"))
                               => dir'[d] = dir[d]
        BY <1>4, <2>1 DEF Spares
    <2> QED
        BY <2>1, <2>2, <2>3 DEF Fits, IsOf, Lease
<1> QED
    BY <1>5, <1>6, <1>7, <1>8 DEF Tracked

LEMMA StartsTracked ==
  ASSUME Tracked, NoDir \notin Dir, NoDir \notin Plugin, NEW p \in Plugin, Helpers!Starts(p)
  PROVE  Tracked'
<1>1. /\ ~alive[p] /\ alive' = [alive EXCEPT ![p] = TRUE] /\ life' = [life EXCEPT ![p] = @ + 1]
      /\ given' = [given EXCEPT ![p] = NoDir] /\ UNCHANGED <<local, dir>>
    BY DEF Helpers!Starts
<1>2. life[p] \in Nat /\ life'[p] = life[p] + 1 /\ \A q \in Plugin \ {p} : life'[q] = life[q]
    BY <1>1 DEF Tracked, HelperTypes
<1>3. HelperTypes'
    BY <1>1, <1>2 DEF Tracked, HelperTypes
<1>4. OwnersStarted'
    BY <1>1, <1>2 DEF Tracked, HelperTypes, OwnersStarted, Directory
<1>5. FreeAreNobodys' /\ DeadKeepNothing' /\ OneRetries'
    BY <1>1 DEF Tracked, HelperTypes, DeadKeepNothing, FreeAreNobodys, OneRetries
<1>6. ASSUME NEW q \in Plugin, alive'[q] PROVE Fits(q, local[q], dir, given[q])'
    <2>1. CASE q # p
        BY <1>1, <1>2, <1>6, <2>1 DEF Tracked, HelperTypes, Fits, IsOf
    <2>2. CASE q = p
        <3>1. local'[p] = Helpers!Clean
            BY <1>1 DEF Tracked, DeadKeepNothing
        <3>2. \A d \in Dir : ~IsOf(p, dir, d)'
            BY <1>1, <1>2 DEF Tracked, HelperTypes, OwnersStarted, Directory, IsOf
        <3> QED
            BY <2>2, <3>1, <3>2 DEF Fits, Helpers!Clean
    <2> QED
        BY <2>1, <2>2
<1> QED
    BY <1>3, <1>4, <1>5, <1>6 DEF Tracked

\* Somebody else changes a file of a helper.
LEMMA TamperTracked == ASSUME Tracked, Helpers!Tamper PROVE Tracked'
<1>1. PICK d \in Dir : Helpers!Exact(d) /\ dir' = Helpers!Become({d}, "changed")
    BY DEF Helpers!Tamper
<1>2. UNCHANGED <<alive, life, local, given>> /\ dir \in [Dir -> Directory] /\ dir[d].state = "whole"
    BY <1>1 DEF Helpers!Tamper, Tracked, HelperTypes, Helpers!Exact
<1>3. /\ dir' \in [Dir -> Directory] /\ \A e \in Dir \ {d} : dir'[e] = dir[e]
      /\ dir'[d].state = "changed" /\ dir'[d].pid = dir[d].pid /\ dir'[d].life = dir[d].life
    BY <1>1, <1>2 DEF Helpers!Become, Directory
<1>4. HelperTypes' /\ OwnersStarted' /\ FreeAreNobodys' /\ DeadKeepNothing' /\ OneRetries'
    BY <1>2, <1>3 DEF Tracked, HelperTypes, OwnersStarted, FreeAreNobodys, DeadKeepNothing, OneRetries
<1>5. ASSUME NEW q \in Plugin, alive'[q] PROVE Fits(q, local[q], dir, given[q])'
    <2>1. Fits(q, local[q], dir, given[q]) /\ local[q] \in Lease /\ UNCHANGED <<local, given, life>>
        BY <1>2, <1>5 DEF Tracked, HelperTypes
    <2>2. \A e \in Dir : IsOf(q, dir', e) <=> IsOf(q, dir, e)
        BY <1>2, <1>3 DEF IsOf
    <2> QED
        BY <1>2, <1>3, <2>1, <2>2 DEF Fits, IsOf, Lease
<1> QED
    BY <1>4, <1>5 DEF Tracked

-----------------------------------------------------------------------------
(* The helper's theorem.                                                   *)

OfHelper == by = "helper" => Tracked

LEMMA HelperInit == ASSUME NoDir \notin Plugin, ProcessesInit, by = "helper" PROVE Tracked
<1>1. Helpers!Init
    BY DEF ProcessesInit
<1>2. Helpers!Clean \in Lease /\ Helpers!NoOwner \in Directory
    BY DEF Helpers!Clean, Helpers!NoOwner, Lease, Directory
<1>3. /\ \A d \in Dir : dir[d].state = "none" /\ dir[d].pid = NoDir
      /\ \A p \in Plugin : alive[p] /\ local[p] = Helpers!Clean
    BY <1>1 DEF Helpers!Init, Helpers!NoOwner
<1>4. HelperTypes
    BY <1>1, <1>2 DEF Helpers!Init, HelperTypes
<1>5. ASSUME NEW p \in Plugin PROVE Fits(p, Helpers!Clean, dir, given[p])
    BY <1>3 DEF Fits, IsOf, Helpers!Clean
<1>6. OneRetries
    BY <1>3 DEF OneRetries, Helpers!Clean
<1> QED
    BY <1>3, <1>4, <1>5, <1>6 DEF Tracked, OwnersStarted, FreeAreNobodys, DeadKeepNothing

LEMMA HelperNext ==
  ASSUME Tracked, NoDir \notin Dir, NoDir \notin Plugin, Helpers!Next PROVE Tracked'
<1>1. ASSUME NEW p \in Plugin,
             \/ Helpers!Acquire(p) \/ Helpers!Built(p) \/ Helpers!BuildFails(p) \/ Helpers!GateEnds(p)
             \/ Helpers!ChildCloses(p) \/ Helpers!IdleFires(p) \/ Helpers!Retry(p) \/ Helpers!Exits(p)
             \/ Helpers!Crashes(p) \/ Helpers!Starts(p)
      PROVE  Tracked'
    BY <1>1, AcquireTracked, BuiltTracked, BuildFailsTracked, CountsDown, IdleFiresTracked,
       RetryTracked, EndsTracked, StartsTracked
<1> QED
    BY <1>1, TamperTracked DEF Helpers!Next

\* docs/operations.md:56-63, for any number of plugin processes, directories, gates, restarts
\* and tampered files: the helper's files are not deleted under a gate or a child of one, by
\* whomever, and a helper that nobody uses has its deletion scheduled.
THEOREM HelperIsTracked == ProcessesSpec => []HelperTracked
<1>0. NoDir \notin Dir /\ NoDir \notin Plugin
    BY HelperAssumption DEF Helpers!HelperAssumption
<1>1. ProcessesInit => OfHelper
    BY <1>0, HelperInit DEF OfHelper
<1>2. OfHelper /\ [ProcessesNext]_allvars => OfHelper'
    <2> SUFFICES ASSUME OfHelper, [ProcessesNext]_allvars, by' = "helper" PROVE Tracked'
        BY DEF OfHelper
    <2>1. CASE by = "helper" /\ Helpers!Next
        BY <1>0, <2>1, HelperNext DEF OfHelper
    <2>2. CASE UNCHANGED <<by, helperVars>>
        BY <2>2 DEF OfHelper, helperVars, Tracked, HelperTypes, OwnersStarted, FreeAreNobodys,
           DeadKeepNothing, OneRetries, Fits, IsOf
    <2> QED
        BY <2>1, <2>2 DEF ProcessesNext, allvars
<1>3. OfHelper => HelperTracked
    BY Stands DEF OfHelper, HelperTracked
<1> QED
    BY <1>1, <1>2, <1>3, PTL DEF ProcessesSpec

-----------------------------------------------------------------------------
(* The gate: the inductive invariant.                                      *)

Life == {"none", "runs", "away", "doomed", "dead"}
Ending == {"none", "zero", "other"}
Flags == [pc : {"ask", "helper", "spawn", "run", "done"}, timer : {"none", "readiness", "timeout"},
          timedOut : BOOLEAN, cancelled : BOOLEAN, failed : BOOLEAN, close : Ending]
Answers == [ok : BOOLEAN, code : Ending \cup {"124", "125", "126", "130"}, timedOut : BOOLEAN,
            cancelled : BOOLEAN, failed : BOOLEAN]
Handles == [handles : SUBSET {"run", "watch"}, joined : BOOLEAN, control : BOOLEAN,
            command : BOOLEAN, request : BOOLEAN, answer : {"none", "ok", "error"},
            watcher : {"none", "starts", "ready", "closed", "kills"}, early : BOOLEAN]

GateTypes ==
    /\ platform \in {"posix", "win32"}
    /\ child \in [Child -> Life]
    /\ holds \in SUBSET Child
    /\ exit \in Ending
    /\ aborted \in BOOLEAN
    /\ gate \in Flags
    /\ result \in Answers
    /\ object \in Handles
    /\ signalled \in BOOLEAN

\* Each platform has its termination, and the gate is done when that is.
Stages ==
    /\ term \in IF Shell!Windows THEN {"none", "proof", "watch", "drain", "drain-failed", "done"}
                ELSE {"none", "grace", "verify", "left-grace", "left-verify", "drain", "drain-failed",
                      "done"}
    /\ gate.pc \in {"ask", "helper", "spawn"} => term = "none"
    /\ gate.pc = "done" <=> term = "done"
    /\ ~Shell!Windows => object = Shell!NoJob

\* Before the launch there is nothing.
Unborn == gate.pc \in {"ask", "helper", "spawn"} =>
    /\ \A p \in Child : child[p] = "none"
    /\ holds = {} /\ exit = "none" /\ object = Shell!NoJob /\ ~signalled
    /\ gate.close = "none"

\* The leader has the pipes until it is gone, with its handle of the Job; so has the command
\* that the native helper starts, from which nobody leaves the Job.  Until the helper is in the
\* Job it has started nothing.
PipesHeld ==
    /\ gate.pc = "run" /\ Leader \notin holds => Shell!Gone(Leader) /\ "run" \notin object.handles
    /\ Shell!Windows /\ gate.pc = "run" /\ Shell!Alive(Command) => Command \in holds
    /\ Shell!Windows => \A p \in Child : child[p] # "away"
    /\ Shell!Windows /\ ~object.joined => \A p \in Child : p # Leader => child[p] = "none"

\* The leader is gone, and on Windows the command that it waits for: the exit is what it is.
Over == Shell!Gone(Leader) /\ (Shell!Windows => ~Shell!Alive(Command))
CloseTrue == gate.close # "none" => Over /\ gate.close = exit

\* Nothing of the command runs where the gate can find it.  What a proof that came too early
\* says is not so, but it is known to have been early.
Quiet == IF Shell!Windows THEN \A p \in Child : child[p] # "runs" ELSE Shell!Group = {}
QuietKnown == term = "drain" \/ object.answer = "ok" => Quiet \/ object.early

\* What the gate signals, or has the watcher kill, was out of time or aborted.
Flagged == signalled \/ term \in {"proof", "watch"} => gate.timedOut \/ gate.cancelled

\* The answer.
AnswerTrue == gate.pc = "done" =>
    /\ ~result.failed => Quiet \/ object.early
    /\ result.ok => Over /\ exit = "zero" /\ ~signalled
    /\ result.code = "zero" => result.ok \/ result.failed
    /\ result.timedOut \/ result.cancelled => ~result.ok

GateSound ==
    /\ GateTypes
    /\ Stages
    /\ Unborn
    /\ PipesHeld
    /\ CloseTrue
    /\ QuietKnown
    /\ Flagged
    /\ AnswerTrue

LEMMA GateConcludes == GateSound => Shell!NothingLeftBehind /\ Shell!VerdictTrue
BY DEF GateSound, AnswerTrue, Quiet, Over, Shell!NothingLeftBehind, Shell!VerdictTrue, Shell!At, Shell!Gone

-----------------------------------------------------------------------------
(* What a step does to the processes.                                      *)

\* Processes die, or are doomed to, and nothing else happens to them.
Weaker == \A p \in Child :
    \/ child'[p] = child[p]
    \/ child[p] \in {"runs", "doomed", "away"} /\ child'[p] = "dead"
    \/ child[p] = "runs" /\ child'[p] = "doomed"
Dying == child' \in [Child -> Life] /\ Weaker
\* What is in the Job stays in it, and that a proof was early is not forgotten.
Lasts == (object.joined => object'.joined) /\ (object.early => object'.early)

LEMMA KilledDying ==
  ASSUME GateTypes, NEW doomed \in SUBSET Child, child' \in Shell!Killed(doomed)
  PROVE  Dying /\ \A p \in doomed : child'[p] # "runs"
BY DEF GateTypes, Shell!Killed, Dying, Weaker, Life

LEMMA ClosedChildren == ASSUME NEW h PROVE Shell!Closed(h) \in SUBSET Child
BY DEF Shell!Closed, Shell!InJob

LEMMA Names == {Leader, Command} \subseteq Child /\ Leader # Command
BY GateAssumption DEF Shell!GateAssumption

\* No process of the group comes back.
LEMMA DyingKeeps ==
  ASSUME GateTypes, PipesHeld, Dying, UNCHANGED platform
  PROVE  /\ Shell!Gone(Leader) => Shell!Gone(Leader)'
         /\ Shell!Alive(Command)' => Shell!Alive(Command)
         /\ Over => Over'
         /\ Quiet => Quiet'
         /\ Shell!Windows' = Shell!Windows
         /\ Shell!Windows => \A p \in Child : child'[p] # "away"
<1>1. Shell!Windows' = Shell!Windows
    BY DEF Shell!Windows
<1>2. Shell!Gone(Leader) => Shell!Gone(Leader)'
    BY Names DEF Dying, Weaker, Shell!Gone
<1>3. Shell!Alive(Command)' => Shell!Alive(Command)
    BY Names DEF Dying, Weaker, Shell!Alive
<1>4. Over => Over'
    BY <1>1, <1>2, <1>3 DEF Over
<1>5. Quiet => Quiet'
    <2>1. CASE Shell!Windows
        BY <1>1, <2>1 DEF Quiet, Dying, Weaker
    <2>2. CASE ~Shell!Windows
        BY <1>1, <2>2 DEF Quiet, Dying, Weaker, Shell!Group
    <2> QED
        BY <2>1, <2>2
<1>6. Shell!Windows => \A p \in Child : child'[p] # "away"
    BY DEF PipesHeld, Dying, Weaker
<1> QED
    BY <1>1, <1>2, <1>3, <1>4, <1>5, <1>6

\* A step that leaves the gate and the answer alone.
LEMMA Around ==
  ASSUME GateSound, UNCHANGED <<platform, aborted, gate, term, result, signalled>>, Lasts,
         child' \in [Child -> Life], holds' \in SUBSET Child, exit' \in Ending, object' \in Handles,
         gate.pc \notin {"ask", "helper", "spawn"}, ~Shell!Windows => object' = Shell!NoJob,
         Over => Over' /\ exit' = exit, Quiet => Quiet',
         PipesHeld', object'.answer = "ok" => (Quiet \/ object.early)'
  PROVE  GateSound'
<1> USE DEF GateSound
<1>1. GateTypes'
    BY DEF GateTypes
<1>2. Shell!Windows' = Shell!Windows
    BY DEF Shell!Windows
<1>3. Stages' /\ Unborn'
    BY <1>2 DEF Stages, Unborn
<1>4. CloseTrue' /\ QuietKnown' /\ Flagged' /\ AnswerTrue'
    BY <1>2 DEF CloseTrue, QuietKnown, Flagged, AnswerTrue, Lasts
<1> QED
    BY <1>1, <1>3, <1>4

\* One in which processes die, and give back their pipes.
LEMMA Beside ==
  ASSUME GateSound, Dying, UNCHANGED <<platform, aborted, gate, term, result, signalled>>, Lasts,
         holds' \in SUBSET holds, exit' \in Ending, object' \in Handles,
         gate.pc \notin {"ask", "helper", "spawn"}, ~Shell!Windows => object' = Shell!NoJob,
         exit' # exit => ~Over,
         \A p \in holds \ holds' : child'[p] = "dead",
         gate.pc = "run" /\ Leader \notin holds' => "run" \notin object'.handles,
         object'.answer = "ok" => (Quiet \/ object.early)'
  PROVE  GateSound'
<1>1. /\ Shell!Windows' = Shell!Windows /\ (Over => Over') /\ (Quiet => Quiet')
      /\ Shell!Alive(Command)' => Shell!Alive(Command)
      /\ Shell!Gone(Leader) => Shell!Gone(Leader)'
      /\ Shell!Windows => \A p \in Child : child'[p] # "away"
    BY DyingKeeps DEF GateSound
<1>2. PipesHeld'
    BY <1>1, Names DEF GateSound, PipesHeld, Shell!Gone, Shell!Alive, Lasts, Dying, Weaker
<1>3. child' \in [Child -> Life] /\ holds' \in SUBSET Child
    BY DEF Dying, GateSound, GateTypes
<1> QED
    BY <1>1, <1>2, <1>3, Around

LEMMA DyingStill == ASSUME GateTypes, child' = child PROVE Dying
BY DEF GateTypes, Dying, Weaker

-----------------------------------------------------------------------------
(* The processes, the native helper and the watcher.                       *)

LEMMA WithoutHandles ==
  /\ Shell!NoJob \in Handles /\ Shell!NoJob.handles = {} /\ Shell!NoJob.watcher = "none"
  /\ Shell!NoJob.answer = "none"
  /\ \A x : [Shell!NoJob EXCEPT !.handles = Shell!NoJob.handles \ {x}] = Shell!NoJob
  /\ [Shell!NoJob EXCEPT !.handles = Shell!NoJob.handles] = Shell!NoJob
<1>2. [Shell!NoJob EXCEPT !.handles = {}] = Shell!NoJob
    BY DEF Shell!NoJob
<1>3. /\ Shell!NoJob \in Handles /\ Shell!NoJob.handles = {} /\ Shell!NoJob.watcher = "none"
      /\ Shell!NoJob.answer = "none"
    BY DEF Shell!NoJob, Handles
<1>4. \A x : {} \ {x} = {}
    OBVIOUS
<1> QED
    BY <1>2, <1>3, <1>4

LEMMA DiesSound == ASSUME GateSound, NEW p \in Child, Shell!Dies(p) PROVE GateSound'
<1> USE DEF GateSound
<1>1. /\ Shell!Alive(p) /\ holds' = holds \ {p}
      /\ object' = [object EXCEPT !.handles = Shell!HandlesAfter(p)]
      /\ UNCHANGED <<platform, aborted, gate, term, result, signalled>>
    BY DEF Shell!Dies
<1>2. PICK doomed \in SUBSET Child : \E s \in Shell!Killed(doomed) : child' = [s EXCEPT ![p] = "dead"]
    <2> DEFINE d == (IF p = Leader THEN Shell!Closed(Shell!HandlesAfter(p)) ELSE {}) \ {p}
    <2>1. d \in SUBSET Child
        BY ClosedChildren
    <2>2. child' \in {[s EXCEPT ![p] = "dead"] : s \in Shell!Killed(d)}
        BY DEF Shell!Dies
    <2> QED
        BY <2>1, <2>2
<1>3. Dying /\ child'[p] = "dead"
    BY <1>1, <1>2 DEF Dying, Weaker, GateTypes, Shell!Killed, Shell!Alive, Life
<1>4. gate.pc \notin {"ask", "helper", "spawn"}
    BY <1>1 DEF Unborn, Shell!Alive
<1>5. /\ object' \in Handles /\ object'.answer = object.answer /\ Lasts
      /\ object'.handles = Shell!HandlesAfter(p)
    <2>1. Shell!HandlesAfter(p) \in SUBSET {"run", "watch"}
        BY DEF Shell!HandlesAfter, GateTypes, Handles
    <2> QED
        BY <1>1, <2>1 DEF GateTypes, Handles, Lasts
<1>6. ~Shell!Windows => object' = Shell!NoJob
    BY <1>1, WithoutHandles DEF Stages, Shell!HandlesAfter
<1>7. gate.pc = "run" /\ Leader \notin holds' => "run" \notin object'.handles
    BY <1>1, <1>4, <1>5 DEF PipesHeld, Shell!HandlesAfter
<1>8. exit' \in Ending /\ (exit' # exit => ~Over)
    BY <1>1, Names DEF Shell!Dies, Over, Shell!Gone, Shell!Alive, Ending, GateTypes
<1>9. object'.answer = "ok" => (Quiet \/ object.early)'
    BY <1>3, <1>1, <1>5, DyingKeeps DEF QuietKnown, Lasts
<1> QED
    BY <1>1, <1>3, <1>4, <1>5, <1>6, <1>7, <1>8, <1>9, Beside

LEMMA HelperEndsSound == ASSUME GateSound, Shell!HelperEnds PROVE GateSound'
<1> USE DEF GateSound
<1> DEFINE left == object.handles \ {"run"}
           d == Shell!Closed(left) \ {Leader}
<1>1. /\ Shell!Windows /\ child[Leader] = "runs" /\ holds' = holds \ {Leader}
      /\ object' = [object EXCEPT !.handles = left]
      /\ UNCHANGED <<platform, aborted, gate, term, result, signalled>>
      /\ exit' \in {exit, "other"}
      /\ \E s \in Shell!Killed(d) : child' = [s EXCEPT ![Leader] = "dead"]
    BY DEF Shell!HelperEnds
<1>2. d \in SUBSET Child
    BY ClosedChildren
<1>3. Dying /\ child'[Leader] = "dead"
    BY <1>1, <1>2, Names DEF Dying, Weaker, GateTypes, Shell!Killed, Life
<1>4. gate.pc \notin {"ask", "helper", "spawn"}
    BY <1>1, Names DEF Unborn
<1>5. object' \in Handles /\ object'.answer = object.answer /\ "run" \notin object'.handles /\ Lasts
    BY <1>1 DEF GateTypes, Handles, Lasts
<1>6. exit' \in Ending /\ ~Over
    BY <1>1 DEF Over, Shell!Gone, Ending, GateTypes
<1>7. object'.answer = "ok" => (Quiet \/ object.early)'
    BY <1>1, <1>3, <1>5, DyingKeeps DEF QuietKnown, Lasts
<1> QED
    BY <1>1, <1>3, <1>4, <1>5, <1>6, <1>7, Beside

\* The watcher acts on the Job; what it gives back may be the last handle of it.
LEMMA WatcherSound ==
  ASSUME GateSound, Shell!WatcherOpens \/ Shell!WatcherFails \/ Shell!WatcherClosesHandle
                    \/ Shell!WatcherTerminates \/ Shell!WatcherConfirms
  PROVE  GateSound'
<1> USE DEF GateSound
<1>1. /\ object.watcher # "none"
      /\ UNCHANGED <<platform, holds, exit, aborted, gate, term, result, signalled>>
    BY DEF Shell!WatcherOpens, Shell!WatcherFails, Shell!WatcherClosesHandle,
       Shell!WatcherTerminates, Shell!WatcherConfirms, Shell!Watcher
<1>2. Shell!Windows /\ gate.pc \notin {"ask", "helper", "spawn"}
    BY <1>1, WithoutHandles DEF Stages, Unborn
<1>3. Dying
    <2>1. CASE child' = child
        BY <2>1, DyingStill
    <2>2. CASE child' # child
        BY <2>2, ClosedChildren, KilledDying DEF Shell!WatcherOpens, Shell!WatcherFails,
           Shell!WatcherClosesHandle, Shell!WatcherTerminates, Shell!WatcherConfirms, Shell!InJob
    <2> QED
        BY <2>1, <2>2
<1>4. object' \in Handles /\ ("run" \in object'.handles => "run" \in object.handles) /\ Lasts
    <2>1. CASE Shell!WatcherOpens
        BY <2>1 DEF Shell!WatcherOpens, GateTypes, Handles, Lasts
    <2>2. CASE Shell!WatcherFails
        BY <2>2 DEF Shell!WatcherFails, GateTypes, Handles, Lasts
    <2>3. CASE Shell!WatcherClosesHandle
        BY <2>3 DEF Shell!WatcherClosesHandle, GateTypes, Handles, Lasts
    <2>4. CASE Shell!WatcherTerminates
        <3>1. \/ object' = [object EXCEPT !.watcher = "none", !.answer = "error"]
              \/ object' = [object EXCEPT !.handles = @ \cup {"watch"}, !.watcher = "kills"]
            BY <2>4 DEF Shell!WatcherTerminates
        <3>2. object.handles \cup {"watch"} \in SUBSET {"run", "watch"}
            BY DEF GateTypes, Handles
        <3>3. CASE object' = [object EXCEPT !.watcher = "none", !.answer = "error"]
            BY <3>3 DEF GateTypes, Handles, Lasts
        <3>4. CASE object' = [object EXCEPT !.handles = @ \cup {"watch"}, !.watcher = "kills"]
            <4>1. object'.handles = object.handles \cup {"watch"}
                BY <3>4 DEF GateTypes, Handles
            <4>2. object' \in Handles /\ Lasts
                BY <3>2, <3>4 DEF GateTypes, Handles, Lasts
            <4> QED
                BY <4>1, <4>2
        <3> QED
            BY <3>1, <3>3, <3>4
    <2>5. CASE Shell!WatcherConfirms
        BY <2>5 DEF Shell!WatcherConfirms, GateTypes, Handles, Lasts, Shell!Alive
    <2> QED
        BY <2>1, <2>2, <2>3, <2>4, <2>5
<1>5. object'.answer = "ok" => (Quiet \/ object.early)'
    <2>1. CASE Shell!WatcherConfirms
        <3>1. /\ child' = child /\ (object.joined => \A p \in Child : ~Shell!Alive(p))
              /\ object' = [object EXCEPT !.handles = @ \ {"watch"}, !.watcher = "none",
                                          !.answer = "ok", !.early = @ \/ Shell!Alive(Leader)]
            BY <2>1 DEF Shell!WatcherConfirms, Shell!Emptied, Shell!InJob
        <3>2. object'.early \/ ~Shell!Alive(Leader)
            BY <3>1 DEF GateTypes, Handles
        <3>3. object'.early \/ \A p \in Child : child[p] # "runs"
            BY <1>2, <3>1, <3>2 DEF PipesHeld, Shell!Alive
        <3> QED
            BY <1>1, <1>2, <3>1, <3>3 DEF Quiet, Shell!Windows
    <2>2. CASE ~Shell!WatcherConfirms
        <3>1. object'.answer \in {object.answer, "error"}
            BY <2>2 DEF Shell!WatcherOpens, Shell!WatcherFails, Shell!WatcherClosesHandle,
               Shell!WatcherTerminates, GateTypes, Handles
        <3> QED
            BY <1>1, <1>3, <1>4, <3>1, DyingKeeps DEF QuietKnown, Lasts
    <2> QED
        BY <2>1, <2>2
<1>6. gate.pc = "run" /\ Leader \notin holds' => "run" \notin object'.handles
    BY <1>1, <1>4 DEF PipesHeld
<1>7. exit' \in Ending /\ holds' \in SUBSET holds
    BY <1>1 DEF GateTypes
<1> QED
    BY <1>1, <1>2, <1>3, <1>4, <1>5, <1>6, <1>7, Beside

\* The helper makes the Job, and puts itself into it.
LEMMA MakeJobSound == ASSUME GateSound, Shell!MakeJob \/ Shell!Join PROVE GateSound'
<1> USE DEF GateSound
<1>1. /\ Shell!Windows /\ child[Leader] = "runs"
      /\ \/ object' = [object EXCEPT !.handles = @ \cup {"run"}]
         \/ object' = [object EXCEPT !.joined = TRUE]
      /\ UNCHANGED <<platform, child, holds, exit, aborted, gate, term, result, signalled>>
    BY DEF Shell!MakeJob, Shell!Join
<1>2. Dying
    BY <1>1, DyingStill
<1>3. gate.pc \notin {"ask", "helper", "spawn"}
    BY <1>1, Names DEF Unborn
<1>4. object' \in Handles /\ object'.answer = object.answer /\ Lasts
    <2>1. CASE object' = [object EXCEPT !.handles = @ \cup {"run"}]
        BY <2>1 DEF GateTypes, Handles, Lasts
    <2>2. CASE object' = [object EXCEPT !.joined = TRUE]
        BY <2>2 DEF GateTypes, Handles, Lasts
    <2> QED
        BY <1>1, <2>1, <2>2
<1>5. gate.pc = "run" => Leader \in holds'
    BY <1>1 DEF PipesHeld, Shell!Gone
<1>6. object'.answer = "ok" => (Quiet \/ object.early)'
    BY <1>1, <1>2, <1>4, DyingKeeps DEF QuietKnown, Lasts
<1>7. exit' \in Ending /\ holds' \in SUBSET holds
    BY <1>1 DEF GateTypes
<1> QED
    BY <1>1, <1>2, <1>3, <1>4, <1>5, <1>6, <1>7, Beside

\* A process starts another one, or leaves the group.
LEMMA ForksSound ==
  ASSUME GateSound, NEW p \in Child, NEW q \in Child, Shell!Forks(p, q)
  PROVE  GateSound'
<1> USE DEF GateSound
<1>1. /\ child[p] \in {"runs", "away"} /\ child[q] = "none" /\ q # Command
      /\ child' = [child EXCEPT ![q] = child[p]] /\ holds' \in {holds, holds \cup {q}}
      /\ UNCHANGED <<platform, exit, aborted, gate, term, result, object, signalled>>
    BY DEF Shell!Forks
<1>2. gate.pc \notin {"ask", "helper", "spawn"}
    BY <1>1 DEF Unborn
<1>3. /\ child' \in [Child -> Life] /\ holds' \in SUBSET Child /\ Shell!Windows' = Shell!Windows
    BY <1>1 DEF GateTypes, Shell!Windows
<1>4. Shell!Gone(Leader) => Shell!Gone(Leader)'
    BY <1>1, Names DEF Shell!Gone, GateTypes
<1>5. Shell!Alive(Command)' => Shell!Alive(Command)
    BY <1>1, Names DEF Shell!Alive, GateTypes
<1>6. Over => Over' /\ exit' = exit
    BY <1>1, <1>3, <1>4, <1>5 DEF Over
<1>7. Quiet => Quiet'
    <2>1. CASE Shell!Windows
        BY <1>1, <1>3, <2>1 DEF Quiet, PipesHeld, GateTypes
    <2>2. CASE ~Shell!Windows
        BY <1>1, <1>3, <2>2 DEF Quiet, Shell!Group, GateTypes
    <2> QED
        BY <2>1, <2>2
<1>8. PipesHeld'
    <2>1. Shell!Windows /\ ~object.joined => p = Leader
        BY <1>1 DEF PipesHeld
    <2>2. Shell!Windows => p # Leader
        BY DEF Shell!Forks
    <2>3. (/\ gate.pc = "run" /\ Leader \notin holds => Shell!Gone(Leader) /\ "run" \notin object.handles
           /\ Shell!Windows /\ gate.pc = "run" /\ Shell!Alive(Command) => Command \in holds)'
        BY <1>1, <1>3, <1>4, <1>5 DEF PipesHeld, GateTypes
    <2>4. (Shell!Windows => \A x \in Child : child[x] # "away")'
        BY <1>1, <1>3 DEF PipesHeld, GateTypes
    <2> QED
        BY <1>1, <1>3, <2>1, <2>2, <2>3, <2>4 DEF PipesHeld
<1>9. object' \in Handles /\ exit' \in Ending /\ (~Shell!Windows => object' = Shell!NoJob) /\ Lasts
    BY <1>1 DEF GateTypes, Stages, Lasts
<1>10. object'.answer = "ok" => (Quiet \/ object.early)'
    BY <1>1, <1>7 DEF QuietKnown
<1> QED
    BY <1>1, <1>2, <1>3, <1>6, <1>7, <1>8, <1>9, <1>10, Around

LEMMA LeavesSound == ASSUME GateSound, NEW p \in Child, Shell!Leaves(p) PROVE GateSound'
<1> USE DEF GateSound
<1>1. /\ ~Shell!Windows /\ p # Leader /\ child[p] = "runs" /\ child' = [child EXCEPT ![p] = "away"]
      /\ UNCHANGED <<platform, holds, exit, aborted, gate, term, result, object, signalled>>
    BY DEF Shell!Leaves
<1>2. gate.pc \notin {"ask", "helper", "spawn"}
    BY <1>1 DEF Unborn
<1>3. /\ child' \in [Child -> Life] /\ holds' \in SUBSET Child /\ Shell!Windows' = Shell!Windows
    BY <1>1 DEF GateTypes, Shell!Windows, Life
<1>4. Shell!Gone(Leader) => Shell!Gone(Leader)'
    BY <1>1, Names DEF Shell!Gone, GateTypes
<1>5. Quiet => Quiet'
    BY <1>1, <1>3 DEF Quiet, Shell!Group, GateTypes
<1>6. PipesHeld' /\ (Over => Over' /\ exit' = exit)
    BY <1>1, <1>3, <1>4 DEF PipesHeld, Over
<1>7. object' \in Handles /\ exit' \in Ending /\ (~Shell!Windows => object' = Shell!NoJob) /\ Lasts
    BY <1>1 DEF GateTypes, Stages, Lasts
<1>8. object'.answer = "ok" => (Quiet \/ object.early)'
    BY <1>1, <1>5 DEF QuietKnown
<1> QED
    BY <1>1, <1>2, <1>3, <1>5, <1>6, <1>7, <1>8, Around

LEMMA LaunchSound == ASSUME GateSound, Shell!LaunchCommand PROVE GateSound'
<1> USE DEF GateSound
<1>1. /\ Shell!Windows /\ child[Leader] = "runs" /\ object.joined
      /\ child' = [child EXCEPT ![Command] = "runs"] /\ holds' = holds \cup {Command}
      /\ object' = [object EXCEPT !.command = TRUE]
      /\ UNCHANGED <<platform, exit, aborted, gate, term, result, signalled>>
    BY DEF Shell!LaunchCommand
<1>2. gate.pc \notin {"ask", "helper", "spawn"}
    BY <1>1, Names DEF Unborn
<1>3. /\ child' \in [Child -> Life] /\ holds' \in SUBSET Child /\ Shell!Windows' = Shell!Windows
    BY <1>1, Names DEF GateTypes, Shell!Windows, Life
<1>4. ~Over /\ ~Quiet
    BY <1>1, Names DEF Over, Shell!Gone, Quiet
<1>5. object' \in Handles /\ object'.answer = object.answer /\ object'.handles = object.handles
      /\ Lasts /\ object'.early = object.early
    BY <1>1 DEF GateTypes, Handles, Lasts
<1>6. PipesHeld'
    BY <1>1, <1>3, <1>5, Names DEF PipesHeld, GateTypes, Shell!Gone, Lasts
<1>7. exit' \in Ending
    BY <1>1 DEF GateTypes
<1>8. object'.answer = "ok" => object'.early
    BY <1>4, <1>5 DEF QuietKnown
<1> QED
    BY <1>1, <1>2, <1>3, <1>4, <1>5, <1>6, <1>7, <1>8, Around

-----------------------------------------------------------------------------
(* The gate's own steps.                                                   *)

\* The flags only grow, and what they say of the close is so.
Grown(flags) ==
    /\ flags \in Flags
    /\ gate.timedOut => flags.timedOut
    /\ gate.cancelled => flags.cancelled
    /\ flags.close # "none" => Over /\ flags.close = exit

\* A step of a running gate that decides nothing.
LEMMA Proceeds ==
  ASSUME GateSound, gate.pc = "run", gate'.pc = "run", Grown(gate'),
         Dying, UNCHANGED <<platform, holds, exit, result>>, aborted' \in BOOLEAN,
         object' \in Handles, object'.answer = object.answer, object'.handles = object.handles,
         ~Shell!Windows => object' = Shell!NoJob, signalled' \in BOOLEAN,
         term' # "done",
         term' \in IF Shell!Windows THEN {"none", "proof", "watch", "drain", "drain-failed"}
                   ELSE {"none", "grace", "verify", "left-grace", "left-verify", "drain", "drain-failed"},
         term' = "drain" => (Quiet \/ object.early)', Lasts,
         signalled' \/ term' \in {"proof", "watch"} => gate'.timedOut \/ gate'.cancelled
  PROVE  GateSound'
<1> USE DEF GateSound
<1>1. GateTypes'
    BY DEF GateTypes, Grown, Dying
<1>2. /\ Shell!Windows' = Shell!Windows /\ (Over => Over') /\ (Quiet => Quiet')
      /\ Shell!Alive(Command)' => Shell!Alive(Command)
      /\ Shell!Gone(Leader) => Shell!Gone(Leader)'
      /\ Shell!Windows => \A p \in Child : child'[p] # "away"
    BY DyingKeeps
<1>3. Stages' /\ Unborn'
    BY <1>2 DEF Stages, Unborn
<1>4. PipesHeld'
    BY <1>2 DEF PipesHeld, Lasts, Dying, Weaker
<1>5. CloseTrue' /\ QuietKnown' /\ Flagged' /\ AnswerTrue'
    BY <1>2 DEF CloseTrue, QuietKnown, Flagged, AnswerTrue, Grown, Lasts
<1> QED
    BY <1>1, <1>3, <1>4, <1>5

LEMMA AnswerIs ==
  ASSUME NEW code \in Ending \cup {"124", "125", "126", "130"}, NEW flags \in Flags
  PROVE  LET a == Shell!Answered(code, flags) IN
         /\ a \in Answers /\ a.failed = flags.failed
         /\ a.ok => code = "zero" /\ ~flags.timedOut /\ ~flags.cancelled
         /\ a.code = "zero" => a.ok \/ a.failed
         /\ a.timedOut \/ a.cancelled => ~a.ok
BY DEF Shell!Answered, Answers, Flags, Ending

\* The watcher's handle is given back, and a Job that has lost its last one is dead.
LEMMA FinishDies ==
  ASSUME GateSound, NEW code, NEW flags, Shell!Finish(code, flags)
  PROVE  /\ Dying
         /\ Shell!Windows /\ "run" \notin object.handles /\ Shell!Gone(Leader) =>
                \A p \in Child : child'[p] # "runs"
<1>1. Shell!Closed(object.handles \ {"watch"}) \in SUBSET Child
    BY ClosedChildren
<1>2. Dying /\ \A p \in Shell!Closed(object.handles \ {"watch"}) : child'[p] # "runs"
    BY <1>1, KilledDying DEF Shell!Finish, GateSound
<1>3. ASSUME Shell!Windows, "run" \notin object.handles, Shell!Gone(Leader)
      PROVE  \A p \in Child : child'[p] # "runs"
    <2>1. CASE object.joined
        BY <1>2, <1>3, <2>1 DEF Shell!Closed, Shell!InJob, GateSound, GateTypes, Handles
    <2>2. CASE ~object.joined
        <3>1. \A p \in Child : child[p] \in {"none", "dead"}
            BY <1>3, <2>2 DEF GateSound, PipesHeld, Shell!Gone
        <3> QED
            BY <1>2, <3>1 DEF Dying, Weaker
    <2> QED
        BY <2>1, <2>2
<1> QED
    BY <1>2, <1>3

\* The gate answers.
LEMMA FinishSound ==
  ASSUME GateSound, gate.pc = "run", NEW flags, Grown(flags),
         NEW code \in Ending, Shell!Finish(code, flags),
         UNCHANGED <<platform, holds, exit, aborted, signalled>>,
         code = "zero" => Over /\ exit = "zero",
         ~flags.failed => (Quiet \/ object.early)'
  PROVE  GateSound'
<1> USE DEF GateSound
<1>1. /\ Dying /\ term' = "done" /\ result' = Shell!Answered(code, flags)
      /\ object' = [Shell!NoJob EXCEPT !.handles = object.handles \ {"watch"},
                                       !.joined = object.joined, !.early = object.early]
      /\ gate' = [flags EXCEPT !.pc = "done", !.timer = "none"]
    BY FinishDies DEF Shell!Finish
<1>2. /\ gate' \in Flags /\ gate'.pc = "done" /\ gate'.close = flags.close
      /\ gate'.timedOut = flags.timedOut /\ gate'.cancelled = flags.cancelled
    BY <1>1 DEF Grown, Flags
<1>3. object' \in Handles /\ object'.answer = "none" /\ (~Shell!Windows => object' = Shell!NoJob) /\ Lasts
    <2>1. object.handles \ {"watch"} \in SUBSET {"run", "watch"}
        BY DEF GateTypes, Handles
    <2>2. object' \in Handles /\ object'.answer = "none" /\ Lasts
        BY <1>1, <2>1 DEF Shell!NoJob, GateTypes, Handles, Lasts
    <2>3. ASSUME ~Shell!Windows PROVE object' = Shell!NoJob
        <3>1. object = Shell!NoJob
            BY <2>3 DEF Stages
        <3> QED
            BY <1>1, <3>1 DEF Shell!NoJob
    <2> QED
        BY <2>2, <2>3
<1>4. /\ result' \in Answers /\ result'.failed = flags.failed
      /\ result'.ok => code = "zero" /\ ~flags.timedOut /\ ~flags.cancelled
      /\ result'.code = "zero" => result'.ok \/ result'.failed
      /\ result'.timedOut \/ result'.cancelled => ~result'.ok
    BY <1>1, AnswerIs DEF Grown
<1>5. /\ Shell!Windows' = Shell!Windows /\ (Over => Over')
      /\ Shell!Windows => \A p \in Child : child'[p] # "away"
    BY <1>1, DyingKeeps
<1>6. GateTypes'
    BY <1>1, <1>2, <1>3, <1>4 DEF GateTypes, Dying
<1>7. Stages' /\ Unborn' /\ PipesHeld'
    BY <1>1, <1>2, <1>3, <1>5 DEF Stages, Unborn, PipesHeld, Lasts, Dying, Weaker
<1>8. CloseTrue' /\ QuietKnown' /\ Flagged'
    BY <1>1, <1>2, <1>3, <1>5 DEF CloseTrue, QuietKnown, Flagged, Grown
<1>9. AnswerTrue'
    BY <1>4, <1>5 DEF AnswerTrue, Flagged, Grown
<1> QED
    BY <1>6, <1>7, <1>8, <1>9

\* The gate ends without a launch.
LEMMA RefuseSound ==
  ASSUME GateSound, gate.pc \in {"ask", "helper", "spawn"}, NEW flags \in Flags, flags.close = "none",
         NEW code \in {"other", "125", "126", "130"}, Shell!Refuse(code, flags),
         UNCHANGED <<platform, holds, exit, aborted, signalled>>
  PROVE  GateSound'
<1> USE DEF GateSound
<1>1. /\ term' = "done" /\ result' = Shell!Answered(code, flags) /\ UNCHANGED <<object, child>>
      /\ gate' = [flags EXCEPT !.pc = "done"]
    BY DEF Shell!Refuse
<1>2. /\ gate' \in Flags /\ gate'.pc = "done" /\ gate'.close = "none"
    BY <1>1 DEF Flags
<1>3. /\ result' \in Answers /\ ~result'.ok
      /\ result'.code = "zero" => result'.ok \/ result'.failed
    BY <1>1, AnswerIs DEF Ending
<1>4. Shell!Windows' = Shell!Windows /\ object = Shell!NoJob /\ ~signalled
      /\ \A p \in Child : child[p] = "none"
    BY DEF Shell!Windows, Unborn
<1>5. Quiet'
    BY <1>1, <1>4 DEF Quiet, Shell!Group
<1>6. GateTypes'
    BY <1>1, <1>2, <1>3 DEF GateTypes
<1>7. Stages' /\ Unborn' /\ PipesHeld'
    BY <1>1, <1>2, <1>4 DEF Stages, Unborn, PipesHeld
<1>8. CloseTrue' /\ QuietKnown' /\ Flagged' /\ AnswerTrue'
    BY <1>1, <1>2, <1>3, <1>4, <1>5, WithoutHandles DEF CloseTrue, QuietKnown, Flagged, AnswerTrue
<1> QED
    BY <1>6, <1>7, <1>8

LEMMA AskSound == ASSUME GateSound, Shell!Ask PROVE GateSound'
<1> USE DEF GateSound
<1>1. gate.pc = "ask" /\ UNCHANGED <<platform, holds, exit, aborted, signalled>>
    BY DEF Shell!Ask, Shell!At
<1>2. gate \in Flags /\ gate.close = "none"
    BY <1>1 DEF GateTypes, Unborn
<1>3. CASE Shell!Refuse("126", gate)
    BY <1>1, <1>2, <1>3, RefuseSound
<1>4. CASE Shell!Refuse("130", [gate EXCEPT !.cancelled = TRUE])
    <2>1. /\ [gate EXCEPT !.cancelled = TRUE] \in Flags
          /\ [gate EXCEPT !.cancelled = TRUE].close = "none"
        BY <1>2 DEF Flags
    <2> QED
        BY <1>1, <1>4, <2>1, RefuseSound
<1>5. CASE gate'.pc \in {"spawn", "helper"} /\ gate' \in Flags /\ gate'.close = "none"
           /\ UNCHANGED <<term, result, object, child>>
    <2>1. Shell!Windows' = Shell!Windows
        BY <1>1 DEF Shell!Windows
    <2>2. Stages' /\ Unborn' /\ GateTypes'
        BY <1>1, <1>5, <2>1 DEF Stages, Unborn, GateTypes
    <2>3. PipesHeld' /\ CloseTrue' /\ Flagged' /\ AnswerTrue'
        BY <1>1, <1>5 DEF PipesHeld, CloseTrue, Flagged, AnswerTrue, Stages, Unborn
    <2>4. QuietKnown'
        BY <1>1, <1>5, WithoutHandles DEF QuietKnown, Unborn, Stages
    <2> QED
        BY <2>2, <2>3, <2>4
<1> QED
    BY <1>1, <1>2, <1>3, <1>4, <1>5 DEF Shell!Ask, Flags

LEMMA HelperSound == ASSUME GateSound, Shell!Helper PROVE GateSound'
<1> USE DEF GateSound
<1>1. gate.pc = "helper" /\ UNCHANGED <<platform, holds, exit, aborted, signalled>>
    BY DEF Shell!Helper, Shell!At
<1>2. gate \in Flags /\ gate.close = "none"
    BY <1>1 DEF GateTypes, Unborn
<1>3. CASE Shell!Refuse("125", [gate EXCEPT !.failed = TRUE])
    <2>1. /\ [gate EXCEPT !.failed = TRUE] \in Flags
          /\ [gate EXCEPT !.failed = TRUE].close = "none"
        BY <1>2 DEF Flags
    <2> QED
        BY <1>1, <1>3, <2>1, RefuseSound
<1>4. CASE gate'.pc = "spawn" /\ gate' \in Flags /\ gate'.close = "none"
           /\ UNCHANGED <<term, result, object, child>>
    <2>1. Shell!Windows' = Shell!Windows
        BY <1>1 DEF Shell!Windows
    <2>2. Stages' /\ Unborn' /\ GateTypes'
        BY <1>1, <1>4, <2>1 DEF Stages, Unborn, GateTypes
    <2>3. PipesHeld' /\ CloseTrue' /\ Flagged' /\ AnswerTrue'
        BY <1>1, <1>4 DEF PipesHeld, CloseTrue, Flagged, AnswerTrue, Stages, Unborn
    <2>4. QuietKnown'
        BY <1>1, <1>4, WithoutHandles DEF QuietKnown, Unborn, Stages
    <2> QED
        BY <2>2, <2>3, <2>4
<1> QED
    BY <1>1, <1>2, <1>3, <1>4 DEF Shell!Helper, Flags

\* The launch: everything before it is undone, everything after it is to be ended.
LEMMA SpawnSound == ASSUME GateSound, Shell!Spawn PROVE GateSound'
<1> USE DEF GateSound
<1>1. /\ gate.pc = "spawn" /\ child' = [child EXCEPT ![Leader] = "runs"] /\ holds' = {Leader}
      /\ object' = IF Shell!Windows THEN [object EXCEPT !.watcher = "starts"] ELSE object
      /\ gate' = [gate EXCEPT !.pc = "run", !.timer = Shell!Timers, !.cancelled = aborted]
      /\ term' = IF aborted THEN Shell!Termination ELSE "none"
      /\ signalled' = (aborted /\ ~Shell!Windows)
      /\ UNCHANGED <<platform, exit, aborted, result, faults>>
    BY DEF Shell!Spawn, Shell!At
<1>2. /\ \A p \in Child : child[p] = "none"
      /\ exit = "none" /\ object = Shell!NoJob /\ gate.close = "none"
    BY <1>1 DEF Unborn
<1>3. /\ Shell!Timers \in {"none", "readiness", "timeout"}
      /\ Shell!Termination = IF Shell!Windows THEN "proof" ELSE "grace"
    BY DEF Shell!Timers, Shell!Termination
<1>4. /\ gate' \in Flags /\ gate'.pc = "run" /\ gate'.close = "none" /\ gate'.cancelled = aborted
    BY <1>1, <1>2, <1>3 DEF GateTypes, Flags
<1>5. /\ object' \in Handles /\ object'.answer = "none"
      /\ ~Shell!Windows => object' = Shell!NoJob
    BY <1>1, <1>2 DEF Shell!NoJob, Handles
<1>6. child' \in [Child -> Life] /\ holds' \in SUBSET Child /\ Leader \in holds'
      /\ Shell!Windows' = Shell!Windows /\ signalled' \in BOOLEAN
    BY <1>1, Names DEF GateTypes, Life, Shell!Windows
<1>7. GateTypes'
    BY <1>1, <1>4, <1>5, <1>6 DEF GateTypes
<1>8. Stages' /\ Unborn'
    BY <1>1, <1>3, <1>4, <1>5, <1>6 DEF Stages, Unborn
<1>9. \A p \in Child : p # Leader => child'[p] = "none"
    BY <1>1, <1>2 DEF GateTypes
<1>10. PipesHeld'
    BY <1>1, <1>4, <1>6, <1>9, Names DEF PipesHeld, Shell!Alive, GateTypes
<1>11. CloseTrue' /\ QuietKnown' /\ AnswerTrue'
    BY <1>1, <1>3, <1>4, <1>5 DEF CloseTrue, QuietKnown, AnswerTrue
<1>12. Flagged'
    BY <1>1, <1>3, <1>4 DEF Flagged
<1> QED
    BY <1>7, <1>8, <1>10, <1>11, <1>12

LEMMA SpawnFailsSound == ASSUME GateSound, Shell!SpawnFails PROVE GateSound'
<1> USE DEF GateSound
<1>1. /\ gate.pc = "spawn" /\ UNCHANGED <<platform, holds, exit, aborted, signalled>>
      /\ Shell!Refuse("other", [gate EXCEPT !.cancelled = aborted])
    BY DEF Shell!SpawnFails, Shell!At
<1>2. /\ [gate EXCEPT !.cancelled = aborted] \in Flags
      /\ [gate EXCEPT !.cancelled = aborted].close = "none"
    BY <1>1 DEF GateTypes, Unborn, Flags
<1> QED
    BY <1>1, <1>2, RefuseSound

\* requestTermination.
LEMMA RequestSound ==
  ASSUME GateSound, gate.pc = "run", NEW flags, Grown(flags), flags.pc = "run",
         flags.timedOut \/ flags.cancelled, Shell!Request(flags)
  PROVE  GateSound'
<1> USE DEF GateSound
<1>1. /\ gate' = [flags EXCEPT !.timer = "none"] /\ term' = Shell!Termination
      /\ signalled' = (signalled \/ (~Shell!Windows /\ Shell!Alive(Leader)))
      /\ UNCHANGED <<platform, child, holds, exit, aborted, result, object>>
    BY DEF Shell!Request
<1>2. Grown(gate') /\ gate'.pc = "run" /\ (gate'.timedOut \/ gate'.cancelled)
    BY <1>1 DEF Grown, Flags
<1>3. signalled' \in BOOLEAN /\ Shell!Termination = IF Shell!Windows THEN "proof" ELSE "grace"
    BY <1>1 DEF GateTypes, Shell!Termination
<1>4. object \in Handles /\ aborted \in BOOLEAN /\ (~Shell!Windows => object = Shell!NoJob)
    BY DEF GateTypes, Stages
<1> QED
    BY <1>1, <1>2, <1>3, <1>4, DyingStill, Proceeds DEF Lasts

\* Flags that change while the termination goes on, or before there is one.
LEMMA TellsSound ==
  ASSUME GateSound, gate.pc = "run", gate'.pc = "run", Grown(gate'), aborted' \in BOOLEAN,
         UNCHANGED <<platform, child, holds, exit, term, result, object, signalled>>
  PROVE  GateSound'
<1> USE DEF GateSound
<1>1. object \in Handles /\ signalled \in BOOLEAN /\ (~Shell!Windows => object = Shell!NoJob)
    BY DEF GateTypes, Stages
<1>2. /\ term # "done"
      /\ term \in IF Shell!Windows THEN {"none", "proof", "watch", "drain", "drain-failed"}
                  ELSE {"none", "grace", "verify", "left-grace", "left-verify", "drain", "drain-failed"}
      /\ term = "drain" => (Quiet \/ object.early)'
    BY DyingStill, DyingKeeps DEF Stages, QuietKnown
<1>3. signalled \/ term \in {"proof", "watch"} => gate'.timedOut \/ gate'.cancelled
    BY DEF Flagged, Grown
<1> QED
    BY <1>1, <1>2, <1>3, DyingStill, Proceeds DEF Lasts

LEMMA AbortSound == ASSUME GateSound, Shell!Abort PROVE GateSound'
<1> USE DEF GateSound
<1>1. /\ ~aborted /\ gate.pc # "spawn" /\ aborted' = TRUE
      /\ UNCHANGED <<platform, child, holds, exit, result, object>>
    BY DEF Shell!Abort, Shell!At
<1>2. CASE gate.pc # "run" /\ UNCHANGED <<gate, term, signalled>>
    <2>1. Shell!Windows' = Shell!Windows /\ (Over => Over') /\ (Quiet => Quiet')
        BY <1>1 DEF Shell!Windows, Over, Quiet, Shell!Gone, Shell!Alive, Shell!Group
    <2>2. GateTypes' /\ Stages' /\ Unborn' /\ PipesHeld'
        BY <1>1, <1>2, <2>1 DEF GateTypes, Stages, Unborn, PipesHeld, Shell!Alive, Shell!Gone
    <2>3. CloseTrue' /\ QuietKnown' /\ Flagged' /\ AnswerTrue'
        BY <1>1, <1>2, <2>1 DEF CloseTrue, QuietKnown, Flagged, AnswerTrue
    <2> QED
        BY <2>2, <2>3
<1>3. ASSUME gate.pc = "run", gate' = [gate EXCEPT !.cancelled = TRUE]
      PROVE  gate'.pc = "run" /\ gate'.cancelled /\ Grown(gate')
    BY <1>3 DEF GateTypes, Flags, Grown, CloseTrue
<1>4. CASE gate.pc = "run" /\ gate' = [gate EXCEPT !.cancelled = TRUE] /\ UNCHANGED <<term, signalled>>
    BY <1>1, <1>3, <1>4, TellsSound
<1>5. CASE /\ gate.pc = "run" /\ term = "none" /\ gate' = [gate EXCEPT !.cancelled = TRUE]
           /\ term' = Shell!Termination
           /\ signalled' = (signalled \/ (~Shell!Windows /\ Shell!Alive(Leader)))
    <2>1. signalled' \in BOOLEAN /\ Shell!Termination = IF Shell!Windows THEN "proof" ELSE "grace"
        BY <1>5 DEF GateTypes, Shell!Termination
    <2>2. object \in Handles /\ (~Shell!Windows => object = Shell!NoJob)
        BY DEF GateTypes, Stages
    <2> QED
        BY <1>1, <1>3, <1>5, <2>1, <2>2, DyingStill, Proceeds DEF Lasts
<1> QED
    BY <1>2, <1>4, <1>5 DEF Shell!Abort, Shell!At, Shell!Terminating

\* The timers.
LEMMA TimersSound == ASSUME GateSound, Shell!Timeout \/ Shell!Arm \/ Shell!NotReady PROVE GateSound'
<1> USE DEF GateSound
<1>1. gate.pc = "run"
    BY DEF Shell!Timeout, Shell!Arm, Shell!NotReady, Shell!At
<1>2. Grown(gate) /\ gate \in Flags
    BY DEF Grown, GateTypes, CloseTrue
<1> DEFINE late == [gate EXCEPT !.timedOut = TRUE]
           failed == [gate EXCEPT !.timedOut = TRUE, !.failed = TRUE]
<1>3. /\ Grown(late) /\ late.pc = "run" /\ late.timedOut
      /\ Grown(failed) /\ failed.pc = "run" /\ failed.timedOut
    BY <1>1, <1>2 DEF Grown, Flags
<1>4. CASE Shell!Request(late) \/ Shell!Request(failed)
    BY <1>1, <1>3, <1>4, RequestSound
<1>5. CASE /\ \/ gate' = [gate EXCEPT !.timedOut = TRUE, !.timer = "none"]
              \/ gate' = [gate EXCEPT !.timedOut = TRUE, !.failed = TRUE, !.timer = "none"]
              \/ gate' = [gate EXCEPT !.timer = IF Shell!Terminating THEN "none" ELSE "timeout"]
           /\ UNCHANGED <<platform, child, holds, exit, aborted, term, result, object, signalled>>
    <2>1. Grown(gate') /\ gate'.pc = "run"
        BY <1>1, <1>2, <1>5 DEF Grown, Flags
    <2> QED
        BY <1>1, <1>5, <2>1, TellsSound DEF GateTypes
<1> QED
    BY <1>4, <1>5 DEF Shell!Timeout, Shell!Arm, Shell!NotReady

\* The close of the command is heard: the gate answers unless something of it is left or a
\* termination goes on.
LEMMA CloseSound == ASSUME GateSound, Shell!Close PROVE GateSound'
<1> USE DEF GateSound
<1> DEFINE heard == [gate EXCEPT !.close = exit]
<1>1. /\ gate.pc = "run" /\ Shell!Gone(Leader) /\ holds = {} /\ gate.close = "none"
      /\ UNCHANGED <<platform, holds, exit, aborted, signalled>>
    BY DEF Shell!Close, Shell!At, Shell!ClosedPipes
<1>2. Over /\ "run" \notin object.handles
    BY <1>1 DEF Over, PipesHeld
<1>3. gate \in Flags /\ exit \in Ending
    BY DEF GateTypes
<1>4. Grown(heard) /\ heard.pc = "run"
    BY <1>1, <1>2, <1>3 DEF Grown, Flags
<1>5. CASE Shell!Terminating /\ gate' = heard /\ UNCHANGED <<term, result, object, child>>
    BY <1>1, <1>4, <1>5, TellsSound DEF GateTypes
<1>6. CASE Shell!Windows /\ Shell!Finish(exit, heard)
    <2>1. Quiet'
        BY <1>1, <1>2, <1>6, FinishDies DEF Quiet, Shell!Windows
    <2> QED
        BY <1>1, <1>2, <1>3, <1>4, <1>6, <2>1, FinishSound
<1>7. CASE ~Shell!Windows /\ Shell!Group = {} /\ Shell!Finish(exit, heard)
    <2>1. Quiet'
        BY <1>1, <1>7, FinishDies, DyingKeeps DEF Quiet
    <2> QED
        BY <1>1, <1>2, <1>3, <1>4, <1>7, <2>1, FinishSound
<1>8. CASE /\ ~Shell!Terminating /\ ~Shell!Windows
           /\ gate' = [heard EXCEPT !.timer = "none"] /\ term' = "left-grace"
           /\ UNCHANGED <<result, object, child>>
    <2>1. Grown(gate') /\ gate'.pc = "run"
        BY <1>1, <1>4, <1>8 DEF Grown, Flags
    <2>2. object \in Handles /\ signalled \in BOOLEAN /\ aborted \in BOOLEAN /\ object = Shell!NoJob
        BY <1>8 DEF GateTypes, Stages
    <2>3. signalled => gate'.timedOut \/ gate'.cancelled
        BY <2>1 DEF Flagged, Grown
    <2> QED
        BY <1>1, <1>8, <2>1, <2>2, <2>3, DyingStill, Proceeds DEF Lasts
<1> QED
    BY <1>5, <1>6, <1>7, <1>8 DEF Shell!Close

\* The steps of the termination up to the answer.
LEMMA TerminationSound ==
  ASSUME GateSound,
         Shell!Grace \/ Shell!Verify \/ Shell!Proof \/ Shell!Confirmed \/ Shell!Taskkill
  PROVE  GateSound'
<1> USE DEF GateSound
<1>1. /\ gate' = gate /\ UNCHANGED <<platform, holds, exit, aborted, result>>
      /\ term \in {"grace", "left-grace", "verify", "proof", "watch"}
      /\ term' \in {"verify", "left-verify", "drain", "drain-failed", "watch"}
    BY DEF Shell!Grace, Shell!Verify, Shell!Proof, Shell!Confirmed, Shell!Taskkill
<1>2. gate.pc = "run" /\ Grown(gate)
    BY <1>1 DEF Stages, GateTypes, Flags, Grown, CloseTrue
<1>3. Dying
    <2>1. CASE Shell!Grace
        BY <2>1, KilledDying DEF Shell!Grace, Shell!Group
    <2>2. CASE Shell!Taskkill
        BY <2>2, KilledDying, Names DEF Shell!Taskkill
    <2>3. CASE child' = child
        BY <2>3, DyingStill
    <2> QED
        BY <2>1, <2>2, <2>3 DEF Shell!Verify, Shell!Proof, Shell!Confirmed
<1>4. /\ term' \in IF Shell!Windows THEN {"none", "proof", "watch", "drain", "drain-failed"}
                  ELSE {"none", "grace", "verify", "left-grace", "left-verify", "drain", "drain-failed"}
      /\ signalled' \in BOOLEAN
    BY DEF Shell!Grace, Shell!Verify, Shell!Proof, Shell!Confirmed, Shell!Taskkill, Stages, GateTypes
<1>5. /\ object' \in Handles /\ object'.answer = object.answer /\ object'.handles = object.handles
      /\ (~Shell!Windows => object' = Shell!NoJob) /\ Lasts
    <2>1. CASE Shell!Proof
        BY <2>1 DEF Shell!Proof, GateTypes, Handles, Stages, Lasts
    <2>2. CASE object' = object
        BY <2>2 DEF GateTypes, Stages, Lasts
    <2> QED
        BY <2>1, <2>2 DEF Shell!Grace, Shell!Verify, Shell!Confirmed, Shell!Taskkill
<1>6. term' = "drain" => (Quiet \/ object.early)'
    <2> SUFFICES ASSUME term' = "drain" PROVE Quiet \/ object.early
        BY <1>1, <1>3, <1>5, DyingKeeps DEF Lasts
    <2>1. CASE Shell!Verify
        BY <2>1 DEF Shell!Verify, Stages, Quiet
    <2>2. CASE Shell!Confirmed
        BY <2>2 DEF Shell!Confirmed, QuietKnown
    <2> QED
        BY <2>1, <2>2 DEF Shell!Grace, Shell!Proof, Shell!Taskkill
<1>7. signalled' \/ term' \in {"proof", "watch"} => gate'.timedOut \/ gate'.cancelled
    BY <1>1 DEF Flagged, Shell!Grace, Shell!Verify, Shell!Proof, Shell!Confirmed, Shell!Taskkill
<1>8. aborted' \in BOOLEAN
    BY <1>1 DEF GateTypes
<1> QED
    BY <1>1, <1>2, <1>3, <1>4, <1>5, <1>6, <1>7, <1>8, Proceeds

\* The answers of a termination.
LEMMA VerdictSound == ASSUME GateSound, Shell!VerifyLeft \/ Shell!Drain PROVE GateSound'
<1> USE DEF GateSound
<1>1. /\ UNCHANGED <<platform, holds, exit, aborted, signalled>>
      /\ term \in {"left-verify", "drain", "drain-failed"}
    BY DEF Shell!VerifyLeft, Shell!Drain
<1>2. gate.pc = "run" /\ Grown(gate) /\ gate \in Flags
    BY <1>1 DEF Stages, GateTypes, Flags, Grown, CloseTrue
<1>3. gate.close \in Ending /\ (gate.close = "zero" => Over /\ exit = "zero")
    BY <1>2 DEF Flags, CloseTrue
<1>4. ASSUME NEW b \in BOOLEAN
      PROVE  Grown([gate EXCEPT !.failed = b]) /\ [gate EXCEPT !.failed = b].failed = b
    BY <1>2 DEF Grown, Flags
<1>5. CASE Shell!VerifyLeft
    <2> DEFINE b == gate.failed \/ Shell!Group # {}
    <2>1. b \in BOOLEAN /\ Shell!Finish(gate.close, [gate EXCEPT !.failed = b])
        BY <1>2, <1>5 DEF Shell!VerifyLeft, Flags
    <2>2. ~Shell!Windows
        BY <1>5 DEF Shell!VerifyLeft, Stages
    <2>3. ~b => Quiet'
        BY <1>1, <2>1, <2>2, FinishDies, DyingKeeps DEF Quiet
    <2> HIDE DEF b
    <2> QED
        BY <1>1, <1>2, <1>3, <1>4, <2>1, <2>3, FinishSound
<1>6. CASE Shell!Drain /\ term = "drain"
    <2> DEFINE code == IF gate.close = "none" THEN "other" ELSE gate.close
    <2>1. Shell!Finish(code, gate)
        BY <1>6 DEF Shell!Drain
    <2>2. (Quiet \/ object.early)'
        <3>1. object'.early = object.early
            BY <2>1 DEF Shell!Finish, Shell!NoJob
        <3> QED
            BY <1>1, <1>6, <2>1, <3>1, FinishDies, DyingKeeps DEF QuietKnown
    <2>3. code \in Ending /\ (code = "zero" => Over /\ exit = "zero")
        BY <1>3 DEF Ending
    <2> HIDE DEF code
    <2> QED
        BY <1>1, <1>2, <2>1, <2>2, <2>3, FinishSound
<1>7. CASE Shell!Drain /\ term = "drain-failed"
    <2>1. Shell!Finish("other", [gate EXCEPT !.failed = TRUE])
        BY <1>7 DEF Shell!Drain
    <2>2. "other" \in Ending /\ TRUE \in BOOLEAN
        BY DEF Ending
    <2> QED
        BY <1>1, <1>2, <1>4, <2>1, <2>2, FinishSound
<1> QED
    BY <1>1, <1>5, <1>6, <1>7 DEF Shell!Drain

-----------------------------------------------------------------------------
(* The gate's theorems.                                                    *)

LEMMA GateNext == ASSUME GateSound, Shell!Next PROVE GateSound'
<1>1. CASE Shell!Gate
    BY <1>1, HelperSound, SpawnSound, SpawnFailsSound, TimersSound, CloseSound, TerminationSound,
       VerdictSound DEF Shell!Gate
<1>2. CASE Shell!Job
    BY <1>2, MakeJobSound, LaunchSound, WatcherSound, HelperEndsSound DEF Shell!Job
<1>3. CASE Shell!Processes
    BY <1>3, DiesSound, LeavesSound, ForksSound DEF Shell!Processes
<1> QED
    BY <1>1, <1>2, <1>3, AskSound, AbortSound DEF Shell!Next

OfGate == by = "gate" => GateSound

LEMMA GateInit == ASSUME ProcessesInit, by = "gate" PROVE GateSound
<1>1. Shell!Init
    BY DEF ProcessesInit
<1>2. Shell!NoJob \in Handles /\ Shell!NoJob.answer = "none" /\ Shell!Fresh \in Flags
      /\ Shell!Fresh.pc = "ask" /\ Shell!Fresh.close = "none" /\ Shell!NoResult \in Answers
    BY DEF Shell!NoJob, Shell!Fresh, Shell!NoResult, Handles, Flags, Answers, Ending
<1>3. platform \in {"posix", "win32"}
    BY <1>1, GateAssumption DEF Shell!Init, Shell!GateAssumption
<1>4. GateTypes
    BY <1>1, <1>2, <1>3 DEF Shell!Init, GateTypes, Life, Ending
<1>5. Stages /\ Unborn /\ Flagged
    BY <1>1, <1>2 DEF Shell!Init, Stages, Unborn, Flagged
<1>6. PipesHeld /\ CloseTrue /\ QuietKnown /\ AnswerTrue
    BY <1>1, <1>2 DEF Shell!Init, PipesHeld, CloseTrue, QuietKnown, AnswerTrue
<1> QED
    BY <1>4, <1>5, <1>6 DEF GateSound

LEMMA GateInvariant == ProcessesSpec => []OfGate
<1>1. ProcessesInit => OfGate
    BY GateInit DEF OfGate
<1>2. OfGate /\ [ProcessesNext]_allvars => OfGate'
    <2> SUFFICES ASSUME OfGate, [ProcessesNext]_allvars, by' = "gate" PROVE GateSound'
        BY DEF OfGate
    <2>1. CASE by = "gate" /\ Shell!Next
        BY <2>1, GateNext DEF OfGate
    <2>2. CASE UNCHANGED <<by, gateVars>>
        <3>1. UNCHANGED <<platform, child, holds, exit, aborted, gate, term, result, object, signalled>>
              /\ GateSound
            BY <2>2 DEF OfGate, gateVars
        <3>2. Shell!Windows' = Shell!Windows /\ Quiet' = Quiet /\ Over' = Over
            BY <3>1 DEF Shell!Windows, Quiet, Over, Shell!Group, Shell!Gone, Shell!Alive
        <3> QED
            BY <3>1, <3>2 DEF GateSound, GateTypes, Stages, Unborn, PipesHeld, CloseTrue, QuietKnown,
               Flagged, AnswerTrue, Shell!Gone, Shell!Alive
    <2> QED
        BY <2>1, <2>2 DEF ProcessesNext, allvars
<1> QED
    BY <1>1, <1>2, PTL DEF ProcessesSpec

\* docs/operations.md:52, for any command, however it forks, leaves the group, keeps the pipes or
\* resists, and however the helper and the watcher fail: an answer of executeShellGate without
\* termination_failed leaves no process of the command behind, unless on Windows the Job was proved
\* empty before the helper was in it.
THEOREM NothingIsLeft == ProcessesSpec => []NothingLeftBehind
<1>1. OfGate => NothingLeftBehind
    BY GateConcludes DEF OfGate, NothingLeftBehind
<1> QED
    BY <1>1, GateInvariant, PTL

\* And executeShellGate says that a command passed only if it ended by itself with 0, unsignalled,
\* in time and not aborted.
THEOREM VerdictIsTrue == ProcessesSpec => []VerdictTrue
<1>1. OfGate => VerdictTrue
    BY GateConcludes DEF OfGate, VerdictTrue
<1> QED
    BY <1>1, GateInvariant, PTL

=============================================================================

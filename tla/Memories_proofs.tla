-------------------------- MODULE Memories_proofs --------------------------
(***************************************************************************)
(* The run store for any number of clients and commits: no commit loses    *)
(* another, and a fenced one is made under the lease of its client.  The   *)
(* memory of a session, with the calls of a run beside its deliveries or   *)
(* with its journal: the lemmas of SessionMemory_proofs about the steps of *)
(* one session, carried to the behaviours of Memories.                     *)
(***************************************************************************)
EXTENDS Memories, Sequences, SequenceTheorems, FiniteSetTheorems, TLAPS

-----------------------------------------------------------------------------
(* The run store.                                                          *)

-----------------------------------------------------------------------------
(* The inductive invariant.                                                *)

DeadAreOut == \A c \in Client \ up : pc[c] = "out"

\* A client has the guard for as long as it reads, changes or relies on the lease.
GuardHeld == \A c \in Client :
    (pc[c] \in {"guarded", "unguard"} \/ (pc[c] \in Saving /\ Fenced(c))) => guard = c

\* It has the mirror from the comparison of the revision to the end of the commit.
MirrorHeld == \A c \in Client : pc[c] \in Saving \ {"mirror"} => mirror = c

\* A load does not believe itself fenced.
LoadsUnfenced == \A c \in Client : pc[c] = "load" => ~Fenced(c)

\* A copy is older than the manifest or equal to it.
NotAhead(r) == r.revision <= manifest.revision /\ (r.revision = manifest.revision => r = manifest)
CopiesNotAhead == NotAhead(Created) /\ \A c \in Client : NotAhead(copy[c])

\* What was compared is still the manifest.
Compared == \A c \in Client : pc[c] \in {"stage", "fence", "rename"} => copy[c] = manifest

Ordered ==
    /\ DeadAreOut
    /\ GuardHeld
    /\ MirrorHeld
    /\ LoadsUnfenced
    /\ CopiesNotAhead
    /\ Compared
    /\ FenceHolds

Inductive == TypeOK /\ Ordered

-----------------------------------------------------------------------------
(* The ways a call ends, fails or goes on, as equations.                   *)

Moved(c, p, g, r) ==
    /\ pc' = [pc EXCEPT ![c] = p]
    /\ goal' = [goal EXCEPT ![c] = g]
    /\ copy' = [copy EXCEPT ![c] = r]
Ended(c) == Moved(c, "out", "none", Created) /\ op' = [op EXCEPT ![c] = "none"]
Releasing(c) ==
    /\ Moved(c, "guard", "release", copy[c])
    /\ op' = op
    /\ handle' = [handle EXCEPT ![c] = "released"]

\* A client that keeps its goal or its copy.
LEMMA Same == ASSUME TypeOK, NEW c \in Client
  PROVE goal = [goal EXCEPT ![c] = goal[c]] /\ copy = [copy EXCEPT ![c] = copy[c]]
BY DEF TypeOK

\* The end of a call leaves nothing of it (Ends).
LEMMA Ending == ASSUME NEW c, Ends(c) PROVE Ended(c)
BY DEF Ends, Ended, Moved, Goto, For, Keep

\* A call that fails releases its handle, or ends if it has none (Fails).
LEMMA Failing == ASSUME TypeOK, NEW c \in Client, Fails(c)
  PROVE Releasing(c) \/ (Ended(c) /\ handle' = handle)
<1>1. CASE handle[c] \in {"held", "lost"}
  BY <1>1, Same DEF Fails, Releasing, Moved, Goto, For, SetHandle
<1>2. CASE handle[c] \notin {"held", "lost"}
  BY <1>2, Ending DEF Fails
<1> QED
  BY <1>1, <1>2

\* A save that fails is back at the guard if it was fenced, else the load fails (Aborts).
LEMMA Aborting == ASSUME TypeOK, NEW c \in Client, Aborts(c)
  PROVE \/ /\ Fenced(c) /\ Moved(c, "unguard", goal[c], copy[c])
           /\ op' = op /\ handle' = [handle EXCEPT ![c] = "lost"]
        \/ ~Fenced(c) /\ (Releasing(c) \/ (Ended(c) /\ handle' = handle))
BY Failing, Same DEF Aborts, Moved, Goto, SetHandle

\* A call with its state goes on to the lease, to its work or back to its caller (AfterLoad).
LEMMA Loaded == ASSUME TypeOK, NEW c \in Client, NEW r, AfterLoad(c, r)
  PROVE \/ Moved(c, "guard", "acquire", r) /\ op' = op
        \/ Moved(c, "work", goal[c], r) /\ op' = op
        \/ Ended(c)
BY Ending, Same DEF AfterLoad, Moved, Goto, For, Keep

-----------------------------------------------------------------------------
\* Where a call's own variables go they stay typed.
CallTyped == op' \in [Client -> Op] /\ pc' \in [Client -> PC] /\ goal' \in [Client -> Goal] /\ copy' \in [Client -> Version]

\* A move to a proper place keeps the client's variables typed.
LEMMA MovedTyped == ASSUME TypeOK, NEW c \in Client, NEW p \in PC, NEW g \in Goal, NEW r \in Version, Moved(c, p, g, r)
  PROVE pc' \in [Client -> PC] /\ goal' \in [Client -> Goal] /\ copy' \in [Client -> Version]
BY DEF TypeOK, Moved

\* So does the end of a call.
LEMMA EndedTyped == ASSUME TypeOK, NEW c \in Client, Ended(c) PROVE CallTyped
<1>1. "out" \in PC /\ "none" \in Goal /\ Created \in Version /\ "none" \in Op
  BY DEF PC, Goal, Created, Version, Op
<1> QED
  BY <1>1, MovedTyped DEF Ended, CallTyped, TypeOK

\* So does the release of a handle.
LEMMA ReleasingTyped == ASSUME TypeOK, NEW c \in Client, Releasing(c)
  PROVE CallTyped /\ handle' \in [Client -> Handle]
<1>1. "guard" \in PC /\ "release" \in Goal /\ copy[c] \in Version /\ "released" \in Handle
  BY DEF PC, Goal, Handle, TypeOK
<1> QED
  BY <1>1, MovedTyped DEF Releasing, CallTyped, TypeOK

\* So does a failed call.
LEMMA FailTyped == ASSUME TypeOK, NEW c \in Client, Fails(c)
  PROVE CallTyped /\ handle' \in [Client -> Handle]
BY Failing, EndedTyped, ReleasingTyped DEF TypeOK

\* So does a failed save.
LEMMA AbortTyped == ASSUME TypeOK, NEW c \in Client, Aborts(c)
  PROVE CallTyped /\ handle' \in [Client -> Handle]
<1>1. "unguard" \in PC /\ goal[c] \in Goal /\ copy[c] \in Version /\ "lost" \in Handle
  BY DEF PC, Handle, TypeOK
<1> QED
  BY <1>1, Aborting, MovedTyped, EndedTyped, ReleasingTyped DEF TypeOK, CallTyped

\* So does a finished load of a proper state.
LEMMA LoadTyped == ASSUME TypeOK, NEW c \in Client, NEW r \in Version, AfterLoad(c, r) PROVE CallTyped
<1>1. {"guard", "work"} \subseteq PC /\ goal[c] \in Goal /\ "acquire" \in Goal
  BY DEF PC, Goal, TypeOK
<1> QED
  BY <1>1, Loaded, MovedTyped, EndedTyped DEF TypeOK, CallTyped

\* Every step of every client keeps the variables typed.
LEMMA TypeStep == ASSUME TypeOK, [Next]_vars PROVE TypeOK'
<1> USE ClientAssumption DEF Goto, For, SetHandle, Keep, locks, files
<1>1. Created \in Version /\ NoLease \in Lease /\ \A c \in Client : [by |-> c, expired |-> FALSE] \in Lease
  BY DEF Created, Version, NoLease, Lease
<1> USE <1>1
<1> DEFINE Typed == op' \in [Client -> Op] /\ pc' \in [Client -> PC] /\ goal' \in [Client -> Goal] /\ copy' \in [Client -> Version] /\ handle' \in [Client -> Handle]
<1>2. ASSUME NEW c \in Client, Call(c) PROVE TypeOK'
  <2>1. Typed
    <3>1. CASE \E what \in {"run", "load"} : op' = [op EXCEPT ![c] = what] /\ Goto(c, "load") /\ For(c, "none")
      BY <1>2, <3>1 DEF Call, TypeOK, Op, PC, Goal
    <3>2. CASE op' = [op EXCEPT ![c] = "mutate"] /\ Goto(c, "guard") /\ For(c, "acquire")
      BY <1>2, <3>2 DEF Call, TypeOK, Op, PC, Goal
    <3> QED
      BY <1>2, <3>1, <3>2 DEF Call
  <2> QED
    BY <1>2, <2>1 DEF Call, TypeOK
<1>3. ASSUME NEW c \in Client, LoadRun(c) PROVE TypeOK'
  <2>1. CASE unlinked # Nobody
    BY <1>3, <2>1 DEF LoadRun, TypeOK, PC, Saving
  <2>2. CASE unlinked = Nobody
    BY <1>3, <2>2, LoadTyped DEF LoadRun, TypeOK, CallTyped
  <2> QED
    BY <2>1, <2>2
<1>4. ASSUME NEW c \in Client, LoadDenied(c) PROVE TypeOK'
  BY <1>4, FailTyped DEF LoadDenied, TypeOK, CallTyped
<1>5. ASSUME NEW c \in Client, TakeGuard(c) PROVE TypeOK'
  BY <1>5 DEF TakeGuard, TypeOK, PC
<1>6. ASSUME NEW c \in Client, GuardDenied(c) PROVE TypeOK'
  <2>1. CASE Goto(c, "work") /\ For(c, "none") /\ SetHandle(c, "lost") /\ UNCHANGED <<op, copy>>
    BY <1>6, <2>1 DEF GuardDenied, TypeOK, PC, Goal, Handle
  <2>2. CASE Ends(c) /\ SetHandle(c, "none")
    BY <1>6, <2>2, Ending, EndedTyped DEF GuardDenied, TypeOK, Handle, CallTyped
  <2>3. CASE Fails(c)
    BY <1>6, <2>3, FailTyped DEF GuardDenied, TypeOK, CallTyped
  <2> QED
    BY <1>6, <2>1, <2>2, <2>3 DEF GuardDenied
<1>7. ASSUME NEW c \in Client, AcquireLease(c) PROVE TypeOK'
  <2>1. CASE MayTake(c)
    BY <1>7, <2>1 DEF AcquireLease, TypeOK, PC, Handle
  <2>2. CASE ~MayTake(c)
    BY <1>7, <2>2 DEF AcquireLease, TypeOK, PC, Handle
  <2> QED
    BY <2>1, <2>2
<1>8. ASSUME NEW c \in Client, RenewLease(c) PROVE TypeOK'
  <2>1. CASE Held(c)
    BY <1>8, <2>1 DEF RenewLease, TypeOK, PC, Handle
  <2>2. CASE ~Held(c)
    BY <1>8, <2>2 DEF RenewLease, TypeOK, PC, Handle
  <2> QED
    BY <2>1, <2>2
<1>9. ASSUME NEW c \in Client, RemoveLease(c) PROVE TypeOK'
  BY <1>9 DEF RemoveLease, TypeOK, PC, Handle
<1>10. ASSUME NEW c \in Client, EnterFence(c) PROVE TypeOK'
  <2>1. CASE Held(c)
    BY <1>10, <2>1 DEF EnterFence, TypeOK, PC, Saving
  <2>2. CASE ~Held(c)
    BY <1>10, <2>2 DEF EnterFence, TypeOK, PC, Handle
  <2> QED
    BY <2>1, <2>2
<1>11. ASSUME NEW c \in Client, DropGuard(c) PROVE TypeOK'
  <2>1. CASE Ends(c) /\ UNCHANGED handle
    BY <1>11, <2>1, Ending, EndedTyped DEF DropGuard, TypeOK, CallTyped
  <2>2. CASE Goto(c, "guard") /\ For(c, "release") /\ SetHandle(c, "released") /\ UNCHANGED <<op, copy>>
    BY <1>11, <2>2 DEF DropGuard, TypeOK, PC, Goal, Handle
  <2>3. CASE /\ Goto(c, IF op[c] = "mutate" /\ goal[c] = "acquire" THEN "load" ELSE "work")
             /\ For(c, "none")
             /\ UNCHANGED <<op, copy, handle>>
    BY <1>11, <2>3 DEF DropGuard, TypeOK, PC, Goal
  <2> QED
    BY <1>11, <2>1, <2>2, <2>3 DEF DropGuard
<1>12. ASSUME NEW c \in Client, TakeMirror(c) PROVE TypeOK'
  BY <1>12 DEF TakeMirror, TypeOK, PC, Saving
<1>13. ASSUME NEW c \in Client, MirrorDenied(c) PROVE TypeOK'
  BY <1>13, AbortTyped DEF MirrorDenied, TypeOK, CallTyped
<1>14. ASSUME NEW c \in Client, Compare(c) PROVE TypeOK'
  <2>1. CASE manifest.revision = copy[c].revision
    BY <1>14, <2>1 DEF Compare, TypeOK, PC, Saving
  <2>2. CASE manifest.revision # copy[c].revision
    BY <1>14, <2>2, AbortTyped DEF Compare, TypeOK, CallTyped
  <2> QED
    BY <2>1, <2>2
<1>15. ASSUME NEW c \in Client, Stage(c) PROVE TypeOK'
  BY <1>15 DEF Stage, TypeOK, PC, Saving
<1>16. ASSUME NEW c \in Client, CommitFence(c) PROVE TypeOK'
  <2>1. CASE Fenced(c) => Held(c)
    BY <1>16, <2>1 DEF CommitFence, TypeOK, PC, Saving
  <2>2. CASE ~(Fenced(c) => Held(c))
    BY <1>16, <2>2, AbortTyped DEF CommitFence, TypeOK, CallTyped
  <2> QED
    BY <2>1, <2>2
<1>17. ASSUME NEW c \in Client, Replace(c) PROVE TypeOK'
  <2> DEFINE next == copy[c].revision + 1
             saved == [revision |-> next, changes |-> copy[c].changes \cup {<<c, next>>}]
  <2>1. saved \in Version
    BY DEF TypeOK, Version
  <2>2. manifest' = saved /\ copy' = [copy EXCEPT ![c] = saved]
    BY <1>17 DEF Replace
  <2> HIDE DEF saved
  <2> QED
    BY <1>17, <2>1, <2>2 DEF Replace, TypeOK, PC, Saving
<1>18. ASSUME NEW c \in Client, RotateBackup(c) PROVE TypeOK'
  BY <1>18 DEF RotateBackup, TypeOK, PC, Saving
<1>19. ASSUME NEW c \in Client, DropMirror(c) PROVE TypeOK'
  <2>1. CASE Fenced(c)
    BY <1>19, <2>1 DEF DropMirror, TypeOK, PC
  <2>2. CASE ~Fenced(c)
    <3>1. CallTyped
      BY <1>19, <2>2, LoadTyped DEF DropMirror, TypeOK
    <3> QED
      BY <1>19, <3>1 DEF DropMirror, TypeOK, CallTyped
  <2> QED
    BY <2>1, <2>2
<1>20. ASSUME NEW c \in Client, Save(c) PROVE TypeOK'
  BY <1>20 DEF Save, TypeOK, PC, Goal
<1>21. ASSUME NEW c \in Client, Heartbeat(c) PROVE TypeOK'
  BY <1>21 DEF Heartbeat, TypeOK, PC, Goal
<1>22. ASSUME NEW c \in Client, Release(c) PROVE TypeOK'
  BY <1>22 DEF Release, TypeOK, PC, Goal, Handle
<1>23. ASSUME NEW c \in Client, Crash(c) PROVE TypeOK'
  BY <1>23, Ending, EndedTyped DEF Crash, TypeOK, Handle, CallTyped
<1>24. CASE LeaseExpires
  BY <1>24 DEF LeaseExpires, TypeOK, Lease
<1>25. CASE UNCHANGED vars
  BY <1>25 DEF vars, TypeOK
<1> QED
  BY <1>2, <1>3, <1>4, <1>5, <1>6, <1>7, <1>8, <1>9, <1>10, <1>11, <1>12, <1>13, <1>14, <1>15, <1>16,
     <1>17, <1>18, <1>19, <1>20, <1>21, <1>22, <1>23, <1>24, <1>25 DEF Next, Proceed, LeaseStep, SaveStep, Work

-----------------------------------------------------------------------------
\* Where a client may go, to p with goal g and state r, while the manifest stays.
MayGo(c, p, g, r) ==
    /\ manifest' = manifest
    /\ NotAhead(r)
    /\ up' = up \/ up' = up \ {c}
    /\ p = "out" \/ c \in up'
    /\ guard' = guard \/ (guard' = c /\ guard \notin up) \/ guard = c
    /\ mirror' = mirror \/ (mirror' = c /\ mirror \notin up) \/ mirror = c
    /\ lease'.by = lease.by \/ guard = c
    /\ (p \in {"guarded", "unguard"} \/ (p \in Saving /\ g = "save")) => guard' = c
    /\ p \in Saving \ {"mirror"} => mirror' = c
    /\ p = "load" => g # "save"
    /\ p \in {"stage", "fence", "rename"} => r = manifest
    /\ p = "rename" /\ g = "save" => lease'.by = c
Moves(c, p, g, r) == Moved(c, p, g, r) /\ MayGo(c, p, g, r)

\* Every step but a replacement moves one client and leaves the manifest alone.  It
\* preserves the order if the client may be where it goes, and if it changes a lock or
\* the lease only where nobody else relies on it.
LEMMA MoveStep ==
  ASSUME Inductive, NEW c \in Client, NEW p, NEW g, NEW r, Moves(c, p, g, r)
  PROVE  Ordered'
<1> USE DEF Inductive, Ordered, Moves, MayGo
<1>1. /\ pc'[c] = p /\ goal'[c] = g /\ copy'[c] = r
      /\ \A d \in Client \ {c} : pc'[d] = pc[d] /\ goal'[d] = goal[d] /\ copy'[d] = copy[d]
  BY DEF TypeOK, Moved
<1>2. \A d \in Client : pc[d] # "out" => d \in up
  BY DEF DeadAreOut
<1>3. DeadAreOut'
  BY <1>1 DEF DeadAreOut
<1>4. GuardHeld'
  BY <1>1, <1>2 DEF GuardHeld, Fenced, Saving
<1>5. MirrorHeld'
  BY <1>1, <1>2 DEF MirrorHeld, Saving
<1>6. LoadsUnfenced'
  BY <1>1 DEF LoadsUnfenced, Fenced
<1>7. CopiesNotAhead'
  BY <1>1 DEF CopiesNotAhead, NotAhead
<1>8. Compared'
  BY <1>1 DEF Compared
<1>9. FenceHolds'
  BY <1>1 DEF FenceHolds, GuardHeld, Fenced, Saving
<1> QED
  BY <1>3, <1>4, <1>5, <1>6, <1>7, <1>8, <1>9

\* A replacement is made on the manifest the copy was compared with, and leaves every
\* other copy behind.
LEMMA ReplaceStep == ASSUME Inductive, NEW c \in Client, Replace(c) PROVE Ordered'
<1> USE DEF Inductive, Ordered
<1> DEFINE next == copy[c].revision + 1
           saved == [revision |-> next, changes |-> copy[c].changes \cup {<<c, next>>}]
<1>1. copy[c] = manifest /\ mirror = c /\ c \in up
  BY DEF Replace, Compared, MirrorHeld, Saving, DeadAreOut
<1>2. manifest' = saved /\ copy' = [copy EXCEPT ![c] = saved] /\ saved.revision = manifest.revision + 1
  BY <1>1 DEF Replace, Keep
<1>3. manifest.revision \in Nat /\ Created.revision = 0 /\ \A d \in Client : copy[d].revision \in Nat
  BY DEF TypeOK, Version, Created
<1> HIDE DEF saved
<1>4. /\ up' = up /\ guard' = guard /\ mirror' = mirror /\ lease' = lease /\ goal' = goal
      /\ pc'[c] = "backup" /\ \A d \in Client \ {c} : pc'[d] = pc[d]
  BY DEF Replace, Goto, locks, TypeOK
<1>5. DeadAreOut'
  BY <1>1, <1>4 DEF DeadAreOut
<1>6. GuardHeld'
  <2>1. pc[c] = "rename"
    BY DEF Replace
  <2> QED
    BY <1>4, <2>1 DEF GuardHeld, Fenced, Saving
<1>7. MirrorHeld'
  BY <1>1, <1>4 DEF MirrorHeld, Saving
<1>8. LoadsUnfenced'
  BY <1>4 DEF LoadsUnfenced, Fenced
<1>9. copy'[c] = saved /\ \A d \in Client \ {c} : copy'[d] = copy[d]
  BY <1>2 DEF TypeOK
<1>10. CopiesNotAhead'
  <2>1. NotAhead(Created)'
    BY <1>2, <1>3 DEF CopiesNotAhead, NotAhead, Created
  <2>2. ASSUME NEW d \in Client PROVE NotAhead(copy[d])'
    <3>1. CASE d = c
      BY <1>2, <1>3, <1>9, <3>1 DEF NotAhead
    <3>2. CASE d # c
      <4>1. copy'[d] = copy[d] /\ copy[d].revision <= manifest.revision /\ manifest'.revision = manifest.revision + 1
        BY <1>2, <1>9, <3>2 DEF CopiesNotAhead, NotAhead
      <4> QED
        BY <1>3, <4>1 DEF NotAhead
    <3> QED
      BY <3>1, <3>2
  <2> QED
    BY <2>1, <2>2 DEF CopiesNotAhead
<1>11. Compared'
  <2> SUFFICES ASSUME NEW d \in Client, pc'[d] \in {"stage", "fence", "rename"} PROVE FALSE
    BY DEF Compared
  <2>1. d # c /\ pc'[d] = pc[d]
    BY <1>4
  <2> QED
    BY <1>1, <2>1 DEF MirrorHeld, Saving
<1>12. FenceHolds'
  BY <1>4 DEF FenceHolds, Fenced
<1> QED
  BY <1>5, <1>6, <1>7, <1>8, <1>10, <1>11, <1>12

\* What the invariant says of a client, by where it is.
Placed(c) ==
    /\ pc[c] # "out" => c \in up
    /\ pc[c] \in {"guarded", "unguard"} => guard = c
    /\ pc[c] \in Saving /\ goal[c] = "save" => guard = c
    /\ pc[c] \in Saving \ {"mirror"} => mirror = c
    /\ pc[c] = "load" => goal[c] # "save"
    /\ pc[c] \in {"stage", "fence", "rename"} => copy[c] = manifest
    /\ pc[c] = "rename" /\ goal[c] = "save" => lease.by = c
    /\ NotAhead(copy[c]) /\ NotAhead(manifest) /\ NotAhead(Created)

\* The invariant, read at one client.
LEMMA Places == ASSUME Inductive, NEW c \in Client PROVE Placed(c)
<1>1. NotAhead(copy[c]) /\ NotAhead(manifest) /\ NotAhead(Created)
  BY DEF Inductive, Ordered, CopiesNotAhead, NotAhead, TypeOK, Version
<1> QED
  BY <1>1 DEF Inductive, Ordered, DeadAreOut, GuardHeld, MirrorHeld, LoadsUnfenced, Compared, FenceHolds, Fenced, Placed

\* Every step preserves the order: each handler moves its client where it may go.
LEMMA OrderedStep == ASSUME Inductive, [Next]_vars PROVE Ordered'
<1> USE DEF locks, files, Goto, For, Keep, CanTake, Saving, Fenced
<1>1. \A c \in Client : Fails(c) => Moved(c, "guard", "release", copy[c]) \/ Moved(c, "out", "none", Created)
  BY Failing DEF Releasing, Ended, Inductive
<1>2. \A c \in Client : Aborts(c) => \/ goal[c] = "save" /\ Moved(c, "unguard", goal[c], copy[c])
                                     \/ Moved(c, "guard", "release", copy[c])
                                     \/ Moved(c, "out", "none", Created)
  BY Aborting DEF Releasing, Ended, Inductive
<1>3. \A c \in Client : goal = [goal EXCEPT ![c] = goal[c]] /\ copy = [copy EXCEPT ![c] = copy[c]]
  BY Same DEF Inductive
<1>4. Nobody \notin up /\ TypeOK
  BY ClientAssumption DEF Inductive, TypeOK
<1>5. ASSUME NEW c \in Client, Call(c) PROVE Ordered'
  <2>1. \/ Moved(c, "load", "none", copy[c])
        \/ Moved(c, "guard", "acquire", copy[c])
    BY <1>5, <1>3 DEF Call, Moved
  <2>2. MayGo(c, "load", "none", copy[c])
    BY <1>5, Places DEF Call, Placed, MayGo
  <2>3. MayGo(c, "guard", "acquire", copy[c])
    BY <1>5, Places DEF Call, Placed, MayGo
  <2> QED
    BY <2>1, <2>2, <2>3, MoveStep DEF Moves
<1>6. ASSUME NEW c \in Client, LoadRun(c) PROVE Ordered'
  <2>1. CASE unlinked # Nobody
    <3>1. Moved(c, "mirror", goal[c], manifest)
      BY <1>6, <2>1, <1>3 DEF LoadRun, Ended, Moved
    <3>2. MayGo(c, "mirror", goal[c], manifest)
      BY <1>6, <2>1, Places DEF LoadRun, Placed, MayGo
    <3> QED
      BY <3>1, <3>2, MoveStep DEF Moves
  <2>2. CASE ~(unlinked # Nobody)
    <3>1. \/ Moved(c, "guard", "acquire", manifest)
          \/ Moved(c, "work", goal[c], manifest)
          \/ Moved(c, "out", "none", Created)
      BY <1>6, <2>2, Loaded, <1>4 DEF LoadRun, Ended, Moved
    <3>2. MayGo(c, "guard", "acquire", manifest)
      BY <1>6, <2>2, Places DEF LoadRun, Placed, MayGo
    <3>3. MayGo(c, "work", goal[c], manifest)
      BY <1>6, <2>2, Places DEF LoadRun, Placed, MayGo
    <3>4. MayGo(c, "out", "none", Created)
      BY <1>6, <2>2, Places DEF LoadRun, Placed, MayGo
    <3> QED
      BY <3>1, <3>2, <3>3, <3>4, MoveStep DEF Moves
  <2> QED
    BY <2>1, <2>2
<1>7. ASSUME NEW c \in Client, LoadDenied(c) PROVE Ordered'
  <2>1. \/ Moved(c, "guard", "release", copy[c])
        \/ Moved(c, "out", "none", Created)
    BY <1>7, <1>1 DEF LoadDenied, Moved
  <2>2. MayGo(c, "guard", "release", copy[c])
    BY <1>7, Places DEF LoadDenied, Placed, MayGo
  <2>3. MayGo(c, "out", "none", Created)
    BY <1>7, Places DEF LoadDenied, Placed, MayGo
  <2> QED
    BY <2>1, <2>2, <2>3, MoveStep DEF Moves
<1>8. ASSUME NEW c \in Client, TakeGuard(c) PROVE Ordered'
  <2>1. Moved(c, "guarded", goal[c], copy[c])
    BY <1>8, <1>3 DEF TakeGuard, Moved
  <2>2. MayGo(c, "guarded", goal[c], copy[c])
    BY <1>8, Places, <1>4 DEF TakeGuard, Placed, MayGo
  <2> QED
    BY <2>1, <2>2, MoveStep DEF Moves
<1>9. ASSUME NEW c \in Client, GuardDenied(c) PROVE Ordered'
  <2>1. \/ Moved(c, "work", "none", copy[c])
        \/ Moved(c, "guard", "release", copy[c])
        \/ Moved(c, "out", "none", Created)
    BY <1>9, <1>1, <1>3, Ending DEF GuardDenied, Ended, Moved
  <2>2. MayGo(c, "work", "none", copy[c])
    BY <1>9, Places DEF GuardDenied, Placed, MayGo
  <2>3. MayGo(c, "guard", "release", copy[c])
    BY <1>9, Places DEF GuardDenied, Placed, MayGo
  <2>4. MayGo(c, "out", "none", Created)
    BY <1>9, Places DEF GuardDenied, Placed, MayGo
  <2> QED
    BY <2>1, <2>2, <2>3, <2>4, MoveStep DEF Moves
<1>10. ASSUME NEW c \in Client, AcquireLease(c) PROVE Ordered'
  <2>1. Moved(c, "unguard", goal[c], copy[c])
    BY <1>10, <1>3 DEF AcquireLease, Moved
  <2>2. MayGo(c, "unguard", goal[c], copy[c])
    BY <1>10, Places DEF AcquireLease, Placed, MayGo
  <2> QED
    BY <2>1, <2>2, MoveStep DEF Moves
<1>11. ASSUME NEW c \in Client, RenewLease(c) PROVE Ordered'
  <2>1. Moved(c, "unguard", goal[c], copy[c])
    BY <1>11, <1>3 DEF RenewLease, Moved
  <2>2. MayGo(c, "unguard", goal[c], copy[c])
    BY <1>11, Places DEF RenewLease, Placed, MayGo
  <2> QED
    BY <2>1, <2>2, MoveStep DEF Moves
<1>12. ASSUME NEW c \in Client, RemoveLease(c) PROVE Ordered'
  <2>1. Moved(c, "unguard", goal[c], copy[c])
    BY <1>12, <1>3 DEF RemoveLease, Moved
  <2>2. MayGo(c, "unguard", goal[c], copy[c])
    BY <1>12, Places DEF RemoveLease, Placed, MayGo
  <2> QED
    BY <2>1, <2>2, MoveStep DEF Moves
<1>13. ASSUME NEW c \in Client, EnterFence(c) PROVE Ordered'
  <2>1. \/ Moved(c, "mirror", goal[c], copy[c])
        \/ Moved(c, "unguard", goal[c], copy[c])
    BY <1>13, <1>3 DEF EnterFence, Moved
  <2>2. MayGo(c, "mirror", goal[c], copy[c])
    BY <1>13, Places DEF EnterFence, Placed, MayGo
  <2>3. MayGo(c, "unguard", goal[c], copy[c])
    BY <1>13, Places DEF EnterFence, Placed, MayGo
  <2> QED
    BY <2>1, <2>2, <2>3, MoveStep DEF Moves
<1>14. ASSUME NEW c \in Client, DropGuard(c) PROVE Ordered'
  <2>1. \/ Moved(c, "out", "none", Created)
        \/ Moved(c, "guard", "release", copy[c])
        \/ Moved(c, "load", "none", copy[c])
        \/ Moved(c, "work", "none", copy[c])
    BY <1>14, <1>3, Ending DEF DropGuard, Ended, Moved
  <2>2. MayGo(c, "out", "none", Created)
    BY <1>14, Places DEF DropGuard, Placed, MayGo
  <2>3. MayGo(c, "guard", "release", copy[c])
    BY <1>14, Places DEF DropGuard, Placed, MayGo
  <2>4. MayGo(c, "load", "none", copy[c])
    BY <1>14, Places DEF DropGuard, Placed, MayGo
  <2>5. MayGo(c, "work", "none", copy[c])
    BY <1>14, Places DEF DropGuard, Placed, MayGo
  <2> QED
    BY <2>1, <2>2, <2>3, <2>4, <2>5, MoveStep DEF Moves
<1>15. ASSUME NEW c \in Client, Save(c) PROVE Ordered'
  <2>1. Moved(c, "guard", "save", copy[c])
    BY <1>15, <1>3 DEF Save, Moved
  <2>2. MayGo(c, "guard", "save", copy[c])
    BY <1>15, Places DEF Save, Placed, MayGo
  <2> QED
    BY <2>1, <2>2, MoveStep DEF Moves
<1>16. ASSUME NEW c \in Client, Heartbeat(c) PROVE Ordered'
  <2>1. Moved(c, "guard", "renew", copy[c])
    BY <1>16, <1>3 DEF Heartbeat, Moved
  <2>2. MayGo(c, "guard", "renew", copy[c])
    BY <1>16, Places DEF Heartbeat, Placed, MayGo
  <2> QED
    BY <2>1, <2>2, MoveStep DEF Moves
<1>17. ASSUME NEW c \in Client, Release(c) PROVE Ordered'
  <2>1. Moved(c, "guard", "release", copy[c])
    BY <1>17, <1>3 DEF Release, Moved
  <2>2. MayGo(c, "guard", "release", copy[c])
    BY <1>17, Places DEF Release, Placed, MayGo
  <2> QED
    BY <2>1, <2>2, MoveStep DEF Moves
<1>18. ASSUME NEW c \in Client, TakeMirror(c) PROVE Ordered'
  <2>1. Moved(c, "compare", goal[c], copy[c])
    BY <1>18, <1>3 DEF TakeMirror, Moved
  <2>2. MayGo(c, "compare", goal[c], copy[c])
    BY <1>18, Places, <1>4 DEF TakeMirror, Placed, MayGo
  <2> QED
    BY <2>1, <2>2, MoveStep DEF Moves
<1>19. ASSUME NEW c \in Client, MirrorDenied(c) PROVE Ordered'
  <2>1. \/ goal[c] = "save" /\ Moved(c, "unguard", goal[c], copy[c])
        \/ Moved(c, "guard", "release", copy[c])
        \/ Moved(c, "out", "none", Created)
    BY <1>19, <1>2 DEF MirrorDenied, Moved
  <2>2. goal[c] = "save" => MayGo(c, "unguard", goal[c], copy[c])
    BY <1>19, Places DEF MirrorDenied, Placed, MayGo
  <2>3. MayGo(c, "guard", "release", copy[c])
    BY <1>19, Places DEF MirrorDenied, Placed, MayGo
  <2>4. MayGo(c, "out", "none", Created)
    BY <1>19, Places DEF MirrorDenied, Placed, MayGo
  <2> QED
    BY <2>1, <2>2, <2>3, <2>4, MoveStep DEF Moves
<1>20. ASSUME NEW c \in Client, Compare(c) PROVE Ordered'
  <2>1. CASE manifest.revision = copy[c].revision
    <3>1. Moved(c, "stage", goal[c], copy[c])
      BY <1>20, <2>1, <1>3 DEF Compare, Ended, NotAhead, Moved
    <3>2. MayGo(c, "stage", goal[c], copy[c])
      BY <1>20, <2>1, Places DEF Compare, NotAhead, Placed, MayGo
    <3> QED
      BY <3>1, <3>2, MoveStep DEF Moves
  <2>2. CASE ~(manifest.revision = copy[c].revision)
    <3>1. \/ goal[c] = "save" /\ Moved(c, "unguard", goal[c], copy[c])
          \/ Moved(c, "guard", "release", copy[c])
          \/ Moved(c, "out", "none", Created)
      BY <1>20, <2>2, <1>2 DEF Compare, Ended, NotAhead, Moved
    <3>2. goal[c] = "save" => MayGo(c, "unguard", goal[c], copy[c])
      BY <1>20, <2>2, Places DEF Compare, NotAhead, Placed, MayGo
    <3>3. MayGo(c, "guard", "release", copy[c])
      BY <1>20, <2>2, Places DEF Compare, NotAhead, Placed, MayGo
    <3>4. MayGo(c, "out", "none", Created)
      BY <1>20, <2>2, Places DEF Compare, NotAhead, Placed, MayGo
    <3> QED
      BY <3>1, <3>2, <3>3, <3>4, MoveStep DEF Moves
  <2> QED
    BY <2>1, <2>2
<1>21. ASSUME NEW c \in Client, Stage(c) PROVE Ordered'
  <2>1. Moved(c, "fence", goal[c], copy[c])
    BY <1>21, <1>3 DEF Stage, Moved
  <2>2. MayGo(c, "fence", goal[c], copy[c])
    BY <1>21, Places DEF Stage, Placed, MayGo
  <2> QED
    BY <2>1, <2>2, MoveStep DEF Moves
<1>22. ASSUME NEW c \in Client, CommitFence(c) PROVE Ordered'
  <2>1. CASE Fenced(c) => Held(c)
    <3>1. Moved(c, "rename", goal[c], copy[c])
      BY <1>22, <2>1, <1>3 DEF CommitFence, Ended, Held, Moved
    <3>2. MayGo(c, "rename", goal[c], copy[c])
      BY <1>22, <2>1, Places DEF CommitFence, Held, Placed, MayGo
    <3> QED
      BY <3>1, <3>2, MoveStep DEF Moves
  <2>2. CASE ~(Fenced(c) => Held(c))
    <3>1. \/ goal[c] = "save" /\ Moved(c, "unguard", goal[c], copy[c])
          \/ Moved(c, "guard", "release", copy[c])
          \/ Moved(c, "out", "none", Created)
      BY <1>22, <2>2, <1>2 DEF CommitFence, Ended, Held, Moved
    <3>2. goal[c] = "save" => MayGo(c, "unguard", goal[c], copy[c])
      BY <1>22, <2>2, Places DEF CommitFence, Held, Placed, MayGo
    <3>3. MayGo(c, "guard", "release", copy[c])
      BY <1>22, <2>2, Places DEF CommitFence, Held, Placed, MayGo
    <3>4. MayGo(c, "out", "none", Created)
      BY <1>22, <2>2, Places DEF CommitFence, Held, Placed, MayGo
    <3> QED
      BY <3>1, <3>2, <3>3, <3>4, MoveStep DEF Moves
  <2> QED
    BY <2>1, <2>2
<1>23. ASSUME NEW c \in Client, RotateBackup(c) PROVE Ordered'
  <2>1. Moved(c, "unmirror", goal[c], copy[c])
    BY <1>23, <1>3 DEF RotateBackup, Moved
  <2>2. MayGo(c, "unmirror", goal[c], copy[c])
    BY <1>23, Places DEF RotateBackup, Placed, MayGo
  <2> QED
    BY <2>1, <2>2, MoveStep DEF Moves
<1>24. ASSUME NEW c \in Client, DropMirror(c) PROVE Ordered'
  <2>1. CASE Fenced(c)
    <3>1. Moved(c, "unguard", goal[c], copy[c])
      BY <1>24, <2>1, <1>3 DEF DropMirror, Ended, Moved
    <3>2. MayGo(c, "unguard", goal[c], copy[c])
      BY <1>24, <2>1, Places DEF DropMirror, Placed, MayGo
    <3> QED
      BY <3>1, <3>2, MoveStep DEF Moves
  <2>2. CASE ~(Fenced(c))
    <3>1. \/ Moved(c, "guard", "acquire", copy[c])
          \/ Moved(c, "work", goal[c], copy[c])
          \/ Moved(c, "out", "none", Created)
      BY <1>24, <2>2, Loaded, <1>4 DEF DropMirror, Ended, Moved
    <3>2. MayGo(c, "guard", "acquire", copy[c])
      BY <1>24, <2>2, Places DEF DropMirror, Placed, MayGo
    <3>3. MayGo(c, "work", goal[c], copy[c])
      BY <1>24, <2>2, Places DEF DropMirror, Placed, MayGo
    <3>4. MayGo(c, "out", "none", Created)
      BY <1>24, <2>2, Places DEF DropMirror, Placed, MayGo
    <3> QED
      BY <3>1, <3>2, <3>3, <3>4, MoveStep DEF Moves
  <2> QED
    BY <2>1, <2>2
<1>25. ASSUME NEW c \in Client, Crash(c) PROVE Ordered'
  <2>1. Moved(c, "out", "none", Created)
    BY <1>25, Ending DEF Crash, Ended, Moved
  <2>2. MayGo(c, "out", "none", Created)
    BY <1>25, Places DEF Crash, Placed, MayGo
  <2> QED
    BY <2>1, <2>2, MoveStep DEF Moves
<1>26. CASE LeaseExpires
  <2>1. lease'.by = lease.by /\ UNCHANGED <<up, guard, mirror, manifest, pc, goal, copy>>
    BY <1>26 DEF LeaseExpires, Inductive, TypeOK, Lease
  <2> QED
    BY <2>1 DEF Inductive, Ordered, DeadAreOut, GuardHeld, MirrorHeld, LoadsUnfenced, CopiesNotAhead, NotAhead, Compared, FenceHolds
<1>27. CASE UNCHANGED vars
  BY <1>27 DEF vars, Inductive, Ordered, DeadAreOut, GuardHeld, MirrorHeld, LoadsUnfenced, CopiesNotAhead, NotAhead, Compared, FenceHolds
<1> QED
  BY <1>5, <1>6, <1>7, <1>8, <1>9, <1>10, <1>11, <1>12, <1>13, <1>14, <1>15, <1>16, <1>17, <1>18, <1>19, <1>20, <1>21, <1>22, <1>23, <1>24, <1>25, <1>26, <1>27, ReplaceStep
  DEF Next, Proceed, LeaseStep, SaveStep, Work

-----------------------------------------------------------------------------
\* A new run: nobody has called, every copy is the created state.
LEMMA InitInductive == ASSUME Init PROVE Inductive
<1>1. TypeOK
  BY DEF Init, TypeOK, Created, Version, NoLease, Lease, Op, PC, Goal, Handle
<1>2. \A c \in Client : pc[c] = "out" /\ goal[c] = "none" /\ copy[c] = Created
  BY DEF Init
<1>3. DeadAreOut /\ GuardHeld /\ MirrorHeld /\ LoadsUnfenced /\ Compared /\ FenceHolds
  BY <1>2 DEF DeadAreOut, GuardHeld, MirrorHeld, LoadsUnfenced, Compared, FenceHolds, Saving, Fenced
<1>4. CopiesNotAhead
  BY <1>2 DEF Init, CopiesNotAhead, NotAhead, Created
<1> QED
  BY <1>1, <1>3, <1>4 DEF Inductive, Ordered

\* The inductive invariant holds in every state of the run's files and clients.
LEMMA AlwaysInductive == Spec => []Inductive
<1>1. Inductive /\ [Next]_vars => Inductive'
  BY TypeStep, OrderedStep DEF Inductive
<1> QED
  BY InitInductive, <1>1, PTL DEF Spec

\* Type correctness of the run's files, locks and clients, for every set of clients
\* and any number of commits.
THEOREM TypeCorrect == Spec => []TypeOK
BY AlwaysInductive, PTL DEF Inductive

\* The fence of runCommitFenced: when persistRunInternal replaces the manifest for a
\* fenced client, the lease file still names that client, whatever expired, was taken
\* over or crashed before.
THEOREM CommitsAreFenced == Spec => []FenceHolds
BY AlwaysInductive, PTL DEF Inductive, Ordered

\* A replacement is made on the very manifest it was compared with, so it adds to it.
LEMMA CommitStep ==
  ASSUME Inductive, [Next]_vars
  PROVE  [/\ manifest.changes \subseteq manifest'.changes
          /\ manifest'.revision = manifest.revision + 1]_manifest
<1>1. ASSUME NEW c \in Client, Replace(c)
      PROVE  manifest.changes \subseteq manifest'.changes /\ manifest'.revision = manifest.revision + 1
  <2>1. copy[c] = manifest
    BY <1>1 DEF Replace, Inductive, Ordered, Compared
  <2> QED
    BY <1>1, <2>1 DEF Replace
<1>2. ASSUME NEW c \in Client, Call(c) \/ Proceed(c) \/ Work(c) \/ Crash(c), ~Replace(c) PROVE manifest' = manifest
  <2>1. CASE Call(c) \/ LoadRun(c) \/ LoadDenied(c)
    BY <2>1 DEF Call, LoadRun, LoadDenied, files
  <2>2. CASE LeaseStep(c)
    BY <2>2 DEF LeaseStep, TakeGuard, GuardDenied, AcquireLease, RenewLease, RemoveLease, EnterFence, DropGuard, files
  <2>3. CASE SaveStep(c)
    <3>1. CASE TakeMirror(c) \/ MirrorDenied(c) \/ Stage(c) \/ RotateBackup(c) \/ DropMirror(c)
      BY <3>1 DEF TakeMirror, MirrorDenied, Stage, RotateBackup, DropMirror, files
    <3>2. CASE Compare(c) \/ CommitFence(c)
      BY <3>2 DEF Compare, CommitFence, files
    <3> QED
      BY <1>2, <2>3, <3>1, <3>2 DEF SaveStep
  <2>4. CASE Work(c) \/ Crash(c)
    BY <2>4 DEF Work, Save, Heartbeat, Release, Crash, files
  <2> QED
    BY <1>2, <2>1, <2>2, <2>3, <2>4 DEF Proceed
<1>3. CASE LeaseExpires \/ UNCHANGED vars
  BY <1>3 DEF LeaseExpires, vars
<1> QED
  BY <1>1, <1>2, <1>3 DEF Next

\* No update is lost: whoever saves, fenced or reconciling a load, and however stale
\* its state was, the new manifest contains everything the old one did and is the next
\* revision (the compare-and-swap of persistRunInternal).
THEOREM NoUpdateLost == Spec => NothingLost
<1>1. Inductive /\ [Next]_vars =>
        [/\ manifest.changes \subseteq manifest'.changes
         /\ manifest'.revision = manifest.revision + 1]_manifest
  BY CommitStep
<1> QED
  BY AlwaysInductive, <1>1, PTL DEF Spec, NothingLost

-----------------------------------------------------------------------------
(* The backup.                                                             *)

\* What is staged is the manifest until it is replaced, and then an earlier one; the
\* backup is one of those.
StagedInOrder ==
    /\ backup.changes \subseteq manifest.changes /\ backup.revision <= manifest.revision
    /\ backup.revision < manifest.revision \/ manifest = Created
    /\ \A c \in Client :
        /\ pc[c] \in {"fence", "rename"} => staged[c] = manifest
        /\ pc[c] = "backup" => staged[c].changes \subseteq manifest.changes
                               /\ staged[c].revision < manifest.revision

\* Where nothing is staged, replaced or rotated.
Elsewhere(c) ==
    /\ manifest' = manifest /\ backup' = backup
    /\ \A d \in Client \ {c} : pc'[d] = pc[d] /\ staged'[d] = staged[d]
    /\ pc'[c] \notin {"fence", "rename", "backup"}

\* Every step but the three of a commit, and its assertion, is elsewhere.
LEMMA MostElsewhere ==
  ASSUME TypeOK, NEW c \in Client, Call(c) \/ Proceed(c) \/ Work(c) \/ Crash(c),
         ~Stage(c), ~CommitFence(c), ~Replace(c), ~RotateBackup(c)
  PROVE  Elsewhere(c)
<1> USE DEF Elsewhere, Goto, files, TypeOK
<1>1. ASSUME Ends(c) \/ Fails(c) \/ Aborts(c) \/ \E r : AfterLoad(c, r)
      PROVE  (\A d \in Client \ {c} : pc'[d] = pc[d]) /\ pc'[c] \in {"out", "guard", "unguard", "work"}
  BY <1>1 DEF Ends, Fails, Aborts, AfterLoad
<1>2. CASE Call(c) \/ Work(c) \/ Crash(c)
  BY <1>1, <1>2 DEF Call, Work, Save, Heartbeat, Release, Crash
<1>3. CASE LoadRun(c) \/ LoadDenied(c)
  BY <1>1, <1>3 DEF LoadRun, LoadDenied
<1>4. CASE LeaseStep(c)
  <2>1. CASE TakeGuard(c) \/ EnterFence(c)
    BY <2>1 DEF TakeGuard, EnterFence
  <2>2. CASE GuardDenied(c) \/ DropGuard(c)
    BY <1>1, <2>2 DEF GuardDenied, DropGuard
  <2>3. CASE AcquireLease(c) \/ RenewLease(c) \/ RemoveLease(c)
    BY <2>3 DEF AcquireLease, RenewLease, RemoveLease
  <2> QED
    BY <1>4, <2>1, <2>2, <2>3 DEF LeaseStep
<1>5. CASE TakeMirror(c) \/ MirrorDenied(c) \/ DropMirror(c)
  BY <1>1, <1>5 DEF TakeMirror, MirrorDenied, DropMirror
<1>6. CASE Compare(c)
  BY <1>1, <1>6 DEF Compare
<1> QED
  BY <1>2, <1>3, <1>4, <1>5, <1>6 DEF Proceed, SaveStep

\* Only the holder of the mirror has something staged.
LEMMA StagedStep == ASSUME Inductive, StagedInOrder, [Next]_vars PROVE StagedInOrder'
<1> USE DEF StagedInOrder
<1>0. TypeOK /\ \A c, d \in Client : pc[c] \in Saving \ {"mirror"} /\ pc[d] \in Saving \ {"mirror"} => c = d
  BY DEF Inductive, Ordered, MirrorHeld
<1>1. ASSUME NEW c \in Client, Elsewhere(c) PROVE StagedInOrder'
  BY <1>1 DEF Elsewhere
<1>2. ASSUME NEW c \in Client, Stage(c) PROVE StagedInOrder'
  BY <1>0, <1>2 DEF Stage, Goto, TypeOK
<1>3. ASSUME NEW c \in Client, CommitFence(c) PROVE StagedInOrder'
  <2>1. CASE pc' = [pc EXCEPT ![c] = "rename"]
    BY <1>0, <1>3, <2>1 DEF CommitFence, files, TypeOK
  <2>2. CASE Aborts(c)
    BY <1>0, <1>1, <1>3, <2>2 DEF CommitFence, files, Elsewhere, Aborts, Fails, Ends, Goto, TypeOK
  <2> QED
    BY <1>3, <2>1, <2>2 DEF CommitFence, Goto
<1>4. ASSUME NEW c \in Client, Replace(c) PROVE StagedInOrder'
  <2>1. manifest = copy[c] /\ staged[c] = manifest /\ pc[c] = "rename"
    BY <1>4 DEF Replace, Inductive, Ordered, Compared
  <2>2. manifest.revision \in Nat /\ backup.revision \in Nat
    BY <1>0 DEF TypeOK, Version
  <2>3. /\ manifest.changes \subseteq manifest'.changes /\ manifest'.revision = manifest.revision + 1
        /\ backup' = backup /\ staged' = staged
    BY <1>4, <2>1 DEF Replace
  <2>4. pc' = [pc EXCEPT ![c] = "backup"] /\ \A d \in Client \ {c} : pc[d] \notin {"fence", "rename", "backup"}
    BY <1>0, <1>4, <2>1 DEF Replace, Goto, Saving
  <2>5. backup.changes \subseteq manifest'.changes /\ backup.revision < manifest'.revision
    BY <2>2, <2>3
  <2>6. staged[c].changes \subseteq manifest'.changes /\ staged[c].revision < manifest'.revision
    BY <2>1, <2>2, <2>3
  <2> QED
    BY <1>0, <2>2, <2>3, <2>4, <2>5, <2>6 DEF TypeOK, Version
<1>5. ASSUME NEW c \in Client, RotateBackup(c) PROVE StagedInOrder'
  <2>1. manifest' = manifest /\ backup' \in {staged[c], backup} /\ pc' = [pc EXCEPT ![c] = "unmirror"]
        /\ staged' = [staged EXCEPT ![c] = Created] /\ pc[c] = "backup"
    BY <1>5 DEF RotateBackup, Goto
  <2> QED
    BY <1>0, <2>1 DEF TypeOK, Version
<1>6. CASE LeaseExpires \/ UNCHANGED vars
  BY <1>6 DEF LeaseExpires, vars
<1> QED
  BY <1>0, <1>1, <1>2, <1>3, <1>4, <1>5, <1>6, MostElsewhere DEF Next

\* README.md on recovery: progress.json.bak is a committed earlier state of the run, whoever
\* replaced the manifest, stopped before the rotation or came after (atomicWriteFile).
THEOREM BackupStaysEarlier == Spec => []BackupIsEarlier
<1>1. Init => StagedInOrder
  BY DEF Init, StagedInOrder, Created
<1>2. Inductive /\ StagedInOrder /\ [Next]_vars => StagedInOrder'
  BY StagedStep
<1>3. StagedInOrder => BackupIsEarlier
  BY DEF StagedInOrder, BackupIsEarlier
<1> QED
  BY AlwaysInductive, <1>1, <1>2, <1>3, PTL DEF Spec

SessionSteps == INSTANCE SessionMemory_proofs
    WITH Caller <- Wrapped, Request <- Beside, MaxRevision <- MaxCheckpoint
OverlapSteps == INSTANCE SessionMemory_proofs
    WITH Caller <- Overlapping, Request <- {}, MaxRevision <- MaxCheckpoint
JournalSteps == INSTANCE SessionMemory_proofs
    WITH Caller <- {}, Request <- Delivery, MaxRevision <- MaxCheckpoint

-----------------------------------------------------------------------------
(* The instances of SessionMemory that Memories is made of and those the   *)
(* lemmas come with say the same.                                          *)

\* A session starts without a checkpoint, whichever of them says so.
LEMMA SessionsStart == SessionSteps!Init = Sessions!Init
BY DEF SessionSteps!Init, Sessions!Init, SessionSteps!NoCall, Sessions!NoCall
\* The steps of the session are the same.
LEMMA SessionsStep == SessionSteps!Next = Sessions!Next
BY DEF SessionSteps!Next, Sessions!Next, SessionSteps!Crash, Sessions!Crash,
       SessionSteps!memoryVars, Sessions!memoryVars, SessionSteps!NoCall, Sessions!NoCall,
       SessionSteps!Operator, Sessions!Operator, SessionSteps!BeginTask, Sessions!BeginTask,
       SessionSteps!Update, Sessions!Update, SessionSteps!runVars, Sessions!runVars,
       SessionSteps!deliveryVars, Sessions!deliveryVars, SessionSteps!Updates,
       Sessions!Updates, SessionSteps!Admissible, Sessions!Admissible, SessionSteps!Replace,
       Sessions!Replace, SessionSteps!BindSkill, Sessions!BindSkill, SessionSteps!Compact,
       Sessions!Compact, SessionSteps!Delete, Sessions!Delete, SessionSteps!AllowRetry,
       Sessions!AllowRetry, SessionSteps!Members, Sessions!Members, SessionSteps!Pinned,
       Sessions!Pinned, SessionSteps!Revoke, Sessions!Revoke, SessionSteps!Guarded,
       Sessions!Guarded, SessionSteps!Start, Sessions!Start, SessionSteps!SetCall,
       Sessions!SetCall, SessionSteps!Moves, Sessions!Moves, SessionSteps!Decide,
       Sessions!Decide, SessionSteps!Offered, Sessions!Offered, SessionSteps!Throws,
       Sessions!Throws, SessionSteps!Decision, Sessions!Decision, SessionSteps!Failures,
       Sessions!Failures, SessionSteps!NewestFailure, Sessions!NewestFailure,
       SessionSteps!LookAtBindings, Sessions!LookAtBindings, SessionSteps!ReadRevision,
       Sessions!ReadRevision, SessionSteps!CompareAndSwap, Sessions!CompareAndSwap,
       SessionSteps!Fails, Sessions!Fails, SessionSteps!Changed, Sessions!Changed,
       SessionSteps!Proceed, Sessions!Proceed, SessionSteps!Threw, Sessions!Threw,
       SessionSteps!Execute, Sessions!Execute, SessionSteps!Takes, Sessions!Takes,
       SessionSteps!Finish, Sessions!Finish, SessionSteps!OutcomeOf, Sessions!OutcomeOf,
       SessionSteps!Classify, Sessions!Classify, SessionSteps!Cites, Sessions!Cites,
       SessionSteps!Deliver, Sessions!Deliver, SessionSteps!Render, Sessions!Render,
       SessionSteps!SetHook, Sessions!SetHook, SessionSteps!Hooks, Sessions!Hooks,
       SessionSteps!Prepare, Sessions!Prepare, SessionSteps!Retained, Sessions!Retained,
       SessionSteps!Check, Sessions!Check, SessionSteps!Index, Sessions!Index,
       SessionSteps!Publish, Sessions!Publish, SessionSteps!PublishBare,
       Sessions!PublishBare, SessionSteps!SettleEmitted, Sessions!SettleEmitted,
       SessionSteps!Settles, Sessions!Settles, SessionSteps!Retains, Sessions!Retains,
       SessionSteps!HookFails, Sessions!HookFails, SessionSteps!Reason, Sessions!Reason

\* The same of calls that overlap.
LEMMA OverlapsStart == OverlapSteps!Init = Overlaps!Init
BY DEF OverlapSteps!Init, Overlaps!Init, OverlapSteps!NoCall, Overlaps!NoCall
\* Their steps are the same.
LEMMA OverlapsStep == OverlapSteps!Next = Overlaps!Next
BY DEF OverlapSteps!Next, Overlaps!Next, OverlapSteps!Crash, Overlaps!Crash,
       OverlapSteps!memoryVars, Overlaps!memoryVars, OverlapSteps!NoCall, Overlaps!NoCall,
       OverlapSteps!Operator, Overlaps!Operator, OverlapSteps!BeginTask, Overlaps!BeginTask,
       OverlapSteps!Update, Overlaps!Update, OverlapSteps!runVars, Overlaps!runVars,
       OverlapSteps!deliveryVars, Overlaps!deliveryVars, OverlapSteps!Updates,
       Overlaps!Updates, OverlapSteps!Admissible, Overlaps!Admissible, OverlapSteps!Replace,
       Overlaps!Replace, OverlapSteps!BindSkill, Overlaps!BindSkill, OverlapSteps!Compact,
       Overlaps!Compact, OverlapSteps!Delete, Overlaps!Delete, OverlapSteps!AllowRetry,
       Overlaps!AllowRetry, OverlapSteps!Members, Overlaps!Members, OverlapSteps!Pinned,
       Overlaps!Pinned, OverlapSteps!Revoke, Overlaps!Revoke, OverlapSteps!Guarded,
       Overlaps!Guarded, OverlapSteps!Start, Overlaps!Start, OverlapSteps!SetCall,
       Overlaps!SetCall, OverlapSteps!Moves, Overlaps!Moves, OverlapSteps!Decide,
       Overlaps!Decide, OverlapSteps!Offered, Overlaps!Offered, OverlapSteps!Throws,
       Overlaps!Throws, OverlapSteps!Decision, Overlaps!Decision, OverlapSteps!Failures,
       Overlaps!Failures, OverlapSteps!NewestFailure, Overlaps!NewestFailure,
       OverlapSteps!LookAtBindings, Overlaps!LookAtBindings, OverlapSteps!ReadRevision,
       Overlaps!ReadRevision, OverlapSteps!CompareAndSwap, Overlaps!CompareAndSwap,
       OverlapSteps!Fails, Overlaps!Fails, OverlapSteps!Changed, Overlaps!Changed,
       OverlapSteps!Proceed, Overlaps!Proceed, OverlapSteps!Threw, Overlaps!Threw,
       OverlapSteps!Execute, Overlaps!Execute, OverlapSteps!Takes, Overlaps!Takes,
       OverlapSteps!Finish, Overlaps!Finish, OverlapSteps!OutcomeOf, Overlaps!OutcomeOf,
       OverlapSteps!Classify, Overlaps!Classify, OverlapSteps!Cites, Overlaps!Cites,
       OverlapSteps!Deliver, Overlaps!Deliver, OverlapSteps!Render, Overlaps!Render,
       OverlapSteps!SetHook, Overlaps!SetHook, OverlapSteps!Hooks, Overlaps!Hooks,
       OverlapSteps!Prepare, Overlaps!Prepare, OverlapSteps!Retained, Overlaps!Retained,
       OverlapSteps!Check, Overlaps!Check, OverlapSteps!Index, Overlaps!Index,
       OverlapSteps!Publish, Overlaps!Publish, OverlapSteps!PublishBare,
       Overlaps!PublishBare, OverlapSteps!SettleEmitted, Overlaps!SettleEmitted,
       OverlapSteps!Settles, Overlaps!Settles, OverlapSteps!Retains, Overlaps!Retains,
       OverlapSteps!HookFails, Overlaps!HookFails, OverlapSteps!Reason, Overlaps!Reason

\* The same of the deliveries of the journal.
LEMMA JournalsStart == JournalSteps!Init = Journals!Init
BY DEF JournalSteps!Init, Journals!Init, JournalSteps!NoCall, Journals!NoCall
\* Their steps are the same.
LEMMA JournalsStep == JournalSteps!Next = Journals!Next
BY DEF JournalSteps!Next, Journals!Next, JournalSteps!Crash, Journals!Crash,
       JournalSteps!memoryVars, Journals!memoryVars, JournalSteps!NoCall, Journals!NoCall,
       JournalSteps!Operator, Journals!Operator, JournalSteps!BeginTask, Journals!BeginTask,
       JournalSteps!Update, Journals!Update, JournalSteps!runVars, Journals!runVars,
       JournalSteps!deliveryVars, Journals!deliveryVars, JournalSteps!Updates,
       Journals!Updates, JournalSteps!Admissible, Journals!Admissible, JournalSteps!Replace,
       Journals!Replace, JournalSteps!BindSkill, Journals!BindSkill, JournalSteps!Compact,
       Journals!Compact, JournalSteps!Delete, Journals!Delete, JournalSteps!AllowRetry,
       Journals!AllowRetry, JournalSteps!Members, Journals!Members, JournalSteps!Pinned,
       Journals!Pinned, JournalSteps!Revoke, Journals!Revoke, JournalSteps!Guarded,
       Journals!Guarded, JournalSteps!Start, Journals!Start, JournalSteps!SetCall,
       Journals!SetCall, JournalSteps!Moves, Journals!Moves, JournalSteps!Decide,
       Journals!Decide, JournalSteps!Offered, Journals!Offered, JournalSteps!Throws,
       Journals!Throws, JournalSteps!Decision, Journals!Decision, JournalSteps!Failures,
       Journals!Failures, JournalSteps!NewestFailure, Journals!NewestFailure,
       JournalSteps!LookAtBindings, Journals!LookAtBindings, JournalSteps!ReadRevision,
       Journals!ReadRevision, JournalSteps!CompareAndSwap, Journals!CompareAndSwap,
       JournalSteps!Fails, Journals!Fails, JournalSteps!Changed, Journals!Changed,
       JournalSteps!Proceed, Journals!Proceed, JournalSteps!Threw, Journals!Threw,
       JournalSteps!Execute, Journals!Execute, JournalSteps!Takes, Journals!Takes,
       JournalSteps!Finish, Journals!Finish, JournalSteps!OutcomeOf, Journals!OutcomeOf,
       JournalSteps!Classify, Journals!Classify, JournalSteps!Cites, Journals!Cites,
       JournalSteps!Deliver, Journals!Deliver, JournalSteps!Render, Journals!Render,
       JournalSteps!SetHook, Journals!SetHook, JournalSteps!Hooks, Journals!Hooks,
       JournalSteps!Prepare, Journals!Prepare, JournalSteps!Retained, Journals!Retained,
       JournalSteps!Check, Journals!Check, JournalSteps!Index, Journals!Index,
       JournalSteps!Publish, Journals!Publish, JournalSteps!PublishBare,
       Journals!PublishBare, JournalSteps!SettleEmitted, Journals!SettleEmitted,
       JournalSteps!Settles, Journals!Settles, JournalSteps!Retains, Journals!Retains,
       JournalSteps!HookFails, Journals!HookFails, JournalSteps!Reason, Journals!Reason

\* So are the properties.
LEMMA SessionsSame ==
    /\ SessionSteps!RepeatsExcused = Sessions!RepeatsExcused
    /\ SessionSteps!DeliveryHonest = Sessions!DeliveryHonest
    /\ SessionSteps!ConsumeStep = Sessions!ConsumeStep
BY DEF SessionSteps!RepeatsExcused, Sessions!RepeatsExcused, SessionSteps!ConsumedIsGone,
       Sessions!ConsumedIsGone, SessionSteps!Offered, Sessions!Offered,
       SessionSteps!Members, Sessions!Members, SessionSteps!Pinned, Sessions!Pinned,
       SessionSteps!NoOverlap, Sessions!NoOverlap, SessionSteps!AllowanceOnce,
       Sessions!AllowanceOnce, SessionSteps!RepeatBlocked, Sessions!RepeatBlocked,
       SessionSteps!Failures, Sessions!Failures, SessionSteps!Throws, Sessions!Throws,
       SessionSteps!Decision, Sessions!Decision, SessionSteps!NewestFailure,
       Sessions!NewestFailure, SessionSteps!DeliveryHonest, Sessions!DeliveryHonest,
       SessionSteps!ConsumeStep, Sessions!ConsumeStep
\* Those of calls that overlap.
LEMMA OverlapsSame ==
    /\ OverlapSteps!RepeatsExcused = Overlaps!RepeatsExcused
    /\ OverlapSteps!ConsumeStep = Overlaps!ConsumeStep
BY DEF OverlapSteps!RepeatsExcused, Overlaps!RepeatsExcused, OverlapSteps!ConsumedIsGone,
       Overlaps!ConsumedIsGone, OverlapSteps!Offered, Overlaps!Offered,
       OverlapSteps!Members, Overlaps!Members, OverlapSteps!Pinned, Overlaps!Pinned,
       OverlapSteps!NoOverlap, Overlaps!NoOverlap, OverlapSteps!AllowanceOnce,
       Overlaps!AllowanceOnce, OverlapSteps!RepeatBlocked, Overlaps!RepeatBlocked,
       OverlapSteps!Failures, Overlaps!Failures, OverlapSteps!Throws, Overlaps!Throws,
       OverlapSteps!Decision, Overlaps!Decision, OverlapSteps!NewestFailure,
       Overlaps!NewestFailure, OverlapSteps!ConsumeStep, Overlaps!ConsumeStep
\* That of the deliveries.
LEMMA JournalsSame ==
    /\ JournalSteps!DeliveryHonest = Journals!DeliveryHonest
BY DEF JournalSteps!DeliveryHonest, Journals!DeliveryHonest
-----------------------------------------------------------------------------
(* The invariant of one session, carried to Memories.                      *)

\* The bounds are those of every session.
LEMMA Bounds ==
    SessionSteps!BoundsAssumption /\ OverlapSteps!BoundsAssumption /\ JournalSteps!BoundsAssumption
BY SessionAssumption DEF Sessions!BoundsAssumption, SessionSteps!BoundsAssumption,
    Overlaps!BoundsAssumption, OverlapSteps!BoundsAssumption, JournalSteps!BoundsAssumption

\* What SessionMemory_proofs shows of the session a behaviour is of.
IInv == /\ by = "session" => SessionSteps!Inv
        /\ by = "overlap" => OverlapSteps!Inv
        /\ by = "journal" => JournalSteps!Inv

\* It holds of a session that has no checkpoint yet.
LEMMA Start == MemoriesInit => IInv
<1> SUFFICES ASSUME MemoriesInit PROVE IInv
    OBVIOUS
<1>1. ASSUME by = "session" PROVE SessionSteps!Inv
    <2>1. Sessions!Init
        BY <1>1 DEF MemoriesInit
    <2>2. SessionSteps!Init
        BY <2>1, SessionsStart
    <2> QED
        BY <2>2, Bounds, SessionSteps!InitInv
<1>2. ASSUME by = "journal" PROVE JournalSteps!Inv
    <2>1. Journals!Init
        BY <1>2 DEF MemoriesInit
    <2>2. JournalSteps!Init
        BY <2>1, JournalsStart
    <2> QED
        BY <2>2, Bounds, JournalSteps!InitInv
<1>3. ASSUME by = "overlap" PROVE OverlapSteps!Inv
    <2>1. Overlaps!Init
        BY <1>3 DEF MemoriesInit
    <2>2. OverlapSteps!Init
        BY <2>1, OverlapsStart
    <2> QED
        BY <2>2, Bounds, OverlapSteps!InitInv
<1> QED
    BY <1>1, <1>2, <1>3 DEF IInv

\* A behaviour stays with what it is of; a step is of that, or leaves it alone.
LEMMA SessionMoves ==
    ASSUME [MemoriesNext]_allvars, by' = "session"
    PROVE  by = "session" /\ (SessionSteps!Next \/ UNCHANGED SessionSteps!vars)
<1>1. CASE UNCHANGED allvars
    BY <1>1 DEF allvars, session, SessionSteps!vars
<1>2. CASE MemoriesNext
    <2>1. by = "session" /\ Sessions!Next
        BY <1>2 DEF MemoriesNext
    <2> QED
        BY <2>1, SessionsStep
<1> QED
    BY <1>1, <1>2

\* The same of calls that overlap.
LEMMA OverlapMoves ==
    ASSUME [MemoriesNext]_allvars, by' = "overlap"
    PROVE  by = "overlap" /\ (OverlapSteps!Next \/ UNCHANGED OverlapSteps!vars)
<1>1. CASE UNCHANGED allvars
    BY <1>1 DEF allvars, session, OverlapSteps!vars
<1>2. CASE MemoriesNext
    <2>1. by = "overlap" /\ Overlaps!Next
        BY <1>2 DEF MemoriesNext
    <2> QED
        BY <2>1, OverlapsStep
<1> QED
    BY <1>1, <1>2

\* The same of the deliveries of the journal.
LEMMA JournalMoves ==
    ASSUME [MemoriesNext]_allvars, by' = "journal"
    PROVE  by = "journal" /\ (JournalSteps!Next \/ UNCHANGED JournalSteps!vars)
<1>1. CASE UNCHANGED allvars
    BY <1>1 DEF allvars, session, JournalSteps!vars
<1>2. CASE MemoriesNext
    <2>1. by = "journal" /\ Journals!Next
        BY <1>2 DEF MemoriesNext
    <2> QED
        BY <2>1, JournalsStep
<1> QED
    BY <1>1, <1>2

\* Every step of a session keeps it.
LEMMA Step == IInv /\ [MemoriesNext]_allvars => IInv'
<1> SUFFICES ASSUME IInv, [MemoriesNext]_allvars PROVE IInv'
    OBVIOUS
<1>1. ASSUME by' = "session" PROVE SessionSteps!Inv'
    <2>1. SessionSteps!Inv /\ (SessionSteps!Next \/ UNCHANGED SessionSteps!vars)
        BY <1>1, SessionMoves DEF IInv
    <2> QED
        BY <2>1, Bounds, SessionSteps!NextInv, SessionSteps!StutterInv
<1>2. ASSUME by' = "journal" PROVE JournalSteps!Inv'
    <2>1. JournalSteps!Inv /\ (JournalSteps!Next \/ UNCHANGED JournalSteps!vars)
        BY <1>2, JournalMoves DEF IInv
    <2> QED
        BY <2>1, Bounds, JournalSteps!NextInv, JournalSteps!StutterInv
<1>3. ASSUME by' = "overlap" PROVE OverlapSteps!Inv'
    <2>1. OverlapSteps!Inv /\ (OverlapSteps!Next \/ UNCHANGED OverlapSteps!vars)
        BY <1>3, OverlapMoves DEF IInv
    <2> QED
        BY <2>1, Bounds, OverlapSteps!NextInv, OverlapSteps!StutterInv
<1> QED
    BY <1>1, <1>2, <1>3 DEF IInv

-----------------------------------------------------------------------------
(* The properties.                                                         *)

\* guarded, executeRun and committedFailureDecision, for any number of calls, also such as
\* overlap: an allowance is behind one execution at most, since an execution commits only
\* over the run its call has loaded, and is gone when one has taken the lease under it; and
\* for calls that follow one another, a failure blocks the repetition of exactly the failed
\* revision of the run it cites.
THEOREM RepeatsAreGuarded == MemoriesSpec => []RepeatsGuarded
<1>1. MemoriesInit => IInv
    BY Start
<1>2. IInv /\ [MemoriesNext]_allvars => IInv'
    BY Step
<1>3. IInv => RepeatsGuarded
    BY SessionSteps!InvRepeatsExcused, OverlapSteps!InvRepeatsExcused, SessionsSame, OverlapsSame
       DEF IInv, RepeatsGuarded
<1> QED
    BY <1>1, <1>2, <1>3, PTL DEF MemoriesSpec

\* ContextDelivery and settleDelivery: whatever throws between the text and its record, the
\* record is true of the text.
THEOREM JournalIsHonest == MemoriesSpec => []JournalHonest
<1>1. MemoriesInit => IInv
    BY Start
<1>2. IInv /\ [MemoriesNext]_allvars => IInv'
    BY Step
<1>3. IInv => JournalHonest
    BY SessionSteps!InvDeliveryHonest, JournalSteps!InvDeliveryHonest, SessionsSame, JournalsSame
       DEF IInv, JournalHonest
<1> QED
    BY <1>1, <1>2, <1>3, PTL DEF MemoriesSpec

\* MemoryStore.update: an allowance revoked while its task lasts is not consumed, however
\* long before that preflight offered it.
THEOREM RevokedIsNeverConsumed == MemoriesSpec => RevokedNeverConsumed
<1>1. MemoriesInit => IInv
    BY Start
<1>2. IInv /\ [MemoriesNext]_allvars => IInv'
    BY Step
<1> DEFINE Consumes == /\ by = "session" => Sessions!ConsumeStep
                       /\ by = "overlap" => Overlaps!ConsumeStep
<1>3. IInv /\ IInv' /\ [MemoriesNext]_allvars => [Consumes]_allvars
    <2> SUFFICES ASSUME IInv, MemoriesNext PROVE Consumes
        OBVIOUS
    <2>1. ASSUME by = "session" PROVE Sessions!ConsumeStep
        <3>1. SessionSteps!Inv /\ SessionSteps!Next
            BY <2>1, SessionsStep DEF IInv, MemoriesNext
        <3>2. SessionSteps!ConsumeStep
            BY <3>1, SessionSteps!ConsumeFacts
        <3> QED
            BY <3>2, SessionsSame
    <2>2. ASSUME by = "overlap" PROVE Overlaps!ConsumeStep
        <3>1. OverlapSteps!Inv /\ OverlapSteps!Next
            BY <2>2, OverlapsStep DEF IInv, MemoriesNext
        <3>2. OverlapSteps!ConsumeStep
            BY <3>1, OverlapSteps!ConsumeFacts
        <3> QED
            BY <3>2, OverlapsSame
    <2> QED
        BY <2>1, <2>2
<1> QED
    BY <1>1, <1>2, <1>3, PTL DEF MemoriesSpec, RevokedNeverConsumed

-----------------------------------------------------------------------------
(* The environment memory: the inductive invariant.                        *)

\* All that a call sees of a database, whatever can still be exported.
Alike(t, u) == t.log = u.log /\ t.type = u.type /\ t.revoked = u.revoked /\ t.record = u.record

\* What loadSnapshot checks, and that a receipt is of one event.
WellStored(t) ==
    /\ \A i \in Id : t.record[i] # Nothing =>
          t.type[i] = t.record[i].type /\ i \notin t.revoked /\ t.record[i].revision <= Len(t.log)
    /\ \A r \in Id : t.record[r] # Nothing /\ t.record[r].type = "relation" =>
          \A e \in t.record[r].ends :
              Environment!IsEntity(t, e) /\ Environment!Fits(t.record[r].scope, t.record[e].scope)
    /\ \A i \in Id : t.type[i] # Nothing /\ i \notin t.revoked => t.record[i] # Nothing
    /\ \A r, s \in 1 .. Len(t.log) : t.log[r].key = t.log[s].key => r = s
Tables == {t \in Environment!Table : WellStored(t)}

\* The states of a database whose log is s, one per event.
Evolves(s, h) ==
    /\ h \in [0 .. Len(s) -> Tables]
    /\ h[0] = Environment!Empty
    /\ \A k \in 1 .. Len(s) : h[k] = Environment!Apply(h[k - 1], s[k])
    /\ \A k \in 0 .. Len(s) : Len(h[k].log) = k /\ \A j \in 1 .. k : h[k].log[j] = s[j]
Evolved(t) == \E h : Evolves(t.log, h) /\ Alike(h[Len(t.log)], t)

\* What a connection may still answer with is what its database has.
Current(t) == {x \in Environment!Cached : x.record = t.record[x.id] /\ x.record # Nothing}

DatabasesSound ==
    /\ db \in [Database -> Environment!Table]
    /\ \A d \in Database : Len(db[d].log) <= MaxTable /\ Evolved(db[d])
RequestsSound ==
    /\ request \in [Caller -> Environment!Request]
    /\ \A c \in Caller : request[c].state = "asked" => request[c].event \in Environment!Event
CachesSound ==
    /\ cache \in [Connection -> Seq(Environment!Cached)]
    /\ observed \in [Connection -> Nat]
    /\ \A c \in Connection :
          /\ observed[c] <= Len(db[Home[c]].log)
          /\ observed[c] = Len(db[Home[c]].log) => cache[c] \in Seq(Current(db[Home[c]]))
EnvironmentSound == DatabasesSound /\ RequestsSound /\ CachesSound

-----------------------------------------------------------------------------
(* The environment memory: one event.                                      *)

LEMMA EnvironmentFacts ==
    /\ Operations \subseteq Environment!Operation /\ Home \in [Connection -> Database]
    /\ Caller \subseteq Connection /\ Writer \subseteq Connection /\ Reader \subseteq Connection
    /\ Nothing \notin Environment!Record /\ Nothing \notin {"entity", "relation"}
    /\ MaxTable \in Nat
BY EnvironmentAssumption DEF Environment!OperationsAssumption

LEMMA EmptyStored == Environment!Empty \in Tables
<1>1. Environment!Empty \in Environment!Table
    BY EnvironmentFacts DEF Environment!Empty, Environment!Table
<1>2. WellStored(Environment!Empty)
    BY DEF WellStored, Environment!Empty
<1> QED
    BY <1>1, <1>2 DEF Tables

\* The fields of the tables after an event.
Applied(t, event, u) ==
    LET act == event.op IN
    /\ u.log = Append(t.log, event) /\ u.base = t.base
    /\ act.do = "revoke" =>
         /\ u.type = t.type
         /\ u.revoked = t.revoked \cup Environment!Gone(t, act)
         /\ \A i \in Id : u.record[i] = IF i \in Environment!Gone(t, act) THEN Nothing ELSE t.record[i]
    /\ act.do # "revoke" =>
         /\ u.revoked = t.revoked
         /\ \A i \in Id : u.type[i] = IF i = act.id THEN act.type ELSE t.type[i]
         /\ \A i \in Id : i # act.id => u.record[i] = t.record[i]
         /\ u.record[act.id] = [type |-> act.type, scope |-> act.scope, brief |-> act.brief,
                               ends |-> act.ends, revision |-> Len(t.log) + 1]
         /\ u.record[act.id] \in Environment!Record

LEMMA ApplyIs ==
    ASSUME NEW t \in Environment!Table, NEW event \in Environment!Event, Len(t.log) < MaxTable
    PROVE  Environment!Apply(t, event) \in Environment!Table /\ Applied(t, event, Environment!Apply(t, event))
<1> DEFINE act == event.op
           u == Environment!Apply(t, event)
           new == [type |-> act.type, scope |-> act.scope, brief |-> act.brief,
                   ends |-> act.ends, revision |-> Len(t.log) + 1]
<1>1. /\ t = [log |-> t.log, base |-> t.base, type |-> t.type, revoked |-> t.revoked, record |-> t.record]
      /\ t.log \in Seq(Environment!Event) /\ t.base \in 0 .. MaxTable
      /\ t.type \in [Id -> {"entity", "relation", Nothing}] /\ t.revoked \in SUBSET Id
      /\ t.record \in [Id -> Environment!Record \cup {Nothing}]
    BY DEF Environment!Table
<1>2. act \in Environment!Operation /\ act.id \in Id /\ act.type \in {"entity", "relation"}
    BY EnvironmentFacts DEF Environment!Event, Environment!Operation
<1>3. Append(t.log, event) \in Seq(Environment!Event) /\ Len(t.log) + 1 \in 1 .. MaxTable
    BY <1>1, EnvironmentFacts
<1>4. CASE act.do = "revoke"
    <2> DEFINE left == [i \in Id |-> IF i \in Environment!Gone(t, act) THEN Nothing ELSE t.record[i]]
    <2> DEFINE after == [t EXCEPT !.log = Append(t.log, event)]
               gone == Environment!Gone(t, act)
    <2>0. /\ after \in Environment!Table /\ after.log = Append(t.log, event) /\ after.base = t.base
          /\ after.type = t.type /\ after.revoked = t.revoked /\ after.record = t.record
        BY <1>3 DEF Environment!Table
    <2>a. u = [after EXCEPT !.revoked = after.revoked \cup gone,
                            !.record = [i \in Id |-> IF i \in gone THEN Nothing ELSE after.record[i]]]
        BY <1>4, Zenon DEF Environment!Apply
    <2>b. [i \in Id |-> IF i \in gone THEN Nothing ELSE after.record[i]] = left
        BY <2>0
    <2>c. u = [after EXCEPT !.revoked = after.revoked \cup gone, !.record = left]
        BY <2>a, <2>b
    <2>d. /\ u.log = after.log /\ u.base = after.base /\ u.type = after.type
          /\ u.revoked = after.revoked \cup gone /\ u.record = left
        <3> HIDE DEF gone, left, u, after
        <3> QED
            BY <2>0, <2>c DEF Environment!Table
    <2>1. /\ u.log = Append(t.log, event) /\ u.base = t.base /\ u.type = t.type
          /\ u.revoked = t.revoked \cup gone /\ u.record = left
        BY <2>0, <2>d
    <2>2. Environment!Gone(t, act) \subseteq Id
        BY <1>2 DEF Environment!Gone, Environment!Dependents, Environment!Relations
    <2>3. left \in [Id -> Environment!Record \cup {Nothing}]
        BY <1>1
    <2>4. u \in Environment!Table
        <3>1. gone \subseteq Id
            BY <2>2
        <3> HIDE DEF gone, left, u, after
        <3> QED
            BY <2>0, <2>3, <2>c, <3>1 DEF Environment!Table
    <2> HIDE DEF u
    <2>5. \A i \in Id : u.record[i] = IF i \in gone THEN Nothing ELSE t.record[i]
        BY <2>1
    <2>6. Applied(t, event, u)
        BY <1>4, <2>1, <2>5, Zenon DEF Applied
    <2> QED
        BY <2>4, <2>6 DEF u
<1>5. CASE act.do # "revoke"
    <2>1. /\ act.do = "upsert" /\ act.scope \in Environment!Scope /\ act.brief \in BOOLEAN
          /\ act.ends \in SUBSET Id
        BY <1>2, <1>5 DEF Environment!Operation
    <2>2. new \in Environment!Record
        BY <1>2, <1>3, <2>1 DEF Environment!Record
    <2> DEFINE after == [t EXCEPT !.log = Append(t.log, event)]
    <2>0. /\ after \in Environment!Table /\ after.log = Append(t.log, event) /\ after.base = t.base
          /\ after.type = t.type /\ after.revoked = t.revoked /\ after.record = t.record
        BY <1>3 DEF Environment!Table
    <2>a. u = [after EXCEPT !.type = [after.type EXCEPT ![act.id] = act.type],
                            !.record = [after.record EXCEPT ![act.id] = new]]
        BY <1>5 DEF Environment!Apply
    <2>3. /\ u.log = Append(t.log, event) /\ u.base = t.base /\ u.revoked = t.revoked
          /\ u.type = [t.type EXCEPT ![act.id] = act.type] /\ u.record = [t.record EXCEPT ![act.id] = new]
        <3> HIDE DEF new, u, after
        <3> QED
            BY <2>0, <2>a DEF Environment!Table
    <2>4. [t.record EXCEPT ![act.id] = new] \in [Id -> Environment!Record \cup {Nothing}]
        BY <1>1, <1>2, <2>2
    <2>5. [t.type EXCEPT ![act.id] = act.type] \in [Id -> {"entity", "relation", Nothing}]
        BY <1>1, <1>2
    <2>6. u \in Environment!Table
        <3>1. [after.record EXCEPT ![act.id] = new] = [t.record EXCEPT ![act.id] = new]
              /\ [after.type EXCEPT ![act.id] = act.type] = [t.type EXCEPT ![act.id] = act.type]
            BY <2>0
        <3> HIDE DEF new, u, after
        <3> QED
            BY <2>0, <2>a, <2>4, <2>5, <3>1 DEF Environment!Table
    <2> HIDE DEF u
    <2>7. \A i \in Id : u.type[i] = IF i = act.id THEN act.type ELSE t.type[i]
        BY <1>1, <1>2, <2>3
    <2>8. u.record[act.id] = new /\ \A i \in Id : i # act.id => u.record[i] = t.record[i]
        <3> HIDE DEF new
        <3> QED
            BY <1>1, <1>2, <2>3
    <2>9. Applied(t, event, u)
        BY <1>5, <2>2, <2>3, <2>7, <2>8, Zenon DEF Applied
    <2> QED
        BY <2>6, <2>9 DEF u
<1> QED
    BY <1>4, <1>5

\* An event that the tables permit, and of which there is no receipt, leaves them well stored.
LEMMA ApplyStored ==
    ASSUME NEW t \in Tables, NEW event \in Environment!Event, Len(t.log) < MaxTable,
           Environment!Permits(t, event.op), \A r \in 1 .. Len(t.log) : t.log[r].key # event.key
    PROVE  Environment!Apply(t, event) \in Tables
<1> DEFINE act == event.op
           u == Environment!Apply(t, event)
<1>1. t \in Environment!Table /\ WellStored(t)
    BY DEF Tables
<1>2. u \in Environment!Table /\ Applied(t, event, u)
    BY <1>1, ApplyIs
<1> HIDE DEF u
<1>3. /\ t.log \in Seq(Environment!Event) /\ t.revoked \subseteq Id
      /\ t.type \in [Id -> {"entity", "relation", Nothing}]
      /\ t.record \in [Id -> Environment!Record \cup {Nothing}]
    BY <1>1 DEF Environment!Table
<1>4. act.id \in Id /\ act \in Environment!Operation /\ act.type \in {"entity", "relation"}
    BY EnvironmentFacts DEF Environment!Event, Environment!Operation
<1>5. Len(u.log) = Len(t.log) + 1 /\ Len(t.log) \in Nat /\ u.log[Len(t.log) + 1] = event
      /\ \A r \in 1 .. Len(t.log) : u.log[r] = t.log[r]
    BY <1>2, <1>3 DEF Applied
<1>6. \A r, s \in 1 .. Len(u.log) : u.log[r].key = u.log[s].key => r = s
    <2> SUFFICES ASSUME NEW r \in 1 .. Len(u.log), NEW s \in 1 .. Len(u.log), u.log[r].key = u.log[s].key
                 PROVE  r = s
        OBVIOUS
    <2>1. CASE r <= Len(t.log) /\ s <= Len(t.log)
        <3>1. r \in 1 .. Len(t.log) /\ s \in 1 .. Len(t.log)
            BY <1>5, <2>1
        <3>2. t.log[r].key = t.log[s].key
            BY <1>5, <3>1
        <3>3. \A i, j \in 1 .. Len(t.log) : t.log[i].key = t.log[j].key => i = j
            BY <1>1 DEF WellStored
        <3> QED
            BY <3>1, <3>2, <3>3
    <2>2. CASE r = Len(t.log) + 1
        BY <1>5, <2>2
    <2>3. CASE s = Len(t.log) + 1
        BY <1>5, <2>3
    <2> QED
        BY <1>5, <2>1, <2>2, <2>3
<1>7. \A i \in Id : t.record[i] # Nothing => t.record[i].type \in {"entity", "relation"}
                        /\ t.record[i].revision \in Nat /\ t.record[i].ends \subseteq Id
    BY <1>3 DEF Environment!Record
<1>8. CASE act.do = "revoke"
    <2> DEFINE gone == Environment!Gone(t, act)
    <2>1. t.type[act.id] = act.type /\ act.id \notin t.revoked /\ act.id \in gone
        <3>1. act.id \in gone
            BY DEF Environment!Gone
        <3>2. t.type[act.id] = act.type /\ act.id \notin t.revoked
            <4> HIDE DEF act
            <4>1. Environment!Permits(t, act)
                BY DEF act
            <4> QED
                BY <1>8, <4>1 DEF Environment!Permits
        <3> QED
            BY <3>1, <3>2
    <2>2. /\ u.type = t.type /\ u.revoked = t.revoked \cup gone
          /\ \A i \in Id : u.record[i] = IF i \in gone THEN Nothing ELSE t.record[i]
        BY <1>2, <1>8 DEF Applied
    \* What goes beside it are relations that end in it.
    <2>3. \A i \in gone : i # act.id => t.record[i] # Nothing /\ t.record[i].type = "relation"
        BY DEF Environment!Gone, Environment!Dependents, Environment!Relations
    <2>4. ASSUME NEW r \in Id \ gone, t.record[r] # Nothing, t.record[r].type = "relation",
                 NEW e \in t.record[r].ends
          PROVE  e \in Id /\ e \notin gone
        <3>1. e \in Id /\ Environment!IsEntity(t, e)
            BY <1>1, <1>7, <2>4 DEF WellStored
        <3>2. CASE e = act.id
            <4>1. act.type = "entity"
                BY <1>1, <2>1, <3>1, <3>2 DEF WellStored, Environment!IsEntity
            <4>2. r \in gone
                BY <2>4, <3>2, <4>1 DEF Environment!Gone, Environment!Dependents, Environment!Relations
            <4> QED
                BY <4>2
        <3>3. CASE e # act.id
            BY <2>3, <3>1, <3>3 DEF Environment!IsEntity
        <3> QED
            BY <3>1, <3>2, <3>3
    <2> HIDE DEF gone
    <2>5. \A i \in Id : u.record[i] # Nothing =>
             u.type[i] = u.record[i].type /\ i \notin u.revoked /\ u.record[i].revision <= Len(u.log)
        BY <1>1, <1>5, <1>7, <2>2 DEF WellStored
    <2>6. \A r \in Id : u.record[r] # Nothing /\ u.record[r].type = "relation" =>
             \A e \in u.record[r].ends :
                 Environment!IsEntity(u, e) /\ Environment!Fits(u.record[r].scope, u.record[e].scope)
        BY <1>1, <2>2, <2>4 DEF WellStored, Environment!IsEntity
    <2>7. \A i \in Id : u.type[i] # Nothing /\ i \notin u.revoked => u.record[i] # Nothing
        BY <1>1, <2>2 DEF WellStored
    <2> QED
        BY <1>2, <1>6, <2>5, <2>6, <2>7 DEF Tables, WellStored, u
<1>9. CASE act.do # "revoke"
    <2> DEFINE new == u.record[act.id]
    <2>1. /\ u.revoked = t.revoked
          /\ \A i \in Id : u.type[i] = IF i = act.id THEN act.type ELSE t.type[i]
          /\ \A i \in Id : i # act.id => u.record[i] = t.record[i]
          /\ new.type = act.type /\ new.scope = act.scope /\ new.ends = act.ends
          /\ new.revision = Len(t.log) + 1 /\ new # Nothing
        BY <1>2, <1>9, EnvironmentFacts DEF Applied
    <2>2. Environment!Unclaimed(t, act) /\ act.do = "upsert"
        BY <1>4, <1>9 DEF Environment!Permits, Environment!Operation
    <2>3. act.id \notin t.revoked /\ (t.record[act.id] # Nothing => t.record[act.id].type = act.type)
        BY <1>1, <1>4, <1>7, <2>2, EnvironmentFacts DEF Environment!Unclaimed, WellStored
    <2> HIDE DEF new
    <2>4. \A i \in Id : u.record[i] # Nothing =>
             u.type[i] = u.record[i].type /\ i \notin u.revoked /\ u.record[i].revision <= Len(u.log)
        BY <1>1, <1>5, <1>7, <2>1, <2>3 DEF WellStored, new
    <2>5. \A i \in Id : u.type[i] # Nothing /\ i \notin u.revoked => u.record[i] # Nothing
        BY <1>1, <2>1 DEF WellStored, new
    <2>6. ASSUME NEW r \in Id, u.record[r] # Nothing, u.record[r].type = "relation",
                 NEW e \in u.record[r].ends
          PROVE  Environment!IsEntity(u, e) /\ Environment!Fits(u.record[r].scope, u.record[e].scope)
        <3>1. CASE act.type = "entity"
            <4>1. r # act.id /\ u.record[r] = t.record[r]
                BY <2>1, <2>6, <3>1 DEF new
            <4>2. e \in Id /\ Environment!IsEntity(t, e) /\ Environment!Fits(t.record[r].scope, t.record[e].scope)
                BY <1>1, <1>7, <2>6, <4>1 DEF WellStored
            <4>3. CASE e = act.id
                <5>1. r \in Environment!Dependents(t, act.id)
                    BY <2>6, <4>1, <4>3 DEF Environment!Dependents, Environment!Relations
                <5>2. Environment!Fits(t.record[r].scope, act.scope)
                    BY <2>2, <2>6, <3>1, <4>1, <4>3, <5>1 DEF Environment!Permits
                <5> QED
                    BY <2>1, <3>1, <4>1, <4>3, <5>2 DEF Environment!IsEntity, new
            <4>4. CASE e # act.id
                BY <2>1, <4>1, <4>2, <4>4 DEF Environment!IsEntity
            <4> QED
                BY <4>3, <4>4
        <3>2. CASE act.type = "relation"
            <4>1. CASE r = act.id
                <5>1. e \in act.ends /\ Environment!IsEntity(t, e) /\ Environment!Fits(act.scope, t.record[e].scope)
                    BY <1>9, <2>1, <2>2, <2>6, <3>2, <4>1 DEF Environment!Permits, new
                <5>2. e \in Id /\ e # act.id
                    BY <1>4, <1>9, <2>3, <3>2, <5>1 DEF Environment!IsEntity, Environment!Operation
                <5> QED
                    BY <2>1, <4>1, <5>1, <5>2 DEF Environment!IsEntity, new
            <4>2. CASE r # act.id
                <5>1. u.record[r] = t.record[r]
                    BY <2>1, <4>2
                <5>2. e \in Id /\ Environment!IsEntity(t, e) /\ Environment!Fits(t.record[r].scope, t.record[e].scope)
                    BY <1>1, <1>7, <2>6, <5>1 DEF WellStored
                <5>3. e # act.id
                    BY <2>3, <3>2, <5>2 DEF Environment!IsEntity
                <5> QED
                    BY <2>1, <5>1, <5>2, <5>3 DEF Environment!IsEntity
            <4> QED
                BY <4>1, <4>2
        <3> QED
            BY <1>4, <3>1, <3>2
    <2> QED
        BY <1>2, <1>6, <2>4, <2>5, <2>6 DEF Tables, WellStored, u
<1> QED
    BY <1>8, <1>9

-----------------------------------------------------------------------------
(* The environment memory: histories.                                      *)

\* Of a set of numbers one is the least.
LEMMA LeastOf == ASSUME NEW S \in SUBSET Nat, S # {} PROVE \E n \in S : \A m \in S : n <= m
<1> DEFINE R == StrictSubsetOrdering(Nat)
           T == {0 .. i : i \in S}
<1>1. T \subseteq FiniteSubsetsOf(Nat) /\ T # {}
    <2>1. ASSUME NEW i \in S PROVE 0 .. i \subseteq Nat /\ IsFiniteSet(0 .. i)
        <3>1. i \in Int /\ 0 \in Int
            OBVIOUS
        <3>2. IsFiniteSet(0 .. i)
            BY <3>1, FS_Interval
        <3> QED
            BY <3>2
    <2> QED
        BY <2>1 DEF FiniteSubsetsOf
<1>2. PICK t \in T : \A u \in T : <<u, t>> \notin R
    <2> HIDE DEF T
    <2> QED
        BY <1>1, FS_StrictSubsetOrderingWellFounded, WFMin
<1>3. PICK n \in S : t = 0 .. n
    OBVIOUS
<1>4. ASSUME NEW m \in S, m < n PROVE FALSE
    <2>1. 0 .. m \subseteq 0 .. n /\ n \in 0 .. n /\ n \notin 0 .. m /\ 0 .. n \subseteq Nat /\ 0 .. m \subseteq Nat
        BY <1>4
    <2>2. <<0 .. m, 0 .. n>> \in R
        BY <2>1 DEF StrictSubsetOrdering
    <2> QED
        BY <1>2, <1>3, <2>2
<1> QED
    BY <1>4

\* What a call sees of two databases that are alike is the same.
LEMMA AlikePermits ==
    ASSUME NEW t, NEW u, Alike(t, u), NEW act, Environment!Permits(t, act)
    PROVE  Environment!Permits(u, act)
<1>1. \A i \in Id : Environment!Dependents(t, i) = Environment!Dependents(u, i)
    BY DEF Alike, Environment!Dependents, Environment!Relations
<1>2. Environment!Dependents(t, act.id) = Environment!Dependents(u, act.id)
    BY DEF Alike, Environment!Dependents, Environment!Relations
<1>3. \A e : Environment!IsEntity(t, e) <=> Environment!IsEntity(u, e)
    BY DEF Alike, Environment!IsEntity
<1>4. Environment!Unclaimed(t, act) <=> Environment!Unclaimed(u, act)
    BY DEF Alike, Environment!Unclaimed
<1>5. t.type = u.type /\ t.revoked = u.revoked /\ t.record = u.record
    BY DEF Alike
<1> QED
    BY <1>2, <1>3, <1>4, <1>5 DEF Environment!Permits

\* Tables are told apart by their fields.
LEMMA TableEqual ==
    ASSUME NEW t \in Environment!Table, NEW u \in Environment!Table, Alike(t, u), t.base = u.base
    PROVE  t = u
BY DEF Environment!Table, Alike

\* The same event leaves them alike.
LEMMA AlikeApply ==
    ASSUME NEW t \in Environment!Table, NEW u \in Environment!Table, Alike(t, u),
           NEW event \in Environment!Event, Len(t.log) < MaxTable
    PROVE  Alike(Environment!Apply(t, event), Environment!Apply(u, event))
<1> DEFINE v == Environment!Apply(t, event)
           w == Environment!Apply(u, event)
           act == event.op
<1>1. /\ t.log = u.log /\ t.type = u.type /\ t.revoked = u.revoked /\ t.record = u.record
    BY DEF Alike
<1>2. /\ v \in Environment!Table /\ Applied(t, event, v)
      /\ w \in Environment!Table /\ Applied(u, event, w)
    BY <1>1, ApplyIs
<1>3. Environment!Gone(t, act) = Environment!Gone(u, act)
    BY <1>1 DEF Environment!Gone, Environment!Dependents, Environment!Relations
<1>4. act.id \in Id
    BY EnvironmentFacts DEF Environment!Event, Environment!Operation
<1> HIDE DEF v, w, act
<1>5. v.log = w.log
    BY <1>1, <1>2 DEF Applied, act
<1>6. CASE act.do = "revoke"
    <2> DEFINE gone == Environment!Gone(t, act)
    <2>0. /\ v.type = t.type /\ v.revoked = t.revoked \cup gone
          /\ \A i \in Id : v.record[i] = IF i \in gone THEN Nothing ELSE t.record[i]
        BY <1>2, <1>6 DEF Applied, act
    <2>a. /\ w.type = u.type /\ w.revoked = u.revoked \cup Environment!Gone(u, act)
          /\ \A i \in Id : w.record[i] = IF i \in Environment!Gone(u, act) THEN Nothing ELSE u.record[i]
        BY <1>2, <1>6 DEF Applied, act
    <2> HIDE DEF gone
    <2>1. v.type = w.type /\ v.revoked = w.revoked /\ \A i \in Id : v.record[i] = w.record[i]
        BY <1>1, <1>3, <2>0, <2>a DEF gone
    <2>2. v.record = w.record
        BY <1>2, <2>1 DEF Environment!Table
    <2> QED
        BY <1>5, <2>1, <2>2 DEF Alike, v, w
<1>7. CASE act.do # "revoke"
    <2>1. /\ v.revoked = w.revoked /\ \A i \in Id : v.type[i] = w.type[i]
          /\ \A i \in Id : i # act.id => v.record[i] = w.record[i]
        BY <1>1, <1>2, <1>7 DEF Applied, act
    <2>2. v.record[act.id] = w.record[act.id]
        <3> DEFINE new == [type |-> act.type, scope |-> act.scope, brief |-> act.brief,
                           ends |-> act.ends, revision |-> Len(t.log) + 1]
        <3>1. v.record[act.id] = new
            BY <1>2, <1>7 DEF Applied, act
        <3>2. w.record[act.id] = new
            BY <1>1, <1>2, <1>7 DEF Applied, act
        <3> QED
            BY <3>1, <3>2
    <2>3. v.type = w.type
        BY <1>2, <2>1 DEF Environment!Table
    <2>4. v.record = w.record
        <3>1. \A i \in Id : v.record[i] = w.record[i]
            BY <2>1, <2>2
        <3> QED
            BY <1>2, <3>1 DEF Environment!Table
    <2> QED
        BY <1>5, <2>1, <2>3, <2>4 DEF Alike, v, w
<1> QED
    BY <1>6, <1>7

\* What a log has come to depends on the events of it alone.
LEMMA Agree ==
    ASSUME NEW s, NEW h, Len(s) \in Nat, Evolves(s, h), NEW v, NEW g, Len(v) \in Nat, Evolves(v, g),
           NEW n \in 0 .. Len(s), n <= Len(v), \A j \in 1 .. n : s[j] = v[j]
    PROVE  h[n] = g[n]
<1> DEFINE Bad == {k \in 0 .. n : h[k] # g[k]}
<1>1. SUFFICES ASSUME Bad # {} PROVE FALSE
    OBVIOUS
<1>2. PICK k \in Bad : \A m \in Bad : k <= m
    <2>1. Bad \subseteq Nat
        OBVIOUS
    <2> HIDE DEF Bad
    <2> QED
        BY <1>1, <2>1, LeastOf
<1>3. k # 0
    BY DEF Evolves
<1>4. k - 1 \in 0 .. n /\ k \in 1 .. Len(s) /\ k \in 1 .. Len(v) /\ k \in 1 .. n
    BY <1>3
<1>5. h[k - 1] = g[k - 1]
    BY <1>2, <1>4
<1>6. h[k] = Environment!Apply(h[k - 1], s[k]) /\ g[k] = Environment!Apply(g[k - 1], v[k])
    BY <1>4 DEF Evolves
<1> QED
    BY <1>4, <1>5, <1>6

\* A part of a history is the history of its events.
LEMMA Truncated ==
    ASSUME NEW s, NEW h, Len(s) \in Nat, Evolves(s, h), NEW n \in 0 .. Len(s),
           NEW v, Len(v) = n, \A j \in 1 .. n : v[j] = s[j]
    PROVE  Evolves(v, [k \in 0 .. n |-> h[k]])
<1> DEFINE g == [k \in 0 .. n |-> h[k]]
<1>1. \A k \in 0 .. n : g[k] = h[k] /\ k \in 0 .. Len(s)
    OBVIOUS
<1>2. g \in [0 .. Len(v) -> Tables]
    <2>1. h \in [0 .. Len(s) -> Tables]
        BY DEF Evolves
    <2> QED
        BY <1>1, <2>1
<1>3. g[0] = Environment!Empty
    BY DEF Evolves
<1>4. ASSUME NEW k \in 1 .. Len(v) PROVE g[k] = Environment!Apply(g[k - 1], v[k])
    <2>1. k \in 1 .. Len(s) /\ k - 1 \in 0 .. n /\ k \in 0 .. n
        OBVIOUS
    <2> QED
        BY <1>1, <2>1 DEF Evolves
<1>5. ASSUME NEW k \in 0 .. Len(v) PROVE Len(g[k].log) = k /\ \A j \in 1 .. k : g[k].log[j] = v[j]
    <2>1. k \in 0 .. n /\ k \in 0 .. Len(s) /\ k <= n
        OBVIOUS
    <2>2. Len(h[k].log) = k /\ \A j \in 1 .. k : h[k].log[j] = s[j]
        BY <2>1 DEF Evolves
    <2>3. \A j \in 1 .. k : j \in 1 .. n
        BY <2>1
    <2> QED
        BY <1>1, <2>1, <2>2, <2>3
<1> HIDE DEF g
<1>6. Evolves(v, g)
    BY <1>2, <1>3, <1>4, <1>5 DEF Evolves
<1> QED
    BY <1>6 DEF g

\* A database with a history is well stored.
LEMMA EvolvedStored == ASSUME NEW t \in Environment!Table, Evolved(t) PROVE WellStored(t)
<1>1. PICK h : Evolves(t.log, h) /\ Alike(h[Len(t.log)], t)
    BY DEF Evolved
<1>2. Len(t.log) \in Nat
    BY DEF Environment!Table
<1>3. h[Len(t.log)] \in Tables
    BY <1>1, <1>2 DEF Evolves
<1> DEFINE u == h[Len(t.log)]
<1>4. WellStored(u) /\ Alike(u, t)
    BY <1>1, <1>3 DEF Tables
<1> HIDE DEF u
<1> QED
    BY <1>4 DEF WellStored, Alike, Environment!IsEntity

\* An empty database has one.
LEMMA EmptyEvolved == Evolved(Environment!Empty)
<1> DEFINE t == Environment!Empty
           h == [k \in 0 .. 0 |-> t]
<1>1. t.log = << >> /\ Len(t.log) = 0
    BY DEF Environment!Empty
<1>2. h \in [0 .. 0 -> Tables] /\ h[0] = t
    BY EmptyStored
<1> HIDE DEF h, t
<1>3. Evolves(t.log, h)
    BY <1>1, <1>2 DEF Evolves, t
<1>4. Alike(h[Len(t.log)], t)
    BY <1>1, <1>2 DEF Alike
<1> QED
    BY <1>3, <1>4 DEF Evolved, t

\* An event that is permitted continues it.
LEMMA Extended ==
    ASSUME NEW t \in Environment!Table, Evolved(t), Len(t.log) < MaxTable, NEW event \in Environment!Event,
           Environment!Permits(t, event.op), \A r \in 1 .. Len(t.log) : t.log[r].key # event.key
    PROVE  Environment!Apply(t, event) \in Environment!Table /\ Evolved(Environment!Apply(t, event))
<1>1. PICK h : Evolves(t.log, h) /\ Alike(h[Len(t.log)], t)
    BY DEF Evolved
<1> DEFINE n == Len(t.log)
           last == h[n]
           next == Environment!Apply(last, event)
           u == Environment!Apply(t, event)
           g == [k \in 0 .. n + 1 |-> IF k <= n THEN h[k] ELSE next]
<1>2. n \in Nat /\ t.log \in Seq(Environment!Event)
    BY DEF Environment!Table
<1>3. last \in Tables /\ last.log = t.log /\ last \in Environment!Table
    BY <1>1, <1>2 DEF Evolves, Alike, Tables
<1>4. Alike(t, last) /\ Alike(last, t)
    BY <1>1 DEF Alike
<1>5. next \in Tables
    <2>1. Environment!Permits(last, event.op)
        BY <1>4, AlikePermits
    <2> HIDE DEF last
    <2> QED
        BY <1>3, <2>1, ApplyStored
<1>6. u \in Environment!Table /\ u.log = Append(t.log, event)
    BY ApplyIs DEF Applied
<1>7. Alike(next, u)
    <2> HIDE DEF last
    <2> QED
        BY <1>3, <1>4, AlikeApply
<1>8. Len(u.log) = n + 1 /\ u.log[n + 1] = event /\ \A j \in 1 .. n : u.log[j] = t.log[j]
    BY <1>2, <1>6
<1>9. next.log = u.log
    BY <1>7 DEF Alike
<1> HIDE DEF next, u
<1>10. \A k \in 0 .. n : g[k] = h[k] /\ k \in 0 .. Len(t.log)
    BY <1>2
<1>11. g[n + 1] = next
    BY <1>2
<1>12. h \in [0 .. n -> Tables] /\ h[0] = Environment!Empty
    BY <1>1 DEF Evolves
<1>13. g \in [0 .. n + 1 -> Tables]
    BY <1>5, <1>12
<1>14. g[0] = Environment!Empty
    BY <1>2, <1>10, <1>12
<1> HIDE DEF g
<1>15. ASSUME NEW k \in 1 .. n + 1 PROVE g[k] = Environment!Apply(g[k - 1], u.log[k])
    <2>1. CASE k = n + 1
        BY <1>2, <1>8, <1>10, <1>11, <2>1 DEF next
    <2>2. CASE k # n + 1
        <3>1. k \in 1 .. n /\ k \in 0 .. n /\ k - 1 \in 0 .. n
            BY <1>2, <2>2
        <3>2. h[k] = Environment!Apply(h[k - 1], t.log[k])
            BY <1>1, <3>1 DEF Evolves
        <3> QED
            BY <1>8, <1>10, <3>1, <3>2
    <2> QED
        BY <2>1, <2>2
<1>16. ASSUME NEW k \in 0 .. n + 1 PROVE Len(g[k].log) = k /\ \A j \in 1 .. k : g[k].log[j] = u.log[j]
    <2>1. CASE k = n + 1
        BY <1>8, <1>9, <1>11, <2>1
    <2>2. CASE k # n + 1
        <3>1. k \in 0 .. n
            BY <1>2, <2>2
        <3>2. Len(h[k].log) = k /\ \A j \in 1 .. k : h[k].log[j] = t.log[j]
            BY <1>1, <3>1 DEF Evolves
        <3>3. \A j \in 1 .. k : j \in 1 .. n
            BY <1>2, <3>1
        <3> QED
            BY <1>8, <1>10, <3>1, <3>2, <3>3
    <2> QED
        BY <2>1, <2>2
<1>17. Evolves(u.log, g)
    BY <1>8, <1>13, <1>14, <1>15, <1>16 DEF Evolves
<1> QED
    BY <1>6, <1>7, <1>8, <1>11, <1>17 DEF Evolved, u

\* The tables with another start of the log that can be exported.
Based(t, base) == [t EXCEPT !.base = base]

LEMMA BasedIs ==
    ASSUME NEW t \in Environment!Table, NEW base \in 0 .. MaxTable
    PROVE  Based(t, base) \in Environment!Table /\ Based(t, base).base = base /\ Alike(Based(t, base), t)
BY DEF Based, Alike, Environment!Table

\* The recursion of Replayed has a solution, and it is one.
Replays(t, u, f) ==
    f = [r \in Len(t.log) .. Len(u.log) |->
            IF r = Len(t.log) THEN t ELSE Environment!Apply(f[r - 1], u.log[r])]

LEMMA ReplayedIs == ASSUME NEW t, NEW u, NEW f, Replays(t, u, f) PROVE Replays(t, u, Environment!Replayed(t, u))
<1>1. Environment!Replayed(t, u) = CHOOSE x : Replays(t, u, x)
    BY DEF Environment!Replayed, Replays
<1> QED
    BY <1>1

\* What is replayed has the history of the other database, as far as it goes.
LEMMA Replaying ==
    ASSUME NEW t \in Environment!Table, NEW u \in Environment!Table, Evolved(t), Evolved(u),
           Environment!Continues(t, u), Len(u.log) <= MaxTable, NEW n \in Len(t.log) + 1 .. Len(u.log)
    PROVE  LET v == Environment!Replayed(t, u)[n]
           IN  v \in Environment!Table /\ Evolved(v) /\ Len(v.log) = n
<1>1. PICK h : Evolves(t.log, h) /\ Alike(h[Len(t.log)], t)
    BY DEF Evolved
<1>2. PICK g : Evolves(u.log, g)
    BY DEF Evolved
<1> DEFINE m == Len(t.log)
           l == Len(u.log)
           base == t.base
           f == [r \in m .. l |-> Based(g[r], base)]
<1>3. /\ m \in Nat /\ l \in Nat /\ m < l /\ base \in 0 .. MaxTable /\ n \in Nat
      /\ \A j \in 1 .. m : t.log[j] = u.log[j]
      /\ \A j \in 1 .. l : u.log[j] \in Environment!Event
    BY DEF Environment!Table, Environment!Continues, Environment!Prefix
<1>4. g[m] = h[m]
    <2>1. Len(t.log) \in Nat /\ Len(u.log) \in Nat /\ m \in 0 .. Len(t.log) /\ m <= Len(u.log)
        BY <1>3
    <2>2. \A j \in 1 .. m : t.log[j] = u.log[j]
        BY <1>3
    <2> HIDE DEF m
    <2> QED
        BY <1>1, <1>2, <2>1, <2>2, Agree
<1>5. \A k \in 0 .. l : g[k] \in Tables /\ Len(g[k].log) = k /\ g[k].log = g[k].log
    BY <1>2 DEF Evolves
<1>6. \A k \in 0 .. l : g[k] \in Environment!Table
    BY <1>5 DEF Tables
<1>7. \A k \in m .. l : /\ f[k] = Based(g[k], base) /\ f[k] \in Environment!Table
                        /\ f[k].base = base /\ Alike(f[k], g[k]) /\ Alike(g[k], f[k])
    <2> TAKE k \in m .. l
    <2>1. k \in 0 .. l /\ g[k] \in Environment!Table
        BY <1>3, <1>6
    <2>2. f[k] = Based(g[k], base)
        OBVIOUS
    <2> HIDE DEF f
    <2>3. Alike(f[k], g[k]) /\ f[k] \in Environment!Table /\ f[k].base = base
        BY <1>3, <2>1, <2>2, BasedIs
    <2> QED
        BY <2>2, <2>3 DEF Alike
<1>8. f[m] = t
    <2>1. m \in m .. l /\ g[m] = h[m] /\ Alike(h[m], t)
        BY <1>1, <1>3, <1>4
    <2>2. f[m] \in Environment!Table /\ f[m].base = t.base /\ Alike(f[m], g[m])
        BY <1>7, <2>1
    <2> HIDE DEF f
    <2>3. Alike(f[m], t)
        BY <2>1, <2>2 DEF Alike
    <2> QED
        BY <2>2, <2>3, TableEqual
<1> HIDE DEF f
<1>9. ASSUME NEW k \in m + 1 .. l PROVE f[k] = Environment!Apply(f[k - 1], u.log[k])
    <2>1. /\ k - 1 \in m .. l /\ k \in m .. l /\ k \in 1 .. l /\ k - 1 \in 0 .. l /\ k \in 0 .. l
          /\ k - 1 < MaxTable /\ u.log[k] \in Environment!Event
        BY <1>3, EnvironmentFacts
    <2>2. Len(f[k - 1].log) < MaxTable /\ Len(g[k - 1].log) < MaxTable
        BY <1>5, <1>7, <2>1 DEF Alike
    <2>3. Alike(Environment!Apply(f[k - 1], u.log[k]), Environment!Apply(g[k - 1], u.log[k]))
        BY <1>6, <1>7, <2>1, <2>2, AlikeApply
    <2>4. g[k] = Environment!Apply(g[k - 1], u.log[k])
        BY <1>2, <2>1 DEF Evolves
    <2>5. /\ Environment!Apply(f[k - 1], u.log[k]) \in Environment!Table
          /\ Environment!Apply(f[k - 1], u.log[k]).base = base
        <3> DEFINE y == f[k - 1]
                   event == u.log[k]
        <3>1. y \in Environment!Table /\ y.base = base /\ event \in Environment!Event /\ Len(y.log) < MaxTable
            BY <1>7, <2>1, <2>2
        <3> HIDE DEF y, event
        <3>2. Environment!Apply(y, event) \in Environment!Table /\ Environment!Apply(y, event).base = y.base
            BY <3>1, ApplyIs DEF Applied
        <3> QED
            BY <3>1, <3>2 DEF y, event
    <2>6. Alike(f[k], Environment!Apply(f[k - 1], u.log[k]))
        BY <1>7, <2>1, <2>3, <2>4 DEF Alike
    <2> QED
        BY <1>7, <2>1, <2>5, <2>6, TableEqual
<1>10. Replays(t, u, f)
    <2>1. f = [r \in m .. l |-> f[r]]
        BY DEF f
    <2>2. \A r \in m .. l : r # m => r \in m + 1 .. l
        BY <1>3
    <2>3. \A r \in m .. l : f[r] = IF r = m THEN t ELSE Environment!Apply(f[r - 1], u.log[r])
        BY <1>8, <1>9, <2>2
    <2> HIDE DEF m, l
    <2>4. f = [r \in m .. l |-> IF r = m THEN t ELSE Environment!Apply(f[r - 1], u.log[r])]
        BY <2>1, <2>3
    <2> QED
        BY <2>4 DEF Replays, m, l
<1> DEFINE x == Environment!Replayed(t, u)
<1>11. Replays(t, u, x)
    BY <1>10, ReplayedIs
<1> HIDE DEF x
<1>12. x[n] = f[n]
    <2> DEFINE Bad == {k \in m .. l : x[k] # f[k]}
    <2>1. SUFFICES ASSUME Bad # {} PROVE FALSE
        BY <1>3
    <2>2. PICK k \in Bad : \A j \in Bad : k <= j
        <3>1. Bad \subseteq Nat
            BY <1>3
        <3> HIDE DEF Bad
        <3> QED
            BY <2>1, <3>1, LeastOf
    <2>3. x[m] = t /\ \A r \in m + 1 .. l : x[r] = Environment!Apply(x[r - 1], u.log[r])
        <3>1. \A r \in m .. l : x[r] = IF r = m THEN t ELSE Environment!Apply(x[r - 1], u.log[r])
            BY <1>11 DEF Replays
        <3>2. m \in m .. l /\ \A r \in m + 1 .. l : r \in m .. l /\ r # m
            BY <1>3
        <3> HIDE DEF m, l
        <3> QED
            BY <3>1, <3>2
    <2>4. k # m
        BY <1>8, <2>3
    <2>5. k \in m + 1 .. l /\ k - 1 \in m .. l /\ k - 1 < k
        BY <1>3, <2>4
    <2>6. x[k - 1] = f[k - 1]
        BY <1>3, <2>2, <2>5
    <2> QED
        BY <1>9, <2>3, <2>5, <2>6
<1>13. n \in m .. l /\ n \in 0 .. l
    BY <1>3
<1>14. f[n] \in Environment!Table /\ f[n].log = g[n].log
    BY <1>7, <1>13 DEF Alike
<1>15. Len(g[n].log) = n /\ \A j \in 1 .. n : g[n].log[j] = u.log[j]
    BY <1>2, <1>13 DEF Evolves
<1>16. Evolves(g[n].log, [k \in 0 .. n |-> g[k]])
    BY <1>2, <1>3, <1>13, <1>15, Truncated
<1>17. Evolved(f[n])
    <2> DEFINE y == [k \in 0 .. n |-> g[k]]
    <2>1. y[n] = g[n]
        BY <1>3
    <2>2. Alike(y[n], f[n])
        BY <1>7, <1>13, <2>1
    <2> HIDE DEF y
    <2>3. Evolves(g[n].log, y)
        BY <1>16 DEF y
    <2> QED
        BY <1>14, <1>15, <2>2, <2>3 DEF Evolved
<1> QED
    BY <1>12, <1>14, <1>15, <1>17 DEF x

-----------------------------------------------------------------------------
(* The environment memory: its steps.                                      *)

LEMMA DatabaseFacts ==
    ASSUME EnvironmentSound, NEW c \in Connection
    PROVE  /\ Home[c] \in Database /\ db[Home[c]] \in Environment!Table
           /\ Len(db[Home[c]].log) \in 0 .. MaxTable /\ Evolved(db[Home[c]])
<1>1. Home[c] \in Database /\ db[Home[c]] \in Environment!Table
    BY EnvironmentFacts DEF EnvironmentSound, DatabasesSound
<1>2. Len(db[Home[c]].log) \in Nat
    BY <1>1 DEF Environment!Table
<1> QED
    BY <1>1, <1>2, EnvironmentFacts DEF EnvironmentSound, DatabasesSound

LEMMA EnvironmentInit == ASSUME Environment!Init PROVE EnvironmentSound
<1>1. Environment!Empty \in Environment!Table /\ Len(Environment!Empty.log) = 0
    BY EmptyStored DEF Tables, Environment!Empty
<1>2. DatabasesSound
    BY <1>1, EmptyEvolved, EnvironmentFacts DEF Environment!Init, DatabasesSound
<1>3. RequestsSound
    BY EnvironmentFacts DEF Environment!Init, RequestsSound, Environment!Request, Environment!Answer
<1>4. CachesSound
    <2>1. \A c \in Connection : Home[c] \in Database /\ db[Home[c]] = Environment!Empty
        BY EnvironmentFacts DEF Environment!Init
    <2> QED
        BY <1>1, <2>1 DEF Environment!Init, CachesSound
<1> QED
    BY <1>2, <1>3, <1>4 DEF EnvironmentSound

\* A database goes on to tables of a longer history; what was cached of it is dropped or
\* seen to be of an earlier revision.
LEMMA ChangeSound ==
    ASSUME EnvironmentSound, NEW c \in Connection, NEW t \in Environment!Table, Environment!Changes(c, t),
           Evolved(t), Len(t.log) <= MaxTable, Len(db[Home[c]].log) < Len(t.log)
    PROVE  DatabasesSound' /\ CachesSound'
<1>1. /\ db' = [db EXCEPT ![Home[c]] = t] /\ cache' = [cache EXCEPT ![c] = << >>]
      /\ observed' = [observed EXCEPT ![c] = Len(t.log)]
    BY DEF Environment!Changes
<1>2. /\ db \in [Database -> Environment!Table] /\ cache \in [Connection -> Seq(Environment!Cached)]
      /\ observed \in [Connection -> Nat] /\ Home[c] \in Database /\ Len(t.log) \in Nat
      /\ Home \in [Connection -> Database]
    BY DatabaseFacts, EnvironmentFacts DEF EnvironmentSound, DatabasesSound, CachesSound, Environment!Table
<1>3. /\ \A d \in Database : db'[d] = IF d = Home[c] THEN t ELSE db[d]
      /\ \A k \in Connection : cache'[k] = IF k = c THEN << >> ELSE cache[k]
      /\ \A k \in Connection : observed'[k] = IF k = c THEN Len(t.log) ELSE observed[k]
    BY <1>1, <1>2
<1>4. db' \in [Database -> Environment!Table] /\ cache' \in [Connection -> Seq(Environment!Cached)]
      /\ observed' \in [Connection -> Nat]
    BY <1>1, <1>2
<1>5. DatabasesSound'
    <2>1. ASSUME NEW d \in Database PROVE Len(db'[d].log) <= MaxTable /\ Evolved(db'[d])
        BY <1>3 DEF EnvironmentSound, DatabasesSound
    <2> QED
        BY <1>4, <2>1 DEF DatabasesSound
<1>6. CachesSound'
    <2>1. ASSUME NEW k \in Connection
          PROVE  /\ observed'[k] <= Len(db'[Home[k]].log)
                 /\ observed'[k] = Len(db'[Home[k]].log) => cache'[k] \in Seq(Current(db'[Home[k]]))
        <3>1. Home[k] \in Database
            BY <1>2
        <3>2. /\ observed[k] <= Len(db[Home[k]].log) /\ observed[k] \in Nat
              /\ observed[k] = Len(db[Home[k]].log) => cache[k] \in Seq(Current(db[Home[k]]))
            BY <1>2 DEF EnvironmentSound, CachesSound
        <3>3. CASE k = c
            <4>1. db'[Home[k]] = t /\ observed'[k] = Len(t.log) /\ cache'[k] = << >>
                BY <1>3, <3>1, <3>3
            <4>2. << >> \in Seq(Current(t))
                OBVIOUS
            <4> QED
                BY <1>2, <4>1, <4>2
        <3>4. CASE k # c /\ Home[k] = Home[c]
            <4>1. db'[Home[k]] = t /\ observed'[k] = observed[k]
                BY <1>3, <3>1, <3>4
            <4>2. observed[k] < Len(t.log)
                BY <1>2, <3>2, <3>4, DatabaseFacts
            <4> QED
                BY <1>2, <3>2, <4>1, <4>2
        <3>5. CASE k # c /\ Home[k] # Home[c]
            BY <1>3, <3>1, <3>2, <3>5
        <3> QED
            BY <3>3, <3>4, <3>5
    <2> QED
        BY <1>4, <2>1 DEF CachesSound
<1> QED
    BY <1>5, <1>6

LEMMA AskStep == ASSUME EnvironmentSound, NEW c \in Caller, Environment!Ask(c) PROVE EnvironmentSound'
<1>1. c \in Connection
    BY EnvironmentFacts
<1>2. PICK e \in Environment!Event :
          request' = [request EXCEPT ![c] = [state |-> "asked", event |-> e, revision |-> 0,
                                             expected |-> Len(db[Home[c]].log)]]
    BY DEF Environment!Ask
<1>3. UNCHANGED <<db, cache, observed, late>>
    BY DEF Environment!Ask
<1> DEFINE q == [state |-> "asked", event |-> e, revision |-> 0, expected |-> Len(db[Home[c]].log)]
<1>4. q \in Environment!Request /\ q.event \in Environment!Event
    BY <1>1, DatabaseFacts, EnvironmentFacts DEF Environment!Request, Environment!Answer
<1> HIDE DEF q
<1>5. RequestsSound'
    BY <1>2, <1>4 DEF EnvironmentSound, RequestsSound, q
<1>6. DatabasesSound' /\ CachesSound'
    BY <1>3 DEF EnvironmentSound, DatabasesSound, CachesSound
<1> QED
    BY <1>5, <1>6 DEF EnvironmentSound

\* An answer, or the loss of it, leaves the requests proper.
LEMMA AnsweredSound ==
    ASSUME RequestsSound, NEW c \in Caller, NEW state \in {"committed", "conflict", "refused"},
           NEW revision \in 0 .. MaxTable, Environment!Answered(c, state, revision)
    PROVE  RequestsSound'
<1> DEFINE q == [state |-> state, event |-> Nothing, expected |-> 0, revision |-> revision]
<1>1. q \in Environment!Request /\ q.state # "asked"
    BY EnvironmentFacts DEF Environment!Request, Environment!Answer
<1>2. request' = request \/ request' = [request EXCEPT ![c] = q]
    BY DEF Environment!Answered
<1> HIDE DEF q
<1> QED
    BY <1>1, <1>2 DEF RequestsSound

\* An append that commits.
LEMMA CommitSound ==
    ASSUME EnvironmentSound, NEW c \in Connection, NEW q, q.event \in Environment!Event,
           Environment!Outcome(db[Home[c]], q) = "committed", Len(db[Home[c]].log) < MaxTable,
           Environment!Changes(c, Environment!Apply(db[Home[c]], q.event))
    PROVE  DatabasesSound' /\ CachesSound'
<1> DEFINE t == db[Home[c]]
           u == Environment!Apply(t, q.event)
<1>1. t \in Environment!Table /\ Evolved(t) /\ Len(t.log) \in Nat
    BY DatabaseFacts
<1>2. Environment!Receipts(t, q.event.key) = {} /\ Environment!Permits(t, q.event.op)
    BY DEF Environment!Outcome
<1>3. \A r \in 1 .. Len(t.log) : t.log[r].key # q.event.key
    BY <1>2 DEF Environment!Receipts
<1>4. Len(t.log) < MaxTable
    OBVIOUS
<1>5. Environment!Changes(c, u)
    OBVIOUS
<1> HIDE DEF t, u
<1>6. u \in Environment!Table /\ Evolved(u)
    BY <1>1, <1>2, <1>3, <1>4, Extended DEF u
<1>7. u.log = Append(t.log, q.event)
    <2>1. Applied(t, q.event, Environment!Apply(t, q.event))
        BY <1>1, <1>4, ApplyIs
    <2> QED
        BY <2>1 DEF Applied, u
<1>8. Len(u.log) = Len(t.log) + 1
    BY <1>1, <1>7 DEF Environment!Table
<1>9. Len(u.log) <= MaxTable /\ Len(t.log) < Len(u.log)
    BY <1>1, <1>4, <1>8, EnvironmentFacts
<1> QED
    BY <1>5, <1>6, <1>9, ChangeSound DEF t

LEMMA AppendStep == ASSUME EnvironmentSound, NEW c \in Caller, Environment!AppendEvent(c) PROVE EnvironmentSound'
<1> DEFINE t == db[Home[c]]
           q == request[c]
<1>1. c \in Connection /\ q.state = "asked" /\ q.event \in Environment!Event /\ RequestsSound
    BY EnvironmentFacts DEF Environment!AppendEvent, EnvironmentSound, RequestsSound
<1>2. Len(t.log) \in 0 .. MaxTable /\ MaxTable \in Nat
    BY <1>1, DatabaseFacts, EnvironmentFacts
<1>3. CASE /\ Environment!Outcome(t, q) = "committed" /\ Len(t.log) < MaxTable
           /\ Environment!Changes(c, Environment!Apply(t, q.event))
           /\ Environment!Answered(c, "committed", Len(t.log) + 1)
    <2>1. DatabasesSound' /\ CachesSound'
        BY <1>1, <1>3, CommitSound
    <2>2. Len(t.log) + 1 \in 0 .. MaxTable
        BY <1>2, <1>3
    <2>3. RequestsSound'
        <3> HIDE DEF t
        <3> QED
            BY <1>1, <1>3, <2>2, AnsweredSound
    <2> QED
        BY <2>1, <2>3 DEF EnvironmentSound
<1>4. ASSUME UNCHANGED <<db, cache, observed>> PROVE DatabasesSound' /\ CachesSound'
    BY <1>4 DEF EnvironmentSound, DatabasesSound, CachesSound
<1>5. ASSUME UNCHANGED <<db, cache, observed>>,
             NEW r \in Environment!Receipts(t, q.event.key), Environment!Answered(c, "committed", r)
      PROVE  EnvironmentSound'
    <2>1. r \in 0 .. MaxTable
        BY <1>2 DEF Environment!Receipts
    <2> QED
        BY <1>1, <1>4, <1>5, <2>1, AnsweredSound DEF EnvironmentSound
<1>6. ASSUME UNCHANGED <<db, cache, observed>>, Environment!Outcome(t, q) \in {"conflict", "refused"},
             Environment!Answered(c, Environment!Outcome(t, q), 0)
      PROVE  EnvironmentSound'
    <2>1. 0 \in 0 .. MaxTable
        BY <1>2
    <2> QED
        BY <1>1, <1>4, <1>6, <2>1, AnsweredSound DEF EnvironmentSound
<1> QED
    BY <1>3, <1>5, <1>6 DEF Environment!AppendEvent

LEMMA WriteStep == ASSUME EnvironmentSound, NEW c \in Writer, Environment!Write(c) PROVE EnvironmentSound'
<1>1. PICK e \in Environment!Event :
        /\ Len(db[Home[c]].log) < MaxTable
        /\ Environment!Outcome(db[Home[c]], [event |-> e, expected |-> Len(db[Home[c]].log)]) = "committed"
        /\ Environment!Changes(c, Environment!Apply(db[Home[c]], e)) /\ UNCHANGED <<request, late>>
    BY DEF Environment!Write
<1> DEFINE q == [event |-> e, expected |-> Len(db[Home[c]].log)]
<1>2. q.event = e /\ c \in Connection
    BY EnvironmentFacts
<1>3. Environment!Outcome(db[Home[c]], q) = "committed"
    BY <1>1
<1> HIDE DEF q
<1>4. DatabasesSound' /\ CachesSound'
    BY <1>1, <1>2, <1>3, CommitSound
<1>5. RequestsSound'
    BY <1>1 DEF EnvironmentSound, RequestsSound
<1> QED
    BY <1>4, <1>5 DEF EnvironmentSound

LEMMA RestoreStep ==
    ASSUME EnvironmentSound, NEW c \in Connection, Environment!RestoreSnapshot(c) PROVE EnvironmentSound'
<1>1. PICK d \in Database :
        /\ db[Home[c]].log = << >> /\ db[d].log # << >>
        /\ Environment!Changes(c, Environment!Restored(db[d])) /\ UNCHANGED <<request, late>>
    BY DEF Environment!RestoreSnapshot
<1> DEFINE u == db[d]
           t == Environment!Restored(u)
<1>2. u \in Environment!Table /\ Len(u.log) <= MaxTable /\ Evolved(u)
    BY DEF EnvironmentSound, DatabasesSound
<1>3. Len(u.log) \in 0 .. MaxTable /\ u.log \in Seq(Environment!Event)
    BY <1>2, EnvironmentFacts DEF Environment!Table
<1> HIDE DEF u
<1>4. t = Based(u, Len(u.log))
    BY DEF Environment!Restored, Based
<1>5. t \in Environment!Table /\ Alike(t, u)
    BY <1>2, <1>3, <1>4, BasedIs
<1>6. Environment!Changes(c, t)
    BY <1>1 DEF u
<1> HIDE DEF t
<1>7. Evolved(t)
    BY <1>2, <1>5 DEF Evolved, Alike
<1>8. Len(u.log) > 0 /\ Len(db[Home[c]].log) = 0
    BY <1>1, <1>3 DEF u
<1>9. Len(t.log) <= MaxTable /\ Len(db[Home[c]].log) < Len(t.log)
    BY <1>2, <1>5, <1>8 DEF Alike
<1>10. DatabasesSound' /\ CachesSound'
    BY <1>5, <1>6, <1>7, <1>9, ChangeSound
<1>11. RequestsSound'
    BY <1>1 DEF EnvironmentSound, RequestsSound
<1> QED
    BY <1>10, <1>11 DEF EnvironmentSound

LEMMA ReplayStep ==
    ASSUME EnvironmentSound, NEW c \in Connection, Environment!Replay(c) PROVE EnvironmentSound'
<1>1. PICK d \in Database :
        /\ Environment!Continues(db[Home[c]], db[d])
        /\ \E n \in Len(db[Home[c]].log) + 1 .. Len(db[d].log) :
              Environment!Changes(c, Environment!Replayed(db[Home[c]], db[d])[n])
        /\ UNCHANGED <<request, late>>
    BY DEF Environment!Replay
<1> DEFINE t == db[Home[c]]
           u == db[d]
<1>2. PICK n \in Len(t.log) + 1 .. Len(u.log) : Environment!Changes(c, Environment!Replayed(t, u)[n])
    BY <1>1
<1>3. /\ t \in Environment!Table /\ Evolved(t) /\ Len(t.log) \in Nat
      /\ u \in Environment!Table /\ Evolved(u) /\ Len(u.log) <= MaxTable /\ Environment!Continues(t, u)
    BY <1>1, DatabaseFacts DEF EnvironmentSound, DatabasesSound
<1>4. Len(u.log) \in Nat
    BY <1>3 DEF Environment!Table
<1> DEFINE v == Environment!Replayed(t, u)[n]
<1>5. v \in Environment!Table /\ Evolved(v) /\ Len(v.log) = n
    <2> HIDE DEF t, u
    <2> QED
        BY <1>3, Replaying
<1>6. Environment!Changes(c, v)
    BY <1>2
<1> HIDE DEF v
<1>7. Len(v.log) <= MaxTable /\ Len(db[Home[c]].log) < Len(v.log)
    BY <1>3, <1>4, <1>5, EnvironmentFacts
<1>8. DatabasesSound' /\ CachesSound'
    BY <1>5, <1>6, <1>7, ChangeSound
<1>9. RequestsSound'
    BY <1>1 DEF EnvironmentSound, RequestsSound
<1> QED
    BY <1>8, <1>9 DEF EnvironmentSound

\* What a connection answers from is current.
LEMMA KeptCurrent ==
    ASSUME EnvironmentSound, NEW c \in Connection
    PROVE  Environment!Kept(c) \in Seq(Current(db[Home[c]]))
<1>1. << >> \in Seq(Current(db[Home[c]]))
    OBVIOUS
<1> QED
    BY <1>1 DEF EnvironmentSound, CachesSound, Environment!Kept

\* A read answers as it would without the cache.
LEMMA ReadIsDirect ==
    ASSUME EnvironmentSound, NEW c \in Connection, NEW i \in Id, NEW o \in Owner
    PROVE  Environment!Got(c, i, o) = Environment!Direct(db[Home[c]], i, o)
<1> DEFINE kept == Environment!Kept(c)
           t == db[Home[c]]
           hits == Environment!Hits(c, i, o)
<1>1. kept \in Seq(Current(t))
    BY KeptCurrent
<1>2. CASE hits = {}
    BY <1>2 DEF Environment!Got
<1>3. CASE hits # {}
    <2> DEFINE k == CHOOSE k \in hits : TRUE
               x == kept[k]
    <2>1. k \in hits
        BY <1>3
    <2>2. k \in 1 .. Len(kept) /\ x.id = i
        BY <2>1 DEF Environment!Hits
    <2> HIDE DEF k, kept, t
    <2>3. x \in Current(t)
        BY <1>1, <2>2
    <2>4. x.record = t.record[i] /\ t.record[i] # Nothing
        BY <2>2, <2>3 DEF Current
    <2>5. Environment!Got(c, i, o) = IF Environment!Readable(t, x.record, o) THEN x.record ELSE Nothing
        BY <1>3 DEF Environment!Got, k, kept, t
    <2> HIDE DEF x
    <2> QED
        BY <2>4, <2>5 DEF Environment!Direct, t
<1> QED
    BY <1>2, <1>3

LEMMA GetStep ==
    ASSUME EnvironmentSound, NEW c \in Reader, NEW i \in Id, NEW o \in Owner, Environment!Get(c, i, o)
    PROVE  EnvironmentSound'
<1> DEFINE t == db[Home[c]]
           kept == Environment!Kept(c)
           hits == Environment!Hits(c, i, o)
           got == Environment!Got(c, i, o)
           new == [id |-> i, owner |-> o, record |-> got]
<1>1. c \in Connection /\ kept \in Seq(Current(t)) /\ t \in Environment!Table /\ Len(t.log) \in Nat
    BY EnvironmentFacts, DatabaseFacts, KeptCurrent
<1>2. PICK s \in Seq(Current(t)) : cache' = [cache EXCEPT ![c] = s]
    <2>1. ASSUME NEW k \in hits, cache' = [cache EXCEPT ![c] = Append(Environment!Others(kept, k), kept[k])]
          PROVE  \E s \in Seq(Current(t)) : cache' = [cache EXCEPT ![c] = s]
        <3>1. k \in 1 .. Len(kept) /\ Len(kept) \in Nat
            BY <1>1 DEF Environment!Hits
        <3> DEFINE C == Current(t)
                   n == Len(kept)
        <3>2. SubSeq(kept, 1, k - 1) \in Seq(C)
            <4> HIDE DEF kept, C
            <4>1. \A j \in 1 .. k - 1 : kept[j] \in C
                BY <1>1, <3>1 DEF C
            <4>2. 1 \in Int /\ k - 1 \in Int
                BY <3>1
            <4> QED
                BY <4>1, <4>2, SubSeqProperties
        <3>3. SubSeq(kept, k + 1, n) \in Seq(C)
            <4> HIDE DEF kept, C
            <4>1. \A j \in k + 1 .. n : kept[j] \in C
                BY <1>1, <3>1 DEF C
            <4>2. k + 1 \in Int /\ n \in Int
                BY <3>1
            <4> QED
                BY <4>1, <4>2, SubSeqProperties
        <3>4. Environment!Others(kept, k) \in Seq(C)
            BY <3>2, <3>3, ConcatProperties DEF Environment!Others
        <3>5. kept[k] \in C
            BY <1>1, <3>1
        <3>6. Append(Environment!Others(kept, k), kept[k]) \in Seq(C)
            BY <3>4, <3>5, AppendProperties
        <3> QED
            BY <2>1, <3>6
    <2>2. CASE got = Nothing /\ cache' = [cache EXCEPT ![c] = kept]
        BY <1>1, <2>2
    <2>3. CASE got # Nothing /\ cache' = [cache EXCEPT ![c] = Environment!Evicted(Append(kept, new))]
        <3>1. got = t.record[i]
            BY <1>1, <2>3, ReadIsDirect DEF Environment!Direct
        <3>2. got \in Environment!Record
            BY <1>1, <2>3, <3>1 DEF Environment!Table
        <3>3. new \in Current(t)
            <4> HIDE DEF got
            <4>1. new \in Environment!Cached /\ new.record = got /\ new.id = i
                BY <3>2 DEF Environment!Cached
            <4> QED
                BY <2>3, <3>1, <4>1 DEF Current
        <3> HIDE DEF new, kept
        <3>4. Append(kept, new) \in Seq(Current(t)) /\ Append(kept, new) # << >>
            BY <1>1, <3>3, AppendProperties
        <3>5. Environment!Evicted(Append(kept, new)) \in Seq(Current(t))
            BY <3>4, HeadTailProperties DEF Environment!Evicted
        <3> QED
            BY <2>3, <3>5
    <2> QED
        BY <2>1, <2>2, <2>3, Zenon DEF Environment!Get
<1>3. observed' = [observed EXCEPT ![c] = Len(t.log)] /\ UNCHANGED <<db, request, late>>
    BY DEF Environment!Get
<1>4. s \in Seq(Environment!Cached)
    <2>1. Current(t) \subseteq Environment!Cached
        BY DEF Current
    <2> QED
        BY <2>1, SeqMonotonic
<1>5. CachesSound'
    <2>1. cache \in [Connection -> Seq(Environment!Cached)] /\ observed \in [Connection -> Nat] /\ db' = db
        BY <1>3 DEF EnvironmentSound, CachesSound
    <2>2. cache' \in [Connection -> Seq(Environment!Cached)] /\ observed' \in [Connection -> Nat]
        BY <1>1, <1>2, <1>3, <1>4, <2>1
    <2>3. ASSUME NEW k \in Connection
          PROVE  /\ observed'[k] <= Len(db'[Home[k]].log)
                 /\ observed'[k] = Len(db'[Home[k]].log) => cache'[k] \in Seq(Current(db'[Home[k]]))
        <3>1. CASE k = c
            <4>1. observed'[k] = Len(t.log) /\ cache'[k] = s /\ db'[Home[k]] = t
                BY <1>1, <1>2, <1>3, <2>1, <3>1
            <4> HIDE DEF t
            <4> QED
                BY <1>1, <1>2, <4>1
        <3>2. CASE k # c
            <4>1. observed'[k] = observed[k] /\ cache'[k] = cache[k] /\ db' = db
                BY <1>2, <1>3, <2>1, <3>2
            <4> QED
                BY <4>1 DEF EnvironmentSound, CachesSound
        <3> QED
            BY <3>1, <3>2
    <2> QED
        BY <2>2, <2>3 DEF CachesSound
<1>6. DatabasesSound' /\ RequestsSound'
    BY <1>3 DEF EnvironmentSound, DatabasesSound, RequestsSound
<1> QED
    BY <1>5, <1>6 DEF EnvironmentSound

LEMMA EnvironmentNext == ASSUME EnvironmentSound, Environment!Next PROVE EnvironmentSound'
<1>1. ASSUME Environment!Expire PROVE EnvironmentSound'
    BY <1>1 DEF Environment!Expire, EnvironmentSound, DatabasesSound, RequestsSound, CachesSound
<1> QED
    BY <1>1, AskStep, AppendStep, WriteStep, RestoreStep, ReplayStep, GetStep DEF Environment!Next

-----------------------------------------------------------------------------
(* The environment memory: what follows.                                   *)

\* Distinct keys are as many as the events.
LEMMA AsManyKeys ==
    ASSUME NEW s, Len(s) \in Nat, \A i, j \in 1 .. Len(s) : s[i].key = s[j].key => i = j
    PROVE  Environment!Cardinality({s[i].key : i \in 1 .. Len(s)}) = Len(s)
<1> DEFINE n == Len(s)
           T == {s[i].key : i \in 1 .. n}
           f == [i \in 1 .. n |-> s[i].key]
<1>1. f \in Bijection(1 .. n, T)
    <2>1. f \in [1 .. n -> T]
        OBVIOUS
    <2>2. \A i, j \in 1 .. n : f[i] = f[j] => i = j
        OBVIOUS
    <2>3. \A y \in T : \E i \in 1 .. n : f[i] = y
        OBVIOUS
    <2> HIDE DEF f, T, n
    <2> QED
        BY <2>1, <2>2, <2>3 DEF Bijection, Injection, Surjection, IsInjective
<1>2. IsFiniteSet(1 .. n) /\ Cardinality(1 .. n) = n
    <2>1. 1 \in Int /\ n \in Int /\ n \in Nat
        OBVIOUS
    <2> HIDE DEF n
    <2>2. IsFiniteSet(1 .. n) /\ Cardinality(1 .. n) = IF 1 > n THEN 0 ELSE n - 1 + 1
        BY <2>1, FS_Interval
    <2> QED
        BY <2>1, <2>2
<1>3. Cardinality(T) = n
    <2> HIDE DEF f, T, n
    <2> QED
        BY <1>1, <1>2, FS_Bijection DEF ExistsBijection
<1>4. Environment!Cardinality(T) = Cardinality(T)
    BY DEF Environment!Cardinality, Cardinality
<1> QED
    BY <1>3, <1>4

LEMMA SnapshotsAccepted == ASSUME EnvironmentSound PROVE Environment!SnapshotAccepted
<1> SUFFICES ASSUME NEW d \in Database PROVE Environment!Accepts(Environment!Restored(db[d]))
    BY DEF Environment!SnapshotAccepted
<1> DEFINE u == db[d]
           t == Environment!Restored(u)
<1>1. u \in Environment!Table /\ Len(u.log) <= MaxTable /\ Evolved(u)
    BY DEF EnvironmentSound, DatabasesSound
<1>2. Len(u.log) \in Nat /\ Len(u.log) \in 0 .. MaxTable
    BY <1>1, EnvironmentFacts DEF Environment!Table
<1> HIDE DEF u
<1>3. t = Based(u, Len(u.log))
    BY DEF Environment!Restored, Based
<1>4. t \in Environment!Table /\ Alike(t, u)
    BY <1>1, <1>2, <1>3, BasedIs
<1> HIDE DEF t
<1>5. Evolved(t)
    BY <1>1, <1>4 DEF Evolved, Alike
<1>6. WellStored(t)
    BY <1>4, <1>5, EvolvedStored
<1>7. \A i \in Environment!Active(t) : t.type[i] = t.record[i].type /\ i \notin t.revoked
                                       /\ t.record[i].revision <= Len(t.log)
    BY <1>6 DEF Environment!Active, WellStored
<1>8. \A r \in Environment!Relations(t) : \A e \in t.record[r].ends :
          Environment!IsEntity(t, e) /\ Environment!Fits(t.record[r].scope, t.record[e].scope)
    BY <1>6 DEF Environment!Relations, WellStored
<1>9. {i \in Id : t.type[i] # Nothing} \ t.revoked = Environment!Active(t)
    <2>1. ASSUME NEW i \in Id, t.record[i] # Nothing PROVE t.type[i] # Nothing /\ i \notin t.revoked
        <3>1. t.record[i] \in Environment!Record
            BY <1>4, <2>1 DEF Environment!Table
        <3>2. t.record[i].type \in {"entity", "relation"}
            BY <3>1 DEF Environment!Record
        <3> QED
            BY <1>6, <2>1, <3>2, EnvironmentFacts DEF WellStored
    <2> QED
        BY <1>6, <2>1 DEF Environment!Active, WellStored
<1>10. Environment!Cardinality({t.log[r].key : r \in 1 .. Len(t.log)}) = Len(t.log)
    <2>1. Len(t.log) \in Nat /\ \A i, j \in 1 .. Len(t.log) : t.log[i].key = t.log[j].key => i = j
        BY <1>4, <1>6 DEF WellStored, Environment!Table
    <2> QED
        BY <2>1, AsManyKeys
<1>11. Environment!Accepts(t)
    BY <1>7, <1>8, <1>9, <1>10 DEF Environment!Accepts
<1> QED
    BY <1>11 DEF t, u

LEMMA ReplicasAlike == ASSUME EnvironmentSound PROVE Environment!ReplicasAgree
<1> SUFFICES ASSUME NEW d \in Database, NEW e \in Database, db[d].log = db[e].log
             PROVE  db[d].type = db[e].type /\ db[d].revoked = db[e].revoked /\ db[d].record = db[e].record
    BY DEF Environment!ReplicasAgree
<1>1. Evolved(db[d]) /\ Evolved(db[e]) /\ Len(db[d].log) \in Nat
    BY DEF EnvironmentSound, DatabasesSound, Environment!Table
<1> DEFINE s == db[d].log
           n == Len(s)
<1>2. PICK h : Evolves(s, h) /\ Alike(h[n], db[d])
    BY <1>1 DEF Evolved
<1>3. PICK g : Evolves(s, g) /\ Alike(g[n], db[e])
    BY <1>1 DEF Evolved
<1>4. h[n] = g[n]
    <2> HIDE DEF s
    <2>1. n \in Nat /\ n \in 0 .. n
        BY <1>1 DEF s
    <2> QED
        BY <1>2, <1>3, <2>1, Agree
<1> QED
    BY <1>2, <1>3, <1>4 DEF Alike

\* A reply to a request that is made again is of its event.
LEMMA ReplyFacts == ASSUME EnvironmentSound, Environment!Next PROVE Environment!ReplyStep
<1> SUFFICES ASSUME NEW c \in Caller, request[c].state = "asked"
             PROVE  LET log == db'[Home[c]].log  q == request'[c] IN
                    /\ q.state = "committed" => log[q.revision] = request[c].event
                    /\ q.state \in {"conflict", "refused"} =>
                          \A r \in 1 .. Len(log) : log[r] # request[c].event
    BY Zenon DEF Environment!ReplyStep
<1> DEFINE t == db[Home[c]]
           q == request[c]
<1>1. c \in Connection /\ RequestsSound /\ request \in [Caller -> Environment!Request]
    BY EnvironmentFacts DEF EnvironmentSound, RequestsSound
<1>2. /\ t \in Environment!Table /\ Len(t.log) \in 0 .. MaxTable /\ Evolved(t) /\ WellStored(t)
      /\ Home[c] \in Database /\ db \in [Database -> Environment!Table]
    BY <1>1, DatabaseFacts, EvolvedStored DEF EnvironmentSound, DatabasesSound
<1>3. CASE request'[c] = request[c]
    BY <1>3
<1>4. CASE request'[c] # request[c]
    <2>1. Environment!AppendEvent(c)
        <3>1. ASSUME NEW k \in Caller, Environment!Ask(k) PROVE FALSE
            <4>1. k # c /\ \E x : request' = [request EXCEPT ![k] = x]
                BY <3>1 DEF Environment!Ask
            <4> QED
                BY <1>1, <1>4, <4>1
        <3>2. ASSUME NEW k \in Caller, k # c, Environment!AppendEvent(k) PROVE FALSE
            <4>1. request' = request \/ \E x : request' = [request EXCEPT ![k] = x]
                BY <3>2 DEF Environment!AppendEvent, Environment!Answered
            <4> QED
                BY <1>1, <1>4, <3>2, <4>1
        <3>3. UNCHANGED request => FALSE
            BY <1>4
        <3> QED
            BY <3>1, <3>2, <3>3 DEF Environment!Next, Environment!Write, Environment!RestoreSnapshot,
                                    Environment!Replay, Environment!Get, Environment!Expire
    <2>2. ASSUME NEW state, NEW revision, Environment!Answered(c, state, revision)
          PROVE  request'[c].state = state /\ request'[c].revision = revision
        BY <1>1, <1>4, <2>2 DEF Environment!Answered
    <2>3. CASE /\ Environment!Outcome(t, q) = "committed" /\ Len(t.log) < MaxTable
               /\ Environment!Changes(c, Environment!Apply(t, q.event))
               /\ Environment!Answered(c, "committed", Len(t.log) + 1)
        <3>1. db'[Home[c]] = Environment!Apply(t, q.event)
            BY <1>2, <2>3 DEF Environment!Changes
        <3>2. q.event \in Environment!Event
            BY <1>1 DEF RequestsSound
        <3>3. Environment!Apply(t, q.event).log = Append(t.log, q.event)
            <4>1. Applied(t, q.event, Environment!Apply(t, q.event))
                BY <1>2, <2>3, <3>2, ApplyIs
            <4> QED
                BY <4>1 DEF Applied
        <3>4. Append(t.log, q.event)[Len(t.log) + 1] = q.event
            BY <1>2, <3>2 DEF Environment!Table
        <3>5. request'[c].state = "committed" /\ request'[c].revision = Len(t.log) + 1
            BY <2>2, <2>3
        <3> QED
            BY <3>1, <3>3, <3>4, <3>5
    <2>4. ASSUME Environment!Outcome(t, q) = "repeated", UNCHANGED <<db, cache, observed>>,
                 NEW r \in Environment!Receipts(t, q.event.key), Environment!Answered(c, "committed", r)
          PROVE  db'[Home[c]].log[request'[c].revision] = q.event /\ request'[c].state = "committed"
        <3>1. PICK k \in Environment!Receipts(t, q.event.key) : t.log[k].op = q.event.op
            BY <2>4 DEF Environment!Outcome
        <3>2. k = r /\ r \in 1 .. Len(t.log) /\ t.log[r].key = q.event.key
            BY <1>2, <2>4 DEF Environment!Receipts, WellStored
        <3>3. t.log[r] \in Environment!Event /\ q.event \in Environment!Event
            BY <1>1, <1>2, <3>2 DEF Environment!Table, RequestsSound
        <3>4. t.log[r] = q.event
            BY <3>1, <3>2, <3>3 DEF Environment!Event
        <3> QED
            BY <2>2, <2>4, <3>4
    <2>5. ASSUME Environment!Outcome(t, q) \in {"conflict", "refused"}, UNCHANGED <<db, cache, observed>>,
                 Environment!Answered(c, Environment!Outcome(t, q), 0)
          PROVE  /\ request'[c].state # "committed"
                 /\ \A r \in 1 .. Len(db'[Home[c]].log) : db'[Home[c]].log[r] # q.event
        <3>1. ~ \E r \in Environment!Receipts(t, q.event.key) : t.log[r].op = q.event.op
            BY <2>5 DEF Environment!Outcome
        <3>2. \A r \in 1 .. Len(t.log) : t.log[r] # q.event
            BY <3>1 DEF Environment!Receipts
        <3> QED
            BY <2>2, <2>5, <3>2
    <2> HIDE DEF t, q
    <2>6. \/ /\ Environment!Outcome(t, q) = "committed" /\ Len(t.log) < MaxTable
             /\ Environment!Changes(c, Environment!Apply(t, q.event))
             /\ Environment!Answered(c, "committed", Len(t.log) + 1)
          \/ /\ Environment!Outcome(t, q) = "repeated" /\ UNCHANGED <<db, cache, observed>>
             /\ \E r \in Environment!Receipts(t, q.event.key) : Environment!Answered(c, "committed", r)
          \/ /\ Environment!Outcome(t, q) \in {"conflict", "refused"} /\ UNCHANGED <<db, cache, observed>>
             /\ Environment!Answered(c, Environment!Outcome(t, q), 0)
        BY <2>1, Zenon DEF Environment!AppendEvent, t, q
    <2> QED
        BY <2>3, <2>4, <2>5, <2>6 DEF q
<1> QED
    BY <1>3, <1>4

-----------------------------------------------------------------------------
(* The environment memory: the theorems.                                   *)

EnvironmentInv == by = "environment" => EnvironmentSound

\* It holds of databases with no events and is kept by every call.
LEMMA EnvironmentKept ==
    /\ MemoriesInit => EnvironmentInv
    /\ EnvironmentInv /\ [MemoriesNext]_allvars => EnvironmentInv'
<1>1. MemoriesInit => EnvironmentInv
    BY EnvironmentInit DEF MemoriesInit, EnvironmentInv
<1>2. ASSUME EnvironmentInv, [MemoriesNext]_allvars, by' = "environment" PROVE EnvironmentSound'
    <2>1. CASE UNCHANGED allvars
        BY <1>2, <2>1 DEF allvars, database, EnvironmentInv, EnvironmentSound, DatabasesSound,
                          RequestsSound, CachesSound
    <2>2. CASE MemoriesNext
        <3>1. by = "environment" /\ Environment!Next
            BY <1>2, <2>2 DEF MemoriesNext
        <3> QED
            BY <1>2, <3>1, EnvironmentNext DEF EnvironmentInv
    <2> QED
        BY <1>2, <2>1, <2>2
<1> QED
    BY <1>1, <1>2 DEF EnvironmentInv

\* exportSnapshot, loadSnapshot, eventsSince and applyBatch, for any number of databases and
\* connections and any operations: a database is what its log makes of an empty one, so that
\* databases with one log answer alike and a snapshot passes the checks of loadSnapshot; and
\* what the cache of a connection still answers with is what the database has.
THEOREM ReplicasAreTrue == MemoriesSpec => []ReplicasTrue
<1>1. EnvironmentInv => ReplicasTrue
    <2> SUFFICES ASSUME EnvironmentSound
                 PROVE  /\ Environment!SnapshotAccepted /\ Environment!ReplicasAgree
                        /\ Environment!CachedReadsTrue
        BY DEF EnvironmentInv, ReplicasTrue
    <2>1. Environment!CachedReadsTrue
        BY ReadIsDirect DEF Environment!CachedReadsTrue
    <2> QED
        BY <2>1, SnapshotsAccepted, ReplicasAlike
<1> QED
    BY <1>1, EnvironmentKept, PTL DEF MemoriesSpec

\* append: a receipt is looked at before the revision is, so that a caller that asks again
\* is told the revision of its event, and of a conflict only if the event is not in the log.
THEOREM RepliesAreTrue == MemoriesSpec => RepliesTrue
<1>1. EnvironmentInv /\ EnvironmentInv' /\ [MemoriesNext]_allvars
        => [by = "environment" => Environment!ReplyStep]_allvars
    <2> SUFFICES ASSUME EnvironmentInv, MemoriesNext, by = "environment" PROVE Environment!ReplyStep
        OBVIOUS
    <2>1. EnvironmentSound /\ Environment!Next
        BY DEF EnvironmentInv, MemoriesNext
    <2> QED
        BY <2>1, ReplyFacts
<1> QED
    BY <1>1, EnvironmentKept, PTL DEF MemoriesSpec, RepliesTrue
=============================================================================

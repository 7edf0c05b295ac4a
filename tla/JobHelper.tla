------------------------------ MODULE JobHelper ------------------------------
(***************************************************************************)
(* The native helper of Windows gates (src/shell.ts): every plugin process *)
(* compiles it once into a directory of its own, its gates lease it, and   *)
(* the directory is deleted when it has been idle, when the process exits, *)
(* or by the first gate of a later process that finds its owner dead.      *)
(*                                                                         *)
(* A process is single-threaded: a step runs up to its next await.  A      *)
(* directory is "building", "whole" (marker, helper and source are what    *)
(* the marker records), "changed" by somebody else, "partial" when a       *)
(* deletion met a busy file, or gone.  A process is its pid; its start     *)
(* identity is the number of processes that had the pid before.            *)
(***************************************************************************)
EXTENDS Naturals, FiniteSets

CONSTANTS Process, Dir, NoDir,
          MaxGates,              \* bound: gates that are open or wait, and half of their children
          MaxLives, MaxTampers   \* bounds

HelperAssumption == NoDir \notin Dir \cup Process

VARIABLES
    alive, life,  \* is the process running, and its start identity
    local,        \* what the process keeps
    given,        \* the directory its gates were given last
    dir, tampers

vars == <<alive, life, local, given, dir, tampers>>

\* `lost` are gates whose launch threw: their lease is never given back.
Clean == [current |-> NoDir, building |-> NoDir, waiting |-> 0, open |-> 0, kids |-> 0, lost |-> 0,
          idle |-> FALSE, janitor |-> FALSE, retry |-> {}]
NoOwner == [state |-> "none", pid |-> NoDir, life |-> 0]

Init ==
    /\ alive = [p \in Process |-> TRUE] /\ life = [p \in Process |-> 1]
    /\ local = [p \in Process |-> Clean] /\ given = [p \in Process |-> NoDir]
    /\ dir = [d \in Dir |-> NoOwner] /\ tampers = 0

Users(l) == l.waiting + l.open + l.lost
Idles(l) == l.current # NoDir /\ Users(l) = 0 /\ l.kids = 0
\* scheduleWindowsHelperIdleCleanup
Scheduled(l) == [l EXCEPT !.idle = Idles(l)]

\* parseOwnedHelper: what is not exactly as its marker says is nobody's.
Exact(d) == dir[d].state = "whole"
Become(ds, state) == [d \in Dir |-> IF d \in ds THEN
    [dir[d] EXCEPT !.state = state] ELSE dir[d]]
Freed(ds) == [d \in Dir |-> IF d \in ds THEN NoOwner ELSE dir[d]]

\* Mutant: old enough is enough.
AbandonedIfOld(d) == TRUE
\* Not this process's, old enough, and of a process that is dead or has lost its pid to another.
Abandoned(d) == ~alive[dir[d].pid] \/ life[dir[d].pid] # dir[d].life
Removable(p) == {d \in Dir : Exact(d) /\ d # local[p].current /\ Abandoned(d)}

-----------------------------------------------------------------------------

\* Two children of a gate are tracked: the launcher and the watcher.
Opens(l) == [l EXCEPT !.open = @ + 1, !.kids = @ + 2]
Loses(l) == [l EXCEPT !.lost = @ + 1]

\* acquireWindowsHelper and ensureWindowsJobHelper, up to the first await or to the launch.
Acquire(p) ==
    /\ alive[p] /\ Users(local[p]) < MaxGates /\ local[p].kids < 2 * MaxGates - 1
    /\ \E swept \in (IF local[p].janitor THEN {{}} ELSE SUBSET Removable(p)), busy \in SUBSET Removable(p) :
       LET l == [local[p] EXCEPT !.idle = FALSE, !.janitor = TRUE, !.retry = @ \cup (swept \cap busy)]
           left == [d \in Dir |-> IF d \in swept \cap busy THEN [dir[d] EXCEPT !.state = "partial"]
                                  ELSE IF d \in swept THEN NoOwner ELSE dir[d]]
       IN  /\ busy \subseteq swept
           /\ \/ /\ l.current # NoDir /\ Exact(l.current)
                 /\ \E after \in {Opens(l), Loses(l)} : local' = [local EXCEPT ![p] = after]
                 /\ given' = [given EXCEPT ![p] = l.current] /\ dir' = left
              \/ /\ l.current # NoDir /\ ~Exact(l.current)
                 /\ local' = [local EXCEPT ![p] = Scheduled(l)] /\ dir' = left /\ UNCHANGED given
              \/ /\ l.current = NoDir /\ l.building # NoDir
                 /\ local' = [local EXCEPT ![p] = [l EXCEPT !.waiting = @ + 1]]
                 /\ dir' = left /\ UNCHANGED given
              \/ /\ l.current = NoDir /\ l.building = NoDir
                 /\ \E d \in Dir : /\ dir[d].state = "none"
                                   /\ local' = [local EXCEPT ![p] = [l EXCEPT !.waiting = @ + 1, !.building = d]]
                                   /\ dir' = [left EXCEPT ![d] = [state |-> "building", pid |-> p, life |-> life[p]]]
                 /\ UNCHANGED given
    /\ UNCHANGED <<alive, life, tampers>>

\* The compiler is done: the gates that wait for it launch with it.
Built(p) ==
    /\ alive[p] /\ local[p].building # NoDir
    /\ LET l == local[p] IN
       /\ local' = [local EXCEPT ![p] = [l EXCEPT !.current = l.building, !.building = NoDir,
              !.waiting = 0, !.open = @ + l.waiting, !.kids = @ + 2 * l.waiting]]
       /\ given' = [given EXCEPT ![p] = l.building] /\ dir' = Become({l.building}, "whole")
    /\ UNCHANGED <<alive, life, tampers>>
\* cleanupFailedWindowsHelperBuild leaves what it did not write; every waiting gate fails.
BuildFails(p) ==
    /\ alive[p] /\ local[p].building # NoDir
    /\ LET l == local[p] IN
       /\ local' = [local EXCEPT ![p] = Scheduled([l EXCEPT !.building = NoDir, !.waiting = 0])]
       /\ dir' \in {Freed({l.building}), Become({l.building}, "partial")}
    /\ UNCHANGED <<alive, life, given, tampers>>

GateEnds(p) ==
    /\ alive[p] /\ local[p].open > 0
    /\ local' = [local EXCEPT ![p] = Scheduled([local[p] EXCEPT !.open = @ - 1])]
    /\ UNCHANGED <<alive, life, given, dir, tampers>>
ChildCloses(p) ==
    /\ alive[p] /\ local[p].kids > 0
    /\ local' = [local EXCEPT ![p] = Scheduled([local[p] EXCEPT !.kids = @ - 1])]
    /\ UNCHANGED <<alive, life, given, dir, tampers>>

\* deleteOwnedLifecycle: all of it, some of it, or none because it is not exactly ours.
Forgets(l) == [l EXCEPT !.current = NoDir]
DeleteCurrent(p, l) ==
    \/ Exact(l.current) /\ dir' = Freed({l.current}) /\ local' = [local EXCEPT ![p] = Forgets(l)]
    \/ /\ Exact(l.current) /\ dir' = Become({l.current}, "partial")
       /\ local' = [local EXCEPT ![p] = [Forgets(l) EXCEPT !.retry = @ \cup {l.current}]]
    \/ ~Exact(l.current) /\ local' = [local EXCEPT ![p] = l] /\ UNCHANGED dir
MayDelete(l) == Idles(l)
IdleFires(p) ==
    /\ alive[p] /\ local[p].idle
    /\ LET l == [local[p] EXCEPT !.idle = FALSE] IN
       IF MayDelete(l) THEN DeleteCurrent(p, l) ELSE local' = [local EXCEPT ![p] = l] /\ UNCHANGED dir
    /\ UNCHANGED <<alive, life, given, tampers>>
\* Within three seconds a busy file is tried again.
Retry(p) ==
    /\ alive[p]
    /\ \E d \in local[p].retry :
       /\ local' = [local EXCEPT ![p].retry = @ \ {d}]
       /\ dir' \in {dir, Freed({d})}
    /\ UNCHANGED <<alive, life, given, tampers>>

Exits(p) ==
    /\ alive[p] /\ alive' = [alive EXCEPT ![p] = FALSE]
    /\ local' = [local EXCEPT ![p] = Clean]
    /\ LET l == local[p] IN
       \/ Idles(l) /\ Exact(l.current) /\ dir' \in {Freed({l.current}), Become({l.current}, "partial")}
       \/ ~(Idles(l) /\ Exact(l.current)) /\ UNCHANGED dir
    /\ UNCHANGED <<life, given, tampers>>
Crashes(p) ==
    /\ alive[p] /\ alive' = [alive EXCEPT ![p] = FALSE] /\ local' = [local EXCEPT ![p] = Clean]
    /\ UNCHANGED <<life, given, dir, tampers>>
Starts(p) ==
    /\ ~alive[p] /\ life[p] < MaxLives
    /\ alive' = [alive EXCEPT ![p] = TRUE] /\ life' = [life EXCEPT ![p] = @ + 1]
    /\ given' = [given EXCEPT ![p] = NoDir]
    /\ UNCHANGED <<local, dir, tampers>>
Tamper ==
    /\ tampers < MaxTampers /\ tampers' = tampers + 1
    /\ \E d \in Dir : Exact(d) /\ dir' = Become({d}, "changed")
    /\ UNCHANGED <<alive, life, local, given>>

Next ==
    \/ \E p \in Process : \/ Acquire(p) \/ Built(p) \/ BuildFails(p) \/ GateEnds(p) \/ ChildCloses(p)
                          \/ IdleFires(p) \/ Retry(p) \/ Exits(p) \/ Crashes(p) \/ Starts(p)
    \/ Tamper

Spec == Init /\ [][Next]_vars

-----------------------------------------------------------------------------
(* Properties.                                                             *)

\* docs/operations.md:56-63, "compiler, launcher, watcher, and terminator children delay bounded
\* idle deletion" and the janitor touches only what a dead owner left: as long as a gate of a
\* running process is open, or a child of one has not closed, neither its own timers and
\* retries nor another process delete anything of the helper it was given.
HelperStands == \A p \in Process :
    (alive[p] /\ local[p].open + local[p].kids > 0) => dir[given[p]].state \in {"whole", "changed"}

\* A helper that nobody uses is not forgotten: a running process that has one either has a use
\* for it, or has a timer set that deletes it (or the helper was tampered with).
IdleIsScheduled == \A d \in Dir, p \in Process :
    (Exact(d) /\ alive[p] /\ dir[d].pid = p /\ dir[d].life = life[p]) =>
        /\ local[p].current = d
        /\ Idles(local[p]) => local[p].idle
=============================================================================

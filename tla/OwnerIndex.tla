------------------------------ MODULE OwnerIndex ------------------------------
(***************************************************************************)
(* The index of the runs of a session (src/owner-index.ts, src/store.ts):  *)
(* every save of a run refreshes its owner's index after the commit, and   *)
(* what looks for runs of a session before a model call caches what it     *)
(* found until the index changes.  A refresh is tried from the event loop  *)
(* when another process has the index, and given up some time.             *)
(*                                                                         *)
(* A save has a revision for its time.  Every version of an index is a     *)
(* file of its own, so its stamp is a number; the stamp of the runs        *)
(* directory, which tells of programs that know no index, is left out, and *)
(* there are not so many runs that an index would have no room for one.    *)
(***************************************************************************)
EXTENDS Naturals, FiniteSets, Sequences

CONSTANTS Process, Server,               \* processes; those with model calls of the sessions
          Session, Run, None,
          Attempts,                      \* OWNER_INDEX_UPDATE_ATTEMPTS
          MaxSaves, MaxFails             \* bounds: saves; scans, refreshes that fail and deaths

VARIABLES
    run,      \* owner, status and revision of the saved runs
    index,    \* of each session: its stamp, 0 without a file, and the entries
    local,    \* of each process: refreshes to do and waiting, memo, cached candidates, scan
    untold,   \* ghost: what no refresh has told the index of a session
    saves, fails

vars == <<run, index, local, untold, saves, fails>>

NoLocal == [todo |-> << >>, waiting |-> {}, memo |-> [o \in Session |-> None],
            found |-> [o \in Session |-> None], scan |-> None]
\* No run yet, or runs of one session that its index lists.
Init ==
    /\ \E o \in Session, saved \in {{}, Run} : \E rev \in [saved -> 1..Cardinality(saved)] :
       /\ \A r, q \in saved : r # q => rev[r] # rev[q]
       /\ run = [r \in Run |-> IF r \in saved THEN [owner |-> o, active |-> TRUE, rev |-> rev[r]]
                               ELSE [owner |-> None, active |-> FALSE, rev |-> 0]]
       /\ index = [s \in Session |-> IF s = o /\ saved # {}
                       THEN [stamp |-> 1, runs |-> {[run |-> r, rev |-> rev[r]] : r \in saved}]
                       ELSE [stamp |-> 0, runs |-> {}]]
       /\ saves = Cardinality(Run)
    /\ local = [p \in Process |-> NoLocal] /\ untold = {} /\ fails = 0

Listed(o) == {e.run : e \in index[o].runs}
Refresh(o, r, rev, add, status) ==
    [owner |-> o, run |-> r, rev |-> rev, add |-> add, status |-> status, tries |-> 1]
SameKey(w, v) == w.owner = v.owner /\ w.run = v.run /\ w.add = v.add
Idle(p) == local[p].scan = None /\ local[p].todo = << >>
\* The mirror lock of a run is held from the commit to the end of its refreshes.
Locked(r) == \E p \in Process : \E i \in DOMAIN local[p].todo : local[p].todo[i].run = r

-----------------------------------------------------------------------------
\* createRun and persistRun commit, for a new owner also; what the index is told comes after.
Commit(p, r, owner, active, status) ==
    /\ saves < MaxSaves /\ saves' = saves + 1
    /\ LET old == run[r].owner
           removal == IF old \in {None, owner} THEN << >> ELSE <<Refresh(old, r, saves', FALSE, None)>>
       IN
        /\ Idle(p) /\ ~Locked(r)
        /\ run' = [run EXCEPT ![r] = [owner |-> owner, active |-> active, rev |-> saves']]
        /\ local' = [local EXCEPT ![p].todo = <<Refresh(owner, r, saves', TRUE, status)>> \o removal]
        /\ UNCHANGED <<index, untold, fails>>
Create(p) == \E r \in Run, o \in Session : run[r].owner = None /\ Commit(p, r, o, TRUE, None)
\* Saves of an executing run name the status for which the index may be left alone.
Save(p) == \E r \in Run, active \in BOOLEAN :
    /\ run[r].owner # None
    /\ \E status \in {None, active} : Commit(p, r, run[r].owner, active, status)
TakeOver(p) == \E r \in Run, o \in Session :
    run[r].owner \notin {None, o} /\ Commit(p, r, o, TRUE, None)

-----------------------------------------------------------------------------
(* refreshOwnerRunIndex.                                                   *)

\* ownerIndexAlreadyCurrent
AlreadyCurrent(l, w) == w.add /\ w.status # None /\
    l.memo[w.owner] = [run |-> w.run, status |-> w.status, stamp |-> index[w.owner].stamp]

Newer(e, f) == e.rev > f.rev
Merged(w) ==
    LET others == {e \in index[w.owner].runs : e.run # w.run}
    IN  IF w.add THEN others \cup {[run |-> w.run, rev |-> w.rev]} ELSE others
\* Mutant: whatever was written is remembered.
MemoAlways(w, es) == w.add /\ w.status # None
\* Only a save of the newest entry is remembered.
Remembered(w, es) ==
    w.add /\ w.status # None /\ \E e \in es : e.run = w.run /\ \A f \in es : ~Newer(f, e)

\* Ghost: what is waiting or was given up, a refresh that comes too late, and a save that leaves
\* the index alone just before another refresh of it makes another entry the newest.
Pair(w) == <<w.owner, w.run>>
Due(l) == {l.todo[i] : i \in DOMAIN l.todo}
Later(p, l, w) == \E q \in Process :
    \E v \in IF q = p THEN l.waiting ELSE Due(local[q]) \cup local[q].waiting : v.owner = w.owner
Tells(w) == IF w.add THEN w.rev = run[w.run].rev /\ run[w.run].owner = w.owner
            ELSE run[w.run].owner # w.owner

\* One try, with l what the process has left to do: nothing to write, the index under its
\* mutex, or a failure that is waited out, or not; one under the mutex has dropped the memo.
Try(p, l, w) ==
    \/ /\ AlreadyCurrent(l, w) /\ local' = [local EXCEPT ![p] = l]
       /\ untold' = IF Later(p, l, w) THEN untold \cup {Pair(w)} ELSE untold
       /\ UNCHANGED <<index, fails>>
    \/ /\ ~AlreadyCurrent(l, w)
       /\ LET rest == [l EXCEPT !.waiting = {v \in @ : ~SameKey(v, w)}]
              empty == index[w.owner].stamp = 0 /\ ~w.add
              stamp == index[w.owner].stamp + 1
              memo == IF Remembered(w, Merged(w)) THEN [run |-> w.run, status |-> w.status, stamp |-> stamp]
                      ELSE None
          IN  \/ /\ index' = IF empty THEN index
                             ELSE [index EXCEPT ![w.owner] = [stamp |-> stamp, runs |-> Merged(w)]]
                 /\ local' = [local EXCEPT ![p] = [rest EXCEPT !.memo[w.owner] = memo]]
                 /\ untold' = (untold \ {Pair(w)}) \cup (IF Tells(w) THEN {} ELSE {Pair(w)})
                 /\ UNCHANGED fails
              \/ /\ fails < MaxFails /\ fails' = fails + 1
                 /\ untold' = untold \cup {Pair(w)} /\ UNCHANGED index
                 /\ \E left \in {rest, [rest EXCEPT !.memo[w.owner] = None]} :
                    \/ local' = [local EXCEPT ![p] = left]
                    \/ /\ w.tries < Attempts
                       /\ local' = [local EXCEPT ![p] =
                              [left EXCEPT !.waiting = @ \cup {[w EXCEPT !.tries = @ + 1]}]]
    /\ UNCHANGED <<run, saves>>

Refreshes(p) ==
    /\ local[p].todo # << >>
    /\ LET w == Head(local[p].todo) IN
       Try(p, [local[p] EXCEPT !.todo = Tail(@), !.found[w.owner] = None], w)
TriesAgain(p) ==
    /\ Idle(p)
    /\ \E w \in local[p].waiting : Try(p, [local[p] EXCEPT !.waiting = @ \ {w}], w)

-----------------------------------------------------------------------------
(* findLatestIncompleteRunForTurn: what was found is good while the index  *)
(* has the stamp that it had before the scan (and for five minutes, which  *)
(* is left out).                                                           *)

Turn(p) ==
    /\ p \in Server /\ Idle(p) /\ fails < MaxFails /\ fails' = fails + 1
    /\ \E o \in Session :
       /\ local[p].found[o] # None => local[p].found[o].stamp # index[o].stamp
       /\ local' = [local EXCEPT ![p].found[o] = None,
              ![p].scan = [owner |-> o, stamp |-> index[o].stamp, left |-> Run, runs |-> {}]]
    /\ UNCHANGED <<run, index, untold, saves>>
\* listOwnedRunEnvelopes reads one run after the other, in any order; with the last one what
\* was found is kept.
Scans(p) ==
    /\ local[p].scan # None
    /\ \E r \in local[p].scan.left :
       LET s == local[p].scan
           open == run[r].owner = s.owner /\ run[r].active
           runs == s.runs \cup (IF open THEN {[run |-> r, rev |-> run[r].rev]} ELSE {})
       IN  local' = IF s.left = {r}
                    THEN [local EXCEPT ![p] = [@ EXCEPT
                              !.scan = None, !.found[s.owner] = [stamp |-> s.stamp, runs |-> runs]]]
                    ELSE [local EXCEPT ![p].scan = [s EXCEPT !.left = @ \ {r}, !.runs = runs]]
    /\ UNCHANGED <<run, index, untold, saves, fails>>

Dies(p) ==
    /\ fails < MaxFails /\ fails' = fails + 1
    /\ local[p] # NoLocal /\ local' = [local EXCEPT ![p] = NoLocal]
    /\ untold' = untold \cup {Pair(w) : w \in Due(local[p]) \cup local[p].waiting}
    /\ UNCHANGED <<run, index, saves>>

Next == \E p \in Process :
    \/ Create(p) \/ Save(p) \/ TakeOver(p) \/ Refreshes(p) \/ TriesAgain(p)
    \/ Turn(p) \/ Scans(p) \/ Dies(p)
Spec == Init /\ [][Next]_vars

-----------------------------------------------------------------------------
\* docs/operations.md:45, "a non-authoritative owner projection": still, of the runs it was
\* told of it lists those of the session and no others, and in the order of their saves,
\* although a save whose status was written already leaves it alone.
Told(o, r) == <<o, r>> \notin untold /\ \A p \in Process : \A w \in Due(local[p]) : Pair(w) # <<o, r>>
Known(o, r) == run[r].owner = o /\ Told(o, r)
IndexTrue == \A o \in Session :
    /\ \A e \in index[o].runs : Told(o, e.run) => run[e.run].owner = o
    /\ \A r \in Run : Known(o, r) => r \in Listed(o)
    /\ \A e, f \in index[o].runs : Known(o, e.run) /\ Known(o, f.run) =>
          (Newer(e, f) <=> Newer(run[e.run], run[f.run]))
\* "The scan result is reused while nothing that could change it has changed" (store.ts:3026):
\* cached candidates that a turn would use have every incomplete run that the index was told
\* of, in the order of their saves.
CandidatesTrue == \A p \in Process, o \in Session :
    (local[p].found[o] # None /\ local[p].found[o].stamp = index[o].stamp) =>
        LET found == local[p].found[o].runs
            open == {r \in Run : run[r].active /\ Known(o, r)}
        IN  /\ \A r \in open : \E e \in found : e.run = r
            /\ \A e, f \in found : {e.run, f.run} \subseteq open =>
                  (Newer(e, f) <=> Newer(run[e.run], run[f.run]))
=============================================================================

------------------------------ MODULE LiveView ------------------------------
(***************************************************************************)
(* The terminal's views of saved runs: /alg-live with its controller of    *)
(* one selected run (src/tui-live.ts), and /alg-runs with its browser of   *)
(* attempts (src/tui-runs.ts).  Both read the run files through the host   *)
(* while calls save new revisions and the user moves between sessions.     *)
(*                                                                         *)
(* A run is its owner, whether it runs, and its newest attempt: a retry    *)
(* has a new child session.  A read takes the file at some moment and is   *)
(* answered later, or fails, or never ends.  What one view does to the     *)
(* screen is for the other what the user may do, so one of them is open.   *)
(***************************************************************************)
EXTENDS Naturals, FiniteSets

CONSTANTS Session, Run, None,
          Failed,      \* the answer of a read that failed
          Owner,       \* the parent session of each run
          Inline,      \* MAX_INLINE_ATTEMPTS_PER_NODE
          MaxAttempts, MaxOpens, MaxMoves   \* bounds; selections, and attempts being opened

VARIABLES
    route,   \* the session on the screen
    saved,   \* the run files
    index,   \* owners whose run index can be read
    known,   \* child sessions the host knows
    view,    \* the published state: owner, phase, run, what was read of it
    ctl,     \* generation, timedOut, the refresh timer, disposed
    op,      \* the one read in flight
    dialog,  \* owner of the live dialog
    browse,  \* /alg-runs: its dialog, the run it has read, the records it is reading
    torn,    \* records of attempts that are damaged on disk
    opened,  \* ghost: owner of the last selection
    moves

vars == <<route, saved, index, known, view, ctl, op, dialog, browse, torn, opened, moves>>

NoView == [owner |-> None, phase |-> "idle", run |-> None, seen |-> None]
NoOp == [what |-> "none", owner |-> None, run |-> None, gen |-> 0, sel |-> 0,
         waits |-> FALSE, value |-> None]
\* `bad`: attempts of which a record failed; `opening`: what the dialog reads, `left`: what an earlier one does.
NoBrowse == [pc |-> "closed", owner |-> None, seen |-> None, bad |-> {}, opening |-> {}, left |-> {}]
Child == Run \X (1..MaxAttempts)
Record == {"detail", "output"}

Init ==
    /\ route \in Session
    /\ saved = [r \in Run |-> [run |-> r, runs |-> TRUE, attempt |-> 1]]
    /\ index \in {{}, Session} /\ known = Child
    /\ view = NoView /\ op = NoOp /\ dialog = None
    /\ \E live \in BOOLEAN :   \* which of the two is open
          /\ ctl = [gen |-> 0, timedOut |-> FALSE, timer |-> FALSE, disposed |-> ~live]
          /\ browse = [NoBrowse EXCEPT !.pc = IF live THEN "none" ELSE "closed"]
          /\ torn \in {{}} \cup (IF live THEN {} ELSE {{x} : x \in Child \X Record})
    /\ opened = None /\ moves = 0

Busy == op.what # "none"
Read(what, owner, run, gen, sel) == op' =
    [NoOp EXCEPT !.what = what, !.owner = owner, !.run = run, !.gen = gen, !.sel = sel, !.waits = TRUE]
Publish(owner, phase, run, seen) == view' = [owner |-> owner, phase |-> phase, run |-> run, seen |-> seen]
\* The last saved state stays on the screen.
Unavailable(run) == Publish(view.owner, "unavailable", run, view.seen)
\* Mutant: only a disposed controller ignores a late answer.
StillOpen(owner, gen) == ~ctl.disposed
Current(owner, gen) == ~ctl.disposed /\ ctl.gen = gen /\ view.owner = owner

-----------------------------------------------------------------------------
(* LiveRunController.                                                      *)

\* openAlgLive and selectOwner: a session that is selected already is not selected again; a
\* read that is still in flight, of whatever session, leaves the new one unavailable.
Select ==
    /\ ~ctl.disposed /\ view.owner # route /\ ctl.gen < MaxOpens /\ opened' = route
    /\ ctl' = [ctl EXCEPT !.gen = @ + 1, !.timedOut = FALSE, !.timer = FALSE]
    /\ \/ ~Busy /\ Publish(route, "loading", None, None) /\ Read("discover", route, None, ctl'.gen, 0)
       \/ Busy /\ Publish(route, "unavailable", None, None) /\ UNCHANGED op
    /\ UNCHANGED <<route, saved, index, known, dialog, browse, torn, moves>>
ShowDialog ==
    /\ view.owner = route /\ view.phase # "loading" /\ dialog # route /\ dialog' = route
    /\ UNCHANGED <<route, saved, index, known, view, ctl, op, browse, torn, opened, moves>>

\* The file is taken: an index names runs of its owner, the search for progress files any run,
\* and a run of another owner is not read.
Found(owner) == {None} \cup (IF owner \in index THEN {r \in Run : Owner[r] = owner} ELSE Run)
NotRead(r) == [run |-> r, runs |-> FALSE, attempt |-> 0]
Takes ==
    /\ Busy /\ op.value = None
    /\ \E v \in {Failed} \cup (IF op.what = "discover" THEN {NotRead(r) : r \in Found(op.owner)}
                               ELSE IF Owner[op.run] = op.owner THEN {saved[op.run]} ELSE {}) :
          op' = [op EXCEPT !.value = v]
    /\ UNCHANGED <<route, saved, index, known, view, ctl, dialog, browse, torn, opened, moves>>

Settles(what) == Busy /\ op.value # None /\ op.what = what
Awaited == op.waits /\ Current(op.owner, op.gen)
Ignored ==
    /\ Busy /\ op.value # None /\ ~Awaited /\ op' = NoOp
    /\ UNCHANGED <<route, saved, index, known, view, ctl, dialog, browse, torn, opened, moves>>
Discovered ==
    /\ Settles("discover") /\ Awaited
    /\ \/ op.value = Failed /\ op' = NoOp /\ Publish(op.owner, "unavailable", None, None)
       \/ op.value = NotRead(None) /\ op' = NoOp /\ Publish(op.owner, "saved", None, None)
       \/ /\ op.value \in {NotRead(r) : r \in Run} /\ UNCHANGED view
          /\ Read("read", op.owner, op.value.run, op.gen, 0)
    /\ UNCHANGED <<route, saved, index, known, ctl, dialog, browse, torn, opened, moves>>
Refreshed ==
    /\ Settles("read") /\ Awaited /\ op' = NoOp
    /\ IF op.value = Failed
       THEN Publish(op.owner, "unavailable", op.run, view.seen) /\ UNCHANGED ctl
       ELSE /\ Publish(op.owner, "saved", op.run, op.value)
            /\ ctl' = [ctl EXCEPT !.timer = op.value.runs /\ ~ctl.timedOut]
    /\ UNCHANGED <<route, saved, index, known, dialog, browse, torn, opened, moves>>
TimerFires ==
    /\ ctl.timer /\ ctl' = [ctl EXCEPT !.timer = FALSE]
    /\ \/ Busy /\ Unavailable(view.run) /\ UNCHANGED op
       \/ ~Busy /\ Read("read", view.owner, view.run, ctl.gen, 0) /\ UNCHANGED view
    /\ UNCHANGED <<route, saved, index, known, dialog, browse, torn, opened, moves>>
\* The caller of a read waits five seconds; the read itself stays in flight.
TimesOut ==
    /\ Busy /\ op.waits /\ op' = [op EXCEPT !.waits = FALSE]
    /\ ctl' = [ctl EXCEPT !.timedOut = @ \/ op.gen = ctl.gen]
    /\ IF op.what = "nav" \/ ~Awaited THEN UNCHANGED view
       ELSE IF op.what = "read" THEN Unavailable(op.run)
       ELSE Publish(op.owner, "unavailable", None, None)
    /\ UNCHANGED <<route, saved, index, known, dialog, browse, torn, opened, moves>>
Dispose ==
    /\ ~ctl.disposed /\ view' = NoView
    /\ ctl' = [ctl EXCEPT !.disposed = TRUE, !.gen = @ + 1, !.timer = FALSE]
    /\ UNCHANGED <<route, saved, index, known, op, dialog, browse, torn, opened, moves>>

\* navigateToSavedChild: the attempt on the screen is looked up in the file again.
Enter ==
    /\ dialog = view.owner /\ view.seen # None /\ route = dialog /\ ~Busy
    /\ Read("nav", view.owner, view.run, ctl.gen, view.seen.attempt)
    /\ UNCHANGED <<route, saved, index, known, view, ctl, dialog, browse, torn, opened, moves>>
Confirms == op.value # Failed /\ op.value.attempt = op.sel /\ <<op.run, op.sel>> \in known
Navigates ==
    /\ Settles("nav") /\ Awaited /\ op' = NoOp
    /\ route' = IF route = op.owner /\ Confirms THEN <<op.run, op.sel>> ELSE route
    /\ UNCHANGED <<saved, index, known, view, ctl, dialog, browse, torn, opened, moves>>

-----------------------------------------------------------------------------
(* openAlgRuns.                                                            *)

\* The runs are read, one is chosen, its archived attempts are read, an attempt is chosen, and
\* what that refers to is read before the terminal goes there.  Meanwhile the dialog can be used.
Browse(b) == browse' = b /\ UNCHANGED <<saved, index, known, view, ctl, op, dialog, torn, opened, moves>>
\* What a dialog was reading goes on when it is gone.
Gone(b) == [NoBrowse EXCEPT !.left = b.left \cup b.opening]
OpenRuns == /\ browse.pc = "closed" /\ UNCHANGED route
            /\ Browse([browse EXCEPT !.pc = "reading", !.owner = route])
RunsRead ==
    /\ browse.pc = "reading" /\ UNCHANGED route
    /\ \/ Browse(Gone(browse))
       \/ \E r \in Found(browse.owner) \ {None} :
             /\ Owner[r] = browse.owner
             /\ Browse([browse EXCEPT !.pc = "nodes", !.seen = saved[r]])
\* Leaves the dialog.
Escape == browse.pc \in {"nodes", "attempts"} /\ UNCHANGED route /\ Browse(Gone(browse))

ShowVisible == /\ browse.pc = "nodes" /\ browse.seen.attempt <= Inline /\ UNCHANGED route
               /\ Browse([browse EXCEPT !.pc = "attempts"])
ShowArchived == /\ browse.pc = "nodes" /\ browse.seen.attempt > Inline /\ UNCHANGED route
                /\ Browse([browse EXCEPT !.pc = "archive"])
\* An archive that cannot be read, or does not fit, leaves the nodes on the screen.
ArchiveRead == /\ browse.pc = "archive" /\ UNCHANGED route
               /\ \E shows \in {"nodes", "attempts"} : Browse([browse EXCEPT !.pc = shows])

\* An attempt that had ended when the run was read refers to its records.
Refers(n) == n < browse.seen.attempt \/ ~browse.seen.runs
\* What is on the screen is closed; what is still to come on it is not.
Navigate(b, c) ==
    /\ route' = c
    /\ Browse(IF b.pc \in {"nodes", "attempts"} THEN Gone(b) ELSE b)
Choose ==
    /\ browse.pc = "attempts" /\ Cardinality(browse.opening \cup browse.left) < MaxOpens
    /\ \E n \in 1..browse.seen.attempt :
          IF Refers(n)
          THEN /\ Browse([browse EXCEPT !.opening = @ \cup {<<<<browse.seen.run, n>>, "detail">>}])
               /\ UNCHANGED route
          ELSE Navigate(browse, <<browse.seen.run, n>>)
\* A record that does not fit its reference, or cannot be read, fails, and does so for as long as
\* the dialog lives.
RecordFails ==
    /\ UNCHANGED route
    /\ \/ \E o \in browse.opening : Browse([browse EXCEPT !.opening = @ \ {o}, !.bad = @ \cup {o[1]}])
       \/ \E o \in browse.left : Browse([browse EXCEPT !.left = @ \ {o}])
Whole(o) == o \notin torn /\ (o \in browse.opening => o[1] \notin browse.bad)
DetailRead ==
    /\ UNCHANGED route
    /\ \E o \in browse.opening \cup browse.left :
          /\ o[2] = "detail" /\ Whole(o)
          /\ LET next(set) == IF o \in set THEN (set \ {o}) \cup {<<o[1], "output">>} ELSE set IN
             Browse([browse EXCEPT !.opening = next(@), !.left = next(@)])
OpenAttempt ==
    \E o \in browse.opening \cup browse.left :
        /\ o[2] = "output" /\ Whole(o)
        /\ Navigate([browse EXCEPT !.opening = @ \ {o}, !.left = @ \ {o}], o[1])

-----------------------------------------------------------------------------
(* Around them.                                                            *)

Save(r) ==
    /\ \/ saved[r].attempt < MaxAttempts /\ saved' = [saved EXCEPT ![r].attempt = @ + 1, ![r].runs = TRUE]
       \/ saved[r].runs /\ saved' = [saved EXCEPT ![r].runs = FALSE]
    /\ UNCHANGED <<route, index, known, view, ctl, op, dialog, browse, torn, opened, moves>>
\* The user goes elsewhere, or the host forgets a child, which /alg-live alone asks about.
Move ==
    /\ moves < MaxMoves /\ moves' = moves + 1
    /\ \/ route' \in Session \cup known /\ UNCHANGED known
       \/ \E k \in known : ~ctl.disposed /\ known' = known \ {k} /\ UNCHANGED route
    /\ UNCHANGED <<saved, index, view, ctl, op, dialog, browse, torn, opened>>

Controller == \/ Select \/ ShowDialog \/ Takes \/ Ignored \/ Discovered \/ Refreshed \/ TimerFires
              \/ TimesOut \/ Dispose \/ Enter \/ Navigates
Next == \/ Controller
        \/ OpenRuns \/ RunsRead \/ Escape \/ ShowVisible \/ ShowArchived \/ ArchiveRead
        \/ Choose \/ RecordFails \/ DetailRead \/ OpenAttempt
        \/ Move \/ \E r \in Run : Save(r)
Spec == Init /\ [][Next]_vars

-----------------------------------------------------------------------------
\* docs/live-run-visibility.md:97, "late responses cannot replace another parent's display":
\* whatever was selected and read since, what is shown is of the session that was selected last.
DisplayIsOwners ==
    /\ view.owner \in {opened, None}
    /\ view.seen # None => Owner[view.seen.run] = view.owner
\* A view that shows a running run as saved looks again, unless a read has timed out.
Refreshes ==
    view.phase = "saved" /\ view.seen # None /\ view.seen.runs =>
        \/ ctl.timer \/ ctl.timedOut
        \/ op.what = "read" /\ op.waits /\ op.gen = ctl.gen
\* docs/live-run-visibility.md:94, "Missing, mismatched, stale, or corrupt records never
\* authorize navigation": the terminal goes to an attempt that a run of the session recorded,
\* and from /alg-live only while that session is on the screen and still selected, and only to
\* the attempt that was chosen; from /alg-runs to no attempt whose records are damaged, unless
\* it had none when the run was read.
NavigationTrue == route' # route /\ moves' = moves =>
    /\ route'[2] <= saved[route'[1]].attempt
    /\ op.what # op'.what =>
          route = op.owner /\ view.owner = op.owner /\ Owner[route'[1]] = route /\ route' = <<op.run, op.sel>>
    /\ op.what = op'.what =>
          /\ browse.left = {} => Owner[route'[1]] = browse.owner
          /\ \/ \A k \in Record : <<route', k>> \notin torn
             \/ browse.seen.runs /\ route' = <<browse.seen.run, browse.seen.attempt>>
=============================================================================
